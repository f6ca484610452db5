---------------------------- MODULE MemoryProofs ----------------------------
(***************************************************************************)
(* EscapesRecorded and AccessesExact for every set of programs,            *)
(* assignments and callees: a local block whose address left the function  *)
(* is in mem.esc, and an access touches the one block its pointer points   *)
(* to.                                                                     *)
(*                                                                         *)
(* Two facts make the first one inductive.  A pointer to a local block     *)
(* that is in a register is either the address its allocation gave, which  *)
(* escape_helper can see, or points to a block that has escaped already.   *)
(* A pointer to a local block that is in memory always points to one that  *)
(* has escaped.  Both hold on the path that is taken; while the other path *)
(* is executed they hold of the memory that was put aside and of the       *)
(* registers that were defined before the branch.                          *)
(*                                                                         *)
(* The second one needs them for loaded pointers, and a third fact: what   *)
(* the code knows of a leaf (where it comes from, the blocks that          *)
(* ptr_alias keeps for its key) is true of the block it points to.         *)
(***************************************************************************)
EXTENDS Memory, FiniteSetTheorems, TLAPS

-----------------------------------------------------------------------------
(* The shape of the state. *)

IsSeq(s) == s = [i \in 1 .. Len(s) |-> s[i]] /\ Len(s) \in Nat

(* The blocks that can be read: all but the null block. *)
ReadBlocks == { blk \in AllBlocks : blk # <<FALSE, 0>> }

(* What a memory and its pointers are relative to: the blocks that the     *)
(* callees of the source returned, with their keys, and the number of      *)
(* locals that were allocated.                                             *)
Known == [rets |-> { <<10 + c.id, BlockOf(c.out.ret)>> : c \in calls }, n |-> nextl]

(* No pointer leads to the block of calls. *)
PtrOk(p) == PtrTyped(p) /\ (~p.local => p.bid <= max_program_nonlocal_bid)

(* A leaf points to what the code knows of where it comes from. *)
OriginOk(K, lf) ==
  /\ lf.org \in {"init", "input"} => ~lf.p.local
  /\ lf.org = "input" => lf.id = 1 /\ lf.p.bid <= NumGlobals + 1
  /\ lf.org = "fnret" => <<lf.id, BlockOf(lf.p)>> \in K.rets
  /\ lf.org \notin {"input", "fnret"} => lf.id = 0

LeafOk(K, lf) == DOMAIN lf = {"org", "id", "p"} /\ PtrOk(lf.p) /\ OriginOk(K, lf)

ByteOk(K, b) ==
  b.ptr => /\ DOMAIN b = {"ptr", "p", "pnp", "i", "sh"}
           /\ PtrOk(b.p)
           /\ \A lf \in b.sh : LeafOk(K, lf)

(* ptr_alias: the input and what callees return point to blocks of their sets. *)
AliasOk(K, f) ==
  /\ 0 \notin DOMAIN f /\ 1 \in DOMAIN f
  /\ f[1] = {FALSE} \X (0 .. NumGlobals + 1)
  /\ \A k \in DOMAIN f : k = 1 \/ \E x \in K.rets : x[1] = k
  /\ \A x \in K.rets : x[1] \in DOMAIN f => x[2] \in f[x[1]]

MemOk(K, m) ==
  /\ DOMAIN m = {"val", "type", "live", "lblk", "esc", "alias", "stored", "ranges", "nextnl"}
  /\ DOMAIN m.val = AllBlocks
  /\ DOMAIN m.lblk \subseteq Local /\ (\A i \in DOMAIN m.lblk : i < K.n)
  /\ m.nextnl \in Nat /\ AliasOk(K, m.alias)
  /\ \A blk \in ReadBlocks, o \in Offsets : ByteOk(K, m.val[blk][o])

RegOk(K, reg) ==
  /\ DOMAIN reg = {"leaves", "cur", "np"}
  /\ LeafOk(K, reg.cur)
  /\ \A lf \in reg.leaves : LeafOk(K, lf)

(* No leaf that a register may evaluate to was dropped. *)
CurIsLeaf(reg) == reg.np => reg.cur \in reg.leaves

RefTyped(r) == DOMAIN r = {"val", "live", "lblk", "given", "lost", "trace"}

(* Contents that no local block is reachable from. *)
OutsideByte(b) ==
  /\ ByteTyped(b)
  /\ b.ptr => /\ ~b.p.local /\ b.p.bid <= max_program_nonlocal_bid
              /\ OwnShape("init", b) \/ OwnShape("callmem", b)

BlockOk(block) == \A o \in Offsets : OutsideByte(block[o])

AsgOk == /\ PtrTyped(asg.input) /\ ~asg.input.local /\ asg.input.bid <= NumGlobals + 1
         /\ \A b \in Nonlocal \ {0} : BlockOk(asg.val[b])

OutOk(out) ==
  /\ PtrOk(out.ret)
  /\ \A b \in Writable : BlockOk(out.val[b])

(* The calls of the source are numbered. *)
CallsOk ==
  /\ IsFiniteSet(calls)
  /\ \A c \in calls : c.id \in 1 .. Cardinality(calls) /\ OutOk(c.out)

-----------------------------------------------------------------------------
(* Escaped blocks. *)

(* A pointer to a local block that is not poison is one to a block of E. *)
ByteSafe(E, b) == b.ptr /\ b.pnp /\ b.p.log /\ b.p.local => b.p.bid \in E

MemSafe(m) == \A blk \in ReadBlocks, o \in Offsets : ByteSafe(m.esc, m.val[blk][o])

(* The same of a register, or escape_helper sees the block: n locals exist. *)
RegSafe(E, n, reg) ==
  reg.np /\ reg.cur.p.log /\ reg.cur.p.local =>
    \/ reg.cur.p.bid \in E
    \/ reg.cur \in reg.leaves /\ reg.cur.org = "const" /\ reg.cur.p.bid \in 0 .. n - 1

(* A memory, and how many registers, of the path that is taken. *)
PathSafe(m, k) ==
  /\ MemSafe(m)
  /\ ref.given \subseteq m.esc
  /\ \A i \in 1 .. k : RegSafe(m.esc, nextl, regs[i])

BranchOk ==
  /\ DOMAIN br = {"on", "cond", "ph", "saved", "n"}
  /\ br.cond \in BOOLEAN /\ br.ph \in {1, 2}
  /\ br.n \in 0 .. Len(regs)
  /\ MemOk(Known, br.saved)
  /\ ~Active => PathSafe(br.saved, br.n)

IInv ==
  /\ AsgOk
  /\ nextl \in Nat
  /\ todo \in Seq(Ops) /\ later \in Seq(Ops)
  /\ MemOk(Known, mem) /\ RefTyped(ref)
  /\ IsSeq(regs) /\ \A i \in 1 .. Len(regs) : RegOk(Known, regs[i]) /\ CurIsLeaf(regs[i])
  /\ CallsOk
  /\ Active => PathSafe(mem, Len(regs))
  /\ br.on \in BOOLEAN /\ (br.on => BranchOk)

-----------------------------------------------------------------------------
(* Sequences. *)

\* A register more.
LEMMA AppendOne ==
  ASSUME NEW s, IsSeq(s), NEW x
  PROVE  /\ IsSeq(s \o <<x>>) /\ Len(s \o <<x>>) = Len(s) + 1
         /\ (s \o <<x>>)[Len(s) + 1] = x
         /\ \A i \in 1 .. Len(s) : (s \o <<x>>)[i] = s[i]
<1> DEFINE S == {s[i] : i \in 1 .. Len(s)} \cup {x}
<1>1. s \in Seq(S)
  BY DEF IsSeq
<1>2. <<x>> \in Seq(S)
  OBVIOUS
<1> HIDE DEF S
<1>3. QED
  BY <1>1, <1>2 DEF IsSeq

\* The registers that were there when the branch began.
LEMMA Prefix ==
  ASSUME NEW s, IsSeq(s), NEW n \in 0 .. Len(s)
  PROVE  /\ IsSeq(SubSeq(s, 1, n)) /\ Len(SubSeq(s, 1, n)) = n
         /\ \A i \in 1 .. n : SubSeq(s, 1, n)[i] = s[i]
<1> DEFINE S == {s[i] : i \in 1 .. Len(s)}
<1>1. s \in Seq(S)
  BY DEF IsSeq
<1> HIDE DEF S
<1>2. QED
  BY <1>1 DEF IsSeq

\* An instruction without a result.
LEMMA AppendNone == ASSUME NEW s, IsSeq(s) PROVE s \o << >> = s
<1> DEFINE S == {s[i] : i \in 1 .. Len(s)}
<1>1. s \in Seq(S)
  BY DEF IsSeq
<1> HIDE DEF S
<1>2. QED
  BY <1>1 DEF IsSeq

\* What is left of a program.
LEMMA HeadTail ==
  ASSUME NEW S, NEW s \in Seq(S), s # << >>
  PROVE  Head(s) \in S /\ Tail(s) \in Seq(S)
  OBVIOUS

-----------------------------------------------------------------------------
(* Pointers and bytes. *)

\* Pointer constructors.
LEMMA PtrMade ==
  ASSUME NEW local \in BOOLEAN, NEW bid \in Nat, NEW off, NEW attrs,
         ~local => bid <= max_program_nonlocal_bid
  PROVE  /\ PtrOk(Logical(local, bid, off, attrs))
         /\ Logical(local, bid, off, attrs).local = local
         /\ Logical(local, bid, off, attrs).bid = bid
<1> DEFINE x == Trunc(off, bits_for_offset)
           t == TRUE
           z == 0
           p == Logical(local, bid, off, attrs)
<1>1. p = [log |-> t, local |-> local, bid |-> bid, off |-> x, addr |-> z, attrs |-> attrs]
  BY DEF Logical
<1> HIDE DEF x, t, z, p
<1>2. DOMAIN p = {"log", "local", "bid", "off", "addr", "attrs"} /\ p.local = local /\ p.bid = bid
  BY <1>1
<1>3. PtrOk(p)
  BY <1>2 DEF PtrOk, PtrTyped
<1>4. QED
  BY <1>2, <1>3 DEF p

\* The null block is one of the program.
LEMMA NullBid == 0 \in Nat /\ 0 <= max_program_nonlocal_bid /\ max_program_nonlocal_bid \in Nat
  BY MemoryAssumption DEF max_program_nonlocal_bid

LEMMA PhysMade ==
  ASSUME NEW addr, NEW attrs
  PROVE  PtrOk(mkPhysical(addr, attrs)) /\ ~mkPhysical(addr, attrs).log
<1> DEFINE x == Trunc(addr, bits_ptr_address)
           f == FALSE
           z == 0
           p == mkPhysical(addr, attrs)
<1>1. p = [log |-> f, local |-> f, bid |-> z, off |-> z, addr |-> x, attrs |-> attrs]
  BY DEF mkPhysical
<1>2. z \in Nat /\ z <= max_program_nonlocal_bid /\ ~f /\ f \in BOOLEAN
  BY NullBid
<1> HIDE DEF x, f, z, p
<1>3. DOMAIN p = {"log", "local", "bid", "off", "addr", "attrs"} /\ p.local = f /\ p.bid = z /\ p.log = f
  BY <1>1
<1>4. PtrOk(p) /\ ~p.log
  BY <1>2, <1>3 DEF PtrOk, PtrTyped
<1>5. QED
  BY <1>4 DEF p

\* Pointer arithmetic stays in the block.
SameBlock(p, q) == PtrOk(q) /\ q.log = p.log /\ q.local = p.local /\ q.bid = p.bid

LEMMA PlusSame ==
  ASSUME NEW p, PtrOk(p), NEW n PROVE SameBlock(p, Plus(p, n))
<1> DEFINE x == Trunc(p.off + n, bits_for_offset)
           y == Trunc(p.addr + n, bits_ptr_address)
<1>1. Plus(p, n) = IF p.log THEN [p EXCEPT !.off = x] ELSE [p EXCEPT !.addr = y]
  BY DEF Plus
<1> HIDE DEF x, y
<1>2. QED
  BY <1>1 DEF PtrOk, PtrTyped, SameBlock

LEMMA MaskSame ==
  ASSUME NEW base, NEW p, PtrOk(p), NEW mask PROVE SameBlock(p, maskOffset(base, p, mask))
<1> DEFINE x == Trunc(And(getLogAddress(base, p), mask, bits_ptr_address)
                        - base[BlockOf(p)], bits_for_offset)
           y == And(p.addr, mask, bits_ptr_address)
<1>1. maskOffset(base, p, mask) = IF p.log THEN [p EXCEPT !.off = x] ELSE [p EXCEPT !.addr = y]
  BY DEF maskOffset
<1> HIDE DEF x, y
<1>2. QED
  BY <1>1 DEF PtrOk, PtrTyped, SameBlock

\* A leaf with another pointer.
LEMMA LeafMoved ==
  ASSUME NEW K, NEW lf, LeafOk(K, lf), NEW q, SameBlock(lf.p, q)
  PROVE  /\ LeafOk(K, [lf EXCEPT !.p = q])
         /\ [lf EXCEPT !.p = q].p = q
         /\ [lf EXCEPT !.p = q].org = lf.org
<1> DEFINE x == [lf EXCEPT !.p = q]
<1>1. DOMAIN x = DOMAIN lf /\ x.p = q /\ x.org = lf.org /\ x.id = lf.id
  BY DEF LeafOk
<1> HIDE DEF x
<1>2. BlockOf(q) = BlockOf(lf.p)
  BY DEF SameBlock, BlockOf
<1>3. OriginOk(K, x)
  BY <1>1, <1>2 DEF LeafOk, OriginOk, SameBlock
<1>4. LeafOk(K, x)
  BY <1>1, <1>3 DEF LeafOk, SameBlock
<1>5. QED
  BY <1>1, <1>4 DEF x

\* Leaf constructors.
LEMMA LeafMade ==
  ASSUME NEW K, NEW org, NEW id, NEW p, PtrOk(p), OriginOk(K, Leaf(org, id, p))
  PROVE  /\ LeafOk(K, Leaf(org, id, p))
         /\ Leaf(org, id, p).p = p
         /\ Leaf(org, id, p).org = org
  BY DEF LeafOk, Leaf

\* A leaf of which nothing but its pointer is known.
LEMMA PlainOrigin ==
  ASSUME NEW K, NEW org, org \notin {"init", "input", "fnret"}, NEW id, id = 0, NEW p
  PROVE  OriginOk(K, Leaf(org, id, p))
  BY DEF OriginOk, Leaf

\* Register constructors.
LEMMA RegMade ==
  ASSUME NEW K, NEW leaves, NEW cur, NEW np, LeafOk(K, cur), \A lf \in leaves : LeafOk(K, lf)
  PROVE  /\ RegOk(K, Reg(leaves, cur, np))
         /\ Reg(leaves, cur, np).cur = cur
         /\ Reg(leaves, cur, np).leaves = leaves
         /\ Reg(leaves, cur, np).np = np
  BY DEF RegOk, Reg

\* The bytes of a poison or integer value.
LEMMA IntByteOk ==
  ASSUME NEW K, NEW E, NEW v, NEW np, NEW nb, NEW bn
  PROVE  /\ ByteOk(K, IntByte(v, np, nb, bn)) /\ ByteSafe(E, IntByte(v, np, nb, bn))
         /\ ~IntByte(v, np, nb, bn).ptr
         /\ ByteOk(K, mkPoisonByte) /\ ByteSafe(E, mkPoisonByte)
  BY DEF ByteOk, ByteSafe, IntByte, mkPoisonByte

\* The bytes of a pointer.
LEMMA PtrByteOk ==
  ASSUME NEW K, NEW p, NEW np, NEW i, NEW sh, PtrOk(p), \A lf \in sh : LeafOk(K, lf)
  PROVE  /\ ByteOk(K, PtrByte(p, np, i, sh))
         /\ PtrByte(p, np, i, sh).ptr
         /\ PtrByte(p, np, i, sh).p = p
         /\ PtrByte(p, np, i, sh).pnp = np
         /\ PtrByte(p, np, i, sh).sh = sh
  BY DEF ByteOk, PtrByte

\* if-then-else of two bytes.
LEMMA IfByteOk ==
  ASSUME NEW K, NEW c, NEW b1, NEW b2, ByteOk(K, b1), ByteOk(K, b2)
  PROVE  /\ ByteOk(K, IfByte(c, b1, b2))
         /\ \A E : (IF c THEN ByteSafe(E, b1) ELSE ByteSafe(E, b2)) => ByteSafe(E, IfByte(c, b1, b2))
<1> DEFINE b == IF c THEN b1 ELSE b2
           S == ShapeOf(b1) \cup ShapeOf(b2)
<1>1. IfByte(c, b1, b2) = IF b.ptr THEN [b EXCEPT !.sh = S] ELSE b
  BY DEF IfByte
<1>2. ByteOk(K, b)
  OBVIOUS
<1>3. \A lf \in S : LeafOk(K, lf)
  BY DEF ShapeOf, ByteOk
<1>4. \A E : (IF c THEN ByteSafe(E, b1) ELSE ByteSafe(E, b2)) => ByteSafe(E, b)
  OBVIOUS
<1> HIDE DEF b, S
<1>5. CASE b.ptr
  <2> DEFINE q == [b EXCEPT !.sh = S]
  <2>1. DOMAIN q = DOMAIN b /\ q.sh = S /\ q.p = b.p /\ q.pnp = b.pnp /\ q.ptr = b.ptr
    BY <1>2, <1>5 DEF ByteOk
  <2> HIDE DEF q
  <2>2. ByteOk(K, q)
    BY <2>1, <1>2, <1>3, <1>5 DEF ByteOk
  <2>3. \A E : ByteSafe(E, b) => ByteSafe(E, q)
    BY <2>1 DEF ByteSafe
  <2>4. QED
    BY <1>1, <1>4, <1>5, <2>2, <2>3 DEF q
<1>6. CASE ~b.ptr
  BY <1>1, <1>2, <1>4, <1>6
<1>7. QED
  BY <1>5, <1>6

\* A byte of initial memory or of a callee.
LEMMA OutsideByteOk ==
  ASSUME NEW K, NEW b, OutsideByte(b)
  PROVE  ByteOk(K, b) /\ \A E : ByteSafe(E, b)
<1>1. CASE ~b.ptr
  BY <1>1 DEF ByteOk, ByteSafe
<1>2. CASE b.ptr
  <2> DEFINE p == b.p
  <2>1. /\ DOMAIN b = {"ptr", "p", "pnp", "i", "sh"} /\ PtrTyped(p)
        /\ ~p.local /\ p.bid <= max_program_nonlocal_bid
    BY <1>2 DEF OutsideByte, ByteTyped
  <2>2. PtrOk(p)
    BY <2>1 DEF PtrOk
  <2>3. PICK org \in {"init", "callmem"} : b.sh = {Leaf(org, 0, p)}
    BY <1>2 DEF OutsideByte, OwnShape
  <2> HIDE DEF p
  <2>4. OriginOk(K, Leaf(org, 0, p))
    BY <2>1, <2>3 DEF OriginOk, Leaf
  <2> DEFINE z == 0
  <2>5. OriginOk(K, Leaf(org, z, p)) /\ b.sh = {Leaf(org, z, p)}
    BY <2>3, <2>4
  <2> HIDE DEF z
  <2>6. LeafOk(K, Leaf(org, z, p))
    BY <2>2, <2>5, LeafMade
  <2>7. \A lf \in b.sh : LeafOk(K, lf)
    BY <2>5, <2>6
  <2>8. ByteOk(K, b)
    BY <2>1, <2>2, <2>7 DEF ByteOk, p
  <2>9. QED
    BY <2>1, <2>8 DEF ByteSafe, p
<1>3. QED
  BY <1>1, <1>2

-----------------------------------------------------------------------------
(* More locals and more calls. *)

\* K2 knows more than K, and nothing of the calls that m knows.
Grows(K, K2) == K.rets \subseteq K2.rets /\ K.n \in Nat /\ K2.n \in Nat /\ K.n <= K2.n

NewTo(K, K2, m) == \A x \in K2.rets \ K.rets : x[1] \notin DOMAIN m.alias

LEMMA LeafGrows ==
  ASSUME NEW K, NEW K2, K.rets \subseteq K2.rets, NEW lf, LeafOk(K, lf) PROVE LeafOk(K2, lf)
  BY DEF LeafOk, OriginOk

LEMMA ByteGrows ==
  ASSUME NEW K, NEW K2, K.rets \subseteq K2.rets, NEW b, ByteOk(K, b) PROVE ByteOk(K2, b)
  BY LeafGrows DEF ByteOk

LEMMA RegGrows ==
  ASSUME NEW K, NEW K2, K.rets \subseteq K2.rets, NEW reg, RegOk(K, reg) PROVE RegOk(K2, reg)
  BY LeafGrows DEF RegOk

LEMMA MemGrows ==
  ASSUME NEW K, NEW K2, Grows(K, K2), NEW m, NewTo(K, K2, m), MemOk(K, m) PROVE MemOk(K2, m)
<1>1. \A blk \in ReadBlocks, o \in Offsets : ByteOk(K2, m.val[blk][o])
  BY ByteGrows DEF MemOk, Grows
<1>2. AliasOk(K2, m.alias)
  <2>1. AliasOk(K, m.alias)
    BY DEF MemOk
  <2>2. \A k \in DOMAIN m.alias : k = 1 \/ \E x \in K2.rets : x[1] = k
    BY <2>1 DEF AliasOk, Grows
  <2>3. \A x \in K2.rets : x[1] \in DOMAIN m.alias => x[2] \in m.alias[x[1]]
    BY <2>1 DEF AliasOk, NewTo
  <2>4. QED
    BY <2>1, <2>2, <2>3 DEF AliasOk
<1>3. \A i \in DOMAIN m.lblk : i \in Nat /\ i < K2.n
  BY MemoryAssumption DEF MemOk, Grows, Local
<1>4. QED
  BY <1>1, <1>2, <1>3 DEF MemOk

-----------------------------------------------------------------------------
(* Reading memory. *)

\* A pair is made of its two parts.
LEMMA PairParts ==
  ASSUME NEW S, NEW R, NEW x \in S \X R
  PROVE  x[1] \in S /\ x[2] \in R /\ x = <<x[1], x[2]>>
  OBVIOUS

\* The name of a block: local or not, and its number.
LEMMA BlockParts ==
  ASSUME NEW blk \in AllBlocks
  PROVE  /\ blk[1] \in BOOLEAN /\ blk = <<blk[1], blk[2]>>
         /\ blk[1] => blk[2] \in Local
         /\ ~blk[1] => blk[2] \in Nonlocal
<1> DEFINE T == {TRUE}
           F == {FALSE}
<1>1. blk \in F \X Nonlocal \/ blk \in T \X Local
  BY DEF AllBlocks
<1> HIDE DEF T, F
<1>2. CASE blk \in F \X Nonlocal
  <2>1. blk[1] \in F /\ blk[2] \in Nonlocal /\ blk = <<blk[1], blk[2]>>
    BY <1>2, PairParts
  <2>2. blk[1] = FALSE
    BY <2>1 DEF F
  <2>3. QED
    BY <2>1, <2>2, Zenon
<1>3. CASE blk \in T \X Local
  <2>1. blk[1] \in T /\ blk[2] \in Local /\ blk = <<blk[1], blk[2]>>
    BY <1>3, PairParts
  <2>2. blk[1] = TRUE
    BY <2>1 DEF T
  <2>3. QED
    BY <2>1, <2>2, Zenon
<1>4. QED
  BY <1>1, <1>2, <1>3

\* A pair that names a block that can be read.
LEMMA BlockNamed ==
  ASSUME NEW l \in BOOLEAN, NEW b, l => b \in Local, ~l => b \in Nonlocal /\ b # 0
  PROVE  <<l, b>> \in ReadBlocks
<1>1. CASE l = TRUE
  <2>1. b \in Local
    BY <1>1
  <2>2. <<TRUE, b>> \in AllBlocks
    BY <2>1 DEF AllBlocks
  <2>3. <<TRUE, b>> # <<FALSE, 0>>
    OBVIOUS
  <2>4. <<TRUE, b>> \in ReadBlocks
    BY <2>2, <2>3 DEF ReadBlocks
  <2>5. QED
    BY <1>1, <2>4, Zenon
<1>2. CASE l = FALSE
  <2>1. b \in Nonlocal /\ b # 0
    BY <1>2
  <2>2. <<FALSE, b>> \in AllBlocks
    BY <2>1 DEF AllBlocks
  <2>3. <<FALSE, b>> # <<FALSE, 0>>
    BY <2>1
  <2>4. <<FALSE, b>> \in ReadBlocks
    BY <2>2, <2>3 DEF ReadBlocks
  <2>5. QED
    BY <1>2, <2>4, Zenon
<1>3. QED
  BY <1>1, <1>2

\* What a leaf may point to is the name of a block.
LEMMA LeafBlockPair ==
  ASSUME NEW K, NEW m, NEW lf, LeafOk(K, lf), NEW blk \in LeafBlocks(m, lf)
  PROVE  \E x \in BOOLEAN : \E y : blk = <<x, y>>
<1>1. CASE lf.org = "const"
  <2>1. blk = <<lf.p.local, lf.p.bid>>
    BY <1>1 DEF LeafBlocks, BlockOf
  <2>2. lf.p.local \in BOOLEAN
    BY DEF LeafOk, PtrOk, PtrTyped
  <2>3. QED
    BY <2>1, <2>2, Zenon
<1>2. CASE lf.org # "const"
  <2>1. blk \in AllBlocks
    BY <1>2 DEF LeafBlocks
  <2>2. blk[1] \in BOOLEAN /\ blk = <<blk[1], blk[2]>>
    BY <2>1, BlockParts
  <2>3. QED
    BY <2>2, Zenon
<1>3. QED
  BY <1>1, <1>2

\* Only blocks of the program are read, never the null block.
LEMMA AliasRead ==
  ASSUME NEW K, NEW m, MemOk(K, m), NEW reg, \A lf \in reg.leaves : LeafOk(K, lf), NEW n
  PROVE  computeAliasing(m, reg, n, FALSE) \subseteq ReadBlocks
<1> SUFFICES ASSUME NEW lf \in reg.leaves, NEW blk \in LeafBlocks(m, lf), mayalias(m, blk, n, FALSE)
             PROVE  blk \in ReadBlocks
  BY DEF computeAliasing
<1>1. \E x \in BOOLEAN : \E y : blk = <<x, y>>
  BY LeafBlockPair
<1>2a. PICK x \in BOOLEAN : \E y : blk = <<x, y>>
  BY <1>1
<1>2. PICK y : blk = <<x, y>>
  BY <1>2a
<1>3. blk[1] = x /\ blk[2] = y
  BY <1>2
<1>4. x => y \in Local
  BY <1>3 DEF mayalias, MemOk
<1>5. ~x => y \in Nonlocal /\ y # 0
  BY <1>3 DEF mayalias, always_noread
<1>6. <<x, y>> \in ReadBlocks
  BY <1>4, <1>5, BlockNamed
<1>7. QED
  BY <1>2, <1>6, Zenon

\* A byte that is read is one of the memory or poison.
LEMMA ByteAtOk ==
  ASSUME NEW K, NEW m, MemOk(K, m), NEW blk \in ReadBlocks, NEW off
  PROVE  /\ ByteOk(K, ByteAt(m.val, blk, off))
         /\ MemSafe(m) => ByteSafe(m.esc, ByteAt(m.val, blk, off))
  BY IntByteOk DEF ByteAt, MemOk, MemSafe

\* What a load gives: bytes of the memory and the leaves that were stored.
LoadOk(K, m, l, n) ==
  /\ DOMAIN l.bytes = 0 .. n - 1
  /\ \A i \in 0 .. n - 1 : ByteOk(K, l.bytes[i])
  /\ MemSafe(m) => \A i \in 0 .. n - 1 : ByteSafe(m.esc, l.bytes[i])
  /\ \A lf \in l.shape : LeafOk(K, lf)

LEMMA LoadGives ==
  ASSUME NEW K, NEW m, MemOk(K, m), NEW reg, \A lf \in reg.leaves : LeafOk(K, lf), NEW n
  PROVE  LoadOk(K, m, load(m, reg, n), n)
<1> DEFINE A   == computeAliasing(m, reg, n, FALSE)
           off == Signed(reg.cur.p.off, bits_for_offset)
           hit == { blk \in A : AccessCond(A, reg.cur.p, blk) }
           start(blk) == IF FullAccess(m, blk, n) THEN 0 ELSE off
           val(i) == IF hit = {} THEN mkPoisonByte
                     ELSE LET blk == CHOOSE b \in hit : TRUE
                          IN  ByteAt(m.val, blk, start(blk) + i)
           shape == UNION { ShapeOf(ByteAt(m.val, blk, start(blk))) : blk \in A }
           bytes == [i \in 0 .. n - 1 |-> val(i)]
<1>1. A \subseteq ReadBlocks
  BY AliasRead
<1>2. load(m, reg, n) = [bytes |-> bytes, type |-> UNION { m.type[blk] : blk \in A }, shape |-> shape]
  BY DEF load
<1>3. load(m, reg, n).bytes = bytes /\ load(m, reg, n).shape = shape
  BY <1>2
<1>4. hit \subseteq A
  OBVIOUS
<1> HIDE DEF A, hit, start
<1>5. \A i : ByteOk(K, val(i)) /\ (MemSafe(m) => ByteSafe(m.esc, val(i)))
  <2> TAKE i
  <2>1. CASE hit = {}
    BY <2>1, IntByteOk
  <2>2. CASE hit # {}
    <3> DEFINE b == CHOOSE x \in hit : TRUE
    <3>1. b \in ReadBlocks
      BY <2>2, <1>1, <1>4
    <3>2. val(i) = ByteAt(m.val, b, start(b) + i)
      BY <2>2
    <3> HIDE DEF b, val
    <3>3. QED
      BY <3>1, <3>2, ByteAtOk
  <2>3. QED
    BY <2>1, <2>2
<1>6. \A lf \in shape : LeafOk(K, lf)
  <2> SUFFICES ASSUME NEW blk \in A, NEW lf \in ShapeOf(ByteAt(m.val, blk, start(blk)))
               PROVE  LeafOk(K, lf)
    OBVIOUS
  <2>1. ByteOk(K, ByteAt(m.val, blk, start(blk)))
    BY <1>1, ByteAtOk
  <2>2. QED
    BY <2>1 DEF ShapeOf, ByteOk
<1> HIDE DEF val, shape
<1>7. QED
  BY <1>3, <1>5, <1>6 DEF LoadOk

\* The pointer that bytes make: if it is not poison its first byte is none.
LEMMA LoadedPtr ==
  ASSUME NEW K, NEW base, NEW bs, NEW ts, DOMAIN bs = 0 .. ptr_bytes - 1,
         \A i \in 0 .. ptr_bytes - 1 : ByteOk(K, bs[i])
  PROVE  LET v == PtrOfBytes(base, bs, ts)
         IN  /\ PtrOk(v.v)
             /\ \A E : v.np /\ v.v.local /\ v.v.log /\ (\A i \in 0 .. ptr_bytes - 1 : ByteSafe(E, bs[i]))
                         => v.v.bid \in E
<1> DEFINE n   == Cardinality(DOMAIN bs)
           all == \A i \in DOMAIN bs : isPtr(bs[i], ts[i])
           cast[i \in 0 .. n] ==
             IF i = 0 THEN 0
             ELSE cast[i - 1] + forceCastToInt(base, bs[i - 1], ts[i - 1]) * 2 ^ ((i - 1) * bits_byte)
           nul == Logical(FALSE, 0, cast[n], {})
           v   == PtrOfBytes(base, bs, ts)
           ok  == \A i \in DOMAIN bs : ~isPoison(bs[i], ts[i])
           eq  == all => \A i \in DOMAIN bs : bs[i].i = i /\ bs[i].p = bs[0].p
<1>1. v = [v |-> IF all THEN bs[0].p ELSE nul, np |-> ok /\ eq]
  BY DEF PtrOfBytes
<1>2. PtrOk(nul) /\ nul.local = FALSE
  <2> DEFINE f == FALSE
             z == 0
             e == {}
             o == cast[n]
  <2>1. f \in BOOLEAN /\ z \in Nat /\ z <= max_program_nonlocal_bid /\ nul = Logical(f, z, o, e)
    BY NullBid
  <2> HIDE DEF f, z, e, o, nul
  <2>2. PtrOk(nul) /\ nul.local = f
    BY <2>1, PtrMade
  <2>3. QED
    BY <2>2 DEF f
<1>3. 0 \in DOMAIN bs
  BY BytesAssumption
<1>4. all => bs[0].ptr /\ "ptr" \in ts[0]
  BY <1>3 DEF isPtr
<1>5. all /\ ok => bs[0].pnp
  <2> SUFFICES ASSUME all, ok, ~bs[0].pnp PROVE FALSE
    OBVIOUS
  <2>1. bs[0].ptr /\ "ptr" \in ts[0]
    BY <1>4
  <2>2. ~isPoison(bs[0], ts[0])
    BY <1>3
  <2>3. ts[0] # {} /\ ts[0] # {"int"}
    BY <2>1
  <2>4. nonPoison(bs[0], ts[0]) = IF bs[0].ptr THEN (IF bs[0].pnp THEN Ones(bits_byte) ELSE 0) ELSE bs[0].np
    BY <2>3 DEF nonPoison
  <2>5. nonPoison(bs[0], ts[0]) = 0
    BY <2>1, <2>4
  <2>6. QED
    BY <2>2, <2>5, BytesAssumption DEF isPoison
<1> DEFINE np == ok /\ eq
           q  == IF all THEN bs[0].p ELSE nul
<1>a. np => ok
  OBVIOUS
<1>b. v = [v |-> q, np |-> np]
  BY <1>1
<1> HIDE DEF nul, ok, eq, np, q
<1>c. v.v = q /\ v.np = np
  BY <1>b
<1>6. v.v = (IF all THEN bs[0].p ELSE nul) /\ (v.np => ok)
  BY <1>a, <1>c DEF q
<1> HIDE DEF v
<1>7. PtrOk(v.v)
  BY <1>2, <1>3, <1>4, <1>6 DEF ByteOk
<1>8. ASSUME NEW E, v.np, v.v.local, v.v.log, \A i \in 0 .. ptr_bytes - 1 : ByteSafe(E, bs[i])
      PROVE  v.v.bid \in E
  <2>1. all /\ ok
    BY <1>6, <1>2, <1>8
  <2>2. ByteSafe(E, bs[0])
    BY <1>3, <1>8
  <2> HIDE DEF all
  <2>3. QED
    BY <2>1, <2>2, <1>4, <1>5, <1>6, <1>8 DEF ByteSafe
<1>9. QED
  BY <1>7, <1>8 DEF v

-----------------------------------------------------------------------------
(* Writing memory. *)

\* What is safe stays safe when more blocks have escaped.
LEMMA ByteSafeGrows ==
  ASSUME NEW K, NEW E, NEW F, E \subseteq F, NEW b, ByteSafe(E, b) PROVE ByteSafe(F, b)
  BY DEF ByteSafe

\* The bytes to write, by offset.
NewOk(K, new)   == \A o \in Offsets : ByteOk(K, new[o])
NewSafe(E, new) == \A o \in Offsets : ByteSafe(E, new[o])

\* Block contents that a write to the blocks of A leaves, at the offsets at.
WrittenTo(v, m, A, p, new, at) ==
  v = [blk \in AllBlocks |->
         IF blk \notin A THEN m.val[blk]
         ELSE [o \in Offsets |->
                 IF o \notin at[blk] THEN m.val[blk][o]
                 ELSE IF Cardinality(A) = 1 THEN new[o]
                 ELSE IfByte(AccessCond(A, p, blk), new[o], m.val[blk][o])]]

ContentsOk(K, v) == /\ DOMAIN v = AllBlocks
                    /\ \A blk \in ReadBlocks, o \in Offsets : ByteOk(K, v[blk][o])
ContentsSafe(E, v) == \A blk \in ReadBlocks, o \in Offsets : ByteSafe(E, v[blk][o])

\* A write leaves bytes of the memory, new bytes, and if-then-elses of both.
LEMMA WriteOk ==
  ASSUME NEW K, NEW m, MemOk(K, m), NEW A, NEW p, NEW new, NewOk(K, new), NEW at,
         NEW v, WrittenTo(v, m, A, p, new, at)
  PROVE  /\ ContentsOk(K, v)
         /\ \A E : m.esc \subseteq E /\ MemSafe(m) /\ NewSafe(E, new) => ContentsSafe(E, v)
<1>1. DOMAIN v = AllBlocks
  BY DEF WrittenTo
<1>2. ASSUME NEW blk \in ReadBlocks, NEW o \in Offsets
      PROVE  /\ ByteOk(K, v[blk][o])
             /\ \A E : m.esc \subseteq E /\ MemSafe(m) /\ NewSafe(E, new) => ByteSafe(E, v[blk][o])
  <2> DEFINE old == m.val[blk][o]
             c   == AccessCond(A, p, blk)
  <2>1. blk \in AllBlocks
    BY DEF ReadBlocks
  <2>2. v[blk][o] = old \/ v[blk][o] = new[o] \/ v[blk][o] = IfByte(c, new[o], old)
    BY <2>1 DEF WrittenTo
  <2>3. ByteOk(K, old) /\ ByteOk(K, new[o])
    BY DEF MemOk, NewOk
  <2>4. \A E : m.esc \subseteq E /\ MemSafe(m) => ByteSafe(E, old)
    BY ByteSafeGrows DEF MemSafe
  <2>5. \A E : NewSafe(E, new) => ByteSafe(E, new[o])
    BY DEF NewSafe
  <2> HIDE DEF old, c
  <2>6. /\ ByteOk(K, IfByte(c, new[o], old))
        /\ \A E : ByteSafe(E, new[o]) /\ ByteSafe(E, old) => ByteSafe(E, IfByte(c, new[o], old))
    BY <2>3, IfByteOk
  <2>7. QED
    BY <2>2, <2>3, <2>4, <2>5, <2>6
<1>3. QED
  BY <1>1, <1>2 DEF ContentsOk, ContentsSafe

\* A memory whose contents, types and stored offsets are replaced.
PutInto(q, m, v, t, s) == q = [m EXCEPT !.val = v, !.type = t, !.stored = s]

LEMMA MemPut ==
  ASSUME NEW K, NEW m, MemOk(K, m), NEW v, NEW t, NEW s, ContentsOk(K, v),
         NEW q, PutInto(q, m, v, t, s)
  PROVE  /\ MemOk(K, q) /\ q.val = v /\ q.esc = m.esc
         /\ ContentsSafe(m.esc, v) => MemSafe(q)
<1>1. MemOk(K, q) /\ q.val = v /\ q.esc = m.esc
  BY DEF MemOk, ContentsOk, PutInto
<1>2. QED
  BY <1>1 DEF MemSafe, ContentsSafe

\* From m0 to m nothing that had escaped is forgotten.
MemStep(K, m0, m) == MemOk(K, m) /\ m0.esc \subseteq m.esc

\* More locals escape.
LEMMA MemEscape ==
  ASSUME NEW K, NEW m, MemOk(K, m), NEW X
  PROVE  LET q == [m EXCEPT !.esc = @ \cup X]
         IN  /\ MemStep(K, m, q) /\ q.val = m.val /\ q.esc = m.esc \cup X
             /\ MemSafe(m) => MemSafe(q)
<1> DEFINE q == [m EXCEPT !.esc = m.esc \cup X]
<1>1. MemOk(K, q) /\ q.val = m.val /\ q.esc = m.esc \cup X
  BY DEF MemOk
<1> HIDE DEF q
<1>2. MemSafe(m) => MemSafe(q)
  BY <1>1, ByteSafeGrows DEF MemSafe
<1>3. QED
  BY <1>1, <1>2 DEF q, MemStep

\* Bytes by index, as store gets them.
DataOk(K, data) == /\ DOMAIN data # {} => 0 \in DOMAIN data
                   /\ \A i \in DOMAIN data : ByteOk(K, data[i])
DataSafe(E, data) == \A i \in DOMAIN data : ByteSafe(E, data[i])

\* The store of bytes.
LEMMA StoreOk ==
  ASSUME NEW K, NEW m0, MemOk(K, m0), NEW reg, NEW data, DataOk(K, data), NEW orig
  PROVE  LET q == store(m0, reg, data, orig)
         IN  /\ MemStep(K, m0, q)
             /\ DOMAIN data # {} => q.esc = Escaped(m0, data).esc
             /\ MemSafe(m0) /\ DataSafe(q.esc, data) => MemSafe(q)
<1>1. CASE DOMAIN data = {}
  <2>1. store(m0, reg, data, orig) = m0
    BY <1>1 DEF store
  <2>2. QED
    BY <1>1, <2>1 DEF MemStep
<1>2. CASE DOMAIN data # {}
  <2> DEFINE m    == Escaped(m0, data)
             n    == Cardinality(DOMAIN data)
             A    == computeAliasing(m, reg, n, TRUE)
             p    == reg.cur.p
             off  == Signed(p.off, bits_for_offset)
             new  == [o \in Offsets |-> IF o - off \in DOMAIN data THEN data[o - off] ELSE data[0]]
             at(blk) == IF FullAccess(m, blk, n) THEN Offsets ELSE { o \in Offsets : o - off \in DOMAIN data }
             tyfull  == data_type(data, TRUE) \cap orig
             ty      == data_type(data, FALSE) \cap orig
             v    == WriteBlocks(m, A, p, new, at)
             t    == [blk \in AllBlocks |->
                            IF blk \notin A THEN m.type[blk]
                            ELSE IF ~FullAccess(m, blk, n) THEN m.type[blk] \cup ty
                            ELSE IF Cardinality(A) = 1 THEN tyfull ELSE m.type[blk] \cup tyfull]
             s    == [b \in Nonlocal |->
                              IF <<FALSE, b>> \in A
                              THEN record_stored_pointer(m.stored[b], { off + i : i \in DOMAIN data }) ELSE m.stored[b]]
             q    == store(m0, reg, data, orig)
  <2>1. PutInto(q, m, v, t, s)
    BY <1>2 DEF store, PutInto
  <2>2. MemStep(K, m0, m) /\ (MemSafe(m0) => MemSafe(m))
    BY MemEscape DEF Escaped
  <2> HIDE DEF m, t, s, q
  <2>3. NewOk(K, new) /\ \A E : DataSafe(E, data) => NewSafe(E, new)
    BY <1>2 DEF DataOk, DataSafe, NewOk, NewSafe
  <2> DEFINE AT == [blk \in AllBlocks |-> at(blk)]
  <2>4. WrittenTo(v, m, A, p, new, AT)
    BY DEF WriteBlocks, WrittenTo
  <2> HIDE DEF v, new, AT, A, p
  <2>m. MemOk(K, m)
    BY <2>2 DEF MemStep
  <2>5. /\ ContentsOk(K, v)
        /\ \A E : m.esc \subseteq E /\ MemSafe(m) /\ NewSafe(E, new) => ContentsSafe(E, v)
    BY <2>m, <2>3, <2>4, WriteOk, Zenon
  <2>6. /\ MemOk(K, q) /\ q.val = v /\ q.esc = m.esc
        /\ ContentsSafe(m.esc, v) => MemSafe(q)
    BY <2>1, <2>m, <2>5, MemPut, Zenon
  <2>7. MemSafe(m0) /\ DataSafe(q.esc, data) => MemSafe(q)
    BY <2>2, <2>3, <2>5, <2>6
  <2>8. MemStep(K, m0, q)
    BY <2>2, <2>6 DEF MemStep
  <2>9. QED
    BY <2>6, <2>7, <2>8 DEF q, m
<1>3. QED
  BY <1>1, <1>2

\* The store of a byte for each offset.
LEMMA StoreLambdaOk ==
  ASSUME NEW K, NEW m, MemOk(K, m), NEW reg, NEW n, NEW val, NewOk(K, val), NEW type
  PROVE  LET q == storeLambda(m, reg, n, val, type)
         IN  /\ MemOk(K, q) /\ q.esc = m.esc
             /\ MemSafe(m) /\ NewSafe(m.esc, val) => MemSafe(q)
<1> DEFINE A   == computeAliasing(m, reg, n, TRUE)
           p   == reg.cur.p
           off == Signed(p.off, bits_for_offset)
           at(blk) == IF FullAccess(m, blk, n) THEN Offsets ELSE { o \in Offsets : o >= off /\ o < off + n }
           v   == WriteBlocks(m, A, p, val, at)
           t   == [blk \in AllBlocks |->
                     IF blk \notin A THEN m.type[blk]
                     ELSE IF FullAccess(m, blk, n) /\ Cardinality(A) = 1 THEN type
                     ELSE m.type[blk] \cup type]
           s   == [b \in Nonlocal |->
                     IF <<FALSE, b>> \in A THEN [offs |-> {}, all |-> TRUE] ELSE m.stored[b]]
           q   == storeLambda(m, reg, n, val, type)
           AT  == [blk \in AllBlocks |-> at(blk)]
<1>1. PutInto(q, m, v, t, s)
  BY DEF storeLambda, PutInto
<1>2. WrittenTo(v, m, A, p, val, AT)
  BY DEF WriteBlocks, WrittenTo
<1> HIDE DEF v, AT, A, p, q, t, s
<1>3. /\ ContentsOk(K, v)
      /\ \A E : m.esc \subseteq E /\ MemSafe(m) /\ NewSafe(E, val) => ContentsSafe(E, v)
  BY <1>2, WriteOk, Zenon
<1>4. /\ MemOk(K, q) /\ q.val = v /\ q.esc = m.esc
      /\ ContentsSafe(m.esc, v) => MemSafe(q)
  BY <1>1, <1>3, MemPut, Zenon
<1>5. QED
  BY <1>3, <1>4 DEF q

\* The bytes of an integer.
LEMMA IntBytes ==
  ASSUME NEW val, NEW ty, ty # PtrTy, NEW sh, NEW pad, NEW sub
  PROVE  LET d == valueToBytes(val, ty, sh, pad, sub)
         IN  /\ DOMAIN d = 0 .. getStoreByteSize(ty) - 1
             /\ \A i \in DOMAIN d : ~d[i].ptr
<1> DEFINE n     == getStoreByteSize(ty)
           full  == val.v + (IF n * bits_byte > ty THEN pad * 2 ^ ty ELSE 0)
           np    == (IF val.np THEN Ones(ty) ELSE 0)
                      + (IF n * bits_byte > ty THEN pad * 2 ^ ty ELSE 0)
           At(x, i) == Trunc(x \div 2 ^ (i * bits_byte), bits_byte)
           B(i) == IntByte(At(full, i), At(np, i), IF sub THEN SubBits(ty) ELSE 0,
                           IF sub THEN i ELSE 0)
<1>1. valueToBytes(val, ty, sh, pad, sub) = [i \in 0 .. n - 1 |-> B(i)]
  BY DEF valueToBytes
<1>2. \A i : ~B(i).ptr
  BY IntByteOk
<1> HIDE DEF B, n
<1>3. QED
  BY <1>1, <1>2 DEF n

\* A byte that holds no pointer.
LEMMA NoPtrOk ==
  ASSUME NEW K, NEW b, ~b.ptr PROVE ByteOk(K, b) /\ \A E : ByteSafe(E, b)
  BY DEF ByteOk, ByteSafe

\* The bytes of a pointer.
LEMMA PtrBytes ==
  ASSUME NEW K, NEW p, NEW np, PtrOk(p), NEW sh, \A lf \in sh : LeafOk(K, lf), NEW pad, NEW sub
  PROVE  LET d == valueToBytes([v |-> p, np |-> np], PtrTy, sh, pad, sub)
         IN  /\ DOMAIN d = 0 .. ptr_bytes - 1 /\ DataOk(K, d) /\ DOMAIN d # {}
             /\ \A i \in DOMAIN d : d[i].ptr /\ d[i].p = p /\ d[i].pnp = np /\ d[i].sh = sh
<1> DEFINE d == valueToBytes([v |-> p, np |-> np], PtrTy, sh, pad, sub)
<1>1. d = [i \in 0 .. getStoreByteSize(PtrTy) - 1 |->
             PtrByte([v |-> p, np |-> np].v, [v |-> p, np |-> np].np, i, sh)]
  BY DEF valueToBytes
<1>2. [v |-> p, np |-> np].v = p /\ [v |-> p, np |-> np].np = np
  OBVIOUS
<1>3. getStoreByteSize(PtrTy) = ptr_bytes
  BY DEF getStoreByteSize
<1>4. d = [i \in 0 .. ptr_bytes - 1 |-> PtrByte(p, np, i, sh)]
  BY <1>1, <1>2, <1>3, Zenon
<1> HIDE DEF d
<1>5. 0 \in 0 .. ptr_bytes - 1
  BY BytesAssumption
<1>6. DOMAIN d = 0 .. ptr_bytes - 1
  BY <1>4
<1>7. \A i \in 0 .. ptr_bytes - 1 : /\ ByteOk(K, d[i])
                                    /\ d[i].ptr /\ d[i].p = p /\ d[i].pnp = np /\ d[i].sh = sh
  <2> TAKE i \in 0 .. ptr_bytes - 1
  <2>1. d[i] = PtrByte(p, np, i, sh)
    BY <1>4
  <2> DEFINE b == PtrByte(p, np, i, sh)
  <2>2. ByteOk(K, b) /\ b.ptr /\ b.p = p /\ b.pnp = np /\ b.sh = sh
    BY PtrByteOk
  <2>3. d[i] = b
    BY <2>1
  <2> HIDE DEF b
  <2>4. QED
    BY <2>2, <2>3, Zenon
<1>8. QED
  BY <1>5, <1>6, <1>7 DEF DataOk, d

\* memset.
LEMMA MemsetOk ==
  ASSUME NEW K, NEW m, MemOk(K, m), NEW reg, NEW val, NEW n \in Nat
  PROVE  LET q == memset(m, reg, val, n)
         IN  MemStep(K, m, q) /\ (MemSafe(m) => MemSafe(q))
<1> DEFINE byte == valueToBytes(val, bits_byte, {}, 0, asg.sub)[0]
           data == [i \in 0 .. n - 1 |-> byte]
           all  == [o \in Offsets |-> byte]
           ty   == data_type([i \in {0} |-> byte], FALSE)
           q    == memset(m, reg, val, n)
<1>1. ~byte.ptr
  <2>1. bits_byte # PtrTy
    BY BytesAssumption DEF PtrTy
  <2>2. getStoreByteSize(bits_byte) = (bits_byte + bits_byte - 1) \div bits_byte
    BY <2>1 DEF getStoreByteSize
  <2>3. getStoreByteSize(bits_byte) >= 1 /\ getStoreByteSize(bits_byte) \in Nat
    BY <2>2, BytesAssumption
  <2>4. 0 \in 0 .. getStoreByteSize(bits_byte) - 1
    BY <2>3
  <2> DEFINE d == valueToBytes(val, bits_byte, {}, 0, asg.sub)
  <2>5. /\ DOMAIN d = 0 .. getStoreByteSize(bits_byte) - 1
        /\ \A i \in DOMAIN d : ~d[i].ptr
    BY <2>1, IntBytes, Zenon
  <2> HIDE DEF d
  <2>6. ~d[0].ptr
    BY <2>4, <2>5
  <2>7. QED
    BY <2>6 DEF d
<1>2. ByteOk(K, byte) /\ \A E : ByteSafe(E, byte)
  BY <1>1, NoPtrOk
<1>3. q = IF n <= MaxInline THEN store(m, reg, data, AnyTy) ELSE storeLambda(m, reg, n, all, ty)
  BY DEF memset
<1> HIDE DEF byte, q, ty
<1>4. DataOk(K, data) /\ \A E : DataSafe(E, data)
  BY <1>2 DEF DataOk, DataSafe
<1>5. NewOk(K, all) /\ NewSafe(m.esc, all)
  BY <1>2 DEF NewOk, NewSafe
<1> HIDE DEF data, all
<1>6. CASE n <= MaxInline
  <2>1. q = store(m, reg, data, AnyTy)
    BY <1>3, <1>6
  <2>2. QED
    BY <2>1, <1>4, StoreOk DEF q
<1>7. CASE ~(n <= MaxInline)
  <2>1. q = storeLambda(m, reg, n, all, ty)
    BY <1>3, <1>7
  <2>2. QED
    BY <2>1, <1>5, StoreLambdaOk DEF q, MemStep
<1>8. QED
  BY <1>6, <1>7

\* memcpy and memmove.
LEMMA MemcpyOk ==
  ASSUME NEW K, NEW m, MemOk(K, m), NEW dst, NEW src, RegOk(K, src), NEW n \in Nat
  PROVE  LET q == memcpy(m, dst, src, n)
         IN  MemStep(K, m, q) /\ (MemSafe(m) => MemSafe(q))
<1> DEFINE l     == load(m, src, n)
           delta == Signed(src.cur.p.off, bits_for_offset) - Signed(dst.cur.p.off, bits_for_offset)
           sreg(o) == [src EXCEPT !.cur.p.off = Trunc(o + delta, bits_for_offset)]
           at(o) == load(m, sreg(o), 1)
           all   == [o \in Offsets |-> at(o).bytes[0]]
           q     == memcpy(m, dst, src, n)
           ty    == at(0).type
<1>1. q = IF dst = src THEN m
          ELSE IF n <= MaxInline THEN store(m, dst, l.bytes, l.type)
          ELSE storeLambda(m, dst, n, all, ty)
  BY DEF memcpy
<1>2. \A lf \in src.leaves : LeafOk(K, lf)
  BY DEF RegOk
<1>3. LoadOk(K, m, l, n)
  BY <1>2, LoadGives
<1>4. \A o : sreg(o).leaves = src.leaves
  BY DEF RegOk
<1> HIDE DEF sreg, l, q
<1>5. \A o : LoadOk(K, m, at(o), 1)
  BY <1>2, <1>4, LoadGives
<1> HIDE DEF at, ty
<1>6. NewOk(K, all) /\ (MemSafe(m) => NewSafe(m.esc, all))
  BY <1>5 DEF NewOk, NewSafe, LoadOk
<1>7. DataOk(K, l.bytes) /\ (MemSafe(m) => DataSafe(m.esc, l.bytes))
  BY <1>3 DEF DataOk, DataSafe, LoadOk
<1> HIDE DEF all
<1>8. CASE dst = src
  BY <1>1, <1>8 DEF MemStep, q
<1>9. CASE dst # src /\ n <= MaxInline
  <2>1. q = store(m, dst, l.bytes, l.type)
    BY <1>1, <1>9
  <2>2. MemStep(K, m, q) /\ (MemSafe(m) /\ DataSafe(q.esc, l.bytes) => MemSafe(q))
    BY <2>1, <1>7, StoreOk
  <2>3. MemSafe(m) => DataSafe(q.esc, l.bytes)
    BY <2>2, <1>7, ByteSafeGrows DEF DataSafe, MemStep
  <2>4. QED
    BY <2>2, <2>3 DEF q
<1>10. CASE dst # src /\ ~(n <= MaxInline)
  <2>1. q = storeLambda(m, dst, n, all, ty)
    BY <1>1, <1>10
  <2>2. QED
    BY <2>1, <1>6, StoreLambdaOk DEF q, MemStep
<1>11. QED
  BY <1>8, <1>9, <1>10

-----------------------------------------------------------------------------
(* Allocation, liveness and the copy of realloc. *)

\* A memory with the contents and the escaped blocks of another.
SameContents(K, m, q) == MemOk(K, q) /\ q.val = m.val /\ q.esc = m.esc

LEMMA SameContentsStep ==
  ASSUME NEW K, NEW m, NEW q, SameContents(K, m, q)
  PROVE  MemStep(K, m, q) /\ (MemSafe(m) => MemSafe(q))
  BY DEF SameContents, MemStep, MemSafe

LEMMA AllocOk ==
  ASSUME NEW K, NEW m, MemOk(K, m), NEW bid \in Local, bid < K.n, NEW size, NEW kind
  PROVE  SameContents(K, m, alloc(m, bid, size, kind))
<1> DEFINE x == [cur |-> TRUE, known |-> TRUE]
           l == [i \in DOMAIN m.lblk \cup {bid} |->
                   IF i = bid THEN [size |-> size, kind |-> kind] ELSE m.lblk[i]]
           q == alloc(m, bid, size, kind)
<1>1. q = [m EXCEPT !.live[<<TRUE, bid>>] = x, !.lblk = l]
  BY DEF alloc, MemOk
<1>2. DOMAIN l \subseteq Local /\ \A i \in DOMAIN l : i < K.n
  BY DEF MemOk
<1> HIDE DEF x, l, q
<1>3. /\ q.val = m.val /\ q.esc = m.esc /\ q.lblk = l /\ DOMAIN q = DOMAIN m
      /\ q.alias = m.alias /\ q.nextnl = m.nextnl
  BY <1>1 DEF MemOk
<1>4. MemOk(K, q)
  BY <1>2, <1>3 DEF MemOk
<1>5. QED
  BY <1>3, <1>4 DEF SameContents, q

LEMMA StoreBvOk ==
  ASSUME NEW K, NEW m, MemOk(K, m), NEW reg, NEW val, NEW cond, NEW known
  PROVE  SameContents(K, m, store_bv(m, reg, val, cond, known))
<1> DEFINE static == known /\ Cardinality(reg.leaves) = 1 /\ reg.cur.org = "const"
           x == [blk \in AllBlocks |->
                  [cur   |-> IF cond /\ blk = BlockOf(reg.cur.p) THEN val ELSE m.live[blk].cur,
                   known |-> m.live[blk].known /\ static]]
           q == store_bv(m, reg, val, cond, known)
<1>1. q = [m EXCEPT !.live = x]
  BY DEF store_bv
<1> HIDE DEF x, q
<1>2. /\ q.val = m.val /\ q.esc = m.esc /\ q.lblk = m.lblk /\ DOMAIN q = DOMAIN m
      /\ q.alias = m.alias /\ q.nextnl = m.nextnl
  BY <1>1 DEF MemOk
<1>3. MemOk(K, q)
  BY <1>2 DEF MemOk
<1>4. QED
  BY <1>2, <1>3 DEF SameContents, q

LEMMA FreeKeeps ==
  ASSUME NEW K, NEW m, MemOk(K, m), NEW reg, NEW known
  PROVE  /\ SameContents(K, m, free(m, reg, known))
         /\ SameContents(K, m, startLifetime(m, reg, known))
  BY StoreBvOk DEF free, startLifetime

\* The new block of realloc has bytes that were in memory.
LEMMA CopyOk ==
  ASSUME NEW K, NEW m, MemOk(K, m), NEW src, RegOk(K, src), NEW dst
  PROVE  LET q == copy(m, src, dst)
         IN  MemStep(K, m, q) /\ (MemSafe(m) => MemSafe(q))
<1> DEFINE B   == computeAliasing(m, src, 1, FALSE)
           A   == B \ {dst}
           hit == { blk \in A : AccessCond(B, src.cur.p, blk) }
           w   == IF hit = {} THEN [o \in Offsets |-> mkPoisonByte]
                  ELSE m.val[CHOOSE blk \in hit : TRUE]
           t   == UNION { m.type[blk] : blk \in A }
           q   == copy(m, src, dst)
<1>1. q = [m EXCEPT !.val[dst] = w, !.type[dst] = t]
  BY DEF copy
<1>2. B \subseteq ReadBlocks
  BY AliasRead DEF RegOk
<1>3. hit \subseteq B
  OBVIOUS
<1> HIDE DEF B, t
<1>4. \A o \in Offsets : ByteOk(K, w[o]) /\ (MemSafe(m) => ByteSafe(m.esc, w[o]))
  <2> TAKE o \in Offsets
  <2>1. CASE hit = {}
    BY <2>1, IntByteOk
  <2>2. CASE hit # {}
    <3> DEFINE b == CHOOSE x \in hit : TRUE
    <3>1. b \in ReadBlocks
      BY <2>2, <1>2, <1>3
    <3>2. w = m.val[b]
      BY <2>2
    <3> HIDE DEF b, w
    <3>3. QED
      BY <3>1, <3>2 DEF MemOk, MemSafe
  <2>3. QED
    BY <2>1, <2>2
<1> HIDE DEF w, q
<1>5. /\ DOMAIN q = DOMAIN m /\ q.esc = m.esc /\ q.lblk = m.lblk
      /\ q.alias = m.alias /\ q.nextnl = m.nextnl
      /\ q.val = [m.val EXCEPT ![dst] = w]
  BY <1>1 DEF MemOk
<1>6. DOMAIN q.val = AllBlocks /\ \A blk \in ReadBlocks : q.val[blk] = w \/ q.val[blk] = m.val[blk]
  BY <1>5 DEF MemOk, ReadBlocks
<1>7. MemOk(K, q)
  BY <1>4, <1>5, <1>6 DEF MemOk
<1>8. MemSafe(m) => MemSafe(q)
  BY <1>4, <1>5, <1>6 DEF MemSafe
<1>9. QED
  BY <1>5, <1>7, <1>8 DEF MemStep, q

-----------------------------------------------------------------------------
(* Two memories meet, and the initial one. *)

LEMMA IfMem ==
  ASSUME NEW K, NEW c, NEW then, NEW els, MemOk(K, then), MemOk(K, els)
  PROVE  LET q == mkIf(c, then, els)
         IN  /\ MemOk(K, q) /\ q.esc = then.esc \cup els.esc
             /\ c /\ MemSafe(then) => MemSafe(q)
             /\ ~c /\ MemSafe(els) => MemSafe(q)
<1> DEFINE q == mkIf(c, then, els)
           v == [blk \in AllBlocks |-> [o \in Offsets |-> IfByte(c, then.val[blk][o], els.val[blk][o])]]
           l == [i \in DOMAIN then.lblk \cup DOMAIN els.lblk |->
                   IF i \in DOMAIN then.lblk THEN then.lblk[i] ELSE els.lblk[i]]
           f == [k \in DOMAIN then.alias \cup DOMAIN els.alias |->
                   (IF k \in DOMAIN then.alias THEN then.alias[k] ELSE {})
                     \cup (IF k \in DOMAIN els.alias THEN els.alias[k] ELSE {})]
           x == IF then.nextnl > els.nextnl THEN then.nextnl ELSE els.nextnl
<1>1. /\ q.alias = f /\ q.nextnl = x
      /\ q.val = v /\ q.esc = then.esc \cup els.esc /\ q.lblk = l
      /\ DOMAIN q = {"val", "type", "live", "lblk", "esc", "alias", "stored", "ranges", "nextnl"}
  BY DEF mkIf
<1>2. ASSUME NEW blk \in ReadBlocks, NEW o \in Offsets
      PROVE  /\ ByteOk(K, v[blk][o])
             /\ c /\ MemSafe(then) => ByteSafe(then.esc, v[blk][o])
             /\ ~c /\ MemSafe(els) => ByteSafe(els.esc, v[blk][o])
  <2> DEFINE b1 == then.val[blk][o]
             b2 == els.val[blk][o]
  <2>1. v[blk][o] = IfByte(c, b1, b2)
    BY DEF ReadBlocks
  <2>2. ByteOk(K, b1) /\ ByteOk(K, b2)
    BY DEF MemOk
  <2>3. MemSafe(then) => ByteSafe(then.esc, b1)
    BY DEF MemSafe
  <2>4. MemSafe(els) => ByteSafe(els.esc, b2)
    BY DEF MemSafe
  <2> HIDE DEF b1, b2, v
  <2>5. /\ ByteOk(K, IfByte(c, b1, b2))
        /\ \A E : (IF c THEN ByteSafe(E, b1) ELSE ByteSafe(E, b2)) => ByteSafe(E, IfByte(c, b1, b2))
    BY <2>2, IfByteOk
  <2>6. QED
    BY <2>1, <2>3, <2>4, <2>5
<1>3. DOMAIN v = AllBlocks
  OBVIOUS
<1>4. DOMAIN l \subseteq Local /\ (\A i \in DOMAIN l : i < K.n) /\ x \in Nat
  BY DEF MemOk
<1>a. AliasOk(K, f)
  <2>1. AliasOk(K, then.alias) /\ AliasOk(K, els.alias)
    BY DEF MemOk
  <2>2. 0 \notin DOMAIN f /\ 1 \in DOMAIN f /\ f[1] = then.alias[1] \cup els.alias[1]
    BY <2>1 DEF AliasOk
  <2>3. f[1] = {FALSE} \X (0 .. NumGlobals + 1)
    <3> DEFINE S == {FALSE} \X (0 .. NumGlobals + 1)
    <3>1. then.alias[1] = S /\ els.alias[1] = S
      BY <2>1 DEF AliasOk
    <3> HIDE DEF S
    <3>2. f[1] = S
      BY <2>2, <3>1
    <3>3. QED
      BY <3>2 DEF S
  <2>4. \A k \in DOMAIN f : k = 1 \/ \E y \in K.rets : y[1] = k
    BY <2>1 DEF AliasOk
  <2>5. \A y \in K.rets : y[1] \in DOMAIN f => y[2] \in f[y[1]]
    BY <2>1 DEF AliasOk
  <2> HIDE DEF f
  <2>6. QED
    BY <2>2, <2>3, <2>4, <2>5 DEF AliasOk
<1> HIDE DEF q, v, l, f, x
<1>5. MemOk(K, q)
  BY <1>1, <1>2, <1>3, <1>4, <1>a DEF MemOk
<1>6. c /\ MemSafe(then) => MemSafe(q)
  <2> SUFFICES ASSUME c, MemSafe(then), NEW blk \in ReadBlocks, NEW o \in Offsets
               PROVE  ByteSafe(q.esc, v[blk][o])
    BY <1>1 DEF MemSafe
  <2>1. ByteSafe(then.esc, v[blk][o])
    BY <1>2
  <2>2. QED
    BY <2>1, <1>1, ByteSafeGrows
<1>7. ~c /\ MemSafe(els) => MemSafe(q)
  <2> SUFFICES ASSUME ~c, MemSafe(els), NEW blk \in ReadBlocks, NEW o \in Offsets
               PROVE  ByteSafe(q.esc, v[blk][o])
    BY <1>1 DEF MemSafe
  <2>1. ByteSafe(els.esc, v[blk][o])
    BY <1>2
  <2>2. QED
    BY <2>1, <1>1, ByteSafeGrows
<1>8. QED
  BY <1>1, <1>5, <1>6, <1>7 DEF q

\* No local block is reachable from the initial memory.
LEMMA NewMemoryOk ==
  ASSUME NEW K, AsgOk, NEW q, q.val = NewMemory(asg).val, q.esc = {}, DOMAIN q.lblk = {},
         DOMAIN q = {"val", "type", "live", "lblk", "esc", "alias", "stored", "ranges", "nextnl"},
         q.nextnl \in Nat, AliasOk(K, q.alias)
  PROVE  MemOk(K, q) /\ MemSafe(q)
<1> DEFINE v == [blk \in AllBlocks |-> IF blk[1] THEN PoisonBlock ELSE asg.val[blk[2]]]
<1>1. q.val = v
  BY DEF NewMemory
<1>2. ASSUME NEW blk \in ReadBlocks, NEW o \in Offsets
      PROVE  ByteOk(K, v[blk][o]) /\ \A E : ByteSafe(E, v[blk][o])
  <2>1. blk \in AllBlocks /\ blk # <<FALSE, 0>>
    BY DEF ReadBlocks
  <2>2. CASE blk[1]
    <3>1. v[blk] = PoisonBlock
      BY <2>1, <2>2
    <3>2. v[blk][o] = mkPoisonByte
      BY <3>1 DEF PoisonBlock
    <3>3. QED
      BY <3>2, IntByteOk, Zenon
  <2>3. CASE ~blk[1]
    <3>1. v[blk] = asg.val[blk[2]]
      BY <2>1, <2>3
    <3>2. blk[2] \in Nonlocal \ {0}
      BY <2>1, <2>3, BlockParts
    <3>3. BlockOk(asg.val[blk[2]])
      BY <3>2 DEF AsgOk
    <3> HIDE DEF v
    <3>4. OutsideByte(v[blk][o])
      BY <3>1, <3>3 DEF BlockOk
    <3>5. QED
      BY <3>4, OutsideByteOk
  <2>4. QED
    BY <2>2, <2>3
<1>3. DOMAIN v = AllBlocks
  OBVIOUS
<1> HIDE DEF v
<1>4. QED
  BY <1>1, <1>2, <1>3 DEF MemOk, MemSafe

-----------------------------------------------------------------------------
(* Escapes. *)

\* After escape_helper the block of a safe register has escaped.
LEMMA EscapeCovers ==
  ASSUME NEW K, nextl \in Nat, NEW m, NEW reg, RegOk(K, reg), RegSafe(m.esc, nextl, reg),
         reg.np, reg.cur.p.log, reg.cur.p.local
  PROVE  reg.cur.p.bid \in m.esc \cup MayEscape(m, reg)
<1>1. CASE reg.cur.p.bid \in m.esc
  BY <1>1
<1>2. CASE reg.cur.p.bid \notin m.esc
  <2> DEFINE lf  == reg.cur
             lfs == { l \in reg.leaves : l.p.log /\ ~isLocalFalse(m, l) }
  <2>1. lf \in reg.leaves /\ lf.org = "const" /\ lf.p.bid \in 0 .. nextl - 1
    BY <1>2 DEF RegSafe
  <2>2. ~isLocalFalse(m, lf)
    BY <2>1 DEF isLocalFalse
  <2>3. lf \in lfs
    BY <2>1, <2>2
  <2>4. lf.p.bid < nextl
    BY <2>1
  <2>5. QED
    BY <2>1, <2>3, <2>4 DEF MayEscape
<1>3. QED
  BY <1>1, <1>2

\* What the reference machine knows to be given away.
LEMMA GiveOk ==
  ASSUME NEW r, RefTyped(r), NEW reg
  PROVE  /\ RefTyped(Give(r, reg))
         /\ Give(r, reg).given = IF reg.np /\ reg.cur.p.log /\ reg.cur.p.local
                                 THEN r.given \cup {reg.cur.p.bid} ELSE r.given
  BY DEF Give, RefTyped

\* A pointer that escapes: escapeLocalPtr.
LEMMA EscapePtr ==
  ASSUME NEW K, NEW m, MemOk(K, m), NEW reg
  PROVE  LET q == escapeLocalPtr(m, reg)
         IN  /\ MemStep(K, m, q) /\ q.esc = m.esc \cup MayEscape(m, reg)
             /\ MemSafe(m) => MemSafe(q)
  BY MemEscape DEF escapeLocalPtr

LEMMA GiveEscapes ==
  ASSUME NEW K, nextl \in Nat, NEW m, MemOk(K, m), NEW r, RefTyped(r), NEW reg, RegOk(K, reg),
         RegSafe(m.esc, nextl, reg), r.given \subseteq m.esc
  PROVE  Give(r, reg).given \subseteq escapeLocalPtr(m, reg).esc
<1> DEFINE q == escapeLocalPtr(m, reg)
<1>1. q.esc = m.esc \cup MayEscape(m, reg)
  BY EscapePtr
<1>2. reg.np /\ reg.cur.p.log /\ reg.cur.p.local => reg.cur.p.bid \in q.esc
  BY <1>1, EscapeCovers
<1>3. r.given \subseteq q.esc
  BY <1>1
<1>4. Give(r, reg).given = IF reg.np /\ reg.cur.p.log /\ reg.cur.p.local
                           THEN r.given \cup {reg.cur.p.bid} ELSE r.given
  BY GiveOk
<1> HIDE DEF q
<1>5. Give(r, reg).given \subseteq q.esc
  BY <1>2, <1>3, <1>4
<1>6. QED
  BY <1>5 DEF q

-----------------------------------------------------------------------------
(* Registers. *)

\* A safe register stays one when more has escaped and more is allocated.
LEMMA RegSafeGrows ==
  ASSUME NEW E, NEW F, E \subseteq F, NEW n \in Nat, NEW k \in Nat, n <= k,
         NEW reg, RegSafe(E, n, reg)
  PROVE  RegSafe(F, k, reg)
  BY DEF RegSafe

\* The pointers left by isDereferenceable.
LEMMA DerefTyped ==
  ASSUME NEW K, NEW m, MemOk(K, m), NEW reg, RegOk(K, reg), NEW n, NEW write
  PROVE  RegOk(K, isDereferenceable(m, reg, n, write).reg)
<1> DEFINE logical(lf) == IF lf.p.log THEN lf ELSE Leaf("phys", 0, PhyPointer(m, lf.p, n))
           L == { logical(lf) : lf \in { l \in reg.leaves : ~(l.p.log /\ Infeasible(m, l, n)) } }
<1>1. isDereferenceable(m, reg, n, write).reg = Reg(L, logical(reg.cur), reg.np)
  BY DEF isDereferenceable
<1>2. ASSUME NEW lf, LeafOk(K, lf) PROVE LeafOk(K, logical(lf))
  <2>1. PtrOk(PhyPointer(m, lf.p, n))
    <3> DEFINE in == { blk \in PhyCandidates(m) :
                         isOfBlock(asg.base, blockSize(m, blk), lf.p.addr, blk, n) }
               blk == IF in = {} THEN <<FALSE, 0>> ELSE CHOOSE b \in in : TRUE
    <3>1. PhyPointer(m, lf.p, n) = Logical(blk[1], blk[2], lf.p.addr - asg.base[blk], {})
      BY DEF PhyPointer
    <3>2. in \subseteq PhyCandidates(m)
      OBVIOUS
    <3> HIDE DEF in
    <3>3. blk[1] \in BOOLEAN /\ blk[2] \in Nat /\ (~blk[1] => blk[2] <= max_program_nonlocal_bid)
      <4>1. <<FALSE, 0>> \in AllBlocks
        <5>1. 0 \in Nonlocal
          BY MemoryAssumption DEF Nonlocal
        <5>2. QED
          BY <5>1 DEF AllBlocks
      <4>2. blk = <<FALSE, 0>> \/ blk \in PhyCandidates(m)
        BY <3>2
      <4> HIDE DEF blk
      <4>a. CASE blk = <<FALSE, 0>>
        BY <4>a, NullBid
      <4>b. CASE blk \in PhyCandidates(m)
      <5>1. blk \in AllBlocks /\ (~blk[1] => blk[2] < numCurrentNonLocals(m))
        BY <4>b DEF PhyCandidates
      <5>2. m.nextnl \in Nat
        BY DEF MemOk
      <5>3. QED
        BY <5>1, <5>2, BlockParts, NullBid, MemoryAssumption
           DEF numCurrentNonLocals, nextNonlocalBid, Nonlocal, Local
      <4>c. QED
        BY <4>2, <4>a, <4>b
    <3> DEFINE x == blk[1]
               y == blk[2]
               off == lf.p.addr - asg.base[blk]
               e == {}
    <3>a. x \in BOOLEAN /\ y \in Nat /\ (~x => y <= max_program_nonlocal_bid)
      BY <3>3
    <3> HIDE DEF blk, x, y, off, e
    <3>b. PtrOk(Logical(x, y, off, e))
      BY <3>a, PtrMade
    <3>4. PtrOk(Logical(blk[1], blk[2], lf.p.addr - asg.base[blk], {}))
      BY <3>b, Zenon DEF x, y, off, e
    <3>5. QED
      BY <3>1, <3>4, Zenon
  <2>2. LeafOk(K, Leaf("phys", 0, PhyPointer(m, lf.p, n)))
    <3> DEFINE org == "phys"
               id  == 0
               p   == PhyPointer(m, lf.p, n)
    <3>1. org \notin {"init", "input", "fnret"} /\ id = 0
      OBVIOUS
    <3> HIDE DEF org, id, p
    <3>2. OriginOk(K, Leaf(org, id, p))
      BY <3>1, PlainOrigin
    <3>3. LeafOk(K, Leaf(org, id, p))
      BY <2>1, <3>2, LeafMade DEF p
    <3>4. QED
      BY <3>3, Zenon DEF org, id, p
  <2>3. QED
    BY <1>2, <2>2
<1> HIDE DEF logical
<1>3. LeafOk(K, logical(reg.cur)) /\ \A lf \in L : LeafOk(K, lf)
  BY <1>2 DEF RegOk
<1> HIDE DEF L
<1>4. QED
  BY <1>1, <1>3, RegMade

\* A register with one leaf.
LEMMA OneLeaf ==
  ASSUME NEW K, NEW org, NEW id, NEW p, PtrOk(p), OriginOk(K, Leaf(org, id, p)), NEW np
  PROVE  LET lf == Leaf(org, id, p)
             reg == Reg({lf}, lf, np)
         IN  RegOk(K, reg) /\ reg.cur.p = p /\ reg.np = np /\ reg.cur \in reg.leaves
             /\ reg.cur.org = org
<1> DEFINE lf == Leaf(org, id, p)
<1>1. LeafOk(K, lf) /\ lf.p = p /\ lf.org = org
  BY LeafMade
<1> HIDE DEF lf
<1>2. QED
  BY <1>1, RegMade DEF lf

-----------------------------------------------------------------------------
(* The end of an instruction. *)

\* The result of an instruction, if it has one; k locals are allocated.
NewRegsOk(K, m, new, k) ==
  \/ new = << >>
  \/ \E reg : /\ new = << reg >> /\ RegOk(K, reg) /\ CurIsLeaf(reg)
              /\ Active => RegSafe(m.esc, k, reg)

\* What an instruction has to leave behind.
ResultOk(K, m, r, new, k) ==
  /\ MemStep(K, mem, m) /\ RefTyped(r)
  /\ Active => MemSafe(m) /\ r.given \subseteq m.esc
  /\ NewRegsOk(K, m, new, k)

LEMMA RegsGrow ==
  ASSUME IInv, NEW K, Known.rets \subseteq K.rets, NEW m, NEW new, nextl' \in Nat, nextl <= nextl',
         NewRegsOk(K, m, new, nextl'), mem.esc \subseteq m.esc, regs' = regs \o new
  PROVE  /\ IsSeq(regs') /\ Len(regs) <= Len(regs')
         /\ \A i \in 1 .. Len(regs') : RegOk(K, regs'[i]) /\ CurIsLeaf(regs'[i])
         /\ \A i \in 1 .. Len(regs) : regs'[i] = regs[i]
         /\ Active => \A i \in 1 .. Len(regs') : RegSafe(m.esc, nextl', regs'[i])
<1>1. IsSeq(regs) /\ Len(regs) \in Nat /\ nextl \in Nat
  BY DEF IInv, IsSeq
<1>2. \A i \in 1 .. Len(regs) : RegOk(K, regs[i]) /\ CurIsLeaf(regs[i])
  BY RegGrows DEF IInv
<1>3. Active => \A i \in 1 .. Len(regs) : RegSafe(m.esc, nextl', regs[i])
  <2> SUFFICES ASSUME Active, NEW i \in 1 .. Len(regs) PROVE RegSafe(m.esc, nextl', regs[i])
    OBVIOUS
  <2>1. RegSafe(mem.esc, nextl, regs[i])
    BY DEF IInv, PathSafe
  <2>2. QED
    BY <2>1, <1>1, RegSafeGrows
<1>4. CASE new = << >>
  <2>1. regs' = regs
    BY <1>1, <1>4, AppendNone
  <2>2. QED
    BY <2>1, <1>1, <1>2, <1>3
<1>5. CASE \E reg : /\ new = << reg >> /\ RegOk(K, reg) /\ CurIsLeaf(reg)
                    /\ Active => RegSafe(m.esc, nextl', reg)
  <2>1. PICK reg : /\ new = << reg >> /\ RegOk(K, reg) /\ CurIsLeaf(reg)
                   /\ Active => RegSafe(m.esc, nextl', reg)
    BY <1>5
  <2>2. /\ IsSeq(regs') /\ Len(regs') = Len(regs) + 1 /\ regs'[Len(regs) + 1] = reg
        /\ \A i \in 1 .. Len(regs) : regs'[i] = regs[i]
    BY <2>1, <1>1, AppendOne
  <2>3. \A i \in 1 .. Len(regs') : i \in 1 .. Len(regs) \/ regs'[i] = reg
    BY <2>2, <1>1
  <2>4. QED
    BY <2>1, <2>2, <2>3, <1>1, <1>2, <1>3
<1>6. QED
  BY <1>4, <1>5 DEF NewRegsOk

LEMMA DoneKeeps ==
  ASSUME IInv, NEW m, NEW r, NEW ok, NEW rok, NEW new, Done(m, r, ok, rok, new), todo # << >>,
         nextl' \in Nat, nextl <= nextl', NEW K, K = Known', ResultOk(K, m, r, new, nextl'),
         Grows(Known, K), br.on => NewTo(Known, K, br.saved), CallsOk'
  PROVE  IInv'
<1>1. /\ mem' = m /\ regs' = regs \o new /\ todo' = Tail(todo)
      /\ ref' = (IF Active /\ rok THEN r ELSE ref)
      /\ asg' = asg /\ later' = later /\ br' = br
  BY DEF Done
<1>2. (Active' <=> Active) /\ (AsgOk' <=> AsgOk)
  BY <1>1 DEF Active, AsgOk
<1>3. MemOk(K, m) /\ mem.esc \subseteq m.esc /\ NewRegsOk(K, m, new, nextl') /\ RefTyped(r)
  BY DEF ResultOk, MemStep
<1>4. /\ IsSeq(regs') /\ Len(regs) <= Len(regs')
      /\ \A i \in 1 .. Len(regs') : RegOk(K, regs'[i]) /\ CurIsLeaf(regs'[i])
      /\ \A i \in 1 .. Len(regs) : regs'[i] = regs[i]
      /\ Active => \A i \in 1 .. Len(regs') : RegSafe(m.esc, nextl', regs'[i])
  BY <1>1, <1>3, RegsGrow DEF Grows
<1>5. todo' \in Seq(Ops) /\ later' \in Seq(Ops)
  BY <1>1, HeadTail DEF IInv
<1>6. RefTyped(ref') /\ MemOk(Known', mem')
  BY <1>1, <1>3 DEF IInv
<1>7. Active => PathSafe(mem, Len(regs))'
  <2> SUFFICES ASSUME Active PROVE PathSafe(mem, Len(regs))'
    OBVIOUS
  <2>1. MemSafe(m) /\ r.given \subseteq m.esc
    BY DEF ResultOk
  <2>2. ref.given \subseteq m.esc
    BY <1>3 DEF IInv, PathSafe
  <2>3. ref'.given \subseteq m.esc
    BY <2>1, <2>2, <1>1
  <2>4. QED
    BY <2>1, <2>3, <1>1, <1>4 DEF PathSafe
<1>8. br.on => BranchOk'
  <2> SUFFICES ASSUME br.on PROVE BranchOk'
    OBVIOUS
  <2>1. BranchOk
    BY DEF IInv
  <2>2. Len(regs) \in Nat /\ Len(regs') \in Nat /\ nextl \in Nat
    BY <1>4 DEF IInv, IsSeq
  <2>3. br.n \in 0 .. Len(regs') /\ \A i \in 1 .. br.n : i \in 1 .. Len(regs) /\ regs'[i] = regs[i]
    BY <2>1, <2>2, <1>4 DEF BranchOk
  <2>4. ~Active => PathSafe(br.saved, br.n)'
    <3> SUFFICES ASSUME ~Active PROVE PathSafe(br.saved, br.n)'
      OBVIOUS
    <3>1. PathSafe(br.saved, br.n) /\ ref' = ref
      BY <2>1, <1>1 DEF BranchOk
    <3>2. \A i \in 1 .. br.n : RegSafe(br.saved.esc, nextl', regs'[i])
      BY <3>1, <2>2, <2>3, RegSafeGrows DEF PathSafe
    <3>3. QED
      BY <3>1, <3>2, <1>1 DEF PathSafe
  <2>5. MemOk(Known', br.saved)
    BY <2>1, MemGrows DEF BranchOk
  <2>6. QED
    BY <2>1, <2>3, <2>4, <2>5, <1>1, <1>2 DEF BranchOk
<1>9. AsgOk /\ br.on \in BOOLEAN
  BY DEF IInv
<1>10. QED
  BY <1>1, <1>2, <1>4, <1>5, <1>6, <1>7, <1>8, <1>9 DEF IInv

\* The same for an instruction that allocates nothing and calls nothing.
LEMMA QuietKeeps ==
  ASSUME IInv, NEW m, NEW r, NEW ok, NEW rok, NEW new, Done(m, r, ok, rok, new), todo # << >>,
         UNCHANGED <<nextl, calls>>, ResultOk(Known, m, r, new, nextl)
  PROVE  IInv'
<1>1. nextl \in Nat /\ nextl' = nextl
  BY DEF IInv
<1>2. nextl' \in Nat /\ nextl <= nextl' /\ ResultOk(Known, m, r, new, nextl')
  BY <1>1
<1>3. CallsOk'
  BY DEF IInv, CallsOk, OutOk, BlockOk
<1>4. Known = Known' /\ Known.n = nextl
  BY DEF Known
<1>5. Grows(Known, Known) /\ NewTo(Known, Known, br.saved)
  BY <1>1, <1>4 DEF Grows, NewTo
<1> DEFINE K == Known
<1> HIDE DEF K
<1>6. K = Known' /\ ResultOk(K, m, r, new, nextl') /\ Grows(Known, K) /\ NewTo(Known, K, br.saved)
  BY <1>2, <1>4, <1>5 DEF K
<1>7. QED
  BY <1>2, <1>3, <1>6, DoneKeeps

-----------------------------------------------------------------------------
(* The reference machine gives nothing away unless Give is called. *)

GivenKept(r, q) == RefTyped(q) /\ q.given = r.given

LEMMA RefAllocKeeps ==
  ASSUME NEW r, RefTyped(r), NEW bid, NEW size, NEW kind, NEW live, NEW got
  PROVE  GivenKept(r, RefAlloc(r, bid, size, kind, live, got))
<1> DEFINE x == IF got THEN r.lost ELSE r.lost \cup {<<TRUE, bid>>}
           l == [i \in DOMAIN r.lblk \cup {bid} |->
                   IF i = bid THEN [size |-> size, kind |-> kind] ELSE r.lblk[i]]
           q == RefAlloc(r, bid, size, kind, live, got)
<1>1. q = [r EXCEPT !.live[<<TRUE, bid>>] = live, !.lost = x, !.lblk = l]
  BY DEF RefAlloc, RefTyped
<1> HIDE DEF x, l, q
<1>2. QED
  BY <1>1 DEF GivenKept, RefTyped, q

LEMMA RefKillKeeps ==
  ASSUME NEW r, RefTyped(r), NEW reg, NEW alive
  PROVE  GivenKept(r, RefKill(r, reg, alive)) /\ GivenKept(r, RefFree(r, reg))
<1>1. \A b, x : GivenKept(r, [r EXCEPT !.live[b] = x])
  BY DEF GivenKept, RefTyped
<1>2. GivenKept(r, r)
  BY DEF GivenKept
<1>3. QED
  BY <1>1, <1>2 DEF RefKill, RefFree

LEMMA RefWriteKeeps ==
  ASSUME NEW r, RefTyped(r), NEW p, NEW data
  PROVE  GivenKept(r, RefWrite(r, p, data))
<1> DEFINE n == Cardinality(DOMAIN data)
           x == CHOOSE y \in RefPlaces(r, p, n) : TRUE
           w == [o \in Offsets |-> IF o - x[2] \in DOMAIN data
                                   THEN NoShape(data[o - x[2]]) ELSE r.val[x[1]][o]]
           q == RefWrite(r, p, data)
<1>1. q = IF n = 0 THEN r ELSE [r EXCEPT !.val[x[1]] = w]
  BY DEF RefWrite
<1> HIDE DEF n, x, w, q
<1>2. GivenKept(r, [r EXCEPT !.val[x[1]] = w]) /\ GivenKept(r, r)
  BY DEF GivenKept, RefTyped
<1>3. QED
  BY <1>1, <1>2 DEF q

LEMMA RefCallKeeps ==
  ASSUME NEW r, RefTyped(r), NEW arg, NEW acc, NEW out, NEW id
  PROVE  GivenKept(r, RefCall(r, arg, acc, out, id))
<1> DEFINE mod == { b \in Writable : modifies(mem, out, acc, arg, b) }
           v   == [blk \in AllBlocks |-> IF ~blk[1] /\ blk[2] \in mod
                     THEN [o \in Offsets |-> NoShape(out.val[blk[2]][o])] ELSE r.val[blk]]
           l   == [blk \in AllBlocks |->
                     r.live[blk] /\ ~(/\ ~blk[1] /\ canAccess(acc) /\ blk[2] \in out.frees
                                      /\ asg.kind[blk[2]] = "malloc")]
           t   == IF "wo" \in acc THEN Append(r.trace, id) ELSE r.trace
           q   == RefCall(r, arg, acc, out, id)
<1>1. q = IF ~canWriteSomething(acc) THEN r ELSE [r EXCEPT !.val = v, !.live = l, !.trace = t]
  BY DEF RefCall
<1> HIDE DEF v, l, t, q
<1>2. GivenKept(r, [r EXCEPT !.val = v, !.live = l, !.trace = t]) /\ GivenKept(r, r)
  BY DEF GivenKept, RefTyped
<1>3. QED
  BY <1>1, <1>2 DEF q

-----------------------------------------------------------------------------
(* What an instruction finds. *)

LEMMA StateOk ==
  ASSUME IInv
  PROVE  /\ MemOk(Known, mem) /\ RefTyped(ref) /\ nextl \in Nat
         /\ Active => MemSafe(mem) /\ ref.given \subseteq mem.esc
         /\ CallsOk /\ AsgOk
  BY DEF IInv, PathSafe

LEMMA OperandOk ==
  ASSUME IInv, NEW i, Defined(i)
  PROVE  /\ RegOk(Known, regs[i]) /\ CurIsLeaf(regs[i])
         /\ Active => RegSafe(mem.esc, nextl, regs[i])
<1>1. regs = [j \in 1 .. Len(regs) |-> regs[j]]
  BY DEF IInv, IsSeq
<1>2. DOMAIN regs = 1 .. Len(regs)
  BY <1>1
<1>3. QED
  BY <1>2 DEF IInv, Defined, PathSafe

\* The next instruction is one of a program.
LEMMA HeadOk ==
  ASSUME IInv, NEW k, Ready(k)
  PROVE  todo # << >> /\ Head(todo) \in Ops /\ Head(todo).k = k
  BY HeadTail DEF IInv, Ready

\* An instruction that changes only liveness.
LEMMA SameResult ==
  ASSUME IInv, NEW K, NEW m, SameContents(K, mem, m), NEW r, GivenKept(ref, r),
         NEW new, NEW k, NewRegsOk(K, m, new, k)
  PROVE  ResultOk(K, m, r, new, k)
<1>1. MemStep(K, mem, m) /\ (MemSafe(mem) => MemSafe(m)) /\ m.esc = mem.esc
  BY SameContentsStep DEF SameContents
<1>2. QED
  BY <1>1, StateOk DEF ResultOk, GivenKept

\* An instruction that changes memory and gives nothing away.
LEMMA StepResult ==
  ASSUME IInv, NEW m, MemStep(Known, mem, m), MemSafe(mem) => MemSafe(m), NEW r, GivenKept(ref, r)
  PROVE  \A k : ResultOk(Known, m, r, << >>, k)
  BY StateOk DEF ResultOk, GivenKept, MemStep, NewRegsOk

\* An instruction that changes neither memory.
LEMMA RegResult ==
  ASSUME IInv, NEW new, NEW k, NewRegsOk(Known, mem, new, k)
  PROVE  ResultOk(Known, mem, ref, new, k)
<1>1. SameContents(Known, mem, mem) /\ GivenKept(ref, ref)
  BY StateOk DEF SameContents, GivenKept
<1>2. QED
  BY <1>1, SameResult

-----------------------------------------------------------------------------
(* Instructions. *)

\* The leaf of a pointer to the start of a block.
LEMMA ConstMade ==
  ASSUME NEW K, NEW local \in BOOLEAN, NEW bid \in Nat, NEW off, NEW attrs,
         ~local => bid <= max_program_nonlocal_bid
  PROVE  LET lf == Const(Logical(local, bid, off, attrs))
         IN  LeafOk(K, lf) /\ lf.org = "const" /\ lf.p.local = local /\ lf.p.bid = bid
<1> DEFINE p == Logical(local, bid, off, attrs)
           c == "const"
           i == 0
<1>1. PtrOk(p) /\ p.local = local /\ p.bid = bid
  BY PtrMade
<1>a. c \notin {"init", "input", "fnret"} /\ i = 0
  OBVIOUS
<1> HIDE DEF p, c, i
<1>2. LeafOk(K, Leaf(c, i, p)) /\ Leaf(c, i, p).p = p /\ Leaf(c, i, p).org = c
  <2>1. OriginOk(K, Leaf(c, i, p))
    BY <1>a, PlainOrigin
  <2>2. QED
    BY <1>1, <2>1, LeafMade
<1>3. Const(p) = Leaf(c, i, p)
  BY DEF Const, c, i
<1>4. LeafOk(K, Const(p)) /\ Const(p).p = p /\ Const(p).org = "const"
  BY <1>2, <1>3, Zenon DEF c
<1>5. QED
  BY <1>1, <1>4, Zenon DEF p

\* The registers of an allocation: the new block, or null.
LEMMA NewBlockReg ==
  ASSUME NEW K, nextl \in Nat, NEW m, NEW got \in BOOLEAN
  PROVE  LET p   == Const(Logical(TRUE, nextl, 0, {}))
             nul == Const(mkNullPointer)
         IN  /\ NewRegsOk(K, m, << Reg({p}, p, TRUE) >>, nextl + 1)
             /\ NewRegsOk(K, m, << Reg({p, nul}, IF got THEN p ELSE nul, TRUE) >>, nextl + 1)
<1> DEFINE p   == Const(Logical(TRUE, nextl, 0, {}))
           nul == Const(mkNullPointer)
           cur == IF got THEN p ELSE nul
           r1  == Reg({p}, p, TRUE)
           r2  == Reg({p, nul}, cur, TRUE)
<1>1. LeafOk(K, p) /\ p.p.bid = nextl /\ p.org = "const"
  <2> DEFINE T == TRUE
             z == 0
             e == {}
  <2>1. p = Const(Logical(T, nextl, z, e)) /\ T \in BOOLEAN /\ T
    OBVIOUS
  <2>a. ~T => nextl <= max_program_nonlocal_bid
    OBVIOUS
  <2> HIDE DEF T, z, e, p
  <2> DEFINE q == Const(Logical(T, nextl, z, e))
  <2>2. LeafOk(K, q)
    BY <2>1, <2>a, ConstMade
  <2>3. q.org = "const" /\ q.p.bid = nextl
    <3>1. q.p = Logical(T, nextl, z, e) /\ q.org = "const"
      BY DEF Const, Leaf
    <3>2. Logical(T, nextl, z, e).bid = nextl
      BY DEF Logical
    <3>3. QED
      BY <3>1, <3>2
  <2> HIDE DEF q
  <2>4. QED
    BY <2>1, <2>2, <2>3 DEF q
<1>2. LeafOk(K, nul) /\ ~nul.p.local
  <2> DEFINE F == FALSE
             z == 0
             e == {}
  <2>1. nul = Const(Logical(F, z, z, e)) /\ F \in BOOLEAN /\ ~F
    BY DEF mkNullPointer
  <2>a. z \in Nat /\ z <= max_program_nonlocal_bid
    BY NullBid
  <2> HIDE DEF F, z, e, nul
  <2>2. LeafOk(K, nul) /\ nul.p.local = F
    BY <2>1, <2>a, ConstMade
  <2>3. QED
    BY <2>1, <2>2, Zenon
<1>3. nextl \in 0 .. (nextl + 1) - 1
  OBVIOUS
<1> HIDE DEF p, nul
<1> DEFINE L1 == {p}
           L2 == {p, nul}
<1>a. \A lf \in L1 : LeafOk(K, lf)
  BY <1>1
<1>b. \A lf \in L2 : LeafOk(K, lf)
  BY <1>1, <1>2
<1>c. LeafOk(K, cur) /\ cur = (IF got THEN p ELSE nul)
  BY <1>1, <1>2
<1> DEFINE t == TRUE
<1>d. r1 = Reg(L1, p, t) /\ r2 = Reg(L2, cur, t) /\ p \in L1 /\ p \in L2 /\ cur \in L2
  OBVIOUS
<1> HIDE DEF cur, L1, L2, r1, r2, t
<1>4. RegOk(K, r1) /\ r1.cur = p /\ r1.leaves = L1
  BY <1>1, <1>a, <1>d, RegMade
<1>5. RegOk(K, r2) /\ r2.cur = cur /\ r2.leaves = L2
  BY <1>b, <1>c, <1>d, RegMade
<1>6. \A E : RegSafe(E, nextl + 1, r1)
  BY <1>1, <1>3, <1>4, <1>d DEF RegSafe
<1>7. \A E : RegSafe(E, nextl + 1, r2)
  <2>1. CASE got
    BY <2>1, <1>1, <1>3, <1>5, <1>c, <1>d DEF RegSafe
  <2>2. CASE ~got
    BY <2>2, <1>2, <1>5, <1>c DEF RegSafe
  <2>3. QED
    BY <2>1, <2>2
<1>e. CurIsLeaf(r1) /\ CurIsLeaf(r2)
  BY <1>4, <1>5, <1>d DEF CurIsLeaf
<1>8. NewRegsOk(K, m, << r1 >>, nextl + 1) /\ NewRegsOk(K, m, << r2 >>, nextl + 1)
  BY <1>4, <1>5, <1>6, <1>7, <1>e DEF NewRegsOk
<1>9. QED
  BY <1>8, Zenon DEF r1, r2, p, nul, cur

\* One more local.
LEMMA MoreLocals ==
  ASSUME IInv, nextl' = nextl + 1, calls' = calls, NEW K, K = Known'
  PROVE  /\ Grows(Known, K) /\ (br.on => NewTo(Known, K, br.saved)) /\ CallsOk'
         /\ K.n = nextl + 1 /\ MemOk(K, mem)
<1>1. K.rets = Known.rets /\ K.n = nextl + 1 /\ Known.n = nextl /\ nextl \in Nat
  BY StateOk DEF Known
<1>2. Grows(Known, K) /\ NewTo(Known, K, br.saved) /\ NewTo(Known, K, mem)
  BY <1>1 DEF Grows, NewTo
<1>3. CallsOk'
  BY StateOk DEF CallsOk, OutOk, BlockOk
<1>4. MemOk(K, mem)
  BY <1>2, StateOk, MemGrows
<1>5. QED
  BY <1>1, <1>2, <1>3, <1>4

LEMMA AllocKeeps == ASSUME IInv, ExecAlloc PROVE IInv'
<1>1. PICK a \in Head(todo).a, nonnull \in BOOLEAN :
        LET size == a[1]
            dead == a[2] = "dead"
            kind == IF dead THEN "stack" ELSE a[2]
            p    == Const(Logical(TRUE, nextl, 0, {}))
            nul  == Const(mkNullPointer)
            m    == alloc(mem, nextl, size, kind)
        IN  Done(IF dead THEN free(m, Reg({p}, p, TRUE), TRUE) ELSE m,
                 RefAlloc(ref, nextl, size, kind, ~dead, nonnull), TRUE, TRUE,
                 << IF kind # "malloc" THEN Reg({p}, p, TRUE)
                    ELSE Reg({p, nul}, IF nonnull THEN p ELSE nul, TRUE) >>)
  BY DEF ExecAlloc
<1> DEFINE size == a[1]
           dead == a[2] = "dead"
           kind == IF dead THEN "stack" ELSE a[2]
           p    == Const(Logical(TRUE, nextl, 0, {}))
           nul  == Const(mkNullPointer)
           r1   == Reg({p}, p, TRUE)
           r2   == Reg({p, nul}, IF nonnull THEN p ELSE nul, TRUE)
           m    == alloc(mem, nextl, size, kind)
           q    == IF dead THEN free(m, r1, TRUE) ELSE m
           r    == RefAlloc(ref, nextl, size, kind, ~dead, nonnull)
           new  == << IF kind # "malloc" THEN r1 ELSE r2 >>
<1>2. Done(q, r, TRUE, TRUE, new)
  BY <1>1, Zenon
<1>3. todo # << >> /\ nextl' = nextl + 1 /\ calls' = calls /\ nextl < NumLocals
  BY DEF ExecAlloc, Ready
<1>4. nextl \in Local /\ nextl' \in Nat /\ nextl <= nextl' /\ nextl < nextl + 1
  BY <1>3, StateOk, MemoryAssumption DEF Local
<1> DEFINE K == Known'
<1>k. K = Known'
  OBVIOUS
<1> HIDE DEF K
<1>g. /\ Grows(Known, K) /\ (br.on => NewTo(Known, K, br.saved)) /\ CallsOk'
      /\ K.n = nextl + 1 /\ MemOk(K, mem)
  BY <1>3, <1>k, MoreLocals
<1>5. SameContents(K, mem, m)
  BY <1>4, <1>g, AllocOk
<1>6. SameContents(K, mem, q)
  <2>1. MemOk(K, m)
    BY <1>5 DEF SameContents
  <2> HIDE DEF m, r1
  <2>2. SameContents(K, m, free(m, r1, TRUE))
    BY <2>1, FreeKeeps
  <2>3. q = free(m, r1, TRUE) \/ q = m
    OBVIOUS
  <2> HIDE DEF q
  <2>4. QED
    BY <1>5, <2>2, <2>3 DEF SameContents
<1>7. GivenKept(ref, r)
  BY StateOk, RefAllocKeeps
<1>8. NewRegsOk(K, q, << r1 >>, nextl + 1) /\ NewRegsOk(K, q, << r2 >>, nextl + 1)
  BY StateOk, NewBlockReg
<1> HIDE DEF q, r, r1, r2, m
<1>9. NewRegsOk(K, q, new, nextl + 1)
  BY <1>8
<1> HIDE DEF new
<1>10. ResultOk(K, q, r, new, nextl')
  BY <1>3, <1>6, <1>7, <1>9, SameResult
<1>11. QED
  BY <1>2, <1>3, <1>4, <1>10, <1>g, <1>k, DoneKeeps

LEMMA NoNewRegs == ASSUME NEW K, NEW m, NEW k PROVE NewRegsOk(K, m, << >>, k)
  BY DEF NewRegsOk

LEMMA FreeStepKeeps == ASSUME IInv, ExecFree \/ ExecEndLifetime \/ ExecStartLifetime PROVE IInv'
<1>1. PICK reg, ok, rok, m, r :
         /\ Done(m, r, ok, rok, << >>)
         /\ m = free(mem, reg, TRUE) \/ m = startLifetime(mem, reg, TRUE)
         /\ r = RefFree(ref, reg) \/ r = RefKill(ref, reg, FALSE) \/ r = RefKill(ref, reg, TRUE)
  BY Zenon DEF ExecFree, ExecEndLifetime, ExecStartLifetime
<1>2. todo # << >> /\ UNCHANGED <<nextl, calls>>
  BY DEF ExecFree, ExecEndLifetime, ExecStartLifetime, Ready, Quiet
<1>3. SameContents(Known, mem, m)
  BY <1>1, StateOk, FreeKeeps
<1>4. GivenKept(ref, r)
  BY <1>1, StateOk, RefKillKeeps
<1>5. ResultOk(Known, m, r, << >>, nextl)
  BY <1>3, <1>4, SameResult, NoNewRegs
<1>6. QED
  BY <1>1, <1>2, <1>5, QuietKeeps

\* The old contents in the reference machine.
LEMMA RefCopyKeeps ==
  ASSUME NEW r, RefTyped(r), NEW blk, NEW w
  PROVE  GivenKept(r, [r EXCEPT !.val[blk] = w])
<1> DEFINE x == [r.val EXCEPT ![blk] = w]
<1>1. [r EXCEPT !.val[blk] = w] = [r EXCEPT !.val = x]
  OBVIOUS
<1> HIDE DEF x
<1>2. QED
  BY <1>1 DEF GivenKept, RefTyped

LEMMA ReallocKeeps == ASSUME IInv, ExecRealloc PROVE IInv'
<1>1. PICK a \in Head(todo).a, got \in BOOLEAN :
       LET old  == regs[a[1]]
           new  == Const(Logical(TRUE, nextl, 0, {}))
           nul  == Const(mkNullPointer)
           fr   == Reg(old.leaves \cup {nul}, IF got \/ a[2] = 0 THEN old.cur ELSE nul, TRUE)
           m    == copy(alloc(mem, nextl, a[2], "malloc"), old, <<TRUE, nextl>>)
           r    == RefAlloc(ref, nextl, a[2], "malloc", TRUE, got)
           copied == IF old.cur.p.log /\ RefAlive(ref, BlockOf(old.cur.p))
                     THEN [r EXCEPT !.val[<<TRUE, nextl>>] =
                             [o \in Offsets |-> IF o < RefSize(ref, BlockOf(old.cur.p))
                                                THEN r.val[BlockOf(old.cur.p)][o] ELSE mkPoisonByte]]
                     ELSE r
       IN  /\ Defined(a[1])
           /\ Done(free(m, fr, TRUE), RefFree(copied, fr),
                   old.np /\ FreeOk(m, fr.cur.p), old.np /\ RefFreeOk(ref, fr),
                   << Reg({new, nul}, IF got THEN new ELSE nul, TRUE) >>)
  BY Zenon DEF ExecRealloc
<1> DEFINE old  == regs[a[1]]
           new  == Const(Logical(TRUE, nextl, 0, {}))
           nul  == Const(mkNullPointer)
           fr   == Reg(old.leaves \cup {nul}, IF got \/ a[2] = 0 THEN old.cur ELSE nul, TRUE)
           al   == alloc(mem, nextl, a[2], "malloc")
           blk  == <<TRUE, nextl>>
           m    == copy(al, old, blk)
           q    == free(m, fr, TRUE)
           r    == RefAlloc(ref, nextl, a[2], "malloc", TRUE, got)
           w    == [o \in Offsets |-> IF o < RefSize(ref, BlockOf(old.cur.p))
                                      THEN r.val[BlockOf(old.cur.p)][o] ELSE mkPoisonByte]
           c    == IF old.cur.p.log /\ RefAlive(ref, BlockOf(old.cur.p))
                   THEN [r EXCEPT !.val[blk] = w] ELSE r
           reg  == Reg({new, nul}, IF got THEN new ELSE nul, TRUE)
           ok   == old.np /\ FreeOk(m, fr.cur.p)
           rok  == old.np /\ RefFreeOk(ref, fr)
<1>2. Defined(a[1]) /\ Done(q, RefFree(c, fr), ok, rok, << reg >>)
  BY <1>1, Zenon
<1>3. todo # << >> /\ nextl' = nextl + 1 /\ calls' = calls /\ nextl < NumLocals
  BY DEF ExecRealloc, Ready
<1>4. nextl \in Local /\ nextl' \in Nat /\ nextl <= nextl' /\ nextl < nextl + 1
  BY <1>3, StateOk, MemoryAssumption DEF Local
<1> DEFINE K == Known'
<1>k. K = Known'
  OBVIOUS
<1> HIDE DEF K
<1>g. /\ Grows(Known, K) /\ (br.on => NewTo(Known, K, br.saved)) /\ CallsOk'
      /\ K.n = nextl + 1 /\ MemOk(K, mem)
  BY <1>3, <1>k, MoreLocals
<1>5. SameContents(K, mem, al)
  BY <1>4, <1>g, AllocOk
<1>6. GivenKept(ref, r)
  BY StateOk, RefAllocKeeps
<1>7. NewRegsOk(K, q, << reg >>, nextl + 1)
  BY StateOk, NewBlockReg
<1>8. RegOk(K, old)
  BY <1>2, <1>g, OperandOk, RegGrows DEF Grows
<1> HIDE DEF old, new, nul, fr, al, blk, r, w, reg, ok, rok
<1>9. MemStep(K, mem, m) /\ (MemSafe(mem) => MemSafe(m)) /\ MemOk(K, m)
  <2>1. MemOk(K, al) /\ al.esc = mem.esc /\ (MemSafe(mem) => MemSafe(al))
    BY <1>5, SameContentsStep DEF SameContents
  <2>2. MemStep(K, al, m) /\ (MemSafe(al) => MemSafe(m))
    BY <2>1, <1>8, CopyOk
  <2> HIDE DEF m
  <2>3. QED
    BY <2>1, <2>2 DEF MemStep
<1> HIDE DEF m
<1>10. SameContents(K, m, q)
  BY <1>9, FreeKeeps
<1> HIDE DEF q
<1>11. MemStep(K, mem, q) /\ (MemSafe(mem) => MemSafe(q))
  BY <1>9, <1>10, SameContentsStep DEF MemStep
<1>12. GivenKept(ref, c)
  <2>1. GivenKept(r, [r EXCEPT !.val[blk] = w])
    BY <1>6, RefCopyKeeps DEF GivenKept
  <2>2. c = r \/ c = [r EXCEPT !.val[blk] = w]
    OBVIOUS
  <2> HIDE DEF c
  <2>3. QED
    BY <1>6, <2>1, <2>2 DEF GivenKept
<1> HIDE DEF c
<1>13. GivenKept(ref, RefFree(c, fr))
  BY <1>12, RefKillKeeps DEF GivenKept
<1>14. ResultOk(K, q, RefFree(c, fr), << reg >>, nextl')
  BY <1>3, <1>7, <1>11, <1>13, StateOk DEF ResultOk, GivenKept, MemStep
<1>15. QED
  BY <1>2, <1>3, <1>4, <1>14, <1>g, <1>k, DoneKeeps

\* A pointer moved within its block.
MovedTo(K, reg, q) ==
  /\ RegOk(K, q)
  /\ SameBlock(reg.cur.p, q.cur.p) /\ q.cur.org = reg.cur.org
  /\ q.np => reg.np /\ (reg.cur \in reg.leaves => q.cur \in q.leaves)

LEMMA MovedSafe ==
  ASSUME NEW K, NEW reg, NEW q, MovedTo(K, reg, q), NEW E, NEW n, RegSafe(E, n, reg)
  PROVE  RegSafe(E, n, q)
  BY DEF MovedTo, SameBlock, RegSafe

LEMMA MovedResult ==
  ASSUME IInv, NEW i, Defined(i), NEW q, MovedTo(Known, regs[i], q)
  PROVE  ResultOk(Known, mem, ref, << q >>, nextl)
<1>1. Active => RegSafe(mem.esc, nextl, q)
  BY OperandOk, MovedSafe
<1>2. NewRegsOk(Known, mem, << q >>, nextl)
  BY <1>1, OperandOk DEF NewRegsOk, MovedTo, CurIsLeaf
<1>3. QED
  BY <1>2, RegResult

\* A pointer to which an offset is added, and its leaves.
PlusOf(q, reg, n, np) ==
  q = Reg({ [lf EXCEPT !.p = Plus(lf.p, n)] : lf \in reg.leaves },
          [reg.cur EXCEPT !.p = Plus(reg.cur.p, n)], np)

LEMMA PlusLeaves ==
  ASSUME NEW K, NEW reg, RegOk(K, reg), NEW n, NEW np, NEW q, PlusOf(q, reg, n, np)
  PROVE  /\ RegOk(K, q) /\ q.np = np
         /\ q.cur.p = Plus(reg.cur.p, n) /\ q.cur.org = reg.cur.org
         /\ reg.cur \in reg.leaves => q.cur \in q.leaves
<1> DEFINE L   == { [lf EXCEPT !.p = Plus(lf.p, n)] : lf \in reg.leaves }
           cur == [reg.cur EXCEPT !.p = Plus(reg.cur.p, n)]
<1>1. q = Reg(L, cur, np)
  BY DEF PlusOf
<1>2. \A lf \in reg.leaves : LeafOk(K, [lf EXCEPT !.p = Plus(lf.p, n)])
  <2>1. TAKE lf \in reg.leaves
  <2>2. LeafOk(K, lf) /\ PtrOk(lf.p)
    BY DEF RegOk, LeafOk
  <2>3. SameBlock(lf.p, Plus(lf.p, n))
    BY <2>2, PlusSame
  <2>4. QED
    BY <2>2, <2>3, LeafMoved
<1>3. LeafOk(K, cur) /\ cur.p = Plus(reg.cur.p, n) /\ cur.org = reg.cur.org
  <2>1. LeafOk(K, reg.cur) /\ PtrOk(reg.cur.p)
    BY DEF RegOk, LeafOk
  <2>2. SameBlock(reg.cur.p, Plus(reg.cur.p, n))
    BY <2>1, PlusSame
  <2>3. QED
    BY <2>1, <2>2, LeafMoved
<1>4. (reg.cur \in reg.leaves => cur \in L) /\ \A lf \in L : LeafOk(K, lf)
  BY <1>2
<1> HIDE DEF L, cur
<1>5. RegOk(K, Reg(L, cur, np)) /\ Reg(L, cur, np).cur = cur /\ Reg(L, cur, np).leaves = L
        /\ Reg(L, cur, np).np = np
  BY <1>3, <1>4, RegMade
<1>6. QED
  BY <1>1, <1>3, <1>4, <1>5, Zenon

\* gep drops the leaf a pointer evaluates to only if the result is poison.
LEMMA GepMoves ==
  ASSUME NEW K, NEW reg, RegOk(K, reg), reg.np, NEW bytes, NEW inbounds
  PROVE  MovedTo(K, reg, gep(mem, reg, bytes, inbounds))
<1> DEFINE p   == reg.cur.p
           off == Signed(p.off, bits_for_offset)
           np  == /\ off + bytes < 2 ^ (bits_for_offset - 1) /\ off + bytes >= -(2 ^ (bits_for_offset - 1))
                  /\ bytes = 0 \/ (InBlock(mem, p) /\ InBlock(mem, Plus(p, bytes)))
           b   == inbounds => np
           new == MapLeaves(reg, LAMBDA q : Plus(q, bytes), b)
           can == { lf \in new.leaves : lf.org = "const" /\ SizeKnown(mem, BlockOf(lf.p)) => InBlock(mem, lf.p) }
           q   == gep(mem, reg, bytes, inbounds)
<1>1. q = IF inbounds /\ bytes # 0 THEN [new EXCEPT !.leaves = can] ELSE new
  BY DEF gep
<1>2. inbounds /\ bytes # 0 /\ b => InBlock(mem, Plus(p, bytes))
  BY Zenon
<1> HIDE DEF b
<1>z. PlusOf(new, reg, bytes, b)
  BY DEF MapLeaves, PlusOf
<1>3. /\ RegOk(K, new) /\ new.np = b
      /\ new.cur.p = Plus(p, bytes) /\ new.cur.org = reg.cur.org
      /\ reg.cur \in reg.leaves => new.cur \in new.leaves
  <2> HIDE DEF new
  <2>1. QED
    BY <1>z, PlusLeaves
<1>4. SameBlock(p, new.cur.p)
  <2>1. PtrOk(p)
    BY DEF RegOk, LeafOk
  <2>2. QED
    BY <1>3, <2>1, PlusSame
<1> HIDE DEF new
<1>5. CASE inbounds /\ bytes # 0
  <2>1. q.cur = new.cur /\ q.np = new.np /\ q.leaves = can /\ DOMAIN q = DOMAIN new
    BY <1>1, <1>3, <1>5 DEF RegOk
  <2>2. RegOk(K, q)
    BY <2>1, <1>3 DEF RegOk
  <2>3. new.np /\ new.cur \in new.leaves => new.cur \in can
    BY <1>2, <1>3, <1>5, Zenon
  <2> HIDE DEF can, q
  <2>4. MovedTo(K, reg, q)
    BY <1>3, <1>4, <2>1, <2>2, <2>3 DEF MovedTo
  <2>5. QED
    BY <2>4 DEF q
<1>6. CASE ~(inbounds /\ bytes # 0)
  <2>1. q = new
    BY <1>1, <1>6, Zenon
  <2> HIDE DEF q
  <2>2. MovedTo(K, reg, q)
    BY <2>1, <1>3, <1>4 DEF MovedTo
  <2>3. QED
    BY <2>2 DEF q
<1>7. QED
  BY <1>5, <1>6

LEMMA GEPKeeps == ASSUME IInv, ExecGEP PROVE IInv'
<1>1. PICK a \in Head(todo).a :
        LET reg == regs[a[1]] IN
        /\ Defined(a[1]) /\ reg.np
        /\ Done(mem, ref, a[3] => reg.cur.p.log, a[3] => reg.cur.p.log, << gep(mem, reg, a[2], a[3]) >>)
  BY Zenon DEF ExecGEP
<1> DEFINE reg == regs[a[1]]
           q   == gep(mem, reg, a[2], a[3])
           ok  == a[3] => reg.cur.p.log
<1>2. Defined(a[1]) /\ reg.np /\ Done(mem, ref, ok, ok, << q >>)
  BY <1>1, Zenon
<1> HIDE DEF ok
<1>3. todo # << >> /\ UNCHANGED <<nextl, calls>>
  BY DEF ExecGEP, Ready, Quiet
<1>4. MovedTo(Known, reg, q)
  <2>1. RegOk(Known, reg)
    BY <1>2, OperandOk
  <2> HIDE DEF reg
  <2>2. QED
    BY <1>2, <2>1, GepMoves
<1> HIDE DEF q
<1>5. ResultOk(Known, mem, ref, << q >>, nextl)
  BY <1>2, <1>4, MovedResult
<1>6. QED
  BY <1>2, <1>3, <1>5, QuietKeeps

\* A pointer whose offset is masked, and its leaves.
MaskOf(q, reg, mask) ==
  q = Reg({ [lf EXCEPT !.p = maskOffset(asg.base, lf.p, mask)] : lf \in reg.leaves },
          [reg.cur EXCEPT !.p = maskOffset(asg.base, reg.cur.p, mask)], reg.np)

LEMMA MaskMoves ==
  ASSUME NEW K, NEW reg, RegOk(K, reg), NEW mask, NEW q, MaskOf(q, reg, mask)
  PROVE  MovedTo(K, reg, q)
<1> DEFINE F(p) == maskOffset(asg.base, p, mask)
           L    == { [lf EXCEPT !.p = F(lf.p)] : lf \in reg.leaves }
           cur  == [reg.cur EXCEPT !.p = F(reg.cur.p)]
<1>1. q = Reg(L, cur, reg.np)
  BY DEF MaskOf
<1>2. \A p : PtrOk(p) => SameBlock(p, F(p))
  BY MaskSame
<1> HIDE DEF F
<1>3. \A lf \in reg.leaves : LeafOk(K, [lf EXCEPT !.p = F(lf.p)])
  <2>1. TAKE lf \in reg.leaves
  <2>2. LeafOk(K, lf) /\ PtrOk(lf.p)
    BY DEF RegOk, LeafOk
  <2>3. SameBlock(lf.p, F(lf.p))
    BY <1>2, <2>2
  <2>4. QED
    BY <2>2, <2>3, LeafMoved
<1>4. LeafOk(K, cur) /\ SameBlock(reg.cur.p, cur.p) /\ cur.org = reg.cur.org
  <2>1. LeafOk(K, reg.cur) /\ PtrOk(reg.cur.p)
    BY DEF RegOk, LeafOk
  <2>2. SameBlock(reg.cur.p, F(reg.cur.p)) /\ PtrOk(F(reg.cur.p))
    BY <1>2, <2>1 DEF SameBlock
  <2>3. QED
    BY <2>1, <2>2, LeafMoved
<1>5. (reg.cur \in reg.leaves => cur \in L) /\ \A lf \in L : LeafOk(K, lf)
  BY <1>3
<1> HIDE DEF L, cur
<1>6. RegOk(K, q) /\ q.cur = cur /\ q.leaves = L /\ q.np = reg.np
  BY <1>1, <1>4, <1>5, RegMade
<1>7. QED
  BY <1>4, <1>5, <1>6 DEF MovedTo

LEMMA PtrMaskKeeps == ASSUME IInv, ExecPtrMask PROVE IInv'
<1>1. PICK a \in Head(todo).a :
        /\ Defined(a[1])
        /\ Done(mem, ref, TRUE, TRUE,
                << MapLeaves(regs[a[1]], LAMBDA q : maskOffset(asg.base, q, a[2]), regs[a[1]].np) >>)
  BY DEF ExecPtrMask
<1> DEFINE q == MapLeaves(regs[a[1]], LAMBDA x : maskOffset(asg.base, x, a[2]), regs[a[1]].np)
<1>2. Defined(a[1]) /\ Done(mem, ref, TRUE, TRUE, << q >>)
  BY <1>1
<1>3. todo # << >> /\ UNCHANGED <<nextl, calls>>
  BY DEF ExecPtrMask, Ready, Quiet
<1>4. MovedTo(Known, regs[a[1]], q)
  <2>1. MaskOf(q, regs[a[1]], a[2])
    BY DEF MaskOf, MapLeaves
  <2> HIDE DEF q
  <2>2. QED
    BY <2>1, <1>2, OperandOk, MaskMoves
<1> HIDE DEF q
<1>5. ResultOk(Known, mem, ref, << q >>, nextl)
  BY <1>2, <1>4, MovedResult
<1>6. QED
  BY <1>2, <1>3, <1>5, QuietKeeps

\* select: the leaves of both operands.
LEMMA SelectKeeps == ASSUME IInv, ExecSelect PROVE IInv'
<1>1. PICK a \in Head(todo).a, c \in BOOLEAN :
        LET r == IF c THEN regs[a[1]] ELSE regs[a[2]] IN
        /\ Defined(a[1]) /\ Defined(a[2])
        /\ Done(mem, ref, TRUE, TRUE, << Reg(regs[a[1]].leaves \cup regs[a[2]].leaves, r.cur, r.np) >>)
  BY Zenon DEF ExecSelect
<1> DEFINE r == IF c THEN regs[a[1]] ELSE regs[a[2]]
           L == regs[a[1]].leaves \cup regs[a[2]].leaves
           q == Reg(L, r.cur, r.np)
<1>2. Defined(a[1]) /\ Defined(a[2]) /\ Done(mem, ref, TRUE, TRUE, << q >>)
  BY <1>1, Zenon
<1>3. todo # << >> /\ UNCHANGED <<nextl, calls>>
  BY DEF ExecSelect, Ready, Quiet
<1>4. /\ RegOk(Known, regs[a[1]]) /\ CurIsLeaf(regs[a[1]])
      /\ Active => RegSafe(mem.esc, nextl, regs[a[1]])
      /\ RegOk(Known, regs[a[2]]) /\ CurIsLeaf(regs[a[2]])
      /\ Active => RegSafe(mem.esc, nextl, regs[a[2]])
  BY <1>2, OperandOk
<1>5. LeafOk(Known, r.cur) /\ \A lf \in L : LeafOk(Known, lf)
  BY <1>4 DEF RegOk
<1>6. (Active => RegSafe(mem.esc, nextl, r)) /\ r.leaves \subseteq L /\ CurIsLeaf(r)
  BY <1>4
<1> HIDE DEF r, L
<1>7. RegOk(Known, q) /\ q.cur = r.cur /\ q.leaves = L /\ q.np = r.np
  BY <1>5, RegMade
<1> HIDE DEF q
<1>8. Active => RegSafe(mem.esc, nextl, q)
  BY <1>6, <1>7 DEF RegSafe
<1>9. NewRegsOk(Known, mem, << q >>, nextl)
  BY <1>6, <1>7, <1>8 DEF NewRegsOk, CurIsLeaf
<1>10. ResultOk(Known, mem, ref, << q >>, nextl)
  BY <1>9, RegResult
<1>11. QED
  BY <1>2, <1>3, <1>10, QuietKeeps

\* A pointer that is given away is one that escapes.
LEMMA EscapeResult ==
  ASSUME IInv, NEW i, Defined(i)
  PROVE  ResultOk(Known, escapeLocalPtr(mem, regs[i]), Give(ref, regs[i]), << >>, nextl)
<1> DEFINE q == escapeLocalPtr(mem, regs[i])
           r == Give(ref, regs[i])
<1>1. RegOk(Known, regs[i]) /\ (Active => RegSafe(mem.esc, nextl, regs[i]))
  BY OperandOk
<1>2. MemStep(Known, mem, q) /\ (MemSafe(mem) => MemSafe(q))
  BY StateOk, EscapePtr
<1>3. RefTyped(r)
  BY StateOk, GiveOk
<1>4. Active => r.given \subseteq q.esc
  BY <1>1, StateOk, GiveEscapes
<1>5. Active => MemSafe(q)
  BY <1>2, StateOk
<1> HIDE DEF q, r
<1>6. ResultOk(Known, q, r, << >>, nextl)
  BY <1>2, <1>3, <1>4, <1>5, NoNewRegs DEF ResultOk
<1>7. QED
  BY <1>6 DEF q, r

LEMMA PtrToIntKeeps == ASSUME IInv, ExecPtrToInt PROVE IInv'
<1>1. PICK i \in Head(todo).a :
        Defined(i) /\ Done(escapeLocalPtr(mem, regs[i]), Give(ref, regs[i]), TRUE, TRUE, << >>)
  BY DEF ExecPtrToInt
<1>2. todo # << >> /\ UNCHANGED <<nextl, calls>>
  BY DEF ExecPtrToInt, Ready, Quiet
<1>3. QED
  BY <1>1, <1>2, EscapeResult, QuietKeeps

\* A physical pointer names no block.
LEMMA IntToPtrKeeps == ASSUME IInv, ExecIntToPtr PROVE IInv'
<1>1. PICK a \in Head(todo).a :
        LET lf == Leaf("phys", 0, mkPhysical(asg.base[a[1]] + a[2], {}))
        IN  Done(mem, ref, TRUE, TRUE, << Reg({lf}, lf, TRUE) >>)
  BY Zenon DEF ExecIntToPtr
<1> DEFINE p  == mkPhysical(asg.base[a[1]] + a[2], {})
           lf == Leaf("phys", 0, p)
           q  == Reg({lf}, lf, TRUE)
<1>2. Done(mem, ref, TRUE, TRUE, << q >>)
  BY <1>1, Zenon
<1>3. todo # << >> /\ UNCHANGED <<nextl, calls>>
  BY DEF ExecIntToPtr, Ready, Quiet
<1>4. PtrOk(p) /\ ~p.log
  BY PhysMade
<1> HIDE DEF p
<1>5. RegOk(Known, q) /\ q.cur.p = p /\ CurIsLeaf(q)
  <2> DEFINE org == "phys"
             id  == 0
             np  == TRUE
  <2>1. /\ q = Reg({Leaf(org, id, p)}, Leaf(org, id, p), np)
        /\ org \notin {"init", "input", "fnret"} /\ id = 0
    OBVIOUS
  <2> HIDE DEF org, id, np, q
  <2>2. OriginOk(Known, Leaf(org, id, p))
    BY <2>1, PlainOrigin
  <2>3. QED
    BY <1>4, <2>1, <2>2, OneLeaf DEF CurIsLeaf
<1> HIDE DEF q
<1>6. \A E, n : RegSafe(E, n, q)
  BY <1>4, <1>5 DEF RegSafe
<1>7. NewRegsOk(Known, mem, << q >>, nextl)
  BY <1>5, <1>6 DEF NewRegsOk
<1>8. ResultOk(Known, mem, ref, << q >>, nextl)
  BY <1>7, RegResult
<1>9. QED
  BY <1>2, <1>3, <1>8, QuietKeeps

-----------------------------------------------------------------------------
(* Stores and loads. *)

\* The bytes that store gets for an integer.
LEMMA IntData ==
  ASSUME NEW K, NEW val, NEW ty \in Nat \ {PtrTy}, NEW sub
  PROVE  LET d == valueToBytes(val, ty, {}, 0, sub)
         IN  DataOk(K, d) /\ \A E : DataSafe(E, d)
<1> DEFINE d == valueToBytes(val, ty, {}, 0, sub)
           n == getStoreByteSize(ty)
<1>1. n \in Int
  BY BytesAssumption DEF getStoreByteSize
<1>2. DOMAIN d = 0 .. n - 1 /\ \A i \in DOMAIN d : ~d[i].ptr
  <2> DEFINE e == {}
             z == 0
             x == valueToBytes(val, ty, e, z, sub)
  <2>1. d = x
    OBVIOUS
  <2> HIDE DEF e, z
  <2>2. DOMAIN x = 0 .. getStoreByteSize(ty) - 1 /\ \A i \in DOMAIN x : ~x[i].ptr
    BY IntBytes, Zenon
  <2>3. QED
    BY <2>1, <2>2
<1> HIDE DEF d, n
<1>3. DOMAIN d # {} => 0 \in DOMAIN d
  BY <1>1, <1>2
<1>4. \A i \in DOMAIN d : ByteOk(K, d[i]) /\ \A E : ByteSafe(E, d[i])
  BY <1>2, NoPtrOk
<1>5. DataOk(K, d) /\ \A E : DataSafe(E, d)
  BY <1>3, <1>4 DEF DataOk, DataSafe
<1>6. QED
  BY <1>5 DEF d

LEMMA StoreKeeps == ASSUME IInv, ExecStore PROVE IInv'
<1>1. PICK a \in Head(todo).a :
       LET reg  == regs[a[1]]
           data == valueToBytes(a[2], a[3], {}, 0, asg.sub)
           d    == isDereferenceable(mem, reg, getStoreByteSize(a[3]), TRUE)
       IN  Done(store(mem, d.reg, data, AnyTy), RefWrite(ref, reg.cur.p, data), d.ok,
                RefOk(ref, reg, getStoreByteSize(a[3]), TRUE), << >>)
  BY Zenon DEF ExecStore
<1> DEFINE reg  == regs[a[1]]
           data == valueToBytes(a[2], a[3], {}, 0, asg.sub)
           d    == isDereferenceable(mem, reg, getStoreByteSize(a[3]), TRUE)
           q    == store(mem, d.reg, data, AnyTy)
           r    == RefWrite(ref, reg.cur.p, data)
           rok  == RefOk(ref, reg, getStoreByteSize(a[3]), TRUE)
<1>2. Done(q, r, d.ok, rok, << >>)
  BY <1>1, Zenon
<1>3. todo # << >> /\ UNCHANGED <<nextl, calls>>
  BY DEF ExecStore, Ready, Quiet
<1>4. a[3] \in Nat \ {PtrTy}
  <2>1. Ready("store")
    BY DEF ExecStore
  <2>2. Head(todo) \in Ops /\ Head(todo).k = "store"
    BY <2>1, HeadOk
  <2>3. QED
    BY <2>2, ProgramsAssumption
<1>5. DataOk(Known, data) /\ \A E : DataSafe(E, data)
  BY <1>4, IntData
<1> HIDE DEF data, d, rok
<1>6. MemStep(Known, mem, q) /\ (MemSafe(mem) => MemSafe(q))
  BY <1>5, StateOk, StoreOk
<1>7. GivenKept(ref, r)
  BY StateOk, RefWriteKeeps
<1> HIDE DEF q, r
<1>8. ResultOk(Known, q, r, << >>, nextl)
  BY <1>6, <1>7, StepResult
<1>9. QED
  BY <1>2, <1>3, <1>8, QuietKeeps

\* What MayEscape says depends on the leaves only.
LEMMA SameLeavesEscape ==
  ASSUME NEW m, NEW r1, NEW r2, r1.leaves = r2.leaves
  PROVE  MayEscape(m, r1) = MayEscape(m, r2)
  BY DEF MayEscape

\* A pointer that is stored escapes.
LEMMA StoredEscapes ==
  ASSUME NEW K, NEW m, MemOk(K, m), NEW val, val.np, NEW data, NEW i \in DOMAIN data,
         data[i].ptr, data[i].pnp, data[i].sh = val.leaves
  PROVE  m.esc \cup MayEscape(m, val) \subseteq Escaped(m, data).esc
<1> DEFINE X == UNION { MayEscape(m, Reg(data[j].sh, {}, TRUE)) :
                        j \in { k \in DOMAIN data : data[k].ptr /\ data[k].pnp } }
           R == Reg(data[i].sh, {}, TRUE)
<1>1. Escaped(m, data) = [m EXCEPT !.esc = @ \cup X]
  BY DEF Escaped
<1>2. MayEscape(m, R) \subseteq X
  OBVIOUS
<1>3. R.leaves = data[i].sh
  BY DEF Reg
<1> HIDE DEF X, R
<1>4. MayEscape(m, R) = MayEscape(m, val)
  BY <1>3, SameLeavesEscape
<1>5. Escaped(m, data).esc = m.esc \cup X
  BY <1>1 DEF MemOk
<1>6. QED
  BY <1>2, <1>4, <1>5

LEMMA StorePtrKeeps == ASSUME IInv, ExecStorePtr PROVE IInv'
<1>1. PICK a \in Head(todo).a :
       LET reg  == regs[a[1]]
           val  == regs[a[2]]
           data == valueToBytes([v |-> val.cur.p, np |-> val.np], PtrTy, val.leaves, 0, asg.sub)
           d    == isDereferenceable(mem, reg, ptr_bytes, TRUE)
       IN  /\ Defined(a[1]) /\ Defined(a[2])
           /\ Done(store(mem, d.reg, data, AnyTy), Give(RefWrite(ref, reg.cur.p, data), val), d.ok,
                   RefOk(ref, reg, ptr_bytes, TRUE), << >>)
  BY Zenon DEF ExecStorePtr
<1> DEFINE reg  == regs[a[1]]
           val  == regs[a[2]]
           data == valueToBytes([v |-> val.cur.p, np |-> val.np], PtrTy, val.leaves, 0, asg.sub)
           d    == isDereferenceable(mem, reg, ptr_bytes, TRUE)
           q    == store(mem, d.reg, data, AnyTy)
           w    == RefWrite(ref, reg.cur.p, data)
           r    == Give(w, val)
           rok  == RefOk(ref, reg, ptr_bytes, TRUE)
<1>2. Defined(a[2]) /\ Done(q, r, d.ok, rok, << >>)
  BY <1>1, Zenon
<1>3. todo # << >> /\ UNCHANGED <<nextl, calls>>
  BY DEF ExecStorePtr, Ready, Quiet
<1>4. RegOk(Known, val) /\ (Active => RegSafe(mem.esc, nextl, val))
  BY <1>2, OperandOk
<1> HIDE DEF val, d, rok
<1>5. /\ DOMAIN data = 0 .. ptr_bytes - 1 /\ DataOk(Known, data) /\ DOMAIN data # {}
      /\ \A i \in DOMAIN data : /\ data[i].ptr /\ data[i].p = val.cur.p
                                /\ data[i].pnp = val.np /\ data[i].sh = val.leaves
  <2> DEFINE p  == val.cur.p
             np == val.np
             sh == val.leaves
             z  == 0
             s  == asg.sub
             K  == Known
             x  == valueToBytes([v |-> p, np |-> np], PtrTy, sh, z, s)
  <2>1. PtrOk(p) /\ \A lf \in sh : LeafOk(K, lf)
    BY <1>4 DEF RegOk, LeafOk
  <2>2. data = x
    OBVIOUS
  <2> HIDE DEF p, np, sh, z, s, K, data
  <2>a. DataOk(K, x)
    BY <2>1, PtrBytes
  <2>3. /\ DOMAIN x = 0 .. ptr_bytes - 1 /\ DataOk(K, x) /\ DOMAIN x # {}
        /\ \A i \in DOMAIN x : x[i].ptr /\ x[i].p = p /\ x[i].pnp = np /\ x[i].sh = sh
    BY <2>1, <2>a, PtrBytes
  <2> HIDE DEF x
  <2>4. QED
    BY <2>2, <2>3 DEF p, np, sh, K
<1> HIDE DEF data
<1>6. GivenKept(ref, w)
  BY StateOk, RefWriteKeeps
<1>7. /\ MemStep(Known, mem, q) /\ q.esc = Escaped(mem, data).esc
      /\ MemSafe(mem) /\ DataSafe(q.esc, data) => MemSafe(q)
  <2> DEFINE dr == d.reg
             ty == AnyTy
             K  == Known
             m  == mem
             x  == store(m, dr, data, ty)
  <2>1. q = x /\ MemOk(K, m)
    BY StateOk
  <2>2. DataOk(K, data) /\ DOMAIN data # {}
    BY <1>5
  <2> HIDE DEF dr, ty, K, m, q
  <2>3. /\ MemStep(K, m, x) /\ x.esc = Escaped(m, data).esc
        /\ MemSafe(m) /\ DataSafe(x.esc, data) => MemSafe(x)
    BY <2>1, <2>2, StoreOk
  <2> HIDE DEF x
  <2>4. QED
    BY <2>1, <2>3 DEF K, m
<1> HIDE DEF q, w
<1>8. ASSUME Active, val.np, val.cur.p.log, val.cur.p.local
      PROVE  val.cur.p.bid \in q.esc
  <2>1. val.cur.p.bid \in mem.esc \cup MayEscape(mem, val)
    BY <1>4, <1>8, StateOk, EscapeCovers
  <2>2. PICK i \in DOMAIN data : data[i].ptr /\ data[i].pnp /\ data[i].sh = val.leaves
    BY <1>5, <1>8
  <2>3. mem.esc \cup MayEscape(mem, val) \subseteq Escaped(mem, data).esc
    BY <1>8, <2>2, StateOk, StoredEscapes
  <2>4. QED
    BY <1>7, <2>1, <2>3
<1>9. Active => MemSafe(q)
  <2>1. Active => DataSafe(q.esc, data)
    BY <1>5, <1>8 DEF DataSafe, ByteSafe
  <2>2. QED
    BY <1>7, <2>1, StateOk
<1>10. RefTyped(r) /\ (Active => r.given \subseteq q.esc)
  <2>1. RefTyped(r) /\ r.given = IF val.np /\ val.cur.p.log /\ val.cur.p.local
                                 THEN w.given \cup {val.cur.p.bid} ELSE w.given
    BY <1>6, GiveOk DEF GivenKept
  <2> HIDE DEF r
  <2>2. Active => w.given \subseteq q.esc
    BY <1>6, <1>7, StateOk DEF GivenKept, MemStep
  <2>3. QED
    BY <1>8, <2>1, <2>2
<1> HIDE DEF r
<1>11. ResultOk(Known, q, r, << >>, nextl)
  BY <1>7, <1>9, <1>10, NoNewRegs DEF ResultOk
<1>12. QED
  BY <1>2, <1>3, <1>11, QuietKeeps

\* The load of an integer changes no memory.
LEMMA LoadKeeps == ASSUME IInv, ExecLoad PROVE IInv'
<1>1. PICK ok, rok : Done(mem, ref, ok, rok, << >>)
  BY Zenon DEF ExecLoad
<1>2. todo # << >> /\ UNCHANGED <<nextl, calls>>
  BY DEF ExecLoad, Ready
<1>3. ResultOk(Known, mem, ref, << >>, nextl)
  BY RegResult, NoNewRegs
<1>4. QED
  BY <1>1, <1>2, <1>3, QuietKeeps

LEMMA MemsetKeeps == ASSUME IInv, ExecMemset PROVE IInv'
<1>1. PICK a \in Head(todo).a :
       LET reg  == regs[a[1]]
           byte == valueToBytes(a[2], bits_byte, {}, 0, asg.sub)[0]
           d    == isDereferenceable(mem, reg, a[3], TRUE)
       IN  Done(memset(mem, d.reg, a[2], a[3]),
                RefWrite(ref, reg.cur.p, [i \in 0 .. a[3] - 1 |-> byte]), d.ok,
                RefOk(ref, reg, a[3], TRUE), << >>)
  BY Zenon DEF ExecMemset
<1> DEFINE reg  == regs[a[1]]
           data == [i \in 0 .. a[3] - 1 |-> valueToBytes(a[2], bits_byte, {}, 0, asg.sub)[0]]
           d    == isDereferenceable(mem, reg, a[3], TRUE)
           q    == memset(mem, d.reg, a[2], a[3])
           r    == RefWrite(ref, reg.cur.p, data)
           rok  == RefOk(ref, reg, a[3], TRUE)
<1>2. Done(q, r, d.ok, rok, << >>)
  BY <1>1, Zenon
<1>3. todo # << >> /\ UNCHANGED <<nextl, calls>>
  BY DEF ExecMemset, Ready, Quiet
<1>4. a[3] \in Nat
  <2>1. Ready("memset")
    BY DEF ExecMemset
  <2>2. Head(todo) \in Ops /\ Head(todo).k = "memset"
    BY <2>1, HeadOk
  <2>3. QED
    BY <2>2, ProgramsAssumption
<1> HIDE DEF data, d, rok
<1>5. MemStep(Known, mem, q) /\ (MemSafe(mem) => MemSafe(q))
  BY <1>4, StateOk, MemsetOk
<1>6. GivenKept(ref, r)
  BY StateOk, RefWriteKeeps
<1> HIDE DEF q, r
<1>7. ResultOk(Known, q, r, << >>, nextl)
  BY <1>5, <1>6, StepResult
<1>8. QED
  BY <1>2, <1>3, <1>7, QuietKeeps

LEMMA MemcpyKeeps == ASSUME IInv, ExecMemcpy PROVE IInv'
<1>1. PICK a \in Head(todo).a :
       LET dst == regs[a[1]]
           src == regs[a[2]]
           n   == a[3]
           dd  == isDereferenceable(mem, dst, n, TRUE)
           ds  == isDereferenceable(mem, src, n, FALSE)
           rok == RefOk(ref, dst, n, TRUE) /\ RefOk(ref, src, n, FALSE)
       IN  /\ Defined(a[1]) /\ Defined(a[2])
           /\ Done(memcpy(mem, dd.reg, ds.reg, n),
                   IF rok THEN RefWrite(ref, dst.cur.p, RefRead(ref, src.cur.p, n)) ELSE ref,
                   dd.ok /\ ds.ok /\ (a[4] \/ isDisjointOrEqual(src.cur.p, n, dst.cur.p, n)),
                   rok /\ (a[4] \/ isDisjointOrEqual(src.cur.p, n, dst.cur.p, n)), << >>)
  BY Zenon DEF ExecMemcpy
<1> DEFINE dst == regs[a[1]]
           src == regs[a[2]]
           n   == a[3]
           dd  == isDereferenceable(mem, dst, n, TRUE)
           ds  == isDereferenceable(mem, src, n, FALSE)
           rok == RefOk(ref, dst, n, TRUE) /\ RefOk(ref, src, n, FALSE)
           q   == memcpy(mem, dd.reg, ds.reg, n)
           w   == RefWrite(ref, dst.cur.p, RefRead(ref, src.cur.p, n))
           r   == IF rok THEN w ELSE ref
           ok1 == dd.ok /\ ds.ok /\ (a[4] \/ isDisjointOrEqual(src.cur.p, n, dst.cur.p, n))
           ok2 == rok /\ (a[4] \/ isDisjointOrEqual(src.cur.p, n, dst.cur.p, n))
<1>2. Defined(a[2]) /\ Done(q, r, ok1, ok2, << >>)
  BY <1>1, Zenon
<1>3. todo # << >> /\ UNCHANGED <<nextl, calls>>
  BY DEF ExecMemcpy, Ready, Quiet
<1>4. n \in Nat
  <2>1. Ready("memcpy")
    BY DEF ExecMemcpy
  <2>2. Head(todo) \in Ops /\ Head(todo).k = "memcpy"
    BY <2>1, HeadOk
  <2>3. QED
    BY <2>2, ProgramsAssumption
<1>5. RegOk(Known, ds.reg)
  BY <1>2, OperandOk, StateOk, DerefTyped
<1> HIDE DEF dd, ds, ok1, ok2, rok, n
<1>6. MemStep(Known, mem, q) /\ (MemSafe(mem) => MemSafe(q))
  BY <1>4, <1>5, StateOk, MemcpyOk
<1>7. GivenKept(ref, r)
  <2>1. GivenKept(ref, w) /\ GivenKept(ref, ref)
    BY StateOk, RefWriteKeeps DEF GivenKept
  <2> HIDE DEF w
  <2>2. QED
    BY <2>1
<1> HIDE DEF q, r
<1>8. ResultOk(Known, q, r, << >>, nextl)
  BY <1>6, <1>7, StepResult
<1>9. QED
  BY <1>2, <1>3, <1>8, QuietKeeps

\* A pointer to a local block that is loaded is one to a block that escaped.
LEMMA LoadPtrKeeps == ASSUME IInv, ExecLoadPtr PROVE IInv'
<1>1. PICK i \in Head(todo).a, forward \in BOOLEAN :
       LET reg == regs[i]
           d   == isDereferenceable(mem, reg, ptr_bytes, FALSE)
           l   == load(mem, d.reg, ptr_bytes)
           v   == PtrOfBytes(asg.base, l.bytes, [j \in 0 .. ptr_bytes - 1 |-> l.type])
           lvs == l.shape \cup (IF "int" \in l.type THEN {Const(Logical(FALSE, 0, v.v.off, {}))} ELSE {})
           cur == { lf \in lvs : lf.p = v.v }
       IN  /\ Defined(i)
           /\ forward => cur # {}
           /\ Done(mem, ref, d.ok, RefOk(ref, reg, ptr_bytes, FALSE),
                   << IF forward THEN Reg(lvs, CHOOSE lf \in cur : TRUE, v.np)
                      ELSE Reg({Leaf("load", 0, v.v)}, Leaf("load", 0, v.v), v.np) >>)
  BY Zenon DEF ExecLoadPtr
<1> DEFINE reg == regs[i]
           d   == isDereferenceable(mem, reg, ptr_bytes, FALSE)
           l   == load(mem, d.reg, ptr_bytes)
           ts  == [j \in 0 .. ptr_bytes - 1 |-> l.type]
           v   == PtrOfBytes(asg.base, l.bytes, ts)
           one == Const(Logical(FALSE, 0, v.v.off, {}))
           lvs == l.shape \cup (IF "int" \in l.type THEN {one} ELSE {})
           cur == { lf \in lvs : lf.p = v.v }
           x   == CHOOSE lf \in cur : TRUE
           r1  == Reg(lvs, x, v.np)
           r2  == Reg({Leaf("load", 0, v.v)}, Leaf("load", 0, v.v), v.np)
           q   == IF forward THEN r1 ELSE r2
           rok == RefOk(ref, reg, ptr_bytes, FALSE)
<1>2. Defined(i) /\ (forward => cur # {}) /\ Done(mem, ref, d.ok, rok, << q >>)
  BY <1>1, Zenon
<1>3. todo # << >> /\ UNCHANGED <<nextl, calls>>
  BY DEF ExecLoadPtr, Ready
<1>4. \A lf \in d.reg.leaves : LeafOk(Known, lf)
  BY <1>2, OperandOk, StateOk, DerefTyped DEF RegOk
<1> HIDE DEF d, rok
<1>5. LoadOk(Known, mem, l, ptr_bytes)
  BY <1>4, StateOk, LoadGives
<1> HIDE DEF l, ts
<1>6. /\ PtrOk(v.v)
      /\ \A E : v.np /\ v.v.local /\ v.v.log /\ (\A j \in 0 .. ptr_bytes - 1 : ByteSafe(E, l.bytes[j]))
                  => v.v.bid \in E
  BY <1>5, LoadedPtr DEF LoadOk
<1> HIDE DEF v
<1>7. Active /\ v.np /\ v.v.local /\ v.v.log => v.v.bid \in mem.esc
  BY <1>5, <1>6, StateOk DEF LoadOk
<1>8. LeafOk(Known, one)
  <2> DEFINE F == FALSE
             z == 0
             e == {}
  <2>1. one = Const(Logical(F, z, v.v.off, e)) /\ F \in BOOLEAN
    OBVIOUS
  <2>a. z \in Nat /\ z <= max_program_nonlocal_bid
    BY NullBid
  <2> DEFINE off == v.v.off
  <2> HIDE DEF F, z, e, one, off
  <2>2. QED
    BY <2>1, <2>a, ConstMade DEF off
<1> HIDE DEF one
<1>9. \A lf \in lvs : LeafOk(Known, lf)
  BY <1>5, <1>8 DEF LoadOk
<1> HIDE DEF lvs
<1>10. ASSUME forward PROVE RegOk(Known, r1) /\ r1.cur.p = v.v /\ r1.np = v.np /\ CurIsLeaf(r1)
  <2>1. x \in cur
    BY <1>2, <1>10, Zenon
  <2>2. LeafOk(Known, x) /\ x.p = v.v /\ x \in lvs
    BY <1>9, <2>1
  <2> DEFINE np == v.np
             K  == Known
  <2>3. r1 = Reg(lvs, x, np) /\ LeafOk(K, x) /\ \A lf \in lvs : LeafOk(K, lf)
    BY <1>9, <2>2
  <2> HIDE DEF x, np, K, r1
  <2> DEFINE R == Reg(lvs, x, np)
  <2>4. RegOk(K, R) /\ R.cur = x /\ R.leaves = lvs /\ R.np = np
    BY <2>3 DEF Reg, RegOk
  <2> HIDE DEF R
  <2>5. RegOk(K, r1) /\ r1.cur = x /\ r1.leaves = lvs /\ r1.np = np
    BY <2>3, <2>4 DEF R
  <2>6. QED
    BY <2>2, <2>5 DEF CurIsLeaf, np, K
<1>11. RegOk(Known, r2) /\ r2.cur.p = v.v /\ r2.np = v.np /\ CurIsLeaf(r2)
  <2> DEFINE org == "load"
             id  == 0
             p   == v.v
             np  == v.np
  <2>1. /\ r2 = Reg({Leaf(org, id, p)}, Leaf(org, id, p), np) /\ PtrOk(p)
        /\ org \notin {"init", "input", "fnret"} /\ id = 0
    BY <1>6
  <2> HIDE DEF org, id, r2, p, np
  <2>a. OriginOk(Known, Leaf(org, id, p))
    BY <2>1, PlainOrigin
  <2>2. RegOk(Known, r2) /\ r2.cur.p = p /\ r2.np = np /\ CurIsLeaf(r2)
    BY <2>1, <2>a, OneLeaf DEF CurIsLeaf
  <2>3. QED
    BY <2>2 DEF p, np
<1> HIDE DEF r1, r2
<1>12. RegOk(Known, q) /\ q.cur.p = v.v /\ q.np = v.np /\ CurIsLeaf(q)
  <2>1. CASE forward
    <3>1. q = r1
      BY <2>1, Zenon
    <3> HIDE DEF q
    <3>2. QED
      BY <2>1, <3>1, <1>10
  <2>2. CASE ~forward
    <3>1. q = r2
      BY <2>2, Zenon
    <3> HIDE DEF q
    <3>2. QED
      BY <3>1, <1>11
  <2>3. QED
    BY <2>1, <2>2
<1> HIDE DEF q
<1>13. Active => RegSafe(mem.esc, nextl, q)
  BY <1>7, <1>12 DEF RegSafe
<1>14. NewRegsOk(Known, mem, << q >>, nextl)
  BY <1>12, <1>13 DEF NewRegsOk
<1>15. ResultOk(Known, mem, ref, << q >>, nextl)
  BY <1>14, RegResult
<1>16. QED
  BY <1>2, <1>3, <1>15, QuietKeeps

-----------------------------------------------------------------------------
(* Calls. *)

\* The pointer a callee returns is one of the blocks that are known for its key.
LEMMA FnRetReg ==
  ASSUME NEW K, NEW id, NEW p, PtrOk(p), <<id, BlockOf(p)>> \in K.rets
  PROVE  RegOk(K, FnRet(id, p)) /\ CurIsLeaf(FnRet(id, p)) /\ FnRet(id, p).cur.p = p
<1> DEFINE org == "fnret"
           np  == TRUE
           lf  == Leaf(org, id, p)
           R   == Reg({lf}, lf, np)
<1>1. FnRet(id, p) = R
  BY DEF FnRet
<1>2. OriginOk(K, lf)
  BY DEF OriginOk, Leaf
<1>3. LeafOk(K, lf) /\ lf.p = p
  BY <1>2 DEF LeafOk, Leaf
<1> HIDE DEF org, np, lf
<1>4. RegOk(K, R) /\ R.cur = lf /\ R.leaves = {lf}
  BY <1>3 DEF RegOk, Reg
<1> HIDE DEF R
<1>5. RegOk(K, R) /\ CurIsLeaf(R) /\ R.cur.p = p
  BY <1>3, <1>4 DEF CurIsLeaf
<1>6. QED
  BY <1>1, <1>5

\* A new callee: the blocks that it may return are added to ptr_alias.
LEMMA FnRetKeeps ==
  ASSUME NEW K, NEW K2, Grows(K, K2), NEW m, MemOk(K, m), NEW id, NEW b,
         K2.rets = K.rets \cup {<<id, b>>}, id # 0, id # 1, \A x \in K.rets : x[1] # id,
         b \in ({TRUE} \X m.esc) \cup ({FALSE} \X (0 .. nextNonlocalBid(m)))
  PROVE  SameContents(K2, m, mkFnRet(m, id))
<1> DEFINE B == ({TRUE} \X m.esc) \cup ({FALSE} \X (0 .. nextNonlocalBid(m)))
           n == m.nextnl + 1
           a == [k \in DOMAIN m.alias \cup {id} |-> IF k = id THEN B ELSE m.alias[k]]
           q == [m EXCEPT !.nextnl = n, !.alias = a]
<1>1. mkFnRet(m, id) = q
  BY DEF mkFnRet, MemOk
<1>2. n \in Nat /\ b \in B
  <2>1. b \in B
    BY Zenon
  <2>2. m.nextnl \in Nat
    BY Zenon DEF MemOk
  <2> HIDE DEF B
  <2>3. QED
    BY <2>1, <2>2
<1> HIDE DEF B
<1>3. DOMAIN a = DOMAIN m.alias \cup {id} /\ a[id] = B /\ \A k \in DOMAIN m.alias : k # id => a[k] = m.alias[k]
  OBVIOUS
<1> HIDE DEF n, a
<1>4. /\ DOMAIN q = DOMAIN m /\ q.val = m.val /\ q.esc = m.esc /\ q.lblk = m.lblk
      /\ q.alias = a /\ q.nextnl = n
  BY DEF MemOk
<1> HIDE DEF q
<1>5. AliasOk(K2, a)
  <2>1. AliasOk(K, m.alias)
    BY DEF MemOk
  <2>2. 0 \notin DOMAIN a /\ 1 \in DOMAIN a /\ a[1] = {FALSE} \X (0 .. NumGlobals + 1)
    BY <2>1, <1>3 DEF AliasOk
  <2>3. \A k \in DOMAIN a : k = 1 \/ \E x \in K2.rets : x[1] = k
    <3>1. <<id, b>>[1] = id /\ <<id, b>> \in K2.rets /\ K.rets \subseteq K2.rets
      OBVIOUS
    <3>2. QED
      BY <2>1, <1>3, <3>1 DEF AliasOk
  <2>4. ASSUME NEW x \in K2.rets, x[1] \in DOMAIN a PROVE x[2] \in a[x[1]]
    <3>1. CASE x \in K.rets
      <4>1. x[1] # id /\ x[1] \in DOMAIN m.alias
        BY <3>1, <2>4, <1>3
      <4>2. x[2] \in m.alias[x[1]]
        BY <3>1, <4>1, <2>1 DEF AliasOk
      <4>3. QED
        BY <4>1, <4>2, <1>3
    <3>2. CASE x = <<id, b>>
      BY <3>2, <1>2, <1>3
    <3>3. QED
      BY <3>1, <3>2
  <2>5. QED
    BY <2>2, <2>3, <2>4 DEF AliasOk
<1>6. \A blk \in ReadBlocks, o \in Offsets : ByteOk(K2, m.val[blk][o])
  BY ByteGrows DEF MemOk, Grows
<1>7. \A i \in DOMAIN m.lblk : i \in Nat /\ i < K2.n
  BY MemoryAssumption DEF MemOk, Grows, Local
<1>8. SameContents(K2, m, q)
  BY <1>2, <1>4, <1>5, <1>6, <1>7 DEF SameContents, MemOk
<1>9. QED
  BY <1>1, <1>8

\* A callee writes no pointer to a local block.
LEMMA SetStateOk ==
  ASSUME NEW K, NEW m, MemOk(K, m), NEW out, OutOk(out), NEW acc, NEW arg
  PROVE  LET q == setState(m, out, acc, arg)
         IN  MemOk(K, q) /\ q.esc = m.esc /\ (MemSafe(m) => MemSafe(q))
<1> DEFINE mod == { b \in Writable : modifies(m, out, acc, arg, b) }
           may == { b \in Writable : MayModify(m, acc, arg, b) }
           dies(blk) == /\ ~blk[1] /\ canAccess(acc) /\ blk[2] \in out.frees
                        /\ ~is_fncall_mem(blk[2]) /\ asg.kind[blk[2]] = "malloc"
           v   == [blk \in AllBlocks |-> IF ~blk[1] /\ blk[2] \in mod
                                         THEN out.val[blk[2]] ELSE m.val[blk]]
           s   == [b \in Nonlocal |->
                     IF is_fncall_mem(b)
                     THEN [offs |-> IF b \in may THEN {} ELSE m.stored[b].offs, all |-> TRUE]
                     ELSE IF b \in may THEN [offs |-> {}, all |-> FALSE] ELSE m.stored[b]]
           l   == [blk \in AllBlocks |->
                     IF dies(blk) THEN [m.live[blk] EXCEPT !.cur = FALSE] ELSE m.live[blk]]
           w   == [m EXCEPT !.val = v, !.stored = s, !.live = l]
           q   == setState(m, out, acc, arg)
<1>1. q = IF ~canWriteSomething(acc) THEN m ELSE w
  BY DEF setState, MemOk
<1>2. ASSUME NEW blk \in ReadBlocks, NEW o \in Offsets
      PROVE  ByteOk(K, v[blk][o]) /\ (MemSafe(m) => ByteSafe(m.esc, v[blk][o]))
  <2>1. v[blk] = IF ~blk[1] /\ blk[2] \in mod THEN out.val[blk[2]] ELSE m.val[blk]
    BY <1>2 DEF ReadBlocks
  <2>2. mod \subseteq Writable
    OBVIOUS
  <2> HIDE DEF v, mod
  <2>3. CASE ~blk[1] /\ blk[2] \in mod
    <3>1. v[blk] = out.val[blk[2]]
      BY <2>1, <2>3, Zenon
    <3>2. OutsideByte(v[blk][o])
      BY <1>2, <2>2, <2>3, <3>1 DEF OutOk, BlockOk
    <3>3. QED
      BY <3>2, OutsideByteOk
  <2>4. CASE ~(~blk[1] /\ blk[2] \in mod)
    <3>1. v[blk] = m.val[blk]
      BY <2>1, <2>4, Zenon
    <3>2. QED
      BY <1>2, <3>1 DEF MemOk, MemSafe
  <2>5. QED
    BY <2>3, <2>4
<1>3. DOMAIN v = AllBlocks
  OBVIOUS
<1> HIDE DEF v, s, l
<1>4. /\ DOMAIN w = DOMAIN m /\ w.val = v /\ w.esc = m.esc /\ w.lblk = m.lblk
      /\ w.alias = m.alias /\ w.nextnl = m.nextnl
  BY DEF MemOk
<1> HIDE DEF w
<1>5. MemOk(K, w) /\ w.esc = m.esc /\ (MemSafe(m) => MemSafe(w))
  BY <1>2, <1>3, <1>4 DEF MemOk, MemSafe
<1>6. q = m \/ q = w
  BY <1>1, Zenon
<1> HIDE DEF q
<1>7. MemOk(K, q) /\ q.esc = m.esc /\ (MemSafe(m) => MemSafe(q))
  BY <1>5, <1>6
<1>8. QED
  BY <1>7 DEF q

LEMMA AfterCallOk ==
  ASSUME NEW K, NEW m, MemOk(K, m), NEW out, OutOk(out), NEW acc, NEW arg
  PROVE  LET q == AfterCall(m, arg, acc, out)
         IN  MemOk(K, q) /\ q.esc = m.esc /\ (MemSafe(m) => MemSafe(q))
<1> DEFINE s == setState(m, out, acc, arg)
           g == inc(s.ranges, acc, canWriteSomething(acc))
           q == [s EXCEPT !.ranges = g]
<1>1. MemOk(K, s) /\ s.esc = m.esc /\ (MemSafe(m) => MemSafe(s))
  BY SetStateOk
<1>2. AfterCall(m, arg, acc, out) = q
  BY <1>1 DEF AfterCall, MemOk
<1> HIDE DEF s, g
<1>3. /\ DOMAIN q = DOMAIN s /\ q.val = s.val /\ q.esc = s.esc /\ q.lblk = s.lblk
      /\ q.alias = s.alias /\ q.nextnl = s.nextnl
  BY <1>1 DEF MemOk
<1> HIDE DEF q
<1>4. MemOk(K, q) /\ q.esc = m.esc /\ (MemSafe(m) => MemSafe(q))
  BY <1>1, <1>3 DEF MemOk, MemSafe
<1>5. QED
  BY <1>2, <1>4

\* The argument of a callee that writes escapes.
LEMMA PassedOk ==
  ASSUME IInv, NEW i, Defined(i), NEW acc
  PROVE  ResultOk(Known, Passed(mem, regs[i], acc), RefPassed(ref, regs[i], acc), << >>, nextl)
<1>1. CASE canWriteSomething(acc)
  BY <1>1, EscapeResult DEF Passed, RefPassed
<1>2. CASE ~canWriteSomething(acc)
  <2>1. ResultOk(Known, mem, ref, << >>, nextl)
    BY RegResult, NoNewRegs
  <2>2. QED
    BY <1>2, <2>1 DEF Passed, RefPassed
<1>3. QED
  BY <1>1, <1>2

\* x is the memory the argument was passed in, with what is known of the callee.
LEMMA CallResult ==
  ASSUME IInv, NEW i, Defined(i), NEW acc, NEW out, OutOk(out), NEW id, NEW n, NEW K,
         CanReturn(RefPassed(ref, regs[i], acc), out.ret), <<id, BlockOf(out.ret)>> \in K.rets,
         NEW x, SameContents(K, Passed(mem, regs[i], acc), x)
  PROVE  ResultOk(K, AfterCall(x, regs[i], acc, out),
                  RefCall(RefPassed(ref, regs[i], acc), regs[i], acc, out, n),
                  << FnRet(id, out.ret) >>, nextl)
<1> DEFINE m    == Passed(mem, regs[i], acc)
           r    == RefPassed(ref, regs[i], acc)
           arg  == regs[i]
           c    == RefCall(r, arg, acc, out, n)
           q    == AfterCall(x, arg, acc, out)
           p    == out.ret
           reg  == FnRet(id, p)
<1>1. ResultOk(Known, m, r, << >>, nextl)
  BY PassedOk
<1>2. CanReturn(r, p) /\ SameContents(K, m, x)
  OBVIOUS
<1> HIDE DEF m, r, arg
<1>3. RefTyped(r) /\ mem.esc \subseteq m.esc /\ (Active => MemSafe(m) /\ r.given \subseteq m.esc)
  BY <1>1 DEF ResultOk, MemStep
<1>4. MemOk(K, x) /\ x.esc = m.esc /\ (MemSafe(m) => MemSafe(x))
  BY <1>2, SameContentsStep DEF SameContents
<1>5. MemOk(K, q) /\ q.esc = x.esc /\ (MemSafe(x) => MemSafe(q))
  BY <1>4, AfterCallOk
<1>6. RegOk(K, reg) /\ CurIsLeaf(reg) /\ reg.cur.p = p
  <2>1. PtrOk(p) /\ <<id, BlockOf(p)>> \in K.rets
    BY DEF OutOk
  <2> HIDE DEF p
  <2>2. QED
    BY <2>1, FnRetReg
<1>7. GivenKept(r, c)
  BY <1>3, RefCallKeeps
<1> HIDE DEF q, reg, c, p
<1>8. Active => RegSafe(q.esc, nextl, reg)
  BY <1>2, <1>3, <1>4, <1>5, <1>6 DEF CanReturn, RegSafe
<1>9. NewRegsOk(K, q, << reg >>, nextl)
  BY <1>6, <1>8 DEF NewRegsOk
<1>10. ResultOk(K, q, c, << reg >>, nextl)
  BY <1>3, <1>4, <1>5, <1>7, <1>9 DEF ResultOk, MemStep, GivenKept
<1>11. QED
  BY <1>10, Zenon DEF q, c, reg, m, r, arg, p

\* The output of a new call of the source.
LEMMA MarkedOk ==
  ASSUME NEW o \in Outputs, NEW k, PtrOk(o.ret),
         \A b \in Writable : mkNonlocalValAxioms(WithMark(o, k).val[b])
  PROVE  OutOk(WithMark(o, k)) /\ WithMark(o, k).ret = o.ret
<1> DEFINE v == [b \in Nonlocal |-> IF is_fncall_mem(b) THEN Mark(k) ELSE o.val[b]]
           w == o.writes \cup {get_fncallmem_bid}
           x == WithMark(o, k)
<1>1. x = [o EXCEPT !.val = v, !.writes = w]
  BY OutputsAssumption DEF WithMark
<1>2. \A b \in Writable : b \in Nonlocal /\ v[b] = IF is_fncall_mem(b) THEN Mark(k) ELSE o.val[b]
  BY DEF Writable
<1> HIDE DEF v, w
<1>3. x.val = v /\ x.ret = o.ret
  BY <1>1, OutputsAssumption
<1> HIDE DEF x
<1>a. \A b \in Writable : mkNonlocalValAxioms(v[b])
  BY <1>3, Zenon DEF x
<1>4. ASSUME NEW b \in Writable, NEW off \in Offsets PROVE OutsideByte(v[b][off])
  <2>1. CASE is_fncall_mem(b)
    <3>1. v[b] = Mark(k)
      BY <1>2, <1>4, <2>1
    <3>2. ~Mark(k)[off].ptr
      <4> DEFINE np == Ones(bits_byte)
                 vl == k % 2 ^ bits_byte
                 z  == 0
      <4>1. Mark(k)[off] = IntByte(vl, np, z, k)
        BY <1>4 DEF Mark
      <4> HIDE DEF np, vl, z
      <4>2. QED
        BY <4>1 DEF IntByte
    <3>3. QED
      BY <3>1, <3>2 DEF OutsideByte, ByteTyped
  <2>2. CASE ~is_fncall_mem(b)
    <3>1. v[b] = o.val[b] /\ b \in Nonlocal
      BY <1>2, <1>4, <2>2
    <3>2. ByteTyped(v[b][off]) /\ OwnShape("callmem", v[b][off])
      BY <3>1, <1>4, OutputsAssumption
    <3>3. v[b][off].ptr => ~v[b][off].p.local /\ v[b][off].p.bid <= max_program_nonlocal_bid
      BY <1>a, <1>4 DEF mkNonlocalValAxioms
    <3>4. QED
      BY <3>2, <3>3 DEF OutsideByte
  <2>3. QED
    BY <2>1, <2>2
<1>5. \A b \in Writable : BlockOk(v[b])
  BY <1>4 DEF BlockOk
<1>6. OutOk(x) /\ x.ret = o.ret
  BY <1>3, <1>5 DEF OutOk
<1>7. QED
  BY <1>6 DEF x

\* The number of the next call is new.
LEMMA FreshId ==
  ASSUME IInv, NEW k, k = Cardinality(calls) + 1
  PROVE  /\ Cardinality(calls) \in Nat /\ 10 + k # 0 /\ 10 + k # 1
         /\ \A x \in Known.rets : x[1] # 10 + k
         /\ \A f : AliasOk(Known, f) => 10 + k \notin DOMAIN f
         /\ \A c \in calls : c.id # k
<1>1. Cardinality(calls) \in Nat /\ \A c \in calls : c.id \in 1 .. Cardinality(calls)
  BY StateOk, FS_CardinalityType DEF CallsOk
<1>2. ASSUME NEW x \in Known.rets PROVE x[1] # 10 + k
  <2>1. PICK c \in calls : x = <<10 + c.id, BlockOf(c.out.ret)>>
    BY <1>2 DEF Known
  <2>2. x[1] = 10 + c.id /\ c.id \in 1 .. Cardinality(calls)
    BY <2>1, <1>1
  <2>3. QED
    BY <2>2, <1>1
<1>3. 10 + k # 0 /\ 10 + k # 1 /\ \A c \in calls : c.id # k
  BY <1>1
<1>4. \A f : AliasOk(Known, f) => 10 + k \notin DOMAIN f
  BY <1>2, <1>3 DEF AliasOk
<1>5. QED
  BY <1>1, <1>2, <1>3, <1>4

\* One more call of the source.
LEMMA MoreCalls ==
  ASSUME IInv, NEW k, k = Cardinality(calls) + 1, NEW c, c.id = k, OutOk(c.out),
         calls' = calls \cup {c}, nextl' = nextl, NEW K, K = Known'
  PROVE  /\ Grows(Known, K) /\ (br.on => NewTo(Known, K, br.saved)) /\ CallsOk'
         /\ K.rets = Known.rets \cup {<<10 + k, BlockOf(c.out.ret)>>}
<1>1. K.rets = Known.rets \cup {<<10 + k, BlockOf(c.out.ret)>>} /\ K.n = nextl /\ Known.n = nextl
  BY DEF Known
<1>2. Grows(Known, K)
  BY <1>1, StateOk DEF Grows
<1>3. br.on => NewTo(Known, K, br.saved)
  <2> SUFFICES ASSUME br.on, NEW x \in K.rets \ Known.rets PROVE x[1] \notin DOMAIN br.saved.alias
    BY DEF NewTo
  <2>1. AliasOk(Known, br.saved.alias)
    BY DEF IInv, BranchOk, MemOk
  <2>2. x = <<10 + k, BlockOf(c.out.ret)>>
    BY <1>1
  <2>3. x[1] = 10 + k
    BY <2>2
  <2>4. QED
    BY <2>1, <2>3, FreshId
<1>4. CallsOk'
  <2>1. c \notin calls /\ Cardinality(calls) \in Nat
    BY FreshId
  <2>2. IsFiniteSet(calls') /\ Cardinality(calls') = k
    BY <2>1, StateOk, FS_AddElement DEF CallsOk
  <2>3. \A x \in calls' : x.id \in 1 .. k /\ OutOk(x.out)
    BY <2>1, StateOk DEF CallsOk
  <2>4. QED
    BY <2>2, <2>3 DEF CallsOk, OutOk, BlockOk
<1>5. QED
  BY <1>1, <1>2, <1>3, <1>4
\* A callee that is met for the first time returns a block that is its own.
LEMMA ReturnedBlock ==
  ASSUME NEW m, m.nextnl \in Nat, NEW p, PtrTyped(p), FnRetAxiom(m, p)
  PROVE  /\ PtrOk(p)
         /\ BlockOf(p) \in ({TRUE} \X m.esc) \cup ({FALSE} \X (0 .. nextNonlocalBid(m)))
<1>1. nextNonlocalBid(m) \in Nat /\ nextNonlocalBid(m) <= max_program_nonlocal_bid
  BY NullBid DEF nextNonlocalBid
<1>2. p.bid \in Nat /\ p.local \in BOOLEAN
  BY DEF PtrTyped
<1>3. CASE p.local
  <2>1. p.bid \in m.esc /\ p.local = TRUE
    BY <1>2, <1>3 DEF FnRetAxiom
  <2>2. QED
    BY <1>3, <2>1 DEF PtrOk, BlockOf
<1>4. CASE ~p.local
  <2>1. p.bid <= nextNonlocalBid(m) /\ p.local = FALSE
    BY <1>2, <1>4 DEF FnRetAxiom
  <2>2. p.bid \in 0 .. nextNonlocalBid(m) /\ p.bid <= max_program_nonlocal_bid
    BY <1>1, <1>2, <2>1, NullBid
  <2>3. QED
    BY <2>1, <2>2 DEF PtrOk, BlockOf
<1>5. QED
  BY <1>3, <1>4

\* A call of the source that repeats an earlier one.
LEMMA RepeatedCall ==
  ASSUME IInv, NEW i, Defined(i), NEW acc, NEW c \in calls, NEW ok, NEW rok, todo # << >>,
         UNCHANGED <<nextl, calls>>, CanReturn(RefPassed(ref, regs[i], acc), c.out.ret),
         Done(AfterCall(Passed(mem, regs[i], acc), regs[i], acc, c.out),
              RefCall(RefPassed(ref, regs[i], acc), regs[i], acc, c.out, c.id), ok, rok,
              << FnRet(10 + c.id, c.out.ret) >>)
  PROVE  IInv'
<1> DEFINE m   == Passed(mem, regs[i], acc)
           out == c.out
           id  == 10 + c.id
           n   == c.id
<1>1. OutOk(out) /\ CanReturn(RefPassed(ref, regs[i], acc), out.ret)
  BY StateOk DEF CallsOk
<1>2. <<id, BlockOf(out.ret)>> \in Known.rets
  BY DEF Known
<1>3. SameContents(Known, m, m)
  <2>1. ResultOk(Known, m, RefPassed(ref, regs[i], acc), << >>, nextl)
    BY PassedOk
  <2>2. QED
    BY <2>1 DEF ResultOk, MemStep, SameContents
<1> DEFINE K == Known
<1>4. <<id, BlockOf(out.ret)>> \in K.rets /\ SameContents(K, Passed(mem, regs[i], acc), m)
  BY <1>2, <1>3
<1>a. Done(AfterCall(m, regs[i], acc, out),
           RefCall(RefPassed(ref, regs[i], acc), regs[i], acc, out, n), ok, rok, << FnRet(id, out.ret) >>)
  BY Zenon
<1> HIDE DEF out, id, n, K, m
<1>5. ResultOk(K, AfterCall(m, regs[i], acc, out),
               RefCall(RefPassed(ref, regs[i], acc), regs[i], acc, out, n),
               << FnRet(id, out.ret) >>, nextl)
  BY <1>1, <1>4, CallResult
<1>6. QED
  BY <1>5, <1>a, QuietKeeps DEF K

\* A call of the source that is new.
LEMMA NewCall ==
  ASSUME IInv, NEW i, Defined(i), NEW acc, NEW k, k = Cardinality(calls) + 1, NEW o \in Outputs,
         NEW c, c.id = k, c.out = WithMark(o, k), todo # << >>,
         FnRetAxiom(Passed(mem, regs[i], acc), o.ret),
         \A b \in Writable : mkNonlocalValAxioms(c.out.val[b]),
         calls' = calls \cup {c}, nextl' = nextl, NEW ok, NEW rok,
         CanReturn(RefPassed(ref, regs[i], acc), c.out.ret),
         Done(AfterCall(mkFnRet(Passed(mem, regs[i], acc), 10 + k), regs[i], acc, c.out),
              RefCall(RefPassed(ref, regs[i], acc), regs[i], acc, c.out, c.id), ok, rok,
              << FnRet(10 + c.id, c.out.ret) >>)
  PROVE  IInv'
<1> DEFINE m   == Passed(mem, regs[i], acc)
           r   == RefPassed(ref, regs[i], acc)
           out == c.out
           id  == 10 + k
           b   == BlockOf(out.ret)
           x   == mkFnRet(m, id)
           K   == Known'
           q   == AfterCall(x, regs[i], acc, out)
           s   == RefCall(r, regs[i], acc, out, k)
<1>1. MemOk(Known, m)
  <2>1. ResultOk(Known, m, r, << >>, nextl)
    BY PassedOk
  <2>2. QED
    BY <2>1 DEF ResultOk, MemStep
<1>2. Done(q, s, ok, rok, << FnRet(id, out.ret) >>) /\ FnRetAxiom(m, o.ret) /\ CanReturn(r, out.ret)
  BY Zenon
<1> HIDE DEF m
<1>3. PtrOk(o.ret) /\ BlockOf(o.ret) \in ({TRUE} \X m.esc) \cup ({FALSE} \X (0 .. nextNonlocalBid(m)))
  <2>1. PtrTyped(o.ret)
    BY OutputsAssumption
  <2>2. m.nextnl \in Nat
    BY <1>1 DEF MemOk
  <2>3. QED
    BY <1>2, <2>1, <2>2, ReturnedBlock
<1>4. OutOk(out) /\ out.ret = o.ret
  BY <1>3, MarkedOk
<1>5. b \in ({TRUE} \X m.esc) \cup ({FALSE} \X (0 .. nextNonlocalBid(m)))
  BY <1>3, <1>4
<1>6. id # 0 /\ id # 1 /\ \A y \in Known.rets : y[1] # id
  BY FreshId
<1> HIDE DEF K
<1>7. /\ Grows(Known, K) /\ (br.on => NewTo(Known, K, br.saved)) /\ CallsOk'
      /\ K.rets = Known.rets \cup {<<id, b>>} /\ K = Known'
  <2>1. K = Known'
    BY DEF K
  <2>2. QED
    BY <1>4, <2>1, MoreCalls
<1> DEFINE K0 == Known
<1>8. /\ Grows(K0, K) /\ MemOk(K0, m) /\ K.rets = K0.rets \cup {<<id, b>>}
      /\ \A y \in K0.rets : y[1] # id
  BY <1>1, <1>6, <1>7
<1> HIDE DEF K0, id, b
<1>9. SameContents(K, m, x)
  BY <1>5, <1>6, <1>8, FnRetKeeps
<1>10. <<id, BlockOf(out.ret)>> \in K.rets
  BY <1>7 DEF b
<1> HIDE DEF x, out
<1>11. ResultOk(K, q, s, << FnRet(id, out.ret) >>, nextl)
  BY <1>2, <1>4, <1>9, <1>10, CallResult DEF m, r
<1>12. nextl' \in Nat /\ nextl <= nextl' /\ nextl' = nextl
  BY StateOk
<1> DEFINE new == << FnRet(id, out.ret) >>
<1>13. ResultOk(K, q, s, new, nextl') /\ Done(q, s, ok, rok, new)
  BY <1>2, <1>11, <1>12
<1> HIDE DEF new, q, s
<1>14. QED
  BY <1>7, <1>12, <1>13, DoneKeeps

LEMMA CallSrcKeeps == ASSUME IInv, addFnCallSrc PROVE IInv'
<1>1. PICK a \in Head(todo).a, o \in Outputs :
       LET arg  == regs[a[1]]
           m    == Passed(mem, arg, a[2])
           k    == Cardinality(calls) + 1
           in   == [(IF canReadSomething(a[2]) THEN m ELSE dupNoRead(m))
                      EXCEPT !.ranges = CallRanges(m, a[2])]
           same == { c \in calls : /\ c.acc = a[2] /\ c.mem = in
                                   /\ arg.np => c.arg.np /\ c.arg.cur.p = arg.cur.p }
           c    == IF same # {} THEN CHOOSE x \in same : TRUE
                   ELSE [id |-> k, acc |-> a[2], mem |-> in, arg |-> arg, out |-> WithMark(o, k),
                         ref |-> ref, active |-> Active]
           new  == IF same # {} THEN m ELSE mkFnRet(m, 10 + k)
           r    == RefPassed(ref, arg, a[2])
       IN  /\ Defined(a[1])
           /\ IF same # {} THEN o = CHOOSE x \in Outputs : TRUE ELSE FnRetAxiom(m, o.ret)
           /\ \A b \in Writable : mkNonlocalValAxioms(c.out.val[b])
           /\ FitsTypes(m, c.out) /\ CanReturn(r, c.out.ret)
           /\ canWriteSomething(a[2]) /\ c.out.wargs => arg.np
           /\ Done(AfterCall(new, arg, a[2], c.out), RefCall(r, arg, a[2], c.out, c.id), TRUE, TRUE,
                   << FnRet(10 + c.id, c.out.ret) >>)
           /\ calls' = calls \cup {c}
  BY Zenon DEF addFnCallSrc
<1> DEFINE arg  == regs[a[1]]
           acc  == a[2]
           m    == Passed(mem, arg, acc)
           k    == Cardinality(calls) + 1
           in   == [(IF canReadSomething(acc) THEN m ELSE dupNoRead(m))
                      EXCEPT !.ranges = CallRanges(m, acc)]
           same == { c \in calls : /\ c.acc = acc /\ c.mem = in
                                   /\ arg.np => c.arg.np /\ c.arg.cur.p = arg.cur.p }
           act  == Active
           mark == WithMark(o, k)
           fst  == [id |-> k, acc |-> acc, mem |-> in, arg |-> arg, out |-> mark,
                    ref |-> ref, active |-> act]
           old  == CHOOSE x \in same : TRUE
           c    == IF same # {} THEN old ELSE fst
           new  == IF same # {} THEN m ELSE mkFnRet(m, 10 + k)
           r    == RefPassed(ref, arg, acc)
           T    == TRUE
<1>2. /\ Defined(a[1])
      /\ same = {} => FnRetAxiom(m, o.ret)
      /\ \A b \in Writable : mkNonlocalValAxioms(c.out.val[b])
      /\ CanReturn(r, c.out.ret)
      /\ Done(AfterCall(new, arg, acc, c.out), RefCall(r, arg, acc, c.out, c.id), T, T,
              << FnRet(10 + c.id, c.out.ret) >>)
      /\ calls' = calls \cup {c}
  BY <1>1, Zenon
<1>3. todo # << >> /\ nextl' = nextl
  BY DEF addFnCallSrc, Ready
<1>4. same # {} => old \in calls
  <2>1. same \subseteq calls
    OBVIOUS
  <2>2. same # {} => old \in same
    BY Zenon
  <2>3. QED
    BY <2>1, <2>2
<1> HIDE DEF in, same, act, mark, old, T, acc
<1>5. fst.out = mark /\ fst.id = k
  OBVIOUS
<1> HIDE DEF fst
<1>6. CASE same # {}
  <2>1. c = old /\ new = m
    BY <1>6, Zenon
  <2> HIDE DEF c, new
  <2>2. c \in calls /\ calls' = calls
    BY <1>2, <1>4, <1>6, <2>1
  <2>3. UNCHANGED <<nextl, calls>>
    BY <1>3, <2>2
  <2>4. QED
    BY <1>2, <1>3, <2>1, <2>2, <2>3, RepeatedCall
<1>7. CASE same = {}
  <2>1. c = fst /\ new = mkFnRet(m, 10 + k)
    BY <1>7, Zenon
  <2> HIDE DEF c, new
  <2>2. c.id = k /\ c.out = WithMark(o, k)
    BY <1>5, <2>1 DEF mark
  <2>3. FnRetAxiom(m, o.ret) /\ k = Cardinality(calls) + 1
    BY <1>2, <1>7
  <2>4. Done(AfterCall(mkFnRet(m, 10 + k), arg, acc, c.out), RefCall(r, arg, acc, c.out, c.id), T, T,
             << FnRet(10 + c.id, c.out.ret) >>)
    BY <1>2, <2>1
  <2> HIDE DEF k
  <2>5. QED
    BY <1>2, <1>3, <2>2, <2>3, <2>4, NewCall
<1>8. QED
  BY <1>6, <1>7

\* Steps that change neither memory nor registers.
LEMMA SameState ==
  ASSUME IInv, UNCHANGED <<asg, todo, later, mem, nextl, ref, regs, br, calls>>
  PROVE  IInv'
<1>1. Known' = Known /\ (CallsOk' <=> CallsOk)
  BY DEF Known, CallsOk, OutOk, BlockOk
<1>2. (AsgOk' <=> AsgOk) /\ (Active' <=> Active)
  BY DEF AsgOk, Active, BlockOk
<1>3. \A m, n : PathSafe(m, n) => PathSafe(m, n)'
  BY DEF PathSafe
<1>4. BranchOk => BranchOk'
  BY <1>1, <1>2, <1>3 DEF BranchOk
<1>5. QED
  BY <1>1, <1>2, <1>3, <1>4 DEF IInv

LEMMA CallTgtKeeps == ASSUME IInv, addFnCallTgt PROVE IInv'
<1>1. PICK a \in Head(todo).a :
       LET arg == regs[a[1]]
           m   == Passed(mem, arg, a[2])
           can == { c \in calls : refinedBy(c, m, a[2], arg) }
       IN  /\ Defined(a[1])
           /\ \/ /\ can = {}
                 /\ flags' = [flags EXCEPT !.nomatch = TRUE]
                 /\ UNCHANGED <<asg, side, todo, later, mem, ref, regs, br, done, calls, match>>
              \/ \E c \in can :
                   LET r == RefPassed(ref, arg, a[2])
                   IN  /\ FitsTypes(m, c.out) /\ CanReturn(r, c.out.ret)
                       /\ Done(AfterCall(m, arg, a[2], c.out), RefCall(r, arg, a[2], c.out, c.id), TRUE, TRUE,
                               << FnRet(10 + c.id, c.out.ret) >>)
                       /\ match' = IF Active /\ c.active
                                   THEN [on |-> TRUE, src |-> c.ref, tgt |-> ref, acc |-> a[2], arg |-> arg]
                                   ELSE match
                       /\ UNCHANGED calls
  BY Zenon DEF addFnCallTgt
<1>2. todo # << >> /\ UNCHANGED nextl
  BY DEF addFnCallTgt, Ready
<1> DEFINE arg == regs[a[1]]
           acc == a[2]
           m   == Passed(mem, arg, acc)
           r   == RefPassed(ref, arg, acc)
           T   == TRUE
<1>3. /\ Defined(a[1])
      /\ \/ UNCHANGED <<asg, todo, later, mem, ref, regs, br, calls>>
         \/ \E c \in calls :
              /\ CanReturn(r, c.out.ret)
              /\ Done(AfterCall(m, arg, acc, c.out), RefCall(r, arg, acc, c.out, c.id), T, T,
                      << FnRet(10 + c.id, c.out.ret) >>)
              /\ UNCHANGED calls
  BY <1>1, Zenon
<1>4. CASE UNCHANGED <<asg, todo, later, mem, ref, regs, br, calls>>
  BY <1>2, <1>4, SameState
<1> HIDE DEF acc, T
<1>5. ASSUME NEW c \in calls, CanReturn(r, c.out.ret),
             Done(AfterCall(m, arg, acc, c.out), RefCall(r, arg, acc, c.out, c.id), T, T,
                  << FnRet(10 + c.id, c.out.ret) >>),
             UNCHANGED calls
      PROVE  IInv'
  <2>1. UNCHANGED <<nextl, calls>>
    BY <1>2, <1>5
  <2>2. QED
    BY <1>2, <1>3, <1>5, <2>1, RepeatedCall
<1>6. QED
  BY <1>3, <1>4, <1>5, Zenon

-----------------------------------------------------------------------------
(* Branches. *)

\* A branch changes nothing of what is known of calls and locals.
LEMMA KnownKept == ASSUME UNCHANGED <<nextl, calls>> PROVE Known' = Known
  BY DEF Known

\* What is safe of a path stays so with another record of the branch.
LEMMA SafePath ==
  ASSUME NEW m, NEW k \in Nat, PathSafe(m, k), UNCHANGED <<ref, nextl>>, NEW j \in 0 .. k,
         \A i \in 1 .. j : regs'[i] = regs[i], NEW q, MemSafe(q), m.esc \subseteq q.esc, nextl \in Nat
  PROVE  /\ MemSafe(q)
         /\ ref'.given \subseteq q.esc
         /\ \A i \in 1 .. j : RegSafe(q.esc, nextl', regs'[i])
<1>1. \A i \in 1 .. j : i \in 1 .. k
  OBVIOUS
<1>2. \A i \in 1 .. j : RegSafe(m.esc, nextl, regs[i])
  BY <1>1 DEF PathSafe
<1>3. \A i \in 1 .. j : RegSafe(q.esc, nextl, regs[i])
  BY <1>2, RegSafeGrows
<1>4. QED
  BY <1>3 DEF PathSafe

LEMMA ForkKeeps == ASSUME IInv, Fork PROVE IInv'
<1>1. PICK c \in BOOLEAN : br' = [on |-> TRUE, cond |-> c, ph |-> 1, saved |-> mem, n |-> Len(regs)]
  BY DEF Fork
<1>2. /\ todo # << >> /\ todo' = Tail(todo) /\ ~br.on
      /\ UNCHANGED <<asg, later, nextl, ref, mem, regs, calls>>
  BY DEF Fork, Ready, Control
<1>3. Active
  BY <1>2 DEF Active
<1>4. /\ DOMAIN br' = {"on", "cond", "ph", "saved", "n"} /\ br'.on /\ br'.on \in BOOLEAN
      /\ br'.cond = c /\ br'.ph = 1 /\ br'.saved = mem /\ br'.n = Len(regs)
  <2> DEFINE t == TRUE
  <2>1. t /\ t \in BOOLEAN /\ br' = [on |-> t, cond |-> c, ph |-> 1, saved |-> mem, n |-> Len(regs)]
    BY <1>1
  <2> HIDE DEF t
  <2>2. DOMAIN br' = {"on", "cond", "ph", "saved", "n"} /\ br'.on = t
        /\ br'.cond = c /\ br'.ph = 1 /\ br'.saved = mem /\ br'.n = Len(regs)
    BY <2>1
  <2>3. QED
    BY <2>1, <2>2, Zenon
<1>5. todo' \in Seq(Ops)
  BY <1>2, HeadTail DEF IInv
<1>6. PathSafe(mem, Len(regs)) /\ Len(regs) \in 0 .. Len(regs)
  BY <1>3 DEF IInv, IsSeq
<1>7. PathSafe(mem, Len(regs))'
  BY <1>2, <1>6 DEF PathSafe
<1>8. BranchOk'
  <2>1. Known' = Known
    BY <1>2, KnownKept
  <2>2. QED
    BY <1>2, <1>4, <1>6, <1>7, <2>1, StateOk DEF BranchOk
<1>9. AsgOk' /\ later' \in Seq(Ops) /\ nextl' \in Nat /\ MemOk(Known, mem') /\ RefTyped(ref')
      /\ IsSeq(regs') /\ (\A i \in 1 .. Len(regs') : RegOk(Known, regs'[i]) /\ CurIsLeaf(regs'[i])) /\ CallsOk' /\ Known' = Known
  BY <1>2 DEF IInv, AsgOk, BlockOk, CallsOk, OutOk, Known
<1>10. QED
  BY <1>4, <1>5, <1>7, <1>8, <1>9 DEF IInv

LEMMA ElseKeeps == ASSUME IInv, Else PROVE IInv'
<1>1. /\ todo # << >> /\ todo' = Tail(todo) /\ br.on /\ br.ph = 1
      /\ br' = [br EXCEPT !.ph = 2, !.saved = mem]
      /\ mem' = br.saved /\ regs' = SubSeq(regs, 1, br.n)
      /\ UNCHANGED <<asg, later, nextl, ref, calls>>
  BY DEF Else, Ready, Control
<1>2. BranchOk /\ IsSeq(regs)
  BY <1>1 DEF IInv
<1>3. /\ DOMAIN br' = {"on", "cond", "ph", "saved", "n"} /\ br'.on = br.on
      /\ br'.cond = br.cond /\ br'.ph = 2 /\ br'.saved = mem /\ br'.n = br.n
  BY <1>1, <1>2 DEF BranchOk
<1>4. br.n \in 0 .. Len(regs) /\ br.n \in Nat /\ Len(regs) \in Nat
  BY <1>2 DEF BranchOk, IsSeq
<1>5. /\ IsSeq(regs') /\ Len(regs') = br.n
      /\ \A i \in 1 .. br.n : regs'[i] = regs[i]
  BY <1>1, <1>2, <1>4, Prefix
<1>6. \A i \in 1 .. Len(regs') : RegOk(Known, regs'[i]) /\ CurIsLeaf(regs'[i])
  <2>1. \A i \in 1 .. br.n : i \in 1 .. Len(regs)
    BY <1>4
  <2>2. QED
    BY <1>5, <2>1 DEF IInv
<1>7. todo' \in Seq(Ops)
  BY <1>1, HeadTail DEF IInv
<1>8. (Active <=> br.cond) /\ (Active' <=> ~br.cond)
  BY <1>1, <1>2, <1>3 DEF Active, BranchOk
<1>9. Active' => PathSafe(mem, Len(regs))'
  <2>1. Active' => PathSafe(br.saved, br.n)
    BY <1>2, <1>8 DEF BranchOk
  <2>2. br.n \in 0 .. br.n
    BY <1>4
  <2>3. PathSafe(br.saved, br.n) => MemSafe(br.saved)
    BY DEF PathSafe
  <2>4. ASSUME PathSafe(br.saved, br.n)
        PROVE  /\ MemSafe(br.saved) /\ ref'.given \subseteq br.saved.esc
               /\ \A i \in 1 .. br.n : RegSafe(br.saved.esc, nextl', regs'[i])
    BY <1>1, <1>4, <1>5, <2>2, <2>3, <2>4, StateOk, SafePath
  <2>5. QED
    BY <1>1, <1>5, <2>1, <2>4 DEF PathSafe
<1>10. ~Active' => PathSafe(br.saved, br.n)'
  <2>1. ~Active' => PathSafe(mem, Len(regs)) /\ MemSafe(mem)
    BY <1>8 DEF IInv, PathSafe
  <2>2. ASSUME PathSafe(mem, Len(regs)), MemSafe(mem)
        PROVE  /\ MemSafe(mem) /\ ref'.given \subseteq mem.esc
               /\ \A i \in 1 .. br.n : RegSafe(mem.esc, nextl', regs'[i])
    BY <1>1, <1>4, <1>5, <2>2, StateOk, SafePath
  <2>3. QED
    BY <1>3, <2>1, <2>2 DEF PathSafe
<1>11. BranchOk'
  <2>1. br'.n \in 0 .. Len(regs')
    BY <1>3, <1>4, <1>5
  <2>2. MemOk(Known, br'.saved) /\ br'.cond \in BOOLEAN /\ br'.ph \in {1, 2}
    BY <1>2, <1>3, StateOk DEF BranchOk
  <2>3. QED
    BY <1>1, <1>3, <1>10, <2>1, <2>2, KnownKept DEF BranchOk
<1>12. AsgOk' /\ later' \in Seq(Ops) /\ nextl' \in Nat /\ MemOk(Known, mem') /\ RefTyped(ref')
       /\ CallsOk' /\ Known' = Known /\ br'.on \in BOOLEAN
  BY <1>1, <1>2, <1>3 DEF IInv, AsgOk, BlockOk, BranchOk, CallsOk, OutOk, Known
<1>13. QED
  BY <1>5, <1>6, <1>7, <1>9, <1>11, <1>12 DEF IInv

\* Where the branches meet, the path that was taken decides.
LEMMA JoinKeeps == ASSUME IInv, Join PROVE IInv'
<1>1. /\ todo # << >> /\ todo' = Tail(todo) /\ br.on /\ br.ph = 2
      /\ br' = [on |-> FALSE]
      /\ mem' = mkIf(br.cond, br.saved, mem) /\ regs' = SubSeq(regs, 1, br.n)
      /\ UNCHANGED <<asg, later, nextl, ref, calls>>
  BY DEF Join, Ready, Control
<1>2. BranchOk /\ IsSeq(regs)
  BY <1>1 DEF IInv
<1>3. ~br'.on /\ br'.on \in BOOLEAN
  <2> DEFINE f == FALSE
  <2>1. br' = [on |-> f] /\ ~f /\ f \in BOOLEAN
    BY <1>1
  <2> HIDE DEF f
  <2>2. br'.on = f
    BY <2>1
  <2>3. QED
    BY <2>1, <2>2, Zenon
<1>4. br.n \in 0 .. Len(regs) /\ br.n \in Nat /\ Len(regs) \in Nat
  BY <1>2 DEF BranchOk, IsSeq
<1>5. /\ IsSeq(regs') /\ Len(regs') = br.n
      /\ \A i \in 1 .. br.n : regs'[i] = regs[i]
  BY <1>1, <1>2, <1>4, Prefix
<1>6. \A i \in 1 .. Len(regs') : RegOk(Known, regs'[i]) /\ CurIsLeaf(regs'[i])
  <2>1. \A i \in 1 .. br.n : i \in 1 .. Len(regs)
    BY <1>4
  <2>2. QED
    BY <1>5, <2>1 DEF IInv
<1>7. todo' \in Seq(Ops)
  BY <1>1, HeadTail DEF IInv
<1>8. /\ MemOk(Known, mem') /\ mem'.esc = br.saved.esc \cup mem.esc
      /\ br.cond /\ MemSafe(br.saved) => MemSafe(mem')
      /\ ~br.cond /\ MemSafe(mem) => MemSafe(mem')
  <2>1. MemOk(Known, br.saved) /\ MemOk(Known, mem)
    BY <1>2, StateOk DEF BranchOk
  <2>2. QED
    BY <1>1, <2>1, IfMem
<1>9. Active <=> ~br.cond
  BY <1>1, <1>2 DEF Active, BranchOk
<1>10. PathSafe(mem, Len(regs))'
  <2>1. CASE br.cond
    <3>1. PathSafe(br.saved, br.n)
      BY <1>2, <1>9, <2>1 DEF BranchOk
    <3>2. MemSafe(mem') /\ br.saved.esc \subseteq mem'.esc /\ br.n \in 0 .. br.n
      BY <1>4, <1>8, <2>1, <3>1 DEF PathSafe
    <3>3. /\ MemSafe(mem') /\ ref'.given \subseteq mem'.esc
          /\ \A i \in 1 .. br.n : RegSafe(mem'.esc, nextl', regs'[i])
      BY <1>1, <1>4, <1>5, <3>1, <3>2, StateOk, SafePath
    <3>4. QED
      BY <1>5, <3>3 DEF PathSafe
  <2>2. CASE ~br.cond
    <3>1. PathSafe(mem, Len(regs))
      BY <1>9, <2>2 DEF IInv
    <3>2. MemSafe(mem') /\ mem.esc \subseteq mem'.esc
      BY <1>8, <2>2, <3>1 DEF PathSafe
    <3>3. /\ MemSafe(mem') /\ ref'.given \subseteq mem'.esc
          /\ \A i \in 1 .. br.n : RegSafe(mem'.esc, nextl', regs'[i])
      BY <1>1, <1>4, <1>5, <3>1, <3>2, StateOk, SafePath
    <3>4. QED
      BY <1>5, <3>3 DEF PathSafe
  <2>3. QED
    BY <2>1, <2>2
<1>11. AsgOk' /\ later' \in Seq(Ops) /\ nextl' \in Nat /\ RefTyped(ref')
       /\ CallsOk' /\ Known' = Known
  BY <1>1 DEF IInv, AsgOk, BlockOk, CallsOk, OutOk, Known
<1>12. QED
  BY <1>3, <1>5, <1>6, <1>7, <1>8, <1>10, <1>11 DEF IInv

-----------------------------------------------------------------------------
(* The start of a function. *)

\* The registers at the start: the input and the addresses of globals.
LEMMA StartRegs ==
  ASSUME NEW K, AsgOk, NEW s, s = << InputReg(asg) >> \o GlobalRegs
  PROVE  /\ IsSeq(s) /\ \A i \in 1 .. Len(s) : RegOk(K, s[i]) /\ CurIsLeaf(s[i])
         /\ \A E, n : \A i \in 1 .. Len(s) : RegSafe(E, n, s[i])
<1> DEFINE Ok(reg) == RegOk(K, reg) /\ CurIsLeaf(reg) /\ \A E, n : RegSafe(E, n, reg)
           S == { InputReg(asg) } \cup { GlobalRegs[b] : b \in 1 .. NumGlobals }
<1>1. Ok(InputReg(asg))
  <2> DEFINE org == "input"
             id  == 1
             np  == TRUE
             p   == asg.input
             reg == InputReg(asg)
  <2>1. reg = Reg({Leaf(org, id, p)}, Leaf(org, id, p), np) /\ PtrOk(p) /\ ~p.local
        /\ p.bid <= NumGlobals + 1
    BY MemoryAssumption DEF InputReg, AsgOk, PtrOk, PtrTyped, max_program_nonlocal_bid
  <2>2. OriginOk(K, Leaf(org, id, p))
    BY <2>1 DEF OriginOk, Leaf
  <2> HIDE DEF org, id, np, p, reg
  <2>3. RegOk(K, reg) /\ reg.cur.p = p /\ reg.cur \in reg.leaves
    BY <2>1, <2>2, OneLeaf
  <2>4. Ok(reg)
    BY <2>1, <2>3 DEF RegSafe, CurIsLeaf
  <2>5. QED
    BY <2>4 DEF reg
<1>2. ASSUME NEW b \in 1 .. NumGlobals PROVE Ok(GlobalRegs[b])
  <2> DEFINE F   == FALSE
             z   == 0
             e   == {}
             org == "const"
             np  == TRUE
             p   == Logical(F, b, z, e)
             reg == GlobalRegs[b]
  <2>1. reg = Reg({Leaf(org, z, p)}, Leaf(org, z, p), np)
    BY <1>2 DEF GlobalRegs, Const
  <2>2. ~F /\ F \in BOOLEAN /\ z = 0 /\ org \notin {"init", "input", "fnret"}
    OBVIOUS
  <2>a. b \in Nat /\ b <= max_program_nonlocal_bid
    BY <1>2, MemoryAssumption DEF max_program_nonlocal_bid
  <2> HIDE DEF F, z, e, org, np, reg
  <2>3. PtrOk(p) /\ p.local = F
    BY <2>2, <2>a, PtrMade
  <2> HIDE DEF p
  <2>b. OriginOk(K, Leaf(org, z, p))
    BY <2>2, PlainOrigin
  <2>4. RegOk(K, reg) /\ reg.cur.p = p /\ reg.cur \in reg.leaves
    BY <2>1, <2>3, <2>b, OneLeaf
  <2>5. ~reg.cur.p.local
    BY <2>2, <2>3, <2>4, Zenon
  <2>6. Ok(reg)
    BY <2>4, <2>5 DEF RegSafe, CurIsLeaf
  <2>7. QED
    BY <2>6 DEF reg
<1>3. \A reg \in S : Ok(reg)
  BY <1>1, <1>2
<1>4. << InputReg(asg) >> \in Seq(S)
  OBVIOUS
<1>5. GlobalRegs \in Seq(S)
  <2>1. GlobalRegs = [b \in 1 .. NumGlobals |-> GlobalRegs[b]]
    BY DEF GlobalRegs
  <2>2. NumGlobals \in Nat /\ \A b \in 1 .. NumGlobals : GlobalRegs[b] \in S
    BY MemoryAssumption
  <2> HIDE DEF S
  <2>3. [b \in 1 .. NumGlobals |-> GlobalRegs[b]] \in Seq(S)
    BY <2>2
  <2>4. QED
    BY <2>1, <2>3, Zenon
<1> HIDE DEF S, Ok
<1>6. s \in Seq(S)
  BY <1>4, <1>5
<1>7. \A i \in 1 .. Len(s) : Ok(s[i])
  BY <1>3, <1>6
<1>8. IsSeq(s)
  BY <1>6 DEF IsSeq
<1>9. QED
  BY <1>7, <1>8 DEF Ok

\* Nothing was given away yet.
LEMMA NewRefOk == RefTyped(NewRef(asg)) /\ NewRef(asg).given = {}
<1> DEFINE v == [blk \in AllBlocks |-> IF blk[1] THEN PoisonBlock
                                       ELSE [o \in Offsets |-> NoShape(asg.val[blk[2]][o])]]
           l == [blk \in AllBlocks |-> ~blk[1] /\ (always_alive(blk[2]) \/ asg.live[blk[2]])]
           b == [i \in {} |-> 0]
<1>1. NewRef(asg) = [val |-> v, live |-> l, lblk |-> b, given |-> {}, lost |-> {}, trace |-> << >>]
  BY DEF NewRef
<1> HIDE DEF v, l, b
<1>2. QED
  BY <1>1 DEF RefTyped

\* The initial memory knows no local block.
LEMMA NewMemoryShape ==
  /\ DOMAIN NewMemory(asg) = {"val", "type", "live", "lblk", "esc", "alias", "stored", "ranges", "nextnl"}
  /\ NewMemory(asg).esc = {} /\ DOMAIN NewMemory(asg).lblk = {} /\ NewMemory(asg).nextnl \in Nat
<1> DEFINE v == [blk \in AllBlocks |-> IF blk[1] THEN PoisonBlock ELSE asg.val[blk[2]]]
           t == [blk \in AllBlocks |-> IF blk[1] THEN {} ELSE AnyTy]
           l == [blk \in AllBlocks |-> [cur |-> ~blk[1] /\ asg.live[blk[2]], known |-> blk[1]]]
           b == [i \in {} |-> 0]
           e == {}
           a == [k \in {1} |-> {FALSE} \X (0 .. NumGlobals + 1)]
           s == [x \in Nonlocal |-> [offs |-> {}, all |-> FALSE]]
           n == NumGlobals + 3
           q == NewMemory(asg)
<1>1. q = [val |-> v, type |-> t, live |-> l, lblk |-> b, esc |-> e, alias |-> a, stored |-> s,
           ranges |-> NoCalls, nextnl |-> n]
  BY DEF NewMemory
<1>2. DOMAIN b = {} /\ e = {} /\ n \in Nat
  BY MemoryAssumption
<1> HIDE DEF v, t, l, b, e, a, s, n, q
<1>3. /\ DOMAIN q = {"val", "type", "live", "lblk", "esc", "alias", "stored", "ranges", "nextnl"}
      /\ q.esc = e /\ q.lblk = b /\ q.nextnl = n
  BY <1>1
<1>4. QED
  BY <1>2, <1>3 DEF q

\* The state in which a function starts.
LEMMA StartOk ==
  ASSUME AsgOk, todo \in Seq(Ops), later \in Seq(Ops), MemOk(Known, mem), MemSafe(mem),
         ref = NewRef(asg), nextl = 0, regs = << InputReg(asg) >> \o GlobalRegs,
         ~br.on, br.on \in BOOLEAN, CallsOk
  PROVE  IInv
<1>1. /\ IsSeq(regs) /\ \A i \in 1 .. Len(regs) : RegOk(Known, regs[i]) /\ CurIsLeaf(regs[i])
      /\ \A E, n : \A i \in 1 .. Len(regs) : RegSafe(E, n, regs[i])
  BY StartRegs
<1>2. RefTyped(ref) /\ ref.given = {}
  BY NewRefOk
<1>3. PathSafe(mem, Len(regs))
  BY <1>1, <1>2 DEF PathSafe
<1>4. nextl \in Nat
  OBVIOUS
<1>5. QED
  BY <1>1, <1>2, <1>3, <1>4 DEF IInv

\* The input and the initial contents of blocks lead to no local block.
LEMMA InitAsgOk ==
  ASSUME NEW x \in Assignments, NEW sub, asg = [x EXCEPT !.sub = sub], mkAxioms(x), mkInput(x)
  PROVE  AsgOk
<1>1. DOMAIN x = {"base", "size", "kind", "live", "val", "input", "sub"}
  BY AssignmentsAssumption
<1>2. asg.input = x.input /\ asg.val = x.val
  BY <1>1
<1>3. PtrTyped(x.input) /\ ~x.input.local /\ x.input.bid <= NumGlobals + 1
  BY AssignmentsAssumption DEF mkInput
<1>4. ASSUME NEW b \in Nonlocal \ {0} PROVE BlockOk(x.val[b])
  <2>1. mkNonlocalValAxioms(x.val[b])
    BY <1>4 DEF mkAxioms
  <2>2. \A o \in Offsets : ByteTyped(x.val[b][o]) /\ OwnShape("init", x.val[b][o])
    BY <1>4, AssignmentsAssumption
  <2>3. QED
    BY <2>1, <2>2 DEF BlockOk, OutsideByte, mkNonlocalValAxioms
<1>5. QED
  BY <1>2, <1>3, <1>4 DEF AsgOk

LEMMA InitOk == ASSUME Init PROVE IInv
<1>1. PICK pr \in Programs, x \in Assignments :
        /\ asg = [x EXCEPT !.sub = pr.sub]
        /\ mkAxioms(x) /\ mkInput(x)
        /\ todo = pr.src /\ later = pr.tgt
  BY DEF Init
<1>2. AsgOk
  BY <1>1, InitAsgOk
<1>3. todo \in Seq(Ops) /\ later \in Seq(Ops)
  BY <1>1, ProgramsAssumption
<1>a. calls = {} /\ CallsOk /\ Known.rets = {}
  BY FS_EmptySet DEF Init, CallsOk, Known
<1>4. MemOk(Known, mem) /\ MemSafe(mem)
  <2>1. mem = NewMemory(asg)
    BY DEF Init
  <2>2. AliasOk(Known, NewMemory(asg).alias)
    <3> DEFINE I == {FALSE} \X (0 .. NumGlobals + 1)
               f == [k \in {1} |-> I]
    <3>1. NewMemory(asg).alias = f
      BY DEF NewMemory
    <3> HIDE DEF I
    <3>2. DOMAIN f = {1} /\ f[1] = I
      OBVIOUS
    <3> HIDE DEF f
    <3>3. AliasOk(Known, f)
      BY <1>a, <3>2 DEF AliasOk, I
    <3>4. QED
      BY <3>1, <3>3
  <2>3. /\ NewMemory(asg).esc = {} /\ DOMAIN NewMemory(asg).lblk = {} /\ NewMemory(asg).nextnl \in Nat
        /\ DOMAIN NewMemory(asg) = {"val", "type", "live", "lblk", "esc", "alias", "stored", "ranges", "nextnl"}
    BY NewMemoryShape
  <2>4. QED
    BY <1>2, <2>1, <2>2, <2>3, NewMemoryOk
<1>5. ~br.on /\ br.on \in BOOLEAN
  <2> DEFINE f == FALSE
  <2>1. br = [on |-> f] /\ ~f /\ f \in BOOLEAN
    BY DEF Init
  <2> HIDE DEF f
  <2>2. br.on = f
    BY <2>1
  <2>3. QED
    BY <2>1, <2>2, Zenon
<1>6. ref = NewRef(asg) /\ nextl = 0 /\ regs = << InputReg(asg) >> \o GlobalRegs
  BY DEF Init
<1>7. QED
  BY <1>2, <1>3, <1>4, <1>5, <1>6, <1>a, StartOk

\* The target starts as the source did, with what is known of aliases.
LEMMA EndSourceKeeps == ASSUME IInv, EndSource PROVE IInv'
<1> DEFINE q == [NewMemory(asg) EXCEPT !.alias = mem.alias, !.nextnl = mem.nextnl]
<1>1. /\ todo' = later /\ later' = << >> /\ ~br.on /\ mem' = q
      /\ ref' = NewRef(asg) /\ nextl' = 0 /\ regs' = << InputReg(asg) >> \o GlobalRegs
      /\ UNCHANGED <<asg, br, calls>>
  BY DEF EndSource
<1> DEFINE K == Known'
<1>2. /\ K.rets = Known.rets /\ CallsOk'
  BY <1>1 DEF IInv, CallsOk, OutOk, BlockOk, Known
<1>3. /\ DOMAIN q = DOMAIN NewMemory(asg) /\ q.val = NewMemory(asg).val /\ q.esc = NewMemory(asg).esc
      /\ q.lblk = NewMemory(asg).lblk /\ q.alias = mem.alias /\ q.nextnl = mem.nextnl
  BY NewMemoryShape
<1> HIDE DEF q, K
<1>4. MemOk(K, q) /\ MemSafe(q)
  <2>1. AliasOk(Known, mem.alias) /\ mem.nextnl \in Nat
    BY StateOk DEF MemOk
  <2>2. AliasOk(K, q.alias)
    BY <1>2, <1>3, <2>1 DEF AliasOk
  <2>3. QED
    BY <1>3, <2>1, <2>2, StateOk, NewMemoryShape, NewMemoryOk
<1>5. /\ IsSeq(regs') /\ \A i \in 1 .. Len(regs') : RegOk(K, regs'[i]) /\ CurIsLeaf(regs'[i])
      /\ \A E, n : \A i \in 1 .. Len(regs') : RegSafe(E, n, regs'[i])
  BY <1>1, StateOk, StartRegs
<1>6. RefTyped(ref') /\ ref'.given = {}
  BY <1>1, NewRefOk
<1>7. PathSafe(mem, Len(regs))'
  BY <1>1, <1>4, <1>5, <1>6 DEF PathSafe
<1>8. AsgOk' /\ todo' \in Seq(Ops) /\ nextl' \in Nat /\ br'.on \in BOOLEAN /\ ~br'.on
  BY <1>1 DEF IInv, AsgOk, BlockOk
<1>9. later' \in Seq(Ops)
  BY <1>1
<1>10. MemOk(Known', mem') /\ \A i \in 1 .. Len(regs') : RegOk(Known', regs'[i])
  BY <1>1, <1>4, <1>5 DEF K
<1>11. QED
  BY <1>2, <1>5, <1>6, <1>7, <1>8, <1>9, <1>10 DEF IInv

-----------------------------------------------------------------------------
(* Theorems. *)

LEMMA NextKeeps == ASSUME IInv, [Next]_vars PROVE IInv'
<1>1. CASE Exec
  BY <1>1, AllocKeeps, FreeStepKeeps, ReallocKeeps, GEPKeeps, PtrMaskKeeps, SelectKeeps,
     PtrToIntKeeps, IntToPtrKeeps, StoreKeeps, StorePtrKeeps, LoadKeeps, LoadPtrKeeps,
     MemsetKeeps, MemcpyKeeps, CallSrcKeeps, CallTgtKeeps, Zenon DEF Exec
<1>2. CASE Fork
  BY <1>2, ForkKeeps
<1>3. CASE Else
  BY <1>3, ElseKeeps
<1>4. CASE Join
  BY <1>4, JoinKeeps
<1>5. CASE EndSource
  BY <1>5, EndSourceKeeps
<1>6. CASE EndTarget
  BY <1>6, SameState DEF EndTarget
<1>7. CASE UNCHANGED vars
  BY <1>7, SameState DEF vars
<1>8. QED
  BY <1>1, <1>2, <1>3, <1>4, <1>5, <1>6, <1>7 DEF Next

\* The invariant holds of every behaviour of every program.
THEOREM Invariance == Spec => []IInv
<1>1. Init => IInv
  BY InitOk
<1>2. IInv /\ [Next]_vars => IInv'
  BY NextKeeps
<1>3. QED
  BY <1>1, <1>2, PTL DEF Spec

\* A local block whose address was stored, passed to a callee or cast to an
\* integer is in escaped_local_blks, whatever the program, the assignment and
\* the callees (memory.cpp escape_helper, escapeLocalPtr, store, mkIf).
THEOREM EscapesAreRecorded == Spec => []EscapesRecorded
<1>1. IInv => EscapesRecorded
  BY DEF IInv, PathSafe, EscapesRecorded
<1>2. QED
  BY <1>1, Invariance, PTL

\* What alias analysis relies on when it gives a loaded pointer only the local
\* blocks that escaped: on the path that is taken, no pointer in memory leads
\* to a local block that has not escaped, and a register that does is the
\* address its allocation returned (memory.cpp load, LocalBlkPtr aliasing,
\* escape_helper).
NoHiddenLocal ==
  Active =>
    /\ \A blk \in ReadBlocks, o \in Offsets :
         LET b == mem.val[blk][o]
         IN  b.ptr /\ b.pnp /\ b.p.log /\ b.p.local => b.p.bid \in mem.esc
    /\ \A i \in 1 .. Len(regs) :
         LET reg == regs[i]
         IN  reg.np /\ reg.cur.p.log /\ reg.cur.p.local /\ reg.cur.p.bid \notin mem.esc =>
               reg.cur \in reg.leaves /\ reg.cur.org = "const" /\ reg.cur.p.bid \in 0 .. nextl - 1

\* Every behaviour of every program keeps that.
THEOREM HiddenLocalsAreOwn == Spec => []NoHiddenLocal
<1>1. IInv => NoHiddenLocal
  <2> SUFFICES ASSUME IInv, Active PROVE NoHiddenLocal
    BY DEF NoHiddenLocal
  <2>1. MemSafe(mem) /\ \A i \in 1 .. Len(regs) : RegSafe(mem.esc, nextl, regs[i])
    BY DEF IInv, PathSafe
  <2>2. QED
    BY <2>1 DEF NoHiddenLocal, MemSafe, ByteSafe, RegSafe
<1>2. QED
  BY <1>1, Invariance, PTL

-----------------------------------------------------------------------------
(* Accesses. *)

\* Alias analysis names blocks.
LEMMA AliasBlocks ==
  ASSUME NEW K, NEW m, MemOk(K, m), NEW reg, \A lf \in reg.leaves : LeafOk(K, lf), NEW n, NEW write
  PROVE  computeAliasing(m, reg, n, write) \subseteq AllBlocks
<1> SUFFICES ASSUME NEW lf \in reg.leaves, NEW blk \in LeafBlocks(m, lf), mayalias(m, blk, n, write)
             PROVE  blk \in AllBlocks
  BY DEF computeAliasing
<1>1. PICK x \in BOOLEAN : \E y : blk = <<x, y>>
  BY LeafBlockPair
<1>2. PICK y : blk = <<x, y>>
  BY <1>1
<1>3. blk[1] = x /\ blk[2] = y
  BY <1>2
<1>4. (x => y \in Local) /\ (~x => y \in Nonlocal)
  BY <1>3 DEF mayalias, MemOk
<1>5. CASE x = TRUE
  <2>1. <<TRUE, y>> \in AllBlocks
    BY <1>4, <1>5 DEF AllBlocks
  <2>2. QED
    BY <1>2, <1>5, <2>1, Zenon
<1>6. CASE x = FALSE
  <2>1. <<FALSE, y>> \in AllBlocks
    BY <1>4, <1>6 DEF AllBlocks
  <2>2. QED
    BY <1>2, <1>6, <2>1, Zenon
<1>7. QED
  BY <1>5, <1>6

\* There are finitely many blocks.
LEMMA FiniteBlocks == IsFiniteSet(AllBlocks)
<1>1. IsFiniteSet(Nonlocal) /\ IsFiniteSet(Local)
  BY MemoryAssumption, FS_Interval DEF Nonlocal, Local
<1> DEFINE T == {TRUE}
           F == {FALSE}
<1>2. IsFiniteSet(T) /\ IsFiniteSet(F)
  BY FS_Singleton
<1>3. AllBlocks = (F \X Nonlocal) \cup (T \X Local)
  BY DEF AllBlocks
<1> HIDE DEF T, F
<1>4. IsFiniteSet(F \X Nonlocal) /\ IsFiniteSet(T \X Local)
  BY <1>1, <1>2, FS_Product
<1>5. QED
  BY <1>3, <1>4, FS_Union

\* Of blocks that contain the one a pointer points to, an access touches that one.
LEMMA OneBlock ==
  ASSUME NEW A, A \subseteq AllBlocks, NEW p, BlockOf(p) \in A, NEW blk \in A
  PROVE  AccessCond(A, p, blk) <=> blk = BlockOf(p)
<1> DEFINE B == BlockOf(p)
           same == { b \in A : b[1] = blk[1] }
           both == \E b \in A : b[1] # blk[1]
<1>1. B[1] = p.local /\ B[2] = p.bid /\ B = <<p.local, p.bid>> /\ B \in A
  BY DEF BlockOf
<1>2. blk = <<blk[1], blk[2]>>
  BY BlockParts
<1>3. \A S : S \subseteq A /\ Cardinality(S) = 1 => \A x, y \in S : x = y
  <2> SUFFICES ASSUME NEW S, S \subseteq A, Cardinality(S) = 1, NEW x \in S, NEW y \in S PROVE x = y
    OBVIOUS
  <2>1. IsFiniteSet(S)
    <3>1. S \subseteq AllBlocks
      OBVIOUS
    <3>2. QED
      BY <3>1, FiniteBlocks, FS_Subset
  <2>2. PICK z : S = {z}
    BY <2>1, FS_Singleton
  <2>3. QED
    BY <2>2
<1>4. same \subseteq A /\ blk \in same /\ (p.local = blk[1] => B \in same)
  BY <1>1
<1>5. ASSUME AccessCond(A, p, blk) PROVE blk = B
  <2>1. \/ Cardinality(A) = 1
        \/ /\ both => p.local = blk[1]
           /\ IF Cardinality(same) = 1 THEN p.local = blk[1] ELSE p.bid = blk[2]
    BY <1>5, Zenon DEF AccessCond
  <2>2. CASE Cardinality(A) = 1
    <3>1. A \subseteq A
      OBVIOUS
    <3>2. QED
      BY <1>1, <1>3, <2>2, <3>1
  <2>3. CASE /\ both => p.local = blk[1]
             /\ IF Cardinality(same) = 1 THEN p.local = blk[1] ELSE p.bid = blk[2]
    <3>1. CASE Cardinality(same) = 1
      <4>1. B \in same
        BY <1>4, <2>3, <3>1
      <4> HIDE DEF same, B
      <4>2. QED
        BY <1>3, <1>4, <3>1, <4>1
    <3>2. CASE Cardinality(same) # 1
      <4>1. p.bid = blk[2]
        BY <2>3, <3>2
      <4>2. p.local = blk[1]
        BY <1>1, <2>3
      <4>3. QED
        BY <1>1, <1>2, <4>1, <4>2
    <3>3. QED
      BY <3>1, <3>2
  <2>4. QED
    BY <2>1, <2>2, <2>3
<1>6. ASSUME blk = B PROVE AccessCond(A, p, blk)
  <2>1. p.local = blk[1] /\ p.bid = blk[2]
    BY <1>1, <1>6
  <2>2. QED
    BY <2>1 DEF AccessCond
<1>7. QED
  BY <1>5, <1>6

\* The block of an access is alive, large enough and not the null block.
LEMMA DerefBlock ==
  ASSUME NEW K, NEW m, MemOk(K, m), NEW p, PtrOk(p), NEW n \in Nat, n >= 1, NEW write \in BOOLEAN,
         LogDeref(m, p, n, write)
  PROVE  /\ n <= blockSize(m, BlockOf(p)) /\ ~StaticDead(m, BlockOf(p))
         /\ p.local => p.bid \in DOMAIN m.lblk
         /\ ~p.local => p.bid \in Nonlocal \ {0}
         /\ BlockOf(p) \in AllBlocks
<1> DEFINE B == BlockOf(p)
<1>1. B = <<p.local, p.bid>> /\ B[1] = p.local /\ B[2] = p.bid /\ p.local \in BOOLEAN /\ p.bid \in Nat
  BY DEF BlockOf, PtrOk, PtrTyped
<1>2. n <= blockSize(m, B) /\ isBlockAlive(m, B)
  BY DEF LogDeref, FitsInBlock, block_constraints
<1> HIDE DEF B
<1>3. B # <<FALSE, 0>>
  <2> SUFFICES ASSUME B = <<FALSE, 0>> PROVE FALSE
    OBVIOUS
  <2>1. B[1] = FALSE /\ B[2] = 0
    OBVIOUS
  <2>2. ~always_alive(0)
    BY MemoryAssumption DEF always_alive, is_globalvar, is_fncall_mem, get_fncallmem_bid
  <2>3. QED
    BY <1>2, <2>1, <2>2 DEF isBlockAlive
<1>4. ~StaticDead(m, B)
  BY <1>2, <1>3 DEF StaticDead, isBlockAlive
<1>5. p.local => p.bid \in DOMAIN m.lblk
  BY <1>1, <1>2 DEF blockSize
<1>6. ~p.local => p.bid \in Nonlocal \ {0}
  <2> SUFFICES ASSUME ~p.local PROVE p.bid \in Nonlocal \ {0}
    OBVIOUS
  <2>1. p.local = FALSE
    BY <1>1
  <2>2. p.bid # 0
    BY <1>1, <1>3, <2>1
  <2>3. QED
    BY <1>1, <2>2, MemoryAssumption DEF PtrOk, max_program_nonlocal_bid, Nonlocal
<1>7. B \in AllBlocks
  <2> DEFINE l == p.local
             b == p.bid
  <2>1. l \in BOOLEAN /\ (l => b \in Local) /\ (~l => b \in Nonlocal /\ b # 0) /\ B = <<l, b>>
    BY <1>1, <1>5, <1>6 DEF MemOk
  <2> HIDE DEF l, b
  <2>2. QED
    BY <2>1, BlockNamed DEF ReadBlocks
<1>8. QED
  BY <1>2, <1>4, <1>5, <1>6, <1>7 DEF B

\* What is known of a leaf never excludes its block.
LEMMA OwnLeafBlock ==
  ASSUME NEW K, NEW m, MemOk(K, m), NEW lf, LeafOk(K, lf), BlockOf(lf.p) \in AllBlocks,
         lf.p.local => lf.p.bid \in m.esc \/ lf.org = "const"
  PROVE  BlockOf(lf.p) \in LeafBlocks(m, lf)
<1> DEFINE B == BlockOf(lf.p)
<1>1. CASE lf.org = "const"
  BY <1>1 DEF LeafBlocks
<1>2. CASE lf.org # "const"
  <2>1. B[1] = lf.p.local /\ B[2] = lf.p.bid /\ B = <<lf.p.local, lf.p.bid>>
    BY DEF BlockOf
  <2>2. lf.p.local \in BOOLEAN /\ lf.p.bid \in Nat /\ OriginOk(K, lf) /\ AliasOk(K, m.alias)
    BY DEF LeafOk, PtrOk, PtrTyped, MemOk
  <2>3. B[1] => ~isLocalFalse(m, lf) /\ B[2] \in m.esc
    <3> SUFFICES ASSUME lf.p.local PROVE ~isLocalFalse(m, lf) /\ lf.p.bid \in m.esc
      BY <2>1
    <3>1. lf.p.bid \in m.esc /\ m.esc # {}
      BY <1>2
    <3>2. lf.org \notin {"init", "input"}
      BY <2>2 DEF OriginOk
    <3>3. QED
      BY <1>2, <3>1, <3>2 DEF isLocalFalse
  <2>4. lf.id \in DOMAIN m.alias => B \in m.alias[lf.id]
    <3> SUFFICES ASSUME lf.id \in DOMAIN m.alias PROVE B \in m.alias[lf.id]
      OBVIOUS
    <3>1. CASE lf.org = "input"
      <4>1. lf.id = 1 /\ lf.p.bid <= NumGlobals + 1 /\ lf.p.local = FALSE
        BY <2>2, <3>1 DEF OriginOk
      <4>2. lf.p.bid \in 0 .. NumGlobals + 1
        BY <2>2, <4>1, MemoryAssumption
      <4>3. m.alias[1] = {FALSE} \X (0 .. NumGlobals + 1)
        BY <2>2 DEF AliasOk
      <4>4. <<FALSE, lf.p.bid>> \in m.alias[1]
        BY <4>2, <4>3
      <4>5. QED
        BY <2>1, <4>1, <4>4, Zenon
    <3>2. CASE lf.org = "fnret"
      <4> DEFINE x == <<lf.id, B>>
      <4>1. x \in K.rets /\ x[1] = lf.id /\ x[2] = B
        BY <2>2, <3>2 DEF OriginOk
      <4> HIDE DEF x, B
      <4>2. QED
        BY <2>2, <4>1 DEF AliasOk
    <3>3. CASE lf.org \notin {"input", "fnret"}
      <4>1. lf.id = 0
        BY <2>2, <3>3 DEF OriginOk
      <4>2. QED
        BY <2>2, <4>1 DEF AliasOk
    <3>4. QED
      BY <3>1, <3>2, <3>3
  <2> HIDE DEF B
  <2>5. B \in AllBlocks
    BY DEF B
  <2>6. B \in { blk \in AllBlocks :
                  /\ blk[1] => /\ ~isLocalFalse(m, lf)
                               /\ lf.org \in {"callmem", "fnret", "load"} => blk[2] \in m.esc
                  /\ lf.id \in DOMAIN m.alias => blk \in m.alias[lf.id] }
    BY <2>3, <2>4, <2>5
  <2>7. QED
    BY <1>2, <2>6 DEF LeafBlocks, B
<1>3. QED
  BY <1>1, <1>2

\* The block of an access is one that mayalias keeps.
LEMMA OwnMayAlias ==
  ASSUME NEW m, MemOk(Known, m), NEW p, PtrOk(p), NEW n \in Nat, n >= 1, NEW write \in BOOLEAN,
         LogDeref(m, p, n, write)
  PROVE  mayalias(m, BlockOf(p), n, write)
<1> DEFINE K == Known
           B == BlockOf(p)
<1>1. MemOk(K, m) /\ K.n = nextl
  BY DEF Known
<1> HIDE DEF K
<1>2. /\ n <= blockSize(m, B) /\ ~StaticDead(m, B)
      /\ p.local => p.bid \in DOMAIN m.lblk
      /\ ~p.local => p.bid \in Nonlocal \ {0}
  BY <1>1, DerefBlock
<1>3. B[1] = p.local /\ B[2] = p.bid
  BY DEF BlockOf
<1>4. write => isWritable(B)
  BY DEF LogDeref, block_constraints
<1> HIDE DEF B
<1>5. B[1] => B[2] < nextl /\ B[2] \in DOMAIN m.lblk
  BY <1>1, <1>2, <1>3 DEF MemOk
<1>6. ~B[1] => /\ B[2] \in Nonlocal
               /\ ~write => ~always_noread(B[2], FALSE)
               /\ write => ~always_nowrite(B[2], FALSE)
  <2> SUFFICES ASSUME ~B[1] PROVE /\ B[2] \in Nonlocal
                                  /\ ~write => ~always_noread(B[2], FALSE)
                                  /\ write => ~always_nowrite(B[2], FALSE)
    OBVIOUS
  <2>1. B[2] \in Nonlocal /\ B[2] # 0 /\ B[2] <= max_program_nonlocal_bid
    BY <1>2, <1>3 DEF PtrOk
  <2>2. ~always_noread(B[2], FALSE)
    BY <2>1, MemoryAssumption
       DEF always_noread, is_fncall_mem, get_fncallmem_bid, max_program_nonlocal_bid, Nonlocal
  <2>3. QED
    BY <1>4, <2>1, <2>2 DEF isWritable
<1>7. MayFit(m, B, n)
  BY <1>2 DEF MayFit
<1>8. mayalias(m, B, n, write)
  BY <1>2, <1>5, <1>6, <1>7 DEF mayalias
<1>9. QED
  BY <1>8 DEF B

\* The analysis of an access keeps the block the pointer points to.
LEMMA AliasOwn ==
  ASSUME NEW m, MemOk(Known, m), NEW reg, RegOk(Known, reg), CurIsLeaf(reg),
         RegSafe(m.esc, nextl, reg), NEW n \in Nat, n >= 1, NEW write \in BOOLEAN,
         isDereferenceable(m, reg, n, write).ok, reg.cur.p.log
  PROVE  BlockOf(reg.cur.p) \in computeAliasing(m, isDereferenceable(m, reg, n, write).reg, n, write)
<1> DEFINE logical(lf) == IF lf.p.log THEN lf ELSE Leaf("phys", 0, PhyPointer(m, lf.p, n))
           L == { logical(l) : l \in { l \in reg.leaves : ~(l.p.log /\ Infeasible(m, l, n)) } }
           p == reg.cur.p
           lf == reg.cur
           d == isDereferenceable(m, reg, n, write)
           R == Reg(L, logical(reg.cur), reg.np)
           ok == /\ reg.np
                 /\ n = 0 \/ (IF p.log THEN LogDeref(m, p, n, write) ELSE PhyDeref(m, p, n, write))
<1>1. d = [ok |-> ok, reg |-> R]
  BY DEF isDereferenceable
<1> HIDE DEF R, ok
<1>2. d.ok = ok /\ d.reg = R
  BY <1>1
<1> HIDE DEF d
<1>3. ok
  BY <1>2, Zenon DEF d
<1>4. reg.np /\ LogDeref(m, p, n, write)
  BY <1>3 DEF ok
<1>5. lf \in reg.leaves /\ LeafOk(Known, lf) /\ PtrOk(p) /\ R.leaves = L
  BY <1>4 DEF CurIsLeaf, RegOk, LeafOk, R, Reg
<1> DEFINE K == Known
<1>6. MemOk(K, m) /\ LeafOk(K, lf)
  BY <1>5
<1> HIDE DEF K
<1>7. n <= blockSize(m, BlockOf(p)) /\ ~StaticDead(m, BlockOf(p)) /\ BlockOf(p) \in AllBlocks
  BY <1>4, <1>5, <1>6, DerefBlock
<1>8. ~Infeasible(m, lf, n)
  BY <1>7 DEF Infeasible, MayFit
<1>9. lf \in L
  <2>1. logical(lf) = lf
    OBVIOUS
  <2>2. logical(lf) \in L
    BY <1>5, <1>8
  <2> HIDE DEF L, logical
  <2>3. QED
    BY <2>1, <2>2
<1> HIDE DEF L, logical
<1>10. p.local => p.bid \in m.esc \/ lf.org = "const"
  BY <1>4 DEF RegSafe
<1>11. BlockOf(p) \in LeafBlocks(m, lf)
  BY <1>6, <1>7, <1>10, OwnLeafBlock
<1>12. mayalias(m, BlockOf(p), n, write)
  BY <1>4, <1>5, OwnMayAlias
<1>13. ~((write /\ "nowrite" \in lf.p.attrs) \/ (~write /\ "noread" \in lf.p.attrs))
  BY <1>4 DEF LogDeref, block_constraints
<1>14. BlockOf(p) \in computeAliasing(m, R, n, write)
  BY <1>5, <1>9, <1>11, <1>12, <1>13 DEF computeAliasing
<1>15. QED
  BY <1>2, <1>14 DEF d

\* Every access of every program touches the one block its pointer points to:
\* alias analysis never misses it, and neither comparing a part of the name of
\* the block nor comparing nothing lets another block in (memory.cpp
\* computeAliasing, access; pointer.cpp isDereferenceable).
THEOREM AccessesAreExact == Spec => []AccessesExact
<1>1. IInv => AccessesExact
  <2> SUFFICES ASSUME IInv, Active, NEW i \in DOMAIN regs, NEW n \in 1 .. MaxSize, NEW write \in BOOLEAN,
                      isDereferenceable(mem, regs[i], n, write).ok, regs[i].cur.p.log
               PROVE  LET A == computeAliasing(mem, isDereferenceable(mem, regs[i], n, write).reg, n, write)
                          p == regs[i].cur.p
                      IN  /\ BlockOf(p) \in A
                          /\ \A blk \in A : AccessCond(A, p, blk) <=> blk = BlockOf(p)
    BY DEF AccessesExact
  <2> DEFINE reg == regs[i]
             d == isDereferenceable(mem, reg, n, write)
             A == computeAliasing(mem, d.reg, n, write)
             p == reg.cur.p
  <2>1. n \in Nat /\ n >= 1
    OBVIOUS
  <2>2. MemOk(Known, mem)
    BY StateOk
  <2>3. RegOk(Known, reg) /\ CurIsLeaf(reg) /\ RegSafe(mem.esc, nextl, reg)
    BY OperandOk DEF Defined
  <2>4. BlockOf(p) \in A
    BY <2>1, <2>2, <2>3, AliasOwn
  <2>5. RegOk(Known, d.reg)
    BY <2>2, <2>3, DerefTyped
  <2>6. A \subseteq AllBlocks
    <3> DEFINE x == d.reg
               K == Known
    <3>1. MemOk(K, mem) /\ \A lf \in x.leaves : LeafOk(K, lf)
      BY <2>2, <2>5 DEF RegOk
    <3> HIDE DEF x, K
    <3>2. computeAliasing(mem, x, n, write) \subseteq AllBlocks
      BY <3>1, AliasBlocks
    <3>3. QED
      BY <3>2 DEF x
  <2> HIDE DEF A, p
  <2>7. \A blk \in A : AccessCond(A, p, blk) <=> blk = BlockOf(p)
    BY <2>4, <2>6, OneBlock
  <2>8. QED
    BY <2>4, <2>7 DEF A, p
<1>2. QED
  BY <1>1, Invariance, PTL

=============================================================================
