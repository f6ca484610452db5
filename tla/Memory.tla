------------------------------- MODULE Memory -------------------------------
(***************************************************************************)
(* The memory of the symbolic executor (ir/memory.cpp, ir/pointer.cpp) and *)
(* the instructions that use it, under one assignment of the solver's      *)
(* variables.  The encoded memory mem keeps what the code keeps: block     *)
(* contents with the static type of a block, liveness, the static alias    *)
(* knowledge (escaped locals, ptr_alias), the offsets that were stored     *)
(* to.  Beside it ref is the memory of a machine that knows no             *)
(* aliasing: one access touches the one block its pointer points to.       *)
(*                                                                         *)
(* A behaviour runs a source program and then a target program.  A program *)
(* is a sequence of operation kinds, the operands of each are chosen.      *)
(***************************************************************************)
EXTENDS Bytes

CONSTANTS NumNonlocals,   \* num_nonlocals_src; the last one is the block of calls
          NumLocals,      \* local blocks of the source and of the target
          NumConsts,      \* constant globals, after the null block
          NumGlobals,     \* globals, the constant ones included
          MaxSize,        \* bytes of the largest block
          MaxInline,      \* bytes of a memset or memcpy that is done with stores (4)
          SmallBlock,     \* bytes of a block that is compared whole (8)
          MaxStored,      \* MAX_STORED_PTRS_SET
          Programs,       \* source and target programs, whether they access parts of bytes
          Assignments,    \* addresses, sizes, kinds and contents of blocks, input
          Outputs         \* what a callee may do

ASSUME MemoryAssumption ==
  /\ NumConsts \in Nat /\ NumGlobals \in Nat /\ NumNonlocals \in Nat /\ NumLocals \in Nat
  /\ NumConsts <= NumGlobals /\ NumGlobals + 2 < NumNonlocals

VARIABLES asg,     \* the assignment
          side,    \* "src" | "tgt" | "end"
          todo,    \* what is left of the program
          later,   \* the target program
          mem,     \* the encoded memory
          nextl,   \* next_local_bid, which branches share
          ref,     \* the memory of the reference machine
          regs,    \* pointer registers
          br,      \* the open branch
          flags,   \* undefined behaviour of either machine, a call without a match
          seen,    \* the last value loaded by either machine
          calls,   \* fn_call_data of the source
          match,   \* the source call that the last call of the target is taken for
          done     \* the source at its end

vars == <<asg, side, todo, later, mem, nextl, ref, regs, br, flags, seen, calls, match, done>>

-----------------------------------------------------------------------------
(* Classes of non-local blocks. *)

Nonlocal == 0 .. NumNonlocals - 1
Local    == 0 .. NumLocals - 1
AllBlocks == ({FALSE} \X Nonlocal) \cup ({TRUE} \X Local)
Offsets  == 0 .. MaxSize - 1

is_globalvar(b) == b \in 1 .. NumGlobals
is_constglb(b)  == b \in 1 .. NumConsts

get_fncallmem_bid == NumNonlocals - 1
is_fncall_mem(b)  == b = get_fncallmem_bid

always_alive(b) == is_globalvar(b) \/ is_fncall_mem(b)

always_noread(b, fn)  == b = 0 \/ (~fn /\ is_fncall_mem(b))
always_nowrite(b, fn) == always_noread(b, fn) \/ is_constglb(b)

max_program_nonlocal_bid == NumNonlocals - 2
nextNonlocalBid(m)     == IF m.nextnl < max_program_nonlocal_bid
                          THEN m.nextnl ELSE max_program_nonlocal_bid
numCurrentNonLocals(m) == nextNonlocalBid(m) + 1

-----------------------------------------------------------------------------
(* A pointer of the program is an expression: the leaves of its if-then-   *)
(* elses and the leaf it evaluates to.  org is what the code can see of a  *)
(* leaf, id the key of ptr_alias (0 for none).                             *)

Leaf(org, id, p) == [org |-> org, id |-> id, p |-> p]
Const(p) == Leaf("const", 0, p)
Reg(leaves, cur, np) == [leaves |-> leaves, cur |-> cur, np |-> np]

LeafTyped(lf) == DOMAIN lf = {"org", "id", "p"} /\ PtrTyped(lf.p)

ByteTyped(b) ==
  b.ptr => /\ DOMAIN b = {"ptr", "p", "pnp", "i", "sh"}
           /\ PtrTyped(b.p)
           /\ \A lf \in b.sh : LeafTyped(lf)

(* A pointer of initial memory or of a callee is one variable. *)
OwnShape(org, b) == b.ptr => b.sh = {Leaf(org, 0, b.p)}

(* What a behaviour is chosen from: blocks hold bytes, the input and what  *)
(* a callee returns are pointers, a program stores integers with "store".  *)
ASSUME AssignmentsAssumption ==
  \A x \in Assignments :
    /\ DOMAIN x = {"base", "size", "kind", "live", "val", "input", "sub"}
    /\ PtrTyped(x.input)
    /\ \A b \in Nonlocal, o \in Offsets : ByteTyped(x.val[b][o]) /\ OwnShape("init", x.val[b][o])

ASSUME OutputsAssumption ==
  \A x \in Outputs :
    /\ DOMAIN x = {"writes", "wargs", "frees", "val", "ret"}
    /\ PtrTyped(x.ret)
    /\ \A b \in Nonlocal, o \in Offsets : ByteTyped(x.val[b][o]) /\ OwnShape("callmem", x.val[b][o])

Ops == UNION { { s[i] : i \in DOMAIN s } : s \in { p.src : p \in Programs } \cup { p.tgt : p \in Programs } }

ASSUME ProgramsAssumption ==
  /\ \A p \in Programs : p.src \in Seq(Ops) /\ p.tgt \in Seq(Ops)
  /\ \A op \in Ops :
       /\ op.k = "store" => \A a \in op.a : a[3] \in Nat \ {PtrTy}
       /\ op.k \in {"memset", "memcpy"} => \A a \in op.a : a[3] \in Nat

(* The local bit of a leaf, where it is known. *)
isLocalFalse(m, lf) ==
  CASE lf.org = "const" -> ~lf.p.local
    [] lf.org \in {"input", "init"} -> TRUE
    [] lf.org \in {"callmem", "fnret", "phys"} -> m.esc = {}
    [] OTHER -> FALSE
isLocalTrue(lf) == lf.org = "const" /\ lf.p.local

-----------------------------------------------------------------------------
(* Blocks of the encoded memory. *)

isBlockAlive(m, blk) ==
  IF ~blk[1] /\ always_alive(blk[2]) THEN TRUE
  ELSE m.live[blk].cur /\ blk # <<FALSE, 0>>

StaticDead(m, blk) ==
  \/ blk = <<FALSE, 0>>
  \/ /\ ~(~blk[1] /\ always_alive(blk[2]))
     /\ m.live[blk].known /\ ~m.live[blk].cur

blockSize(m, blk) ==
  IF ~blk[1] THEN asg.size[blk[2]]
  ELSE IF blk[2] \in DOMAIN m.lblk THEN m.lblk[blk[2]].size ELSE 0

SizeKnown(m, blk) == IF blk[1] THEN blk[2] \in DOMAIN m.lblk
                     ELSE blk[2] = 0 \/ is_globalvar(blk[2])

getAllocType(m, blk) ==
  IF ~blk[1] THEN asg.kind[blk[2]]
  ELSE IF blk[2] \in DOMAIN m.lblk THEN m.lblk[blk[2]].kind ELSE "none"

Info(m) == [blk \in AllBlocks |-> [size  |-> blockSize(m, blk),
                                   kind  |-> getAllocType(m, blk),
                                   alive |-> isBlockAlive(m, blk)]]

isWritable(blk) == blk[1] \/ ~always_nowrite(blk[2], FALSE)

-----------------------------------------------------------------------------
(* Alias analysis. *)

(* No access fits in a block that is known to be smaller. *)
MayFit(m, blk, bytes) == SizeKnown(m, blk) => bytes <= blockSize(m, blk)

mayalias(m, blk, bytes, write) ==
  /\ blk[1] => blk[2] < nextl /\ blk[2] \in DOMAIN m.lblk
  /\ ~blk[1] => /\ blk[2] \in Nonlocal
                /\ ~write => ~always_noread(blk[2], FALSE)
                /\ write => ~always_nowrite(blk[2], FALSE)
  /\ MayFit(m, blk, bytes)
  /\ ~StaticDead(m, blk)

(* Mutant: a pointer that was loaded is never one of a local block. *)
LeafBlocks_LoadsNonlocal(m, lf) ==
  IF lf.org = "const" THEN {BlockOf(lf.p)}
  ELSE { blk \in AllBlocks : /\ ~blk[1] \/ lf.org # "load"
                             /\ lf.id \in DOMAIN m.alias => blk \in m.alias[lf.id] }

(* Loads and callees can only return escaped locals, initial memory none.  *)
LeafBlocks(m, lf) ==
  IF lf.org = "const" THEN {BlockOf(lf.p)}
  ELSE { blk \in AllBlocks :
           /\ blk[1] => /\ ~isLocalFalse(m, lf)
                        /\ lf.org \in {"callmem", "fnret", "load"} => blk[2] \in m.esc
           /\ lf.id \in DOMAIN m.alias => blk \in m.alias[lf.id] }

computeAliasing(m, reg, bytes, write) ==
  UNION { { blk \in LeafBlocks(m, lf) : mayalias(m, blk, bytes, write) } :
          lf \in { l \in reg.leaves :
                     ~((write /\ "nowrite" \in l.p.attrs) \/ (~write /\ "noread" \in l.p.attrs)) } }

(* Mutant: the local bit is not compared where the number of the block is. *)
AccessCond_NoLocalBit(A, p, blk) ==
  LET same == { b \in A : b[1] = blk[1] }
  IN  \/ Cardinality(A) = 1
      \/ IF Cardinality(same) = 1 THEN p.local = blk[1] ELSE p.bid = blk[2]

(* The condition under which access() touches a block of the alias set: a  *)
(* lone block is touched whatever the pointer is.                          *)
AccessCond(A, p, blk) ==
  LET same == { b \in A : b[1] = blk[1] }
      both == \E b \in A : b[1] # blk[1]
  IN  \/ Cardinality(A) = 1
      \/ /\ both => p.local = blk[1]
         /\ IF Cardinality(same) = 1 THEN p.local = blk[1] ELSE p.bid = blk[2]

-----------------------------------------------------------------------------
(* Dereferenceability.  The result has the condition and the pointer that  *)
(* is left when the leaves that can never be dereferenced are dropped; a   *)
(* physical pointer becomes a logical one.                                 *)

block_constraints(m, p, write) ==
  /\ isBlockAlive(m, BlockOf(p))
  /\ write => isWritable(BlockOf(p)) /\ "nowrite" \notin p.attrs
  /\ ~write => "noread" \notin p.attrs

LogDeref(m, p, bytes, write) ==
  /\ FitsInBlock(p, bytes, blockSize(m, BlockOf(p)))
  /\ block_constraints(m, p, write)

PhyCandidates(m) ==
  { blk \in AllBlocks : IF blk[1] THEN blk[2] \in m.esc \cap DOMAIN m.lblk
                        ELSE blk[2] < numCurrentNonLocals(m) }

PhyPointer(m, p, bytes) ==
  LET in == { blk \in PhyCandidates(m) :
                isOfBlock(asg.base, blockSize(m, blk), p.addr, blk, bytes) }
      blk == IF in = {} THEN <<FALSE, 0>> ELSE CHOOSE b \in in : TRUE
  IN  Logical(blk[1], blk[2], p.addr - asg.base[blk], {})

PhyDeref(m, p, bytes, write) ==
  \E blk \in PhyCandidates(m) :
    /\ isInboundsOf(asg.base, blockSize(m, blk), p.addr, blk, bytes)
    /\ block_constraints(m, Logical(blk[1], blk[2], p.addr - asg.base[blk], p.attrs), write)

Infeasible(m, lf, bytes) ==
  /\ lf.org = "const"
  /\ ~MayFit(m, BlockOf(lf.p), bytes) \/ StaticDead(m, BlockOf(lf.p))

isDereferenceable(m, reg, bytes, write) ==
  LET logical(lf) == IF lf.p.log THEN lf ELSE Leaf("phys", 0, PhyPointer(m, lf.p, bytes))
      p == reg.cur.p
  IN  [ok  |-> /\ reg.np
               /\ bytes = 0 \/ (IF p.log THEN LogDeref(m, p, bytes, write)
                                         ELSE PhyDeref(m, p, bytes, write)),
       reg |-> Reg({ logical(lf) : lf \in { l \in reg.leaves : ~(l.p.log /\ Infeasible(m, l, bytes)) } },
                   logical(reg.cur), reg.np)]

-----------------------------------------------------------------------------
(* Escapes: a pointer that is stored, passed to a callee or cast to an     *)
(* integer makes the local blocks it may point to known to others.         *)

(* Mutant: of a pointer that may be one of several, nothing escapes. *)
MayEscape_OneLeaf(m, reg) ==
  { lf.p.bid : lf \in { l \in reg.leaves : reg.leaves = {l} /\ l.org = "const" /\ l.p.local } }

MayEscape(m, reg) ==
  LET lfs == { lf \in reg.leaves : lf.p.log /\ ~isLocalFalse(m, lf) }
  IN  IF \E lf \in lfs : lf.org \notin {"const", "init", "callmem", "fnret", "load"}
      THEN 0 .. nextl - 1
      ELSE { lf.p.bid : lf \in { l \in lfs : l.org = "const" /\ l.p.bid < nextl } }

escapeLocalPtr(m, reg) == [m EXCEPT !.esc = @ \cup MayEscape(m, reg)]

-----------------------------------------------------------------------------
(* Loads and stores of bytes. *)

AnyTy == {"int", "ptr"}

ByteAt(val, blk, off) == IF off \in Offsets THEN val[blk][off] ELSE mkPoisonByte

ShapeOf(b) == IF b.ptr THEN b.sh ELSE {}

(* if-then-else of two bytes: the shape of a pointer has both sides. *)
IfByte(cond, b1, b2) ==
  LET b == IF cond THEN b1 ELSE b2
  IN  IF b.ptr THEN [b EXCEPT !.sh = ShapeOf(b1) \cup ShapeOf(b2)] ELSE b

(* An access of the whole block starts at its first byte. *)
FullAccess(m, blk, n) == SizeKnown(m, blk) /\ blockSize(m, blk) = n

load(m, reg, n) ==
  LET A   == computeAliasing(m, reg, n, FALSE)
      p   == reg.cur.p
      off == Signed(p.off, bits_for_offset)
      hit == { blk \in A : AccessCond(A, p, blk) }
      start(blk) == IF FullAccess(m, blk, n) THEN 0 ELSE off
      val(i) == IF hit = {} THEN mkPoisonByte
                ELSE LET blk == CHOOSE b \in hit : TRUE
                     IN  ByteAt(m.val, blk, start(blk) + i)
  IN  [bytes |-> [i \in 0 .. n - 1 |-> val(i)],
       type  |-> UNION { m.type[blk] : blk \in A },
       shape |-> UNION { ShapeOf(ByteAt(m.val, blk, start(blk))) : blk \in A }]

data_type(data, full) ==
  LET zeros == Cardinality({ i \in DOMAIN data : ~data[i].ptr /\ data[i].val = 0 })
  IN  (IF \E i \in DOMAIN data : data[i].ptr THEN {"ptr"} ELSE {})
        \cup (IF \E i \in DOMAIN data : ~data[i].ptr THEN {"int"} ELSE {})
        \cup (IF (full /\ zeros >= ptr_bytes) \/ (~full /\ zeros > 0) THEN {"ptr"} ELSE {})

(* Mutant: when the set is full, further offsets are forgotten. *)
record_stored_pointer_Forgets(s, offs) ==
  IF s.all \/ Cardinality(s.offs \cup offs) > MaxStored THEN s
  ELSE [s EXCEPT !.offs = @ \cup offs]

record_stored_pointer(s, offs) ==
  IF s.all \/ Cardinality(s.offs \cup offs) > MaxStored THEN [offs |-> {}, all |-> TRUE]
  ELSE [s EXCEPT !.offs = @ \cup offs]

(* Replaces block contents where the access condition holds.  new gives    *)
(* the bytes of an offset, at the offsets for which the block is changed.  *)
WriteBlocks(m, A, p, new, at(_)) ==
  [blk \in AllBlocks |->
     IF blk \notin A THEN m.val[blk]
     ELSE [o \in Offsets |->
             IF o \notin at(blk) THEN m.val[blk][o]
             ELSE IF Cardinality(A) = 1 THEN new[o]
             ELSE IfByte(AccessCond(A, p, blk), new[o], m.val[blk][o])]]

Escaped(m, data) ==
  [m EXCEPT !.esc = @ \cup UNION { MayEscape(m, Reg(data[i].sh, {}, TRUE)) :
                                   i \in { j \in DOMAIN data : data[j].ptr /\ data[j].pnp } }]

store(m0, reg, data, orig) ==
  IF DOMAIN data = {} THEN m0 ELSE
  LET m    == Escaped(m0, data)
      n    == Cardinality(DOMAIN data)
      A    == computeAliasing(m, reg, n, TRUE)
      p    == reg.cur.p
      off  == Signed(p.off, bits_for_offset)
      new  == [o \in Offsets |-> IF o - off \in DOMAIN data THEN data[o - off] ELSE data[0]]
      at(blk) == IF FullAccess(m, blk, n) THEN Offsets ELSE { o \in Offsets : o - off \in DOMAIN data }
      tyfull  == data_type(data, TRUE) \cap orig
      ty      == data_type(data, FALSE) \cap orig
  IN  [m EXCEPT !.val = WriteBlocks(m, A, p, new, at),
                !.type = [blk \in AllBlocks |->
                            IF blk \notin A THEN @[blk]
                            ELSE IF ~FullAccess(m, blk, n) THEN @[blk] \cup ty
                            ELSE IF Cardinality(A) = 1 THEN tyfull ELSE @[blk] \cup tyfull],
                !.stored = [b \in Nonlocal |->
                              IF <<FALSE, b>> \in A
                              THEN record_stored_pointer(@[b], { off + i : i \in DOMAIN data }) ELSE @[b]]]

(* A store of unknown or large size: val gives the byte of each offset. *)
storeLambda(m, reg, n, val, type) ==
  LET A   == computeAliasing(m, reg, n, TRUE)
      p   == reg.cur.p
      off == Signed(p.off, bits_for_offset)
      at(blk) == IF FullAccess(m, blk, n) THEN Offsets ELSE { o \in Offsets : o >= off /\ o < off + n }
  IN  [m EXCEPT !.val = WriteBlocks(m, A, p, val, at),
                !.type = [blk \in AllBlocks |->
                            IF blk \notin A THEN @[blk]
                            ELSE IF FullAccess(m, blk, n) /\ Cardinality(A) = 1 THEN type
                            ELSE @[blk] \cup type],
                !.stored = [b \in Nonlocal |->
                              IF <<FALSE, b>> \in A THEN [offs |-> {}, all |-> TRUE] ELSE @[b]]]

memset(m, reg, val, n) ==
  LET byte == valueToBytes(val, bits_byte, {}, 0, asg.sub)[0]
  IN  IF n <= MaxInline THEN store(m, reg, [i \in 0 .. n - 1 |-> byte], AnyTy)
      ELSE storeLambda(m, reg, n, [o \in Offsets |-> byte],
                       data_type([i \in {0} |-> byte], FALSE))

(* memcpy and memmove; the source is read before anything is written. *)
memcpy(m, dst, src, n) ==
  LET l     == load(m, src, n)
      delta == Signed(src.cur.p.off, bits_for_offset) - Signed(dst.cur.p.off, bits_for_offset)
      at(o) == load(m, [src EXCEPT !.cur.p.off = Trunc(o + delta, bits_for_offset)], 1)
  IN  IF dst = src THEN m
      ELSE IF n <= MaxInline THEN store(m, dst, l.bytes, l.type)
      ELSE storeLambda(m, dst, n, [o \in Offsets |-> at(o).bytes[0]], at(0).type)

(* The copy of realloc: the whole block of src becomes the block dst. *)
copy(m, src, dst) ==
  LET A   == computeAliasing(m, src, 1, FALSE) \ {dst}
      hit == { blk \in A : AccessCond(computeAliasing(m, src, 1, FALSE), src.cur.p, blk) }
  IN  [m EXCEPT !.val[dst] = IF hit = {} THEN [o \in Offsets |-> mkPoisonByte]
                             ELSE m.val[CHOOSE blk \in hit : TRUE],
                !.type[dst] = UNION { m.type[blk] : blk \in A }]

-----------------------------------------------------------------------------
(* Allocation and liveness. *)

(* The address of a new local block: in the half of local addresses and    *)
(* apart from the live ones.                                               *)
disjoint_local_blocks(m, bid, size) ==
  \A i \in DOMAIN m.lblk \ {bid} :
    isBlockAlive(m, <<TRUE, i>>) =>
      Disjoint(asg.base[<<TRUE, bid>>], size, asg.base[<<TRUE, i>>], m.lblk[i].size)

mkLocalDisjAddrAxioms(m, bid, size) ==
  /\ asg.base[<<TRUE, bid>>] >= 2 ^ (bits_ptr_address - 1)
  /\ asg.base[<<TRUE, bid>>] + size < 2 ^ bits_ptr_address
  /\ disjoint_local_blocks(m, bid, size)

alloc(m, bid, size, kind) ==
  [m EXCEPT !.live[<<TRUE, bid>>] = [cur |-> TRUE, known |-> TRUE],
            !.lblk = [i \in DOMAIN @ \cup {bid} |->
                        IF i = bid THEN [size |-> size, kind |-> kind] ELSE @[i]]]

(* store_bv: a liveness bit set through a pointer.  The bits stay known    *)
(* only if the pointer is a constant and the condition folds.              *)
store_bv(m, reg, val, cond, known) ==
  LET static == known /\ Cardinality(reg.leaves) = 1 /\ reg.cur.org = "const"
  IN  [m EXCEPT !.live = [blk \in AllBlocks |->
         [cur   |-> IF cond /\ blk = BlockOf(reg.cur.p) THEN val ELSE @[blk].cur,
          known |-> @[blk].known /\ static]]]

FreeOk(m, p) ==
  \/ isNull(asg.base, p)
  \/ /\ p.log /\ p.off = 0
     /\ isBlockAlive(m, BlockOf(p)) /\ getAllocType(m, BlockOf(p)) = "malloc"

free(m, reg, known) == store_bv(m, reg, FALSE, reg.np /\ ~isNull(asg.base, reg.cur.p), known)

startLifetime(m, reg, known) == store_bv(m, reg, TRUE, reg.np, known)

isStackAllocated(m, p) == p.log /\ p.local /\ getAllocType(m, BlockOf(p)) = "stack"

(* How many calls were made: pairs of a count and whether one of them      *)
(* writes, no pair if there was none, and what the callees may access.     *)
NoCalls == [calls |-> {}, acc |-> {}]

inc(r, acc, writes) ==
  [calls |-> IF r.calls = {} THEN {<<1, writes>>} ELSE { <<c[1] + 1, c[2] \/ writes>> : c \in r.calls },
   acc   |-> r.acc \cup acc]

meetRanges(r1, r2) ==
  [calls |-> r1.calls \cup r2.calls
               \cup (IF (r1.calls = {}) # (r2.calls = {}) THEN {<<0, TRUE>>} ELSE {}),
   acc   |-> r1.acc \cup r2.acc]

keep_only_writes(r) == [r EXCEPT !.calls = { c \in @ : c[2] }]

(* mkIf: the memories of two branches meet. *)
mkIf(cond, then, els) ==
  [val  |-> [blk \in AllBlocks |->
               [o \in Offsets |-> IfByte(cond, then.val[blk][o], els.val[blk][o])]],
   type |-> [blk \in AllBlocks |-> then.type[blk] \cup els.type[blk]],
   live |-> [blk \in AllBlocks |->
               [cur   |-> IF cond THEN then.live[blk].cur ELSE els.live[blk].cur,
                known |-> then.live[blk] = els.live[blk] /\ then.live[blk].known]],
   lblk |-> [i \in DOMAIN then.lblk \cup DOMAIN els.lblk |->
               IF i \in DOMAIN then.lblk THEN then.lblk[i] ELSE els.lblk[i]],
   esc  |-> then.esc \cup els.esc,
   alias |-> [k \in DOMAIN then.alias \cup DOMAIN els.alias |->
                (IF k \in DOMAIN then.alias THEN then.alias[k] ELSE {})
                  \cup (IF k \in DOMAIN els.alias THEN els.alias[k] ELSE {})],
   stored |-> [b \in Nonlocal |->
                 IF then.stored[b].all \/ els.stored[b].all THEN [offs |-> {}, all |-> TRUE]
                 ELSE record_stored_pointer(then.stored[b], els.stored[b].offs)],
   ranges |-> meetRanges(then.ranges, els.ranges),
   nextnl |-> IF then.nextnl > els.nextnl THEN then.nextnl ELSE els.nextnl]

-----------------------------------------------------------------------------
(* Calls.  The access of a callee is a set of "ra", "wa" (reads, writes    *)
(* what its arguments point to), "ro" and "wo" (the other memory).         *)

canReadSomething(acc)  == acc \cap {"ra", "ro"} # {}
canWriteSomething(acc) == acc \cap {"wa", "wo"} # {}
canAccess(acc)         == {"ro", "wo"} \subseteq acc

(* What a call reads: the calls before it count if it reads other memory.  *)
CallRanges(m, acc) == IF "ro" \in acc THEN keep_only_writes(m.ranges) ELSE NoCalls

(* Two calls may have been preceded by the same calls. *)
overlaps(acc, r1, r2) ==
  LET counts(r) == r.calls # {} /\ r.acc \cap {"wa", "wo"} # {"wa"}
  IN  canReadSomething(acc) =>
        /\ counts(r1) => IF r2.calls = {} THEN <<0, TRUE>> \in r1.calls
                         ELSE canReadSomething(r1.acc \cup r2.acc) => r1.calls \cap r2.calls # {}
        /\ counts(r2) => <<0, TRUE>> \in r2.calls \/ r1.calls # {}

modifies(m, out, acc, arg, b) ==
  \/ "wo" \in acc /\ b \in out.writes
  \/ /\ "wa" \in acc /\ out.wargs
     /\ ~is_fncall_mem(b) /\ b < m.nextnl
     /\ ~isNull(asg.base, arg.cur.p) /\ BlockOf(arg.cur.p) = <<FALSE, b>>

(* Whether the condition above can be seen to be false. *)
MayModify(m, acc, arg, b) ==
  \/ "wo" \in acc
  \/ /\ "wa" \in acc /\ ~is_fncall_mem(b)
     /\ \E lf \in arg.leaves : <<FALSE, b>> \in LeafBlocks(m, lf)

Writable == { b \in Nonlocal : ~always_nowrite(b, TRUE) }

(* The memory after a call.  A callee does not bring a block back to life, *)
(* and the static type of a block stays what it was.                       *)
setState(m, out, acc, arg) ==
  IF ~canWriteSomething(acc) THEN m
  ELSE LET mod == { b \in Writable : modifies(m, out, acc, arg, b) }
           may == { b \in Writable : MayModify(m, acc, arg, b) }
           dies(blk) == /\ ~blk[1] /\ canAccess(acc) /\ blk[2] \in out.frees
                        /\ ~is_fncall_mem(blk[2]) /\ asg.kind[blk[2]] = "malloc"
       IN  [m EXCEPT
              !.val = [blk \in AllBlocks |-> IF ~blk[1] /\ blk[2] \in mod
                                             THEN out.val[blk[2]] ELSE @[blk]],
              !.stored = [b \in Nonlocal |->
                 IF is_fncall_mem(b)
                 THEN [offs |-> IF b \in may THEN {} ELSE @[b].offs, all |-> TRUE]
                 ELSE IF b \in may THEN [offs |-> {}, all |-> FALSE] ELSE @[b]],
              !.live = [blk \in AllBlocks |->
                 IF dies(blk) THEN [@[blk] EXCEPT !.cur = FALSE] ELSE @[blk]]]

(* The pointer that a new callee returns: a block that the caller does not *)
(* keep for itself.  id is the key of what it may alias.                   *)
mkFnRet(m, id) ==
  [m EXCEPT !.nextnl = @ + 1,
            !.alias = [k \in DOMAIN @ \cup {id} |->
                         IF k = id THEN ({TRUE} \X m.esc) \cup ({FALSE} \X (0 .. nextNonlocalBid(m)))
                         ELSE @[k]]]

FnRetAxiom(m, p) == IF p.local THEN p.bid \in m.esc ELSE p.bid <= nextNonlocalBid(m)

FnRet(id, p) == Reg({Leaf("fnret", id, p)}, Leaf("fnret", id, p), TRUE)

-----------------------------------------------------------------------------
(* Refinement of two memories, for every block and offset. *)

blockRefined(m1, m2, blk) ==
  /\ isBlockAlive(m1, blk) = isBlockAlive(m2, blk)
  /\ blockSize(m1, blk) = blockSize(m2, blk)
  /\ getAllocType(m1, blk) = getAllocType(m2, blk)

(* The offsets of a block that have to be compared. *)
ToCompare(m1, m2, blk) ==
  LET s1   == m1.stored[blk[2]]
      s2   == m2.stored[blk[2]]
      size == blockSize(m1, blk)
  IN  IF ~s1.all /\ ~s2.all /\ s1.offs \cup s2.offs = {} THEN {}
      ELSE IF \/ SizeKnown(m1, blk) /\ size <= SmallBlock
              \/ s1.all \/ s2.all \/ Cardinality(s1.offs \cup s2.offs) > MaxStored
           THEN 0 .. size - 1
      ELSE (s1.offs \cup s2.offs) \cap Offsets

blockValRefined(m1, m2, blk) ==
  IF is_fncall_mem(blk[2])
  THEN m1.stored[blk[2]].all \/ m2.stored[blk[2]].all => m1.val[blk] = m2.val[blk]
  ELSE \A o \in ToCompare(m1, m2, blk) :
         ByteRefined(asg.base, m1.val[blk][o], m1.type[blk], Info(m1),
                     m2.val[blk][o], m2.type[blk], Info(m2))

(* Memory::refined.  fncall: the memories are those of two calls; set1 and *)
(* set2 are the arguments of the calls, if callees only use those.         *)
refined(m1, m2, fncall, set1, set2) ==
  LET restricted == set1 # {}
      aliased == IF restricted
                 THEN UNION { computeAliasing(m1, r, 1, FALSE) \cup computeAliasing(m2, r, 1, FALSE) :
                              r \in set1 }
                 ELSE {FALSE} \X Nonlocal
      asked(b) == restricted => \E r \in set1 \cup set2 : r.np /\ BlockOf(r.cur.p) = <<FALSE, b>>
  IN  \A b \in Nonlocal :
        \/ (fncall \/ b = 0) /\ always_nowrite(b, TRUE)
        \/ <<FALSE, b>> \notin aliased
        \/ ~asked(b)
        \/ /\ blockRefined(m1, m2, <<FALSE, b>>)
           /\ isBlockAlive(m1, <<FALSE, b>>) => blockValRefined(m1, m2, <<FALSE, b>>)

(* Mutant: the memory of the two calls is not compared. *)
refinedBy_ArgsOnly(c, m2, acc2, arg2) ==
  /\ c.acc = acc2 /\ c.arg.np = arg2.np
  /\ reprWithoutAttrs(c.arg.cur.p) = reprWithoutAttrs(arg2.cur.p)

(* FnCallInput::refinedBy: the call of the target can be taken for call c  *)
(* of the source.                                                          *)
refinedBy(c, m2, acc2, arg2) ==
  LET i1 == Info(c.mem)
      i2 == Info(m2)
      p1 == c.arg.cur.p
      p2 == arg2.cur.p
  IN  /\ c.acc \subseteq acc2
      /\ overlaps(acc2, c.mem.ranges, CallRanges(m2, acc2))
      /\ c.arg.np => /\ arg2.np
                     /\ fninputRefined(asg.base, p1, i1[BlockOf(p1)], p2, i2[BlockOf(p2)])
      /\ canReadSomething(acc2) =>
           IF "ro" \in acc2 THEN refined(c.mem, m2, TRUE, {}, {})
                            ELSE refined(c.mem, m2, TRUE, {c.arg}, {arg2})

-----------------------------------------------------------------------------
(* The reference machine: memory without aliasing, types or stored sets.   *)
(* given are the locals whose address others may know, lost the blocks of  *)
(* allocations that failed, which no pointer leads to.                     *)

RefSize(r, blk) == IF ~blk[1] THEN asg.size[blk[2]]
                   ELSE IF blk[2] \in DOMAIN r.lblk THEN r.lblk[blk[2]].size ELSE 0

RefAlive(r, blk) == blk # <<FALSE, 0>> /\ r.live[blk]

(* Where an access starts; a physical pointer finds the block it falls in. *)
RefPlaces(r, p, n) ==
  { x \in AllBlocks \X (0 .. MaxSize) :
      LET blk == x[1]
          o   == x[2]
      IN  /\ RefAlive(r, blk) /\ o + n <= RefSize(r, blk)
          /\ IF p.log THEN blk = BlockOf(p) /\ Signed(p.off, bits_for_offset) = o
             ELSE asg.base[blk] + o = p.addr /\ (blk[1] => blk[2] \in r.given) }

RefOk(r, reg, n, write) ==
  /\ reg.np
  /\ n > 0 => \E x \in RefPlaces(r, reg.cur.p, n) :
                IF write THEN ~(~x[1][1] /\ x[1][2] \in {0} \cup 1 .. NumConsts)
                              /\ "nowrite" \notin reg.cur.p.attrs
                ELSE "noread" \notin reg.cur.p.attrs

RefRead(r, p, n) ==
  LET x == CHOOSE y \in RefPlaces(r, p, n) : TRUE
  IN  [i \in 0 .. n - 1 |-> r.val[x[1]][x[2] + i]]

RefWrite(r, p, data) ==
  LET n == Cardinality(DOMAIN data)
      x == CHOOSE y \in RefPlaces(r, p, n) : TRUE
  IN  IF n = 0 THEN r
      ELSE [r EXCEPT !.val[x[1]] = [o \in Offsets |-> IF o - x[2] \in DOMAIN data
                                                      THEN NoShape(data[o - x[2]]) ELSE @[o]]]

Give(r, reg) == IF reg.np /\ reg.cur.p.log /\ reg.cur.p.local
                THEN [r EXCEPT !.given = @ \cup {reg.cur.p.bid}] ELSE r

(* One byte is at least as defined as another. *)
MoreDefined(b1, b2) ==
  IF b1.ptr
  THEN b1.pnp =>
         IF b2.ptr
         THEN /\ b2.pnp /\ b1.i = b2.i
              /\ \/ b1.p = b2.p
                 \/ b1.p.log /\ b1.p.local /\ b2.p.log /\ b2.p.local /\ b1.p.off = b2.p.off
                 \/ /\ (b1.p.log => BlockOf(b1.p) = <<FALSE, 0>>) \/ isNull(asg.base, b1.p)
                    /\ getAddress(asg.base, b1.p) = getAddress(asg.base, b2.p)
         ELSE b2.np = Ones(bits_byte) /\ castPtrToInt(asg.base, b1) = b2.val
  ELSE LET v2  == IF b2.ptr THEN castPtrToInt(asg.base, b2) ELSE b2.val
           np2 == IF b2.ptr THEN (IF b2.pnp THEN Ones(bits_byte) ELSE 0) ELSE b2.np
       IN  And(np2, b1.np, bits_byte) = b1.np /\ And(b1.val, b1.np, bits_byte) = And(v2, b1.np, bits_byte)

RefRefined(r1, r2, bids) ==
  \A b \in bids : LET blk == <<FALSE, b>> IN
    /\ r1.live[blk] = r2.live[blk]
    /\ r1.live[blk] => \A o \in 0 .. asg.size[b] - 1 : MoreDefined(r1.val[blk][o], r2.val[blk][o])

-----------------------------------------------------------------------------
(* Instructions.  Head(todo) gives the kind of the next one and the        *)
(* operands to choose from.                                                *)

Active == br.on => (br.cond = (br.ph = 1))

Ready(kind) == /\ side # "end" /\ todo # <<>> /\ Head(todo).k = kind
               /\ ~flags.ub /\ ~flags.rub /\ ~flags.nomatch

(* The end of an instruction: undefined behaviour, the reference machine   *)
(* and the values seen count only on the path that is taken.               *)
Done(m, r, ok, rok, new) ==
  /\ mem' = m
  /\ ref' = IF Active /\ rok THEN r ELSE ref
  /\ flags' = [flags EXCEPT !.ub = Active /\ ~ok, !.rub = Active /\ ~rok]
  /\ regs' = regs \o new
  /\ todo' = Tail(todo)
  /\ UNCHANGED <<asg, side, later, br, done>>

Quiet == UNCHANGED <<nextl, seen, calls, match>>

(* Programs are in SSA form: an operand is a register that has a value. *)
Defined(i) == i \in DOMAIN regs

NoSeen == [on |-> FALSE]

RefAlloc(r, bid, size, kind, live, got) ==
  [r EXCEPT !.live[<<TRUE, bid>>] = live,
            !.lost = IF got THEN @ ELSE @ \cup {<<TRUE, bid>>},
            !.lblk = [i \in DOMAIN @ \cup {bid} |->
                        IF i = bid THEN [size |-> size, kind |-> kind] ELSE @[i]]]

(* alloca, which may be dead until its lifetime starts, or malloc, which   *)
(* may fail.                                                               *)
ExecAlloc ==
  /\ Ready("alloc") /\ nextl < NumLocals
  /\ \E a \in Head(todo).a, nonnull \in BOOLEAN :
       LET size == a[1]
           dead == a[2] = "dead"
           kind == IF dead THEN "stack" ELSE a[2]
           p    == Const(Logical(TRUE, nextl, 0, {}))
           nul  == Const(mkNullPointer)
           m    == alloc(mem, nextl, size, kind)
       IN  /\ mkLocalDisjAddrAxioms(mem, nextl, size)
           /\ kind # "malloc" => nonnull
           /\ Done(IF dead THEN free(m, Reg({p}, p, TRUE), TRUE) ELSE m,
                   RefAlloc(ref, nextl, size, kind, ~dead, nonnull), TRUE, TRUE,
                   << IF kind # "malloc" THEN Reg({p}, p, TRUE)
                      ELSE Reg({p, nul}, IF nonnull THEN p ELSE nul, TRUE) >>)
  /\ nextl' = nextl + 1
  /\ UNCHANGED <<seen, calls, match>>

RefKill(r, reg, alive) ==
  IF reg.np /\ reg.cur.p.log /\ BlockOf(reg.cur.p) # <<FALSE, 0>>
  THEN [r EXCEPT !.live[BlockOf(reg.cur.p)] = alive] ELSE r

RefFreeOk(r, reg) ==
  LET p == reg.cur.p IN
  /\ reg.np
  /\ \/ isNull(asg.base, p)
     \/ /\ p.log /\ p.off = 0 /\ RefAlive(r, BlockOf(p))
        /\ "malloc" = IF p.local THEN r.lblk[p.bid].kind ELSE asg.kind[p.bid]

RefFree(r, reg) == IF isNull(asg.base, reg.cur.p) THEN r ELSE RefKill(r, reg, FALSE)

ExecFree ==
  /\ Ready("free")
  /\ \E i \in Head(todo).a : LET reg == regs[i] IN
       /\ Defined(i)
       /\ Done(free(mem, reg, TRUE), RefFree(ref, reg),
               reg.np /\ FreeOk(mem, reg.cur.p), RefFreeOk(ref, reg), <<>>)
  /\ Quiet

ExecStartLifetime ==
  /\ Ready("start")
  /\ \E i \in Head(todo).a : LET reg == regs[i] IN
       /\ Defined(i)
       /\ reg.np /\ reg.cur.p.local =>
            \/ isBlockAlive(mem, BlockOf(reg.cur.p))
            \/ disjoint_local_blocks(mem, reg.cur.p.bid, blockSize(mem, BlockOf(reg.cur.p)))
       /\ Done(startLifetime(mem, reg, TRUE), RefKill(ref, reg, TRUE),
               reg.np => isStackAllocated(mem, reg.cur.p),
               reg.np => reg.cur.p.local /\ ref.lblk[reg.cur.p.bid].kind # "malloc", <<>>)
  /\ Quiet

ExecEndLifetime ==
  /\ Ready("end")
  /\ \E i \in Head(todo).a : LET reg == regs[i] IN
       /\ Defined(i)
       /\ Done(free(mem, reg, TRUE), RefKill(ref, reg, FALSE),
               reg.np => isStackAllocated(mem, reg.cur.p),
               reg.np => reg.cur.p.local /\ ref.lblk[reg.cur.p.bid].kind # "malloc", <<>>)
  /\ Quiet

(* realloc: a new block with the old contents, and the old one freed       *)
(* unless there was no memory for a new one.                               *)
ExecRealloc ==
  /\ Ready("realloc") /\ nextl < NumLocals
  /\ \E a \in Head(todo).a, got \in BOOLEAN :
       LET old  == regs[a[1]]
           new  == Const(Logical(TRUE, nextl, 0, {}))
           nul  == Const(mkNullPointer)
           fr   == Reg(old.leaves \cup {nul}, IF got \/ a[2] = 0 THEN old.cur ELSE nul, TRUE)
           m    == copy(alloc(mem, nextl, a[2], "malloc"), old, <<TRUE, nextl>>)
           r    == RefAlloc(ref, nextl, a[2], "malloc", TRUE, got)
           copied == IF old.cur.p.log /\ RefAlive(ref, BlockOf(old.cur.p))
                     THEN [r EXCEPT !.val[<<TRUE, nextl>>] =
                             [o \in Offsets |-> IF o < RefSize(ref, BlockOf(old.cur.p))
                                                THEN r.val[BlockOf(old.cur.p)][o] ELSE mkPoisonByte]]
                     ELSE r
       IN  /\ Defined(a[1])
           /\ mkLocalDisjAddrAxioms(mem, nextl, a[2])
           /\ Done(free(m, fr, TRUE), RefFree(copied, fr),
                   old.np /\ FreeOk(m, fr.cur.p), old.np /\ RefFreeOk(ref, fr),
                   << Reg({new, nul}, IF got THEN new ELSE nul, TRUE) >>)
  /\ nextl' = nextl + 1
  /\ UNCHANGED <<seen, calls, match>>

MapLeaves(reg, F(_), np) ==
  Reg({ [lf EXCEPT !.p = F(lf.p)] : lf \in reg.leaves }, [reg.cur EXCEPT !.p = F(reg.cur.p)], np)

(* gep inbounds: the start and the end stay in the block, and the offset   *)
(* does not wrap.  Leaves that cannot be in their block are dropped.       *)
InBlock(m, p) == isInbounds(p, blockSize(m, BlockOf(p)), FALSE)

gep(m, reg, bytes, inbounds) ==
  LET p   == reg.cur.p
      off == Signed(p.off, bits_for_offset)
      np  == /\ off + bytes < 2 ^ (bits_for_offset - 1) /\ off + bytes >= -(2 ^ (bits_for_offset - 1))
             /\ bytes = 0 \/ (InBlock(m, p) /\ InBlock(m, Plus(p, bytes)))
      new == MapLeaves(reg, LAMBDA q : Plus(q, bytes), inbounds => np)
      can == { lf \in new.leaves : lf.org = "const" /\ SizeKnown(m, BlockOf(lf.p)) => InBlock(m, lf.p) }
  IN  IF inbounds /\ bytes # 0 THEN [new EXCEPT !.leaves = can] ELSE new

ExecGEP ==
  /\ Ready("gep")
  /\ \E a \in Head(todo).a : LET reg == regs[a[1]] IN
       /\ Defined(a[1]) /\ reg.np
       /\ Done(mem, ref, a[3] => reg.cur.p.log, a[3] => reg.cur.p.log, << gep(mem, reg, a[2], a[3]) >>)
  /\ Quiet

ExecPtrMask ==
  /\ Ready("mask")
  /\ \E a \in Head(todo).a :
       /\ Defined(a[1])
       /\ Done(mem, ref, TRUE, TRUE,
               << MapLeaves(regs[a[1]], LAMBDA q : maskOffset(asg.base, q, a[2]), regs[a[1]].np) >>)
  /\ Quiet

(* select: what makes a pointer with several leaves. *)
ExecSelect ==
  /\ Ready("select")
  /\ \E a \in Head(todo).a, c \in BOOLEAN : LET r == IF c THEN regs[a[1]] ELSE regs[a[2]] IN
       /\ Defined(a[1]) /\ Defined(a[2])
       /\ Done(mem, ref, TRUE, TRUE,
               << Reg(regs[a[1]].leaves \cup regs[a[2]].leaves, r.cur, r.np) >>)
  /\ Quiet

ExecPtrToInt ==
  /\ Ready("p2i")
  /\ \E i \in Head(todo).a :
       /\ Defined(i)
       /\ Done(escapeLocalPtr(mem, regs[i]), Give(ref, regs[i]), TRUE, TRUE, <<>>)
  /\ Quiet

(* inttoptr of an address that the program can know. *)
ExecIntToPtr ==
  /\ Ready("i2p")
  /\ \E a \in Head(todo).a :
       /\ a[1][1] => a[1][2] \in ref.given
       /\ LET lf == Leaf("phys", 0, mkPhysical(asg.base[a[1]] + a[2], {}))
          IN  Done(mem, ref, TRUE, TRUE, << Reg({lf}, lf, TRUE) >>)
  /\ Quiet

ExecStore ==
  /\ Ready("store")
  /\ \E a \in Head(todo).a :
       LET reg  == regs[a[1]]
           data == valueToBytes(a[2], a[3], {}, 0, asg.sub)
           d    == isDereferenceable(mem, reg, getStoreByteSize(a[3]), TRUE)
       IN  /\ Defined(a[1])
           /\ Done(store(mem, d.reg, data, AnyTy), RefWrite(ref, reg.cur.p, data), d.ok,
                   RefOk(ref, reg, getStoreByteSize(a[3]), TRUE), <<>>)
  /\ Quiet

ExecStorePtr ==
  /\ Ready("storep")
  /\ \E a \in Head(todo).a :
       LET reg  == regs[a[1]]
           val  == regs[a[2]]
           data == valueToBytes([v |-> val.cur.p, np |-> val.np], PtrTy, val.leaves, 0, asg.sub)
           d    == isDereferenceable(mem, reg, ptr_bytes, TRUE)
       IN  /\ Defined(a[1]) /\ Defined(a[2])
           /\ Done(store(mem, d.reg, data, AnyTy), Give(RefWrite(ref, reg.cur.p, data), val), d.ok,
                   RefOk(ref, reg, ptr_bytes, TRUE), <<>>)
  /\ Quiet

See(enc, rv) == seen' = IF Active THEN [on |-> TRUE, enc |-> enc, ref |-> rv] ELSE seen

AnyTypes(n) == [i \in 0 .. n - 1 |-> AnyTy]

RefValue(r, reg, ty) ==
  LET n == getStoreByteSize(ty)
  IN  IF RefOk(r, reg, n, FALSE)
      THEN bytesToValue(asg.base, RefRead(r, reg.cur.p, n), AnyTypes(n), ty, asg.sub)
      ELSE [v |-> 0, np |-> FALSE]

ExecLoad ==
  /\ Ready("load")
  /\ \E a \in Head(todo).a :
       LET reg == regs[a[1]]
           n   == getStoreByteSize(a[2])
           d   == isDereferenceable(mem, reg, n, FALSE)
           l   == load(mem, d.reg, n)
       IN  /\ Defined(a[1])
           /\ Done(mem, ref, d.ok, RefOk(ref, reg, n, FALSE), <<>>)
           /\ See(bytesToValue(asg.base, l.bytes, [i \in 0 .. n - 1 |-> l.type], a[2], asg.sub),
                  RefValue(ref, reg, a[2]))
  /\ UNCHANGED <<nextl, calls, match>>

(* The load of a pointer.  Either its expression is what was stored, or it *)
(* stays a load, of which only the escaped locals are known.               *)
ExecLoadPtr ==
  /\ Ready("loadp")
  /\ \E i \in Head(todo).a, forward \in BOOLEAN :
       LET reg == regs[i]
           d   == isDereferenceable(mem, reg, ptr_bytes, FALSE)
           l   == load(mem, d.reg, ptr_bytes)
           v   == PtrOfBytes(asg.base, l.bytes, [j \in 0 .. ptr_bytes - 1 |-> l.type])
           lvs == l.shape \cup (IF "int" \in l.type THEN {Const(Logical(FALSE, 0, v.v.off, {}))} ELSE {})
           cur == { lf \in lvs : lf.p = v.v }
       IN  /\ Defined(i)
           /\ forward => cur # {}
           /\ Done(mem, ref, d.ok, RefOk(ref, reg, ptr_bytes, FALSE),
                   << IF forward THEN Reg(lvs, CHOOSE lf \in cur : TRUE, v.np)
                      ELSE Reg({Leaf("load", 0, v.v)}, Leaf("load", 0, v.v), v.np) >>)
           /\ See(v, RefValue(ref, reg, PtrTy))
  /\ UNCHANGED <<nextl, calls, match>>

ExecMemset ==
  /\ Ready("memset")
  /\ \E a \in Head(todo).a :
       LET reg  == regs[a[1]]
           byte == valueToBytes(a[2], bits_byte, {}, 0, asg.sub)[0]
           d    == isDereferenceable(mem, reg, a[3], TRUE)
       IN  /\ Defined(a[1])
           /\ Done(memset(mem, d.reg, a[2], a[3]),
                   RefWrite(ref, reg.cur.p, [i \in 0 .. a[3] - 1 |-> byte]), d.ok,
                   RefOk(ref, reg, a[3], TRUE), <<>>)
  /\ Quiet

ExecMemcpy ==
  /\ Ready("memcpy")
  /\ \E a \in Head(todo).a :
       LET dst == regs[a[1]]
           src == regs[a[2]]
           n   == a[3]
           dd  == isDereferenceable(mem, dst, n, TRUE)
           ds  == isDereferenceable(mem, src, n, FALSE)
           rok == RefOk(ref, dst, n, TRUE) /\ RefOk(ref, src, n, FALSE)
       IN  /\ Defined(a[1]) /\ Defined(a[2])
           /\ dst.cur.p.log /\ src.cur.p.log
           /\ Done(memcpy(mem, dd.reg, ds.reg, n),
                   IF rok THEN RefWrite(ref, dst.cur.p, RefRead(ref, src.cur.p, n)) ELSE ref,
                   dd.ok /\ ds.ok /\ (a[4] \/ isDisjointOrEqual(src.cur.p, n, dst.cur.p, n)),
                   rok /\ (a[4] \/ isDisjointOrEqual(src.cur.p, n, dst.cur.p, n)), <<>>)
  /\ Quiet

-----------------------------------------------------------------------------
(* Branches: both sides are executed from the memory of the fork, and both *)
(* are finished before the function returns.                               *)

Control == UNCHANGED <<asg, side, later, nextl, ref, flags, seen, calls, match, done>>

Fork ==
  /\ Ready("fork") /\ ~br.on
  /\ \E c \in BOOLEAN : br' = [on |-> TRUE, cond |-> c, ph |-> 1, saved |-> mem, n |-> Len(regs)]
  /\ todo' = Tail(todo) /\ UNCHANGED <<mem, regs>> /\ Control

Else ==
  /\ Ready("else") /\ br.on /\ br.ph = 1
  /\ br' = [br EXCEPT !.ph = 2, !.saved = mem]
  /\ mem' = br.saved
  /\ regs' = SubSeq(regs, 1, br.n)
  /\ todo' = Tail(todo) /\ Control

Join ==
  /\ Ready("join") /\ br.on /\ br.ph = 2
  /\ mem' = mkIf(br.cond, br.saved, mem)
  /\ regs' = SubSeq(regs, 1, br.n)
  /\ br' = [on |-> FALSE]
  /\ todo' = Tail(todo) /\ Control

-----------------------------------------------------------------------------
(* The initial memory. *)

(* What the solver may choose for a block that others can write to: no     *)
(* pointers to local blocks or to the block of calls.                      *)
mkNonlocalValAxioms(block) ==
  \A o \in Offsets : block[o].ptr => ~block[o].p.local /\ block[o].p.bid <= max_program_nonlocal_bid

(* Blocks are at different addresses, the local ones in a half of their own. *)
mkAxioms(x) ==
  /\ x.base[<<FALSE, 0>>] = 0
  /\ \A b \in Nonlocal \ {0} :
       LET blk == <<FALSE, b>> IN
       /\ x.base[blk] # 0 /\ x.base[blk] + x.size[b] < 2 ^ (bits_ptr_address - 1)
       /\ \A c \in Nonlocal \ {0, b} : Disjoint(x.base[blk], x.size[b], x.base[<<FALSE, c>>], x.size[c])
       /\ mkNonlocalValAxioms(x.val[b])

mkInput(x) == x.input.log /\ ~x.input.local /\ x.input.bid <= NumGlobals + 1

PoisonBlock == [o \in Offsets |-> mkPoisonByte]

(* The memory at the start: local blocks are dead and poison. *)
NewMemory(x) ==
  [val  |-> [blk \in AllBlocks |-> IF blk[1] THEN PoisonBlock ELSE x.val[blk[2]]],
   type |-> [blk \in AllBlocks |-> IF blk[1] THEN {} ELSE AnyTy],
   live |-> [blk \in AllBlocks |-> [cur |-> ~blk[1] /\ x.live[blk[2]], known |-> blk[1]]],
   lblk |-> [i \in {} |-> 0], esc |-> {},
   alias |-> [k \in {1} |-> {FALSE} \X (0 .. NumGlobals + 1)],
   stored |-> [b \in Nonlocal |-> [offs |-> {}, all |-> FALSE]],
   ranges |-> NoCalls,
   nextnl |-> NumGlobals + 3]

(* The memory of a callee that reads nothing. *)
dupNoRead(m) == [NewMemory(asg) EXCEPT !.lblk = m.lblk]

-----------------------------------------------------------------------------
(* Calls of an unknown function.  A callee that writes other memory leaves *)
(* a mark in the block of calls: among the callees that the solver has to  *)
(* consider there is always one that does.                                 *)

Mark(k) == [o \in Offsets |-> IntByte(k % 2 ^ bits_byte, Ones(bits_byte), 0, k)]

WithMark(out, k) == [out EXCEPT !.val = [b \in Nonlocal |-> IF is_fncall_mem(b) THEN Mark(k) ELSE @[b]],
                                !.writes = @ \cup {get_fncallmem_bid}]

(* What the callee stores must be readable with the static type the block  *)
(* has, which setState does not change.                                    *)
FitsTypes(m, out) ==
  \A b \in out.writes : \A o \in Offsets :
    (IF out.val[b][o].ptr THEN "ptr" ELSE "int") \in m.type[<<FALSE, b>>]

AfterCall(m, arg, acc, out) ==
  [setState(m, out, acc, arg) EXCEPT !.ranges = inc(@, acc, canWriteSomething(acc))]

RefCall(r, arg, acc, out, id) ==
  LET mod == { b \in Writable : modifies(mem, out, acc, arg, b) }
  IN  IF ~canWriteSomething(acc) THEN r
      ELSE [r EXCEPT !.val = [blk \in AllBlocks |-> IF ~blk[1] /\ blk[2] \in mod
                                THEN [o \in Offsets |-> NoShape(out.val[blk[2]][o])] ELSE @[blk]],
                     !.live = [blk \in AllBlocks |->
                                 @[blk] /\ ~(/\ ~blk[1] /\ canAccess(acc) /\ blk[2] \in out.frees
                                             /\ asg.kind[blk[2]] = "malloc")],
                     !.trace = IF "wo" \in acc THEN Append(@, id) ELSE @]

Passed(m, reg, acc) == IF canWriteSomething(acc) THEN escapeLocalPtr(m, reg) ELSE m
RefPassed(r, reg, acc) == IF canWriteSomething(acc) THEN Give(r, reg) ELSE r

(* A callee only returns locals that it was given. *)
CanReturn(r, p) == p.local => p.bid \in r.given

(* The source: the same input gives the same output. *)
addFnCallSrc ==
  /\ Ready("call") /\ side = "src"
  /\ \E a \in Head(todo).a, o \in Outputs :
       LET arg  == regs[a[1]]
           m    == Passed(mem, arg, a[2])
           k    == Cardinality(calls) + 1
           in   == [(IF canReadSomething(a[2]) THEN m ELSE dupNoRead(m))
                      EXCEPT !.ranges = CallRanges(m, a[2])]
           same == { c \in calls : /\ c.acc = a[2] /\ c.mem = in
                                   /\ arg.np => c.arg.np /\ c.arg.cur.p = arg.cur.p }
           c    == IF same # {} THEN CHOOSE x \in same : TRUE
                   ELSE [id |-> k, acc |-> a[2], mem |-> in, arg |-> arg, out |-> WithMark(o, k),
                         ref |-> ref, active |-> Active]
           new  == IF same # {} THEN m ELSE mkFnRet(m, 10 + k)
           r    == RefPassed(ref, arg, a[2])
       IN  /\ Defined(a[1])
           /\ IF same # {} THEN o = CHOOSE x \in Outputs : TRUE ELSE FnRetAxiom(m, o.ret)
           /\ \A b \in Writable : mkNonlocalValAxioms(c.out.val[b])
           /\ FitsTypes(m, c.out) /\ CanReturn(r, c.out.ret)
           /\ canWriteSomething(a[2]) /\ c.out.wargs => arg.np
           /\ Done(AfterCall(new, arg, a[2], c.out), RefCall(r, arg, a[2], c.out, c.id), TRUE, TRUE,
                   << FnRet(10 + c.id, c.out.ret) >>)
           /\ calls' = calls \cup {c}
  /\ UNCHANGED <<nextl, seen, match>>

(* The target: a call that matches none of the source is undefined         *)
(* behaviour, otherwise one of those it matches is chosen.                 *)
addFnCallTgt ==
  /\ Ready("call") /\ side = "tgt"
  /\ \E a \in Head(todo).a :
       LET arg == regs[a[1]]
           m   == Passed(mem, arg, a[2])
           can == { c \in calls : refinedBy(c, m, a[2], arg) }
       IN  /\ Defined(a[1])
           /\ \/ /\ can = {}
                 /\ flags' = [flags EXCEPT !.nomatch = TRUE]
                 /\ UNCHANGED <<asg, side, todo, later, mem, ref, regs, br, done, calls, match>>
              \/ \E c \in can :
                   LET r == RefPassed(ref, arg, a[2])
                   IN  /\ FitsTypes(m, c.out) /\ CanReturn(r, c.out.ret)
                       /\ Done(AfterCall(m, arg, a[2], c.out), RefCall(r, arg, a[2], c.out, c.id), TRUE, TRUE,
                               << FnRet(10 + c.id, c.out.ret) >>)
                       /\ match' = IF Active /\ c.active
                                   THEN [on |-> TRUE, src |-> c.ref, tgt |-> ref, acc |-> a[2], arg |-> arg]
                                   ELSE match
                       /\ UNCHANGED calls
  /\ UNCHANGED <<nextl, seen>>

-----------------------------------------------------------------------------
(* The program. *)

InputReg(x) == LET lf == Leaf("input", 1, x.input) IN Reg({lf}, lf, TRUE)
GlobalRegs  == [b \in 1 .. NumGlobals |->
                  Reg({Const(Logical(FALSE, b, 0, {}))}, Const(Logical(FALSE, b, 0, {})), TRUE)]

NewRef(x) ==
  [val  |-> [blk \in AllBlocks |-> IF blk[1] THEN PoisonBlock
                                   ELSE [o \in Offsets |-> NoShape(x.val[blk[2]][o])]],
   live |-> [blk \in AllBlocks |-> ~blk[1] /\ (always_alive(blk[2]) \/ x.live[blk[2]])],
   lblk |-> [i \in {} |-> 0], given |-> {}, lost |-> {}, trace |-> <<>>]

Init ==
  /\ \E pr \in Programs, x \in Assignments :
       /\ asg = [x EXCEPT !.sub = pr.sub]
       /\ mkAxioms(x) /\ mkInput(x)
       /\ todo = pr.src /\ later = pr.tgt
  /\ side = "src"
  /\ mem = NewMemory(asg) /\ ref = NewRef(asg) /\ nextl = 0
  /\ regs = << InputReg(asg) >> \o GlobalRegs
  /\ br = [on |-> FALSE]
  /\ flags = [ub |-> FALSE, rub |-> FALSE, nomatch |-> FALSE]
  /\ seen = NoSeen /\ calls = {} /\ match = [on |-> FALSE] /\ done = [on |-> FALSE]

(* The source returns: the target starts from the same initial memory, its *)
(* alias knowledge is the source's.                                        *)
EndSource ==
  /\ side = "src" /\ todo = <<>> /\ ~br.on /\ ~flags.ub /\ ~flags.rub
  /\ done' = [on |-> TRUE, mem |-> mem, ref |-> ref]
  /\ side' = "tgt" /\ todo' = later /\ later' = <<>>
  /\ mem' = [NewMemory(asg) EXCEPT !.alias = mem.alias, !.nextnl = mem.nextnl]
  /\ ref' = NewRef(asg) /\ nextl' = 0
  /\ regs' = << InputReg(asg) >> \o GlobalRegs
  /\ seen' = NoSeen
  /\ UNCHANGED <<asg, br, flags, calls, match>>

EndTarget ==
  /\ side = "tgt" /\ todo = <<>> /\ ~br.on /\ ~flags.ub /\ ~flags.rub
  /\ side' = "end"
  /\ UNCHANGED <<asg, todo, later, mem, nextl, ref, regs, br, flags, seen, calls, match, done>>

Exec == \/ ExecAlloc \/ ExecFree \/ ExecRealloc \/ ExecStartLifetime \/ ExecEndLifetime
        \/ ExecGEP \/ ExecPtrMask \/ ExecSelect \/ ExecPtrToInt \/ ExecIntToPtr
        \/ ExecStore \/ ExecStorePtr \/ ExecLoad \/ ExecLoadPtr \/ ExecMemset \/ ExecMemcpy
        \/ addFnCallSrc \/ addFnCallTgt

Next == Exec \/ Fork \/ Else \/ Join \/ EndSource \/ EndTarget

Spec == Init /\ [][Next]_vars

-----------------------------------------------------------------------------
(* The byte of the encoded memory, read with the static type of its block, *)
(* is the byte b of the reference machine.                                 *)
SameByte(e, ty, b) ==
  IF b.ptr
  THEN IF b.pnp THEN isPtr(e, ty) /\ NoShape(e) = b ELSE nonPoison(e, ty) = 0
  ELSE /\ nonPoison(e, ty) = b.np
       /\ And(forceCastToInt(asg.base, e, ty), b.np, bits_byte) = And(b.val, b.np, bits_byte)

(* Alias analysis, dropped leaves, static types, lone blocks touched without *)
(* a condition and merged branches never make the encoding of memory wrong:  *)
(* undefined behaviour, live blocks, what they hold and every loaded value   *)
(* are those of a machine that accesses the one block a pointer points to    *)
(* (memory.cpp computeAliasing, access, load, store; pointer.cpp             *)
(* isDereferenceable).                                                       *)
MemoryExact ==
  /\ flags.ub = flags.rub
  /\ seen.on /\ ~flags.ub =>
       seen.enc.np = seen.ref.np /\ (seen.enc.np => seen.enc.v = seen.ref.v)
  /\ ~br.on /\ ~flags.ub /\ side # "end" =>
       \A blk \in AllBlocks \ (ref.lost \cup {<<FALSE, 0>>}) :
         /\ isBlockAlive(mem, blk) = RefAlive(ref, blk)
         /\ RefAlive(ref, blk) =>
              \A o \in 0 .. RefSize(ref, blk) - 1 :
                SameByte(mem.val[blk][o], mem.type[blk], ref.val[blk][o])

(* A local block whose address was stored, passed to a callee or cast to an  *)
(* integer is in escaped_local_blks, through selects, branches and reloaded  *)
(* pointers: a load, a callee or an integer that yields it is known to       *)
(* alias it (memory.cpp escape_helper, mkIf).                                *)
EscapesRecorded == Active /\ ~flags.ub => ref.given \subseteq mem.esc

(* The blocks that alias analysis gives a pointer contain the one it points  *)
(* to, and the condition under which access() touches a block picks that one *)
(* block of them, whether it compares the whole name of the block, a part of *)
(* it, or nothing: on the path that is taken, for every register that may be *)
(* accessed (memory.cpp computeAliasing, access; pointer.cpp                 *)
(* isDereferenceable).                                                       *)
AccessesExact ==
  Active =>
    \A i \in DOMAIN regs, n \in 1 .. MaxSize, write \in BOOLEAN :
      LET d == isDereferenceable(mem, regs[i], n, write)
          A == computeAliasing(mem, d.reg, n, write)
          p == regs[i].cur.p
      IN  d.ok /\ p.log => /\ BlockOf(p) \in A
                           /\ \A blk \in A : AccessCond(A, p, blk) <=> blk = BlockOf(p)

(* When the code finds the final memory of the target to refine that of the  *)
(* source, from the offsets that were stored to and the mark of the calls,   *)
(* every byte of every live block of the target is at least as defined as    *)
(* the source's, and both made the same calls (memory.cpp refined,           *)
(* blockValRefined, setState, record_stored_pointer).                        *)
RefinementSound ==
  side = "end" /\ ~flags.nomatch /\ refined(done.mem, mem, FALSE, {}, {}) =>
    RefRefined(done.ref, ref, 1 .. max_program_nonlocal_bid) /\ done.ref.trace = ref.trace

(* A call of the target that is taken for a call of the source sees the same *)
(* memory or a more defined one: all of it, or what the argument points to   *)
(* when the callee reads nothing else and may read through it (state.cpp     *)
(* FnCallInput::refinedBy).                                                  *)
CallsMatchSound ==
  match.on =>
    RefRefined(match.src, match.tgt,
               { b \in 1 .. max_program_nonlocal_bid :
                   ~is_constglb(b) /\ ("ro" \in match.acc
                     \/ /\ "ra" \in match.acc /\ match.arg.np /\ "noread" \notin match.arg.cur.p.attrs
                        /\ BlockOf(match.arg.cur.p) = <<FALSE, b>>) })
=============================================================================
