------------------------ MODULE ParallelReportProofs ------------------------
(***************************************************************************)
(* Proofs about the report of the parallel mode: its order, its texts, and *)
(* that it reads as if the checks had run one after the other.             *)
(***************************************************************************)
EXTENDS ParallelProofs

\* limitedFork has been entered and the child has no index yet.
Counting == pc \in {"drain", "throttle", "token", "prepare"}

\* parent_ss never keeps its failbit, and no child inherits buffered text: a
\* flush comes before every fork.
PlainInv == ssFail = FALSE /\ \A i \in Jobs : inherited[i] = <<>>

\* What is printed and what waits in parent_ss are the items of hist, in its
\* order; only the item limitedFork works on, or died on, is missing.
OrderInv ==
  /\ Len(Out) + Len(parent_ss) <= Len(hist)
  /\ pc # "dead" => Len(Out) + Len(parent_ss) = IF InFork THEN Len(hist) - 1 ELSE Len(hist)
  /\ \A k \in 1..Len(Out) : Out[k].item = hist[k]
  /\ \A k \in 1..Len(parent_ss) : parent_ss[k] = hist[Len(Out) + k]

\* Each check has its own index, the next one while its fork is under way.
UniqueInv ==
  /\ \A k, l \in 1..Len(hist) : hist[k].kind = "include" /\ hist[k] = hist[l] => k = l
  /\ pc # "dead" =>
       \A k \in 1..Len(hist) :
          hist[k].kind = "include" => hist[k].n < (IF Counting THEN children + 1 ELSE children)
  /\ InFork => hist[Len(hist)] = Include(IF Counting THEN children ELSE children - 1)

\* A placeholder is replaced only at the EOF of its child; a line has no report.
EmitInv ==
  \A k \in 1..Len(Out) :
    IF Out[k].item.kind = "include" THEN eof[Out[k].item.n] ELSE Out[k].text = <<>>

\* The inductive invariant of the order of the report.
OInv == PlainInv /\ OrderInv /\ UniqueInv /\ EmitInv

-----------------------------------------------------------------------------
(* What is printed *)

\* The report with its buffer is a sequence of entries.
LEMMA OutType ==
  ASSUME TypeOK
  PROVE  /\ Out \in Seq(Entries) /\ Len(Out) \in Nat /\ parent_ss \in Seq(Items) /\ Len(parent_ss) \in Nat
         /\ hist \in Seq(Items) /\ Len(hist) \in Nat /\ children \in Nat
         /\ \A k \in 1..Len(Out) : Out[k] \in Entries
         /\ \A k \in 1..Len(parent_ss) : parent_ss[k] \in Items
         /\ \A k \in 1..Len(hist) : hist[k] \in Items
<1> USE ParallelAssumption
<1>1. file \in Seq(Entries) /\ buf \in Seq(Entries) /\ parent_ss \in Seq(Items) /\ hist \in Seq(Items)
  BY DEF TypeOK, ParentTypes
<1>2. Out \in Seq(Entries)
  BY <1>1, ConcatProperties DEF Out
<1>3. children \in Nat
  BY DEF TypeOK, ParentTypes
<1>4. QED
  BY <1>1, <1>2, <1>3, LenProperties, ElementOfSeq

\* A placeholder names a check.
LEMMA IncludeNames ==
  /\ \A x \in Items : x.kind = "include" => x.n \in Jobs /\ x = Include(x.n)
  /\ \A x \in Items : x.kind # "include" => \A i : x # Include(i)
  /\ \A i, j : Include(i) = Include(j) => i = j
  /\ \A i : Include(i).kind = "include" /\ Include(i).n = i
  /\ \A n : Line(n).kind # "include"
BY DEF Items, Include, Line

\* What an item is when it is printed.
LEMMA EntryFacts ==
  ASSUME NEW x
  PROVE  /\ EntryOf(x).item = x
         /\ x.kind = "include" => EntryOf(x).text = output[x.n]
         /\ x.kind # "include" => EntryOf(x).text = <<>>
BY DEF EntryOf

\* emitOutput moves the first items of parent_ss to the end of the report.
LEMMA EmitFacts ==
  ASSUME TypeOK, NEW m \in 0..Len(parent_ss), EmitOutput(m), file' = file
  PROVE  /\ Len(Out') = Len(Out) + m /\ Len(parent_ss') = Len(parent_ss) - m
         /\ \A k \in 1..Len(Out) : Out'[k] = Out[k]
         /\ \A k \in 1..m : Out'[Len(Out) + k] = EntryOf(parent_ss[k])
         /\ \A k \in 1..Len(parent_ss) - m : parent_ss'[k] = parent_ss[m + k]
<1> DEFINE e == [k \in 1..m |-> EntryOf(parent_ss[k])]
<1>1. /\ Out \in Seq(Entries) /\ Len(Out) \in Nat /\ parent_ss \in Seq(Items) /\ Len(parent_ss) \in Nat
      /\ \A k \in 1..Len(parent_ss) : parent_ss[k] \in Items
  BY OutType
<1>2. file \in Seq(Entries) /\ buf \in Seq(Entries) /\ output \in [Jobs -> Seq(Chunks)]
  BY DEF TypeOK, ParentTypes
<1>3. ASSUME NEW k \in 1..m PROVE EntryOf(parent_ss[k]) \in Entries
  <2>1. parent_ss[k] \in Items
    BY <1>1
  <2>2. (IF parent_ss[k].kind = "include" THEN output[parent_ss[k].n] ELSE <<>>) \in Seq(Chunks)
    BY <1>2, <2>1, IncludeNames, EmptyIsSeq
  <2>3. QED
    BY <2>1, <2>2 DEF EntryOf, Entries
<1>4. e \in Seq(Entries) /\ Len(e) = m
  BY <1>1, <1>3
<1>5. Out' = Out \o e
  <2>1. Out' = file \o (buf \o e)
    BY DEF Out, EmitOutput
  <2>2. QED
    BY <1>2, <1>4, <2>1, ConcatAssociative DEF Out
<1>6. \A k \in 1..m : e[k] = EntryOf(parent_ss[k])
  OBVIOUS
<1> HIDE DEF e
<1>7. /\ Len(Out') = Len(Out) + m
      /\ \A k \in 1..Len(Out) : Out'[k] = Out[k]
      /\ \A k \in 1..m : Out'[Len(Out) + k] = EntryOf(parent_ss[k])
  <2>1. /\ Len(Out \o e) = Len(Out) + Len(e)
        /\ \A k \in 1..Len(Out) + Len(e) :
             (Out \o e)[k] = IF k <= Len(Out) THEN Out[k] ELSE e[k - Len(Out)]
    BY <1>1, <1>4, ConcatProperties
  <2>2. ASSUME NEW k \in 1..Len(Out) PROVE Out'[k] = Out[k]
    BY <1>1, <1>4, <1>5, <2>1
  <2>3. ASSUME NEW k \in 1..m PROVE Out'[Len(Out) + k] = EntryOf(parent_ss[k])
    <3>1. Len(Out) + k \in 1..Len(Out) + Len(e) /\ ~(Len(Out) + k <= Len(Out)) /\ (Len(Out) + k) - Len(Out) = k
      BY <1>1, <1>4
    <3>2. QED
      BY <1>5, <1>6, <2>1, <3>1
  <2>4. QED
    BY <1>4, <1>5, <2>1, <2>2, <2>3
<1>8. parent_ss' = SubSeq(parent_ss, m + 1, Len(parent_ss))
  BY DEF EmitOutput
<1>9. /\ Len(SubSeq(parent_ss, m + 1, Len(parent_ss))) = Len(parent_ss) - m
      /\ \A k \in 1..Len(parent_ss) - m : SubSeq(parent_ss, m + 1, Len(parent_ss))[k] = parent_ss[m + k]
  BY <1>1
<1>10. QED
  BY <1>7, <1>8, <1>9

\* emitOutput leaves the order alone.
LEMMA EmitOrder ==
  ASSUME TypeOK, OInv, NEW m \in 0..Len(parent_ss), EmitOutput(m), UNCHANGED <<file, hist, eof>>
  PROVE  /\ Len(Out') + Len(parent_ss') = Len(Out) + Len(parent_ss)
         /\ \A k \in 1..Len(Out') : Out'[k].item = hist[k]
         /\ \A k \in 1..Len(parent_ss') : parent_ss'[k] = hist[Len(Out') + k]
         /\ EmitInv'
<1>1. /\ Len(Out) \in Nat /\ Len(parent_ss) \in Nat /\ m \in Nat
      /\ \A k \in 1..Len(parent_ss) : parent_ss[k] \in Items
  BY OutType
<1>2. /\ \A k \in 1..Len(Out) : Out[k].item = hist[k]
      /\ \A k \in 1..Len(parent_ss) : parent_ss[k] = hist[Len(Out) + k]
  BY DEF OInv, OrderInv
<1>3. /\ Len(Out') = Len(Out) + m /\ Len(parent_ss') = Len(parent_ss) - m
      /\ \A k \in 1..Len(Out) : Out'[k] = Out[k]
      /\ \A k \in 1..m : Out'[Len(Out) + k] = EntryOf(parent_ss[k])
      /\ \A k \in 1..Len(parent_ss) - m : parent_ss'[k] = parent_ss[m + k]
  BY EmitFacts
<1>4. ASSUME NEW k \in 1..Len(Out'), k > Len(Out)
      PROVE  \E j \in 1..m : k = Len(Out) + j /\ Out'[k] = EntryOf(parent_ss[j])
  <2>1. k - Len(Out) \in 1..m /\ k = Len(Out) + (k - Len(Out))
    BY <1>1, <1>3, <1>4
  <2>2. QED
    BY <1>3, <2>1
<1>5. ASSUME NEW k \in 1..Len(Out') PROVE Out'[k].item = hist[k]
  <2>1. CASE k > Len(Out)
    <3>1. PICK j \in 1..m : k = Len(Out) + j /\ Out'[k] = EntryOf(parent_ss[j])
      BY <1>4, <2>1
    <3>2. j \in 1..Len(parent_ss)
      BY <1>1
    <3>3. QED
      BY <1>2, <3>1, <3>2, EntryFacts
  <2>2. CASE k <= Len(Out)
    <3>1. k \in 1..Len(Out)
      BY <1>1, <2>2
    <3>2. QED
      BY <1>2, <1>3, <3>1
  <2>3. QED
    BY <1>1, <1>3, <2>1, <2>2
<1>6. ASSUME NEW k \in 1..Len(parent_ss') PROVE parent_ss'[k] = hist[Len(Out') + k]
  <2>1. k \in 1..Len(parent_ss) - m /\ m + k \in 1..Len(parent_ss) /\ Len(Out) + (m + k) = (Len(Out) + m) + k
    BY <1>1, <1>3
  <2>2. QED
    BY <1>2, <1>3, <2>1
<1>7. EmitInv'
  <2> SUFFICES ASSUME NEW k \in 1..Len(Out')
               PROVE  IF Out'[k].item.kind = "include" THEN eof[Out'[k].item.n] ELSE Out'[k].text = <<>>
    BY DEF EmitInv
  <2>1. CASE k > Len(Out)
    <3>1. PICK j \in 1..m : k = Len(Out) + j /\ Out'[k] = EntryOf(parent_ss[j])
      BY <1>4, <2>1
    <3>2. CanEmit(parent_ss[j])
      BY DEF EmitOutput, EmitStopsAfter
    <3>3. QED
      BY <3>1, <3>2, EntryFacts DEF CanEmit
  <2>2. CASE k <= Len(Out)
    <3>1. k \in 1..Len(Out)
      BY <1>1, <2>2
    <3>2. QED
      BY <1>3, <3>1 DEF OInv, EmitInv
  <2>3. QED
    BY <1>1, <1>3, <2>1, <2>2
<1>8. QED
  BY <1>1, <1>3, <1>5, <1>6, <1>7

-----------------------------------------------------------------------------
(* The order of the report *)

\* The buffer is written to the file, or nothing is: the report is the same.
LEMMA FlushFacts ==
  ASSUME TypeOK, FlushOut
  PROVE  Out' = Out
<1>1. file \in Seq(Entries) /\ buf \in Seq(Entries)
  BY DEF TypeOK, ParentTypes
<1>2. file \o buf \in Seq(Entries)
  BY <1>1, ConcatProperties
<1>3. Out' = (file \o buf) \o <<>>
  BY DEF FlushOut, Out
<1>4. QED
  BY <1>2, <1>3, ConcatEmptySeq DEF Out

\* A step that leaves the report and the items alone.
LEMMA OrderFrame ==
  ASSUME TypeOK, OInv, UNCHANGED <<hist, parent_ss, ssFail, inherited>>, Out' = Out,
         \A i \in Jobs : eof[i] => eof'[i],
         \/ pc' = "dead"
         \/ /\ pc # "dead" /\ pc' # "dead" /\ children' = children
            /\ InFork' <=> InFork
            /\ Counting' <=> Counting
  PROVE  OInv'
<1>1. PlainInv'
  BY DEF OInv, PlainInv
<1>2. OrderInv'
  BY DEF OInv, OrderInv, InFork
<1>3. UniqueInv'
  <2>1. CASE pc' = "dead"
    <3>1. ~InFork'
      BY <2>1 DEF InFork
    <3>2. QED
      BY <2>1, <3>1 DEF OInv, UniqueInv
  <2>2. CASE pc' # "dead"
    BY <2>2 DEF OInv, UniqueInv
  <2>3. QED
    BY <2>1, <2>2
<1>4. EmitInv'
  <2>1. \A k \in 1..Len(Out) : Out[k].item.kind = "include" => Out[k].item.n \in Jobs
    BY OutType, IncludeNames DEF Entries
  <2>2. QED
    BY <2>1 DEF OInv, EmitInv
<1>5. QED
  BY <1>1, <1>2, <1>3, <1>4 DEF OInv

\* Adding an item to parent_ss.
LEMMA AppendFacts ==
  ASSUME NEW S, NEW s \in Seq(S), NEW x \in S
  PROVE  /\ Len(Append(s, x)) = Len(s) + 1
         /\ \A k \in 1..Len(s) : Append(s, x)[k] = s[k]
         /\ Append(s, x)[Len(s) + 1] = x
BY AppendProperties

\* The compiler prints a line.
LEMMA PrintOrder == ASSUME IInv, IInv', OInv, PrintLine PROVE OInv'
<1> DEFINE x == Line(Len(hist) + 1)
<1>1. /\ Len(Out) \in Nat /\ parent_ss \in Seq(Items) /\ Len(parent_ss) \in Nat
      /\ hist \in Seq(Items) /\ Len(hist) \in Nat /\ children \in Nat
  BY OutType DEF IInv
<1>2. x \in Items
  BY <1>1, ParallelAssumption DEF PrintLine, Line, Items
<1>3. /\ hist' = Append(hist, x) /\ parent_ss' = Append(parent_ss, x) /\ Out' = Out
      /\ UNCHANGED <<pc, ssFail, children, eof, inherited>> /\ pc = "llvm"
  BY DEF PrintLine, WriteSS, OInv, PlainInv, Out, childVars
<1>4. ~InFork /\ ~InFork' /\ ~Counting /\ ~Counting'
  BY <1>3 DEF InFork, Counting
<1>5. x.kind # "include"
  BY IncludeNames
<1> HIDE DEF x
<1>6. /\ Len(hist') = Len(hist) + 1 /\ hist'[Len(hist) + 1] = x
      /\ \A k \in 1..Len(hist) : hist'[k] = hist[k]
  BY <1>1, <1>2, <1>3, AppendFacts
<1>7. /\ Len(parent_ss') = Len(parent_ss) + 1 /\ parent_ss'[Len(parent_ss) + 1] = x
      /\ \A k \in 1..Len(parent_ss) : parent_ss'[k] = parent_ss[k]
  BY <1>1, <1>2, <1>3, AppendFacts
<1>8. /\ Len(Out) + Len(parent_ss) = Len(hist)
      /\ \A k \in 1..Len(Out) : Out[k].item = hist[k]
      /\ \A k \in 1..Len(parent_ss) : parent_ss[k] = hist[Len(Out) + k]
  BY <1>3, <1>4 DEF OInv, OrderInv
<1>9. OrderInv'
  <2>1. Len(Out) + Len(parent_ss') = Len(hist')
    BY <1>1, <1>6, <1>7, <1>8
  <2>2. ASSUME NEW k \in 1..Len(parent_ss') PROVE parent_ss'[k] = hist'[Len(Out) + k]
    <3>1. CASE k = Len(parent_ss) + 1
      BY <1>1, <1>6, <1>7, <1>8, <3>1
    <3>2. CASE k \in 1..Len(parent_ss)
      <4>1. Len(Out) + k \in 1..Len(hist)
        BY <1>1, <1>8, <3>2
      <4>2. QED
        BY <1>6, <1>7, <1>8, <3>2, <4>1
    <3>3. QED
      BY <1>1, <1>7, <3>1, <3>2
  <2>3. ASSUME NEW k \in 1..Len(Out) PROVE Out[k].item = hist'[k]
    <3>1. k \in 1..Len(hist)
      BY <1>1, <1>8
    <3>2. QED
      BY <1>6, <1>8, <3>1
  <2>4. Len(hist') \in Nat
    BY <1>1, <1>6
  <2>5. QED
    BY <1>3, <1>4, <2>1, <2>2, <2>3, <2>4 DEF OrderInv
<1>10. UniqueInv'
  <2>1. ASSUME NEW k \in 1..Len(hist'), hist'[k].kind = "include"
        PROVE  k \in 1..Len(hist) /\ hist'[k] = hist[k]
    BY <1>1, <1>5, <1>6, <2>1
  <2>2. QED
    BY <1>3, <1>4, <2>1 DEF OInv, UniqueInv
<1>11. PlainInv' /\ EmitInv'
  BY <1>3 DEF OInv, PlainInv, EmitInv
<1>12. QED
  BY <1>9, <1>10, <1>11 DEF OInv

\* limitedFork is entered: the check gets the next index.
LEMMA StartForkOrder == ASSUME IInv, IInv', OInv, StartFork PROVE OInv'
<1> DEFINE x == Include(children)
<1>1. /\ Len(Out) \in Nat /\ parent_ss \in Seq(Items) /\ Len(parent_ss) \in Nat
      /\ hist \in Seq(Items) /\ Len(hist) \in Nat /\ children \in Nat
      /\ \A k \in 1..Len(hist) : hist[k] \in Items
  BY OutType DEF IInv
<1>2. x \in Items
  BY <1>1, ParallelAssumption DEF StartFork, IInv, ControlInv, TypeOK, ParentTypes, Jobs, Include, Items
<1>3. /\ hist' = Append(hist, x) /\ Out' = Out /\ pc = "llvm" /\ pc' = "drain"
      /\ UNCHANGED <<parent_ss, ssFail, children, eof, inherited>>
  BY DEF StartFork, Out, childVars
<1>4. ~InFork /\ InFork' /\ ~Counting /\ Counting'
  BY <1>3 DEF InFork, Counting
<1>5. /\ Len(hist') = Len(hist) + 1 /\ hist'[Len(hist) + 1] = x
      /\ \A k \in 1..Len(hist) : hist'[k] = hist[k]
  BY <1>1, <1>2, <1>3, AppendFacts
<1>6. /\ Len(Out) + Len(parent_ss) = Len(hist)
      /\ \A k \in 1..Len(Out) : Out[k].item = hist[k]
      /\ \A k \in 1..Len(parent_ss) : parent_ss[k] = hist[Len(Out) + k]
  BY <1>3, <1>4 DEF OInv, OrderInv
<1>7. \A k \in 1..Len(hist) : hist[k].kind = "include" => hist[k].n < children /\ hist[k] # x
  <2>1. \A k \in 1..Len(hist) : hist[k].kind = "include" => hist[k].n < children
    BY <1>3, <1>4 DEF OInv, UniqueInv
  <2>2. x.n = children
    BY IncludeNames
  <2>3. QED
    BY <1>1, <2>1, <2>2
<1>8. x.kind = "include" /\ x.n = children
  BY IncludeNames
<1> HIDE DEF x
<1>9. OrderInv'
  <2>1. Len(Out) + Len(parent_ss) = Len(hist') - 1 /\ Len(Out) + Len(parent_ss) <= Len(hist')
    BY <1>1, <1>5, <1>6
  <2>2. ASSUME NEW k \in 1..Len(parent_ss) PROVE parent_ss[k] = hist'[Len(Out) + k]
    <3>1. Len(Out) + k \in 1..Len(hist)
      BY <1>1, <1>6
    <3>2. QED
      BY <1>5, <1>6, <3>1
  <2>3. ASSUME NEW k \in 1..Len(Out) PROVE Out[k].item = hist'[k]
    <3>1. k \in 1..Len(hist)
      BY <1>1, <1>6
    <3>2. QED
      BY <1>5, <1>6, <3>1
  <2>4. QED
    BY <1>3, <1>4, <2>1, <2>2, <2>3 DEF OrderInv
<1>10. UniqueInv'
  <2>1. ASSUME NEW k \in 1..Len(hist') PROVE k = Len(hist) + 1 \/ k \in 1..Len(hist)
    BY <1>1, <1>5
  <2>2. ASSUME NEW k \in 1..Len(hist'), NEW l \in 1..Len(hist'), hist'[k].kind = "include", hist'[k] = hist'[l]
        PROVE  k = l
    <3>1. CASE k = Len(hist) + 1 /\ l = Len(hist) + 1
      BY <3>1
    <3>2. CASE k \in 1..Len(hist) /\ l \in 1..Len(hist)
      BY <1>5, <2>2, <3>2 DEF OInv, UniqueInv
    <3>3. CASE k = Len(hist) + 1 /\ l \in 1..Len(hist)
      BY <1>5, <1>7, <1>8, <2>2, <3>3
    <3>4. CASE l = Len(hist) + 1 /\ k \in 1..Len(hist)
      BY <1>5, <1>7, <1>8, <2>2, <3>4
    <3>5. QED
      BY <2>1, <3>1, <3>2, <3>3, <3>4
  <2>3. ASSUME NEW k \in 1..Len(hist'), hist'[k].kind = "include"
        PROVE  hist'[k].n < children + 1
    <3>1. CASE k = Len(hist) + 1
      BY <1>1, <1>5, <1>8, <3>1
    <3>2. CASE k \in 1..Len(hist)
      <4>1. hist[k].n < children /\ hist[k].n \in Nat
        BY <1>1, <1>5, <1>7, <2>3, <3>2, IncludeNames DEF Jobs
      <4>2. QED
        BY <1>1, <1>5, <3>2, <4>1
    <3>3. QED
      BY <2>1, <3>1, <3>2
  <2>4. hist'[Len(hist')] = x
    BY <1>5
  <2>5. QED
    BY <1>3, <1>4, <2>2, <2>3, <2>4 DEF UniqueInv, x
<1>11. PlainInv' /\ EmitInv'
  BY <1>3 DEF OInv, PlainInv, EmitInv
<1>12. QED
  BY <1>9, <1>10, <1>11 DEF OInv

\* The check has its index; now and then output is emitted before the fork.
LEMMA PrepareOrder == ASSUME IInv, IInv', OInv, Prepare PROVE OInv'
<1>1. /\ TypeOK /\ Len(Out) \in Nat /\ Len(parent_ss) \in Nat /\ Len(hist) \in Nat /\ children \in Nat
  BY OutType DEF IInv
<1>2. /\ UNCHANGED <<hist, file, eof, inherited>> /\ children' = children + 1
      /\ pc = "prepare" /\ pc' = "fork"
  BY DEF Prepare, childVars
<1>3. InFork /\ InFork' /\ Counting /\ ~Counting'
  BY <1>2 DEF InFork, Counting
<1>4. UniqueInv'
  <2>1. children' - 1 = children
    BY <1>1, <1>2
  <2>2. QED
    BY <1>2, <1>3, <2>1 DEF OInv, UniqueInv
<1>5. PlainInv' /\ OrderInv' /\ EmitInv'
  <2>1. CASE children % EmitEvery # 0
    <3>1. UNCHANGED <<buf, parent_ss, ssFail>>
      BY <2>1 DEF Prepare
    <3>2. Out' = Out
      BY <1>2, <3>1 DEF Out
    <3>3. QED
      BY <1>2, <1>3, <3>1, <3>2 DEF OInv, PlainInv, OrderInv, EmitInv
  <2>2. CASE children % EmitEvery = 0
    <3>1. PICK m \in 0..Len(parent_ss) : EmitOutput(m)
      BY <2>2 DEF Prepare
    <3>2. PlainInv'
      BY <1>2, <3>1 DEF EmitOutput, OInv, PlainInv
    <3>3. QED
      BY <1>1, <1>2, <1>3, <3>1, <3>2, EmitOrder DEF OInv, OrderInv
  <2>3. QED
    BY <2>1, <2>2
<1>6. QED
  BY <1>4, <1>5 DEF OInv

\* The fork: the placeholder is the item limitedFork was called for.
LEMMA ForkOrder == ASSUME IInv, IInv', OInv, Fork PROVE OInv'
<1> DEFINE x == Include(children - 1)
<1>1. /\ TypeOK /\ Len(Out) \in Nat /\ parent_ss \in Seq(Items) /\ Len(parent_ss) \in Nat
      /\ hist \in Seq(Items) /\ Len(hist) \in Nat /\ children \in Nat
  BY OutType DEF IInv
<1>2. /\ UNCHANGED <<hist, ssFail, children, eof>> /\ FlushOut /\ pc = "fork" /\ pc' = "llvm"
      /\ inherited' = [inherited EXCEPT ![children - 1] = buf'] /\ WriteSS(x)
  BY DEF Fork
<1>3. InFork /\ ~InFork' /\ ~Counting /\ ~Counting'
  BY <1>2 DEF InFork, Counting
<1>4. children - 1 \in Jobs /\ Len(hist) > 0
  BY <1>1, <1>2, ParallelAssumption DEF IInv, ControlInv, TypeOK, ParentTypes, Jobs
<1>5. x \in Items
  BY <1>4 DEF Include, Items
<1>6. parent_ss' = Append(parent_ss, x)
  BY <1>2 DEF WriteSS, OInv, PlainInv
<1>7. PlainInv'
  <2>1. buf' = <<>>
    BY <1>2 DEF FlushOut
  <2>2. inherited \in [Jobs -> Seq(Entries)]
    BY <1>1 DEF TypeOK, ChildTypes
  <2>3. QED
    BY <1>2, <1>4, <2>1, <2>2 DEF OInv, PlainInv
<1>8. Out' = Out
  BY <1>1, <1>2, FlushFacts
<1>9. hist[Len(hist)] = x
  BY <1>2, <1>3 DEF OInv, UniqueInv
<1> HIDE DEF x
<1>10. /\ Len(parent_ss') = Len(parent_ss) + 1 /\ parent_ss'[Len(parent_ss) + 1] = x
       /\ \A k \in 1..Len(parent_ss) : parent_ss'[k] = parent_ss[k]
  BY <1>1, <1>5, <1>6, AppendFacts
<1>11. /\ Len(Out) + Len(parent_ss) = Len(hist) - 1
       /\ \A k \in 1..Len(Out) : Out[k].item = hist[k]
       /\ \A k \in 1..Len(parent_ss) : parent_ss[k] = hist[Len(Out) + k]
  BY <1>2, <1>3 DEF OInv, OrderInv
<1>12. OrderInv'
  <2>1. Len(Out) + Len(parent_ss') = Len(hist)
    BY <1>1, <1>10, <1>11
  <2>2. ASSUME NEW k \in 1..Len(parent_ss') PROVE parent_ss'[k] = hist[Len(Out) + k]
    <3>1. CASE k = Len(parent_ss) + 1
      <4>1. Len(Out) + k = Len(hist)
        BY <1>1, <1>11, <3>1
      <4>2. QED
        BY <1>9, <1>10, <3>1, <4>1
    <3>2. CASE k \in 1..Len(parent_ss)
      BY <1>10, <1>11, <3>2
    <3>3. QED
      BY <1>1, <1>10, <3>1, <3>2
  <2>3. Len(hist) <= Len(hist)
    BY <1>1
  <2>4. QED
    BY <1>2, <1>3, <1>8, <1>11, <2>1, <2>2, <2>3 DEF OrderInv
<1>13. UniqueInv' /\ EmitInv'
  BY <1>2, <1>3, <1>8 DEF OInv, UniqueInv, EmitInv
<1>14. QED
  BY <1>7, <1>12, <1>13 DEF OInv

\* The last emitOutput, after all children were waited for.
LEMMA FinishOrder == ASSUME IInv, IInv', OInv, FinishWait PROVE OInv'
<1>1. /\ TypeOK /\ Len(Out) \in Nat /\ Len(parent_ss) \in Nat /\ Len(hist) \in Nat
  BY OutType DEF IInv
<1>2. /\ UNCHANGED <<hist, children, file, eof, inherited>> /\ pc = "wait" /\ pc' \in {"untoken", "abort"}
  BY DEF FinishWait
<1>3. ~InFork /\ ~InFork' /\ ~Counting /\ ~Counting'
  BY <1>2 DEF InFork, Counting
<1>4. PICK m \in 0..Len(parent_ss) : EmitOutput(m)
  BY DEF FinishWait
<1>5. PlainInv' /\ UniqueInv'
  BY <1>2, <1>3, <1>4 DEF EmitOutput, OInv, PlainInv, UniqueInv
<1>6. OrderInv' /\ EmitInv'
  BY <1>1, <1>2, <1>3, <1>4, EmitOrder DEF OInv, OrderInv
<1>7. QED
  BY <1>5, <1>6 DEF OInv

\* All other steps of the parent leave the report and the items alone.
LEMMA ParentOrder == ASSUME IInv, IInv', OInv, ParentNext PROVE OInv'
<1>0. TypeOK
  BY DEF IInv
<1>1. CASE Poll \/ DrainDone \/ ThrottleDone \/ GetToken \/ StartFinish \/ FinishReading
  <2>1. UNCHANGED <<hist, parent_ss, ssFail, inherited, children, file, buf, eof>>
    BY <1>1 DEF Poll, DrainDone, ThrottleDone, GetToken, StartFinish, FinishReading, childVars
  <2>2. /\ pc # "dead" /\ pc' # "dead"
        /\ InFork' <=> InFork
        /\ Counting' <=> Counting
    BY <1>1 DEF Poll, DrainDone, ThrottleDone, GetToken, StartFinish, FinishReading, InFork, Counting, ReadLoops
  <2>3. Out' = Out
    BY <2>1 DEF Out
  <2>4. QED
    BY <1>0, <2>1, <2>2, <2>3, OrderFrame
<1>2. CASE ReadSlot
  <2>1. UNCHANGED <<pc, hist, parent_ss, ssFail, inherited, children, file, buf>> /\ pc # "dead"
    BY <1>2 DEF ReadSlot, ReadLoops
  <2>2. \A i \in Jobs : eof[i] => eof'[i]
    BY <1>0, <1>2 DEF ReadSlot, ReadData, ReadEOF, TypeOK, FlagTypes
  <2>3. QED
    BY <1>0, <2>1, <2>2, OrderFrame DEF Out, InFork, Counting
<1>3. CASE ForkFails \/ ParentCrash
  <2>1. UNCHANGED <<hist, parent_ss, ssFail, inherited, eof>> /\ pc' = "dead"
    BY <1>3 DEF ForkFails, ParentCrash, ParentEnds
  <2>2. Out' = Out
    BY <1>0, <1>3, FlushFacts DEF ForkFails, ParentCrash, Out
  <2>3. QED
    BY <1>0, <2>1, <2>2, OrderFrame
<1>4. CASE FinishParent
  <2>1. UNCHANGED <<hist, parent_ss, ssFail, inherited, children, eof>> /\ pc = "untoken" /\ pc' = "done"
    BY <1>4 DEF FinishParent, childVars
  <2>2. Out' = Out
    BY <1>0, <1>4, FlushFacts DEF FinishParent
  <2>3. QED
    BY <1>0, <2>1, <2>2, OrderFrame DEF InFork, Counting
<1>5. QED
  BY <1>1, <1>2, <1>3, <1>4, PrintOrder, StartForkOrder, PrepareOrder, ForkOrder, FinishOrder DEF ParentNext

\* A step that is not the parent's: no child writes into the report.
LEMMA OtherOrder ==
  ASSUME TypeOK, OInv, (\E i \in Jobs : ChildNext(i)) \/ Refill \/ UNCHANGED vars
  PROVE  OInv' /\ Out' = Out /\ file' = file
         /\ UNCHANGED <<pc, hist, parent_ss, children, active, pfd, revents, eof, output, buf>>
<1>1. UNCHANGED <<pc, hist, parent_ss, ssFail, inherited, children, active, pfd, revents, eof, output, buf>>
  <2>1. CASE \E i \in Jobs : ChildNext(i)
    BY <2>1 DEF ChildNext, VerifyDone, IgnoreAlarm, Alarm, FinishChild, WriteChunk, BrokenPipe, ExitChild,
           FinalizeInChild, ChildCrash, ChildEnds, parentVars
  <2>2. CASE Refill \/ UNCHANGED vars
    BY <2>2 DEF Refill, vars, parentVars, childVars
  <2>3. QED
    BY <2>1, <2>2
<1>2. file' = file
  <2>1. CASE \E i \in Jobs : ExitChild(i)
    <3>1. PICK i \in Jobs : file' = file \/ file' = file \o inherited[i]
      BY <2>1 DEF ExitChild
    <3>2. inherited[i] = <<>> /\ file \in Seq(Entries)
      BY DEF OInv, PlainInv, TypeOK, ParentTypes
    <3>3. QED
      BY <3>1, <3>2, ConcatEmptySeq
  <2>2. CASE ~\E i \in Jobs : ExitChild(i)
    BY <2>2 DEF ChildNext, VerifyDone, IgnoreAlarm, Alarm, FinishChild, WriteChunk, BrokenPipe,
           FinalizeInChild, ChildCrash, Refill, vars, parentVars
  <2>3. QED
    BY <2>1, <2>2
<1>3. Out' = Out
  BY <1>1, <1>2 DEF Out
<1>4. OInv'
  <2>1. (InFork' <=> InFork) /\ (Counting' <=> Counting)
    BY <1>1 DEF InFork, Counting
  <2>2. QED
    BY <1>1, <1>3, <2>1, OrderFrame
<1>5. QED
  BY <1>1, <1>2, <1>3, <1>4

\* Nothing was produced initially.
LEMMA InitOrder == Init => OInv
<1> SUFFICES ASSUME Init PROVE OInv
  OBVIOUS
<1>1. Out = <<>>
  BY DEF Init, Out
<1>2. Len(Out) = 0 /\ Len(parent_ss) = 0 /\ Len(hist) = 0
  BY <1>1 DEF Init
<1>3. QED
  BY <1>2 DEF Init, OInv, PlainInv, OrderInv, UniqueInv, EmitInv, InFork

\* The order of the report is invariant.
LEMMA OrderInvariance == Spec => [](IInv /\ OInv)
<1>1. IInv /\ IInv' /\ OInv /\ [Next]_vars => OInv'
  <2> SUFFICES ASSUME IInv, IInv', OInv, [Next]_vars PROVE OInv'
    OBVIOUS
  <2>1. CASE ParentNext
    BY <2>1, ParentOrder
  <2>2. CASE ~ParentNext
    BY <2>2, OtherOrder DEF Next, IInv
  <2>3. QED
    BY <2>1, <2>2
<1>2. QED
  BY <1>1, InitOrder, Invariance, PTL DEF Spec

\* The report file, the buffer and parent_ss are the items the compiler
\* produced, each once and in its order, for any children and any crashes.
THEOREM ReportInProgramOrder == Spec => []ProgramOrder
<1>1. IInv /\ OInv => ProgramOrder
  <2> SUFFICES ASSUME IInv, OInv, pc # "dead"
               PROVE  ItemsOf(Out) \o parent_ss = IF InFork THEN SubSeq(hist, 1, Len(hist) - 1) ELSE hist
    BY DEF ProgramOrder, Out
  <2> DEFINE n == IF InFork THEN Len(hist) - 1 ELSE Len(hist)
             s == ItemsOf(Out) \o parent_ss
  <2>1. /\ Out \in Seq(Entries) /\ Len(Out) \in Nat /\ parent_ss \in Seq(Items) /\ Len(parent_ss) \in Nat
        /\ hist \in Seq(Items) /\ Len(hist) \in Nat
        /\ \A k \in 1..Len(Out) : Out[k] \in Entries
        /\ \A k \in 1..Len(hist) : hist[k] \in Items
    BY OutType DEF IInv
  <2>2. /\ Len(Out) + Len(parent_ss) = n
        /\ \A k \in 1..Len(Out) : Out[k].item = hist[k]
        /\ \A k \in 1..Len(parent_ss) : parent_ss[k] = hist[Len(Out) + k]
    BY DEF OInv, OrderInv
  <2>3. n \in 0..Len(hist)
    BY <2>1, <2>2
  <2>4. ItemsOf(Out) \in Seq(Items) /\ Len(ItemsOf(Out)) = Len(Out)
    <3>1. \A k \in 1..Len(Out) : Out[k].item \in Items
      BY <2>1 DEF Entries
    <3>2. QED
      BY <2>1, <3>1 DEF ItemsOf
  <2>5. /\ s \in Seq(Items) /\ Len(s) = n
        /\ \A k \in 1..n : s[k] = IF k <= Len(Out) THEN ItemsOf(Out)[k] ELSE parent_ss[k - Len(Out)]
    <3> DEFINE t == ItemsOf(Out)
    <3>1. t \in Seq(Items) /\ Len(t) = Len(Out)
      BY <2>4
    <3> HIDE DEF t, n
    <3>2. /\ t \o parent_ss \in Seq(Items) /\ Len(t \o parent_ss) = Len(t) + Len(parent_ss)
          /\ \A k \in 1..Len(t) + Len(parent_ss) :
               (t \o parent_ss)[k] = IF k <= Len(t) THEN t[k] ELSE parent_ss[k - Len(t)]
      BY <2>1, <3>1, ConcatProperties
    <3>3. QED
      BY <2>2, <3>1, <3>2 DEF t
  <2>6. ASSUME NEW k \in 1..n PROVE s[k] = hist[k]
    <3>1. CASE k <= Len(Out)
      <4>1. k \in 1..Len(Out) /\ ItemsOf(Out)[k] = Out[k].item
        BY <2>1, <2>3, <3>1 DEF ItemsOf
      <4>2. QED
        BY <2>2, <2>5, <3>1, <4>1
    <3>2. CASE ~(k <= Len(Out))
      <4>1. k - Len(Out) \in 1..Len(parent_ss) /\ Len(Out) + (k - Len(Out)) = k
        BY <2>1, <2>2, <2>3, <3>2
      <4>2. QED
        BY <2>2, <2>5, <3>2, <4>1
    <3>3. QED
      BY <3>1, <3>2
  <2> HIDE DEF s
  <2>7. CASE ~InFork
    <3>1. n = Len(hist)
      BY <2>7
    <3>2. QED
      BY <2>1, <2>5, <2>6, <2>7, <3>1, SeqEqual DEF s
  <2>8. CASE InFork
    <3>1. n = Len(hist) - 1
      BY <2>8
    <3>2. SubSeq(hist, 1, n) \in Seq(Items)
      BY <2>1, <2>3, PrefixIsSeq
    <3>3. Len(SubSeq(hist, 1, n)) = n /\ \A k \in 1..n : SubSeq(hist, 1, n)[k] = hist[k]
      <4>1. n \in Nat /\ \A k \in 1..n : hist[k] \in Items
        BY <2>1, <2>3
      <4>2. QED
        BY <2>1, <2>3, <4>1
    <3> HIDE DEF n
    <3>4. s = SubSeq(hist, 1, n)
      BY <2>5, <2>6, <3>2, <3>3, SeqEqual
    <3>5. QED
      BY <2>8, <3>1, <3>4 DEF s
  <2>9. QED
    BY <2>7, <2>8
<1>2. QED
  BY <1>1, OrderInvariance, PTL

\* After finishParent nothing waits and nobody runs.
DoneInv ==
  pc \in {"untoken", "done"} => parent_ss = <<>> /\ \A i \in Jobs : cpc[i] \in {"none", "reaped"}

\* A parent that has finished has printed everything it produced and leaves no
\* zombie behind.
THEOREM FinishedComplete == Spec => []FinishedIsComplete
<1>1. Init => DoneInv
  BY DEF Init, DoneInv
<1>2. IInv /\ OInv /\ DoneInv /\ [Next]_vars => DoneInv'
  <2> SUFFICES ASSUME IInv, OInv, DoneInv, [Next]_vars, pc' \in {"untoken", "done"}
               PROVE  parent_ss' = <<>> /\ \A i \in Jobs : cpc'[i] \in {"none", "reaped"}
    BY DEF DoneInv
  <2>0. TypeOK
    BY DEF IInv
  <2>1. CASE FinishWait
    <3>1. PICK m \in 0..Len(parent_ss) : EmitOutput(m) /\ m = Len(parent_ss)
      BY <2>1 DEF FinishWait
    <3>2. parent_ss' = <<>>
      <4>1. Len(parent_ss) \in Nat /\ parent_ss' = SubSeq(parent_ss, Len(parent_ss) + 1, Len(parent_ss))
        BY <2>0, <3>1, OutType DEF EmitOutput
      <4>2. QED
        BY <4>1, SubSeqEmpty
    <3>3. \A i \in Jobs : cpc'[i] \in {"none", "reaped"}
      BY <2>0, <2>1 DEF FinishWait, reapZombies, Alive, Running, TypeOK, ChildTypes, ChildPCs
    <3>4. QED
      BY <3>2, <3>3
  <2>2. CASE FinishParent
    BY <2>2 DEF FinishParent, DoneInv, childVars
  <2>3. CASE ParentNext /\ ~FinishWait /\ ~FinishParent
    BY <2>3 DEF ParentNext, PrintLine, StartFork, Poll, ReadSlot, DrainDone, ThrottleDone, GetToken, Prepare,
                Fork, ForkFails, ParentCrash, ParentEnds, StartFinish, FinishReading, ReadLoops
  <2>4. CASE (\E i \in Jobs : ChildNext(i)) \/ Refill \/ UNCHANGED vars
    <3>1. UNCHANGED <<pc, parent_ss>>
      BY <2>0, <2>4, OtherOrder
    <3>2. \A i \in Jobs : cpc[i] \in {"none", "reaped"}
      BY <3>1 DEF DoneInv
    <3>3. cpc' = cpc
      <4>1. ASSUME NEW i \in Jobs, ChildNext(i) PROVE FALSE
        BY <3>2, <4>1 DEF ChildNext, VerifyDone, IgnoreAlarm, Alarm, AlarmArmed, FinishChild, WriteChunk,
                  BrokenPipe, ExitChild, FinalizeInChild, ChildCrash, Alive, Running
      <4>2. QED
        BY <2>4, <4>1 DEF Refill, vars, childVars
    <3>4. QED
      BY <3>1, <3>2, <3>3 DEF DoneInv
  <2>5. QED
    BY <2>1, <2>2, <2>3, <2>4 DEF Next
<1>3. IInv /\ OInv /\ DoneInv => FinishedIsComplete
  <2> SUFFICES ASSUME IInv, OInv, DoneInv, pc \in {"untoken", "done"}
               PROVE  /\ parent_ss = <<>> /\ Len(Out) = Len(hist)
                      /\ \A i \in Jobs : cpc[i] \in {"none", "reaped"}
    BY DEF FinishedIsComplete
  <2>1. parent_ss = <<>> /\ Len(parent_ss) = 0 /\ Len(Out) \in Nat
    BY OutType DEF DoneInv, IInv
  <2>2. Len(Out) + Len(parent_ss) = Len(hist)
    BY DEF OInv, OrderInv, InFork
  <2>3. QED
    BY <2>1, <2>2 DEF DoneInv
<1>4. QED
  BY <1>1, <1>2, <1>3, OrderInvariance, PTL DEF Spec

-----------------------------------------------------------------------------
(* The texts of the reports *)

\* The text the parent has of child i, printed or not.
TextOf(i) == IF OutputOf(i) = {} THEN output[i] ELSE Out[CHOOSE k \in OutputOf(i) : TRUE].text

\* What was sent, is being sent and is still to be sent of a report is all of it.
SentInv == \A i \in Jobs : TextOf(i) \o pipe[i] \o left[i] = report[i]

\* A child that has ended on its own while the parent lived has sent everything.
UnsentInv == \A i \in Jobs : Gone(i) /\ crashes = 0 /\ pc # "dead" => left[i] = <<>>

\* A child that still verifies has sent nothing, one that has no verdict has
\* nothing to send.
QuietInv ==
  \A i \in Jobs :
    /\ Running(i) \/ cpc[i] = "none" => output[i] = <<>> /\ pipe[i] = <<>> /\ left[i] = report[i]
    /\ cpc[i] \in {"none", "run"} => report[i] = <<>>

\* As long as it lives, the parent keeps the read end of every open pipe.
ReaderInv == pc # "dead" => \A i \in OpenChildren : Parent \in rd[i]

\* The inductive invariant of the texts.
RInv == SentInv /\ UnsentInv /\ QuietInv /\ ReaderInv

\* The text of a check is with its placeholder once that is printed.
TextFound ==
  \A i \in Jobs :
    /\ (\A k \in 1..Len(Out) : Out[k].item # Include(i)) => TextOf(i) = output[i]
    /\ \A k \in 1..Len(Out) : Out[k].item = Include(i) => TextOf(i) = Out[k].text

\* A check is printed in at most one place, so its text is the one found there.
LEMMA TextFacts == TypeOK /\ OInv => TextFound
<1> SUFFICES ASSUME TypeOK, OInv, NEW i \in Jobs
             PROVE  /\ (\A k \in 1..Len(Out) : Out[k].item # Include(i)) => TextOf(i) = output[i]
                    /\ \A k \in 1..Len(Out) : Out[k].item = Include(i) => TextOf(i) = Out[k].text
  BY DEF TextFound
<1>1. Len(Out) \in Nat /\ Len(parent_ss) \in Nat /\ Len(hist) \in Nat
  BY OutType
<1>2. Len(Out) + Len(parent_ss) <= Len(hist) /\ \A k \in 1..Len(Out) : Out[k].item = hist[k]
  BY DEF OInv, OrderInv
<1>3. \A k, l \in 1..Len(hist) : hist[k].kind = "include" /\ hist[k] = hist[l] => k = l
  BY DEF OInv, UniqueInv
<1>4. (\A k \in 1..Len(Out) : Out[k].item # Include(i)) => TextOf(i) = output[i]
  BY DEF TextOf, OutputOf
<1>5. ASSUME NEW k \in 1..Len(Out), Out[k].item = Include(i) PROVE TextOf(i) = Out[k].text
  <2>1. k \in OutputOf(i)
    BY <1>5 DEF OutputOf
  <2>2. ASSUME NEW l \in OutputOf(i) PROVE l = k
    <3>1. k \in 1..Len(hist) /\ l \in 1..Len(hist)
      BY <1>1, <1>2 DEF OutputOf
    <3>2. hist[k] = Include(i) /\ hist[l] = Include(i) /\ hist[k].kind = "include"
      BY <1>2, <1>5, IncludeNames DEF OutputOf
    <3>3. QED
      BY <1>3, <3>1, <3>2
  <2>3. (CHOOSE l \in OutputOf(i) : TRUE) = k
    BY <2>1, <2>2
  <2>4. QED
    BY <2>1, <2>3 DEF TextOf
<1>6. QED
  BY <1>4, <1>5

\* The same in the next state.
LEMMA TextFactsNext == (TypeOK /\ OInv)' => TextFound'
BY TextFacts, PTL

\* emitOutput moves a text from the child to the report and frees it there.
LEMMA EmitText ==
  ASSUME TypeOK, TypeOK', OInv, OInv', NEW m \in 0..Len(parent_ss), EmitOutput(m), file' = file,
         NEW i \in Jobs
  PROVE  TextOf(i)' = TextOf(i) /\ (output'[i] = output[i] \/ output'[i] = <<>>)
<1>1. /\ Len(Out) \in Nat /\ Len(parent_ss) \in Nat /\ m \in Nat
  BY OutType
<1>2. /\ (\A k \in 1..Len(Out) : Out[k].item # Include(i)) => TextOf(i) = output[i]
      /\ \A k \in 1..Len(Out) : Out[k].item = Include(i) => TextOf(i) = Out[k].text
  BY TextFacts DEF TextFound
<1>3. /\ (\A k \in 1..Len(Out') : Out'[k].item # Include(i)) => TextOf(i)' = output'[i]
      /\ \A k \in 1..Len(Out') : Out'[k].item = Include(i) => TextOf(i)' = Out'[k].text
  BY TextFactsNext DEF TextFound, Include
<1>4. /\ Len(Out') = Len(Out) + m
      /\ \A k \in 1..Len(Out) : Out'[k] = Out[k]
      /\ \A k \in 1..m : Out'[Len(Out) + k] = EntryOf(parent_ss[k])
  BY EmitFacts
<1>5. output'[i] = IF \E k \in 1..m : parent_ss[k] = Include(i) THEN <<>> ELSE output[i]
  BY DEF EmitOutput
<1>6. CASE \E k \in 1..Len(Out) : Out[k].item = Include(i)
  <2>1. PICK k \in 1..Len(Out) : Out[k].item = Include(i)
    BY <1>6
  <2>2. k \in 1..Len(Out') /\ Out'[k] = Out[k]
    BY <1>1, <1>4
  <2>3. QED
    BY <1>2, <1>3, <1>5, <2>1, <2>2
<1>7. CASE \E k \in 1..m : parent_ss[k] = Include(i)
  <2>1. PICK k \in 1..m : parent_ss[k] = Include(i)
    BY <1>7
  <2>2. Len(Out) + k \in 1..Len(Out')
    BY <1>1, <1>4
  <2>3. Out'[Len(Out) + k].item = Include(i) /\ Out'[Len(Out) + k].text = output[i]
    <3>1. Include(i).kind = "include" /\ Include(i).n = i
      BY IncludeNames
    <3>2. EntryOf(Include(i)).item = Include(i) /\ EntryOf(Include(i)).text = output[i]
      BY <3>1, EntryFacts
    <3>3. QED
      BY <1>4, <2>1, <3>2
  <2>4. TextOf(i)' = output[i]
    BY <1>3, <2>2, <2>3
  <2>5. CASE \A l \in 1..Len(Out) : Out[l].item # Include(i)
    BY <1>2, <1>5, <2>4, <2>5
  <2>6. QED
    BY <1>6, <2>5
<1>8. CASE /\ \A k \in 1..Len(Out) : Out[k].item # Include(i)
           /\ \A k \in 1..m : parent_ss[k] # Include(i)
  <2>1. ASSUME NEW k \in 1..Len(Out') PROVE Out'[k].item # Include(i)
    <3>1. CASE k \in 1..Len(Out)
      BY <1>4, <1>8, <3>1
    <3>2. CASE k \notin 1..Len(Out)
      <4>1. k - Len(Out) \in 1..m /\ k = Len(Out) + (k - Len(Out))
        BY <1>1, <1>4, <3>2
      <4>2. QED
        <5> DEFINE j == k - Len(Out)
        <5>1. j \in 1..m /\ Out'[k] = EntryOf(parent_ss[j])
          BY <1>4, <4>1
        <5>2. EntryOf(parent_ss[j]).item = parent_ss[j]
          BY EntryFacts
        <5>3. QED
          BY <1>8, <5>1, <5>2
    <3>3. QED
      BY <3>1, <3>2
  <2>2. QED
    BY <1>2, <1>3, <1>5, <1>8, <2>1
<1>9. QED
  BY <1>6, <1>7, <1>8

\* A sequence is its front followed by the rest.
LEMMA SplitSeq ==
  ASSUME NEW S, NEW s \in Seq(S), NEW n \in 0..Len(s)
  PROVE  SubSeq(s, 1, n) \o SubSeq(s, n + 1, Len(s)) = s
<1>1. Len(s) \in Nat /\ \A k \in 1..Len(s) : s[k] \in S
  BY LenProperties, ElementOfSeq
<1>2. /\ SubSeq(s, 1, n) \in Seq(S) /\ Len(SubSeq(s, 1, n)) = n
      /\ \A k \in 1..n : SubSeq(s, 1, n)[k] = s[k]
  BY <1>1
<1>3. /\ SubSeq(s, n + 1, Len(s)) \in Seq(S) /\ Len(SubSeq(s, n + 1, Len(s))) = Len(s) - n
      /\ \A k \in 1..Len(s) - n : SubSeq(s, n + 1, Len(s))[k] = s[n + k]
  BY <1>1
<1> DEFINE a == SubSeq(s, 1, n)
           b == SubSeq(s, n + 1, Len(s))
<1>4. /\ a \in Seq(S) /\ Len(a) = n /\ \A k \in 1..n : a[k] = s[k]
      /\ b \in Seq(S) /\ Len(b) = Len(s) - n /\ \A k \in 1..Len(s) - n : b[k] = s[n + k]
  BY <1>2, <1>3
<1> HIDE DEF a, b
<1>5. /\ a \o b \in Seq(S) /\ Len(a \o b) = Len(s)
      /\ \A k \in 1..Len(s) : (a \o b)[k] = IF k <= n THEN a[k] ELSE b[k - n]
  <2>1. /\ a \o b \in Seq(S) /\ Len(a \o b) = Len(a) + Len(b)
        /\ \A k \in 1..Len(a) + Len(b) : (a \o b)[k] = IF k <= Len(a) THEN a[k] ELSE b[k - Len(a)]
    BY <1>4, ConcatProperties
  <2>2. Len(a) + Len(b) = Len(s)
    BY <1>1, <1>4
  <2>3. QED
    BY <1>4, <2>1, <2>2
<1>6. ASSUME NEW k \in 1..Len(s) PROVE (a \o b)[k] = s[k]
  <2>1. CASE k <= n
    BY <1>1, <1>4, <1>5, <2>1
  <2>2. CASE ~(k <= n)
    <3>1. k - n \in 1..Len(s) - n /\ n + (k - n) = k
      BY <1>1, <2>2
    <3>2. QED
      BY <1>4, <1>5, <2>2, <3>1
  <2>3. QED
    BY <2>1, <2>2
<1>7. a \o b = s
  BY <1>5, <1>6, SeqEqual
<1>8. QED
  BY <1>7 DEF a, b

\* Texts are put together in any order.
LEMMA ConcatTexts == \A x, y, z \in Seq(Chunks) : (x \o y) \o z = x \o (y \o z)
<1> SUFFICES ASSUME NEW x \in Seq(Chunks), NEW y \in Seq(Chunks), NEW z \in Seq(Chunks)
             PROVE  (x \o y) \o z = x \o (y \o z)
  OBVIOUS
<1>1. QED
  BY ConcatAssociative

\* The head of what is left may as well be at the end of what was sent.
LEMMA MoveHead ==
  ASSUME NEW x \in Seq(Chunks), NEW y \in Seq(Chunks), NEW z \in Seq(Chunks), z # <<>>
  PROVE  (x \o Append(y, Head(z))) \o Tail(z) = (x \o y) \o z
<1> DEFINE h == <<Head(z)>>
           t == Tail(z)
<1>1. Head(z) \in Chunks /\ t \in Seq(Chunks)
  BY HeadTailProperties
<1>2. h \in Seq(Chunks) /\ Append(y, Head(z)) = y \o h
  BY <1>1, AppendIsConcat
<1>3. h \o t = z
  BY ONLY z \in Seq(Chunks), z # <<>>
<1> HIDE DEF h, t
<1>4. x \o (y \o h) = (x \o y) \o h /\ x \o y \in Seq(Chunks)
  BY <1>2, ConcatTexts, ConcatProperties
<1>5. ((x \o y) \o h) \o t = (x \o y) \o (h \o t)
  BY <1>1, <1>2, <1>4, ConcatTexts
<1>6. QED
  BY <1>2, <1>3, <1>4, <1>5 DEF t

\* Only a read changes the text of a child.
LEMMA KeepText ==
  ASSUME IInv, IInv', OInv, OInv', [Next]_vars, ~ReadSlot, NEW i \in Jobs
  PROVE  TextOf(i)' = TextOf(i) /\ (output'[i] = output[i] \/ output'[i] = <<>>) /\ eof' = eof
<1>0. TypeOK /\ TypeOK'
  BY DEF IInv
<1>1. ASSUME Out' = Out, output' = output PROVE TextOf(i)' = TextOf(i)
  <2>1. OutputOf(i)' = OutputOf(i)
    BY <1>1 DEF OutputOf, Include
  <2>2. QED
    BY <1>1, <2>1 DEF TextOf
<1>2. CASE Prepare \/ FinishWait
  <2>1. eof' = eof /\ file' = file
    BY <1>2 DEF Prepare, FinishWait
  <2>2. CASE \E m \in 0..Len(parent_ss) : EmitOutput(m)
    BY <1>0, <2>1, <2>2, EmitText
  <2>3. CASE UNCHANGED <<buf, output>>
    BY <1>1, <2>1, <2>3 DEF Out
  <2>4. QED
    BY <1>2, <2>2, <2>3 DEF Prepare, FinishWait
<1>3. CASE Fork \/ ForkFails \/ FinishParent
  <2>1. UNCHANGED <<output, eof>> /\ FlushOut
    BY <1>3 DEF Fork, ForkFails, ParentEnds, FinishParent
  <2>2. QED
    BY <1>0, <1>1, <2>1, FlushFacts
<1>4. CASE PrintLine \/ StartFork \/ Poll \/ DrainDone \/ ThrottleDone \/ GetToken \/ ParentCrash
           \/ StartFinish \/ FinishReading
  <2>1. UNCHANGED <<output, eof, file, buf>>
    BY <1>4 DEF PrintLine, StartFork, Poll, DrainDone, ThrottleDone, GetToken, ParentCrash, ParentEnds,
                StartFinish, FinishReading
  <2>2. QED
    BY <1>1, <2>1 DEF Out
<1>5. CASE ~ParentNext
  BY <1>0, <1>1, <1>5, OtherOrder DEF Next
<1>6. QED
  BY <1>2, <1>3, <1>4, <1>5 DEF ParentNext

\* What the parent does to the pipes and the children when it does not read.
LEMMA ParentLeaves ==
  ASSUME ParentNext, ~ReadSlot
  PROVE  UNCHANGED <<pipe, report, left>>
BY DEF ParentNext, PrintLine, StartFork, Poll, DrainDone, ThrottleDone, GetToken, Prepare, Fork, ForkFails,
       ParentCrash, ParentEnds, StartFinish, FinishReading, FinishWait, FinishParent, osVars, childVars

\* A read takes the front of the pipe of an open child.
LEMMA ReadText ==
  ASSUME IInv, IInv', OInv, OInv', ReadSlot
  PROVE  /\ \A i \in Jobs : TextOf(i)' \o pipe'[i] = TextOf(i) \o pipe[i]
         /\ \A i \in Jobs : eof[i] => TextOf(i)' = TextOf(i)
         /\ \A i \in Jobs : pipe[i] = <<>> => pipe'[i] = <<>> /\ output'[i] = output[i]
<1>0. TypeOK /\ TypeOK'
  BY DEF IInv
<1>1. PICK s \in revents : ReadData(s) \/ ReadEOF(s)
  BY DEF ReadSlot
<1>2. PICK c \in Jobs : c = pfd[s] /\ ~eof[c]
  <2>1. s \in Slots /\ pfd[s] # NoFd
    BY DEF IInv, ReadNeverBlocks, TypeOK, ParentTypes
  <2>2. s \in UsedSlots
    BY <2>1 DEF UsedSlots
  <2>3. pfd[s] \in OpenChildren
    BY <2>2 DEF IInv, SlotsMatchChildren
  <2>4. QED
    BY <2>3 DEF OpenChildren
<1> DEFINE n == IF Len(pipe[c]) < MaxRead THEN Len(pipe[c]) ELSE MaxRead
<1>3. /\ pipe \in [Jobs -> Seq(Chunks)] /\ output \in [Jobs -> Seq(Chunks)] /\ MaxRead \in Nat \ {0}
  BY <1>0, ParallelAssumption DEF TypeOK, ParentTypes, OSTypes
<1>4. Out' = Out /\ hist' = hist
  BY DEF ReadSlot, Out
<1>5. \A i \in Jobs : OutputOf(i)' = OutputOf(i)
  BY <1>4 DEF OutputOf, Include
<1>6. TextOf(c) = output[c] /\ TextOf(c)' = output'[c]
  <2>1. \A k \in 1..Len(Out) : Out[k].item # Include(c)
    <3>1. Include(c).kind = "include" /\ Include(c).n = c
      BY IncludeNames
    <3>2. QED
      BY <1>2, <3>1 DEF OInv, EmitInv
  <2>2. OutputOf(c) = {}
    BY <2>1 DEF OutputOf
  <2>3. OutputOf(c)' = {}
    BY <1>5, <2>2
  <2>4. QED
    BY <2>2, <2>3 DEF TextOf
<1>7. ASSUME NEW i \in Jobs, output'[i] = output[i] PROVE TextOf(i)' = TextOf(i)
  <2>1. OutputOf(i)' = OutputOf(i)
    BY <1>5
  <2>2. QED
    BY <1>4, <1>7, <2>1 DEF TextOf
<1>8. CASE ReadEOF(s)
  <2>1. output' = output /\ pipe' = pipe
    BY <1>8 DEF ReadEOF
  <2>2. QED
    BY <1>7, <2>1
<1>9. CASE ReadData(s)
  <2>1. /\ pipe[c] # <<>>
        /\ output' = [output EXCEPT ![c] = @ \o SubSeq(pipe[c], 1, n)]
        /\ pipe' = [pipe EXCEPT ![c] = SubSeq(pipe[c], n + 1, Len(pipe[c]))]
    BY <1>2, <1>9 DEF ReadData
  <2>2. \A i \in Jobs : i # c => output'[i] = output[i] /\ pipe'[i] = pipe[i]
    BY <1>3, <2>1
  <2>3. /\ output'[c] = output[c] \o SubSeq(pipe[c], 1, n)
        /\ pipe'[c] = SubSeq(pipe[c], n + 1, Len(pipe[c]))
    BY <1>2, <1>3, <2>1
  <2>4. n \in 0..Len(pipe[c]) /\ Len(pipe[c]) \in Nat /\ pipe[c] \in Seq(Chunks) /\ output[c] \in Seq(Chunks)
    BY <1>2, <1>3, LenProperties
  <2> HIDE DEF n
  <2>5. SubSeq(pipe[c], 1, n) \in Seq(Chunks) /\ SubSeq(pipe[c], n + 1, Len(pipe[c])) \in Seq(Chunks)
    BY <2>4, PrefixIsSeq, SuffixIsSeq
  <2>6. SubSeq(pipe[c], 1, n) \o SubSeq(pipe[c], n + 1, Len(pipe[c])) = pipe[c]
    BY <2>4, SplitSeq
  <2>7. output'[c] \o pipe'[c] = output[c] \o pipe[c]
    <3> DEFINE a == SubSeq(pipe[c], 1, n)
               b == SubSeq(pipe[c], n + 1, Len(pipe[c]))
    <3>1. output'[c] = output[c] \o a /\ pipe'[c] = b /\ a \o b = pipe[c] /\ a \in Seq(Chunks) /\ b \in Seq(Chunks)
      BY <2>3, <2>5, <2>6
    <3> HIDE DEF a, b
    <3>2. (output[c] \o a) \o b = output[c] \o (a \o b)
      <4>1. output[c] \in Seq(Chunks) /\ a \in Seq(Chunks) /\ b \in Seq(Chunks)
        BY <2>4, <3>1
      <4>2. QED
        BY <4>1, ConcatTexts
    <3>3. QED
      BY <3>1, <3>2
  <2>8. QED
    BY <1>2, <1>6, <1>7, <2>1, <2>2, <2>7
<1>10. QED
  BY <1>1, <1>8, <1>9

\* Texts are sequences of chunks.
TextTyped == \A i \in Jobs : TextOf(i) \in Seq(Chunks)

\* A text is a sequence of chunks.
LEMMA TextType == TypeOK /\ OInv => TextTyped
<1> SUFFICES ASSUME TypeOK, OInv, NEW i \in Jobs PROVE TextOf(i) \in Seq(Chunks)
  BY DEF TextTyped
<1>1. CASE \E k \in 1..Len(Out) : Out[k].item = Include(i)
  <2>1. PICK k \in 1..Len(Out) : Out[k].item = Include(i)
    BY <1>1
  <2>2. Out[k] \in Entries
    BY OutType
  <2>3. Out[k].text \in Seq(Chunks)
    BY <2>2 DEF Entries
  <2>4. QED
    BY <2>1, <2>3, TextFacts DEF TextFound
<1>2. CASE \A k \in 1..Len(Out) : Out[k].item # Include(i)
  BY <1>2, TextFacts DEF TextFound, TypeOK, ParentTypes
<1>3. QED
  BY <1>1, <1>2

\* The same in the next state.
LEMMA TextTypeNext == (TypeOK /\ OInv)' => TextTyped'
BY TextType, PTL

\* What a step of the parent does to the children: it starts one, or collects
\* those that have ended.
LEMMA ParentOfChildren ==
  ASSUME IInv, ParentNext
  PROVE  /\ \A i \in Jobs : Gone(i)' => Gone(i)
         /\ \A i \in Jobs : Running(i)' \/ cpc'[i] = "none" => Running(i) \/ cpc[i] = "none"
         /\ \A i \in Jobs : cpc'[i] \in {"none", "run"} => cpc[i] \in {"none", "run"}
         /\ crashes' = 0 => crashes = 0
         /\ pc # "dead"
<1>0. cpc \in [Jobs -> ChildPCs] /\ crashes \in Nat
  BY ParallelAssumption DEF IInv, TypeOK, ChildTypes
<1>1. /\ crashes' = 0 => crashes = 0
      /\ pc # "dead"
  <2>1. CASE ParentCrash
    <3>1. crashes' = crashes + 1 /\ pc # "dead"
      BY <2>1 DEF ParentCrash
    <3>2. QED
      BY <1>0, <3>1
  <2>2. CASE ~ParentCrash
    BY <2>2 DEF ParentNext, PrintLine, StartFork, Poll, ReadSlot, DrainDone, ThrottleDone, GetToken, Prepare,
           Fork, ForkFails, ParentEnds, StartFinish, FinishReading, FinishWait, FinishParent, ReadLoops, childVars
  <2>3. QED
    BY <2>1, <2>2
<1>2. CASE Fork
  <2>1. /\ children - 1 \in Jobs /\ cpc[children - 1] = "none"
        /\ cpc' = [cpc EXCEPT ![children - 1] = "run"]
    BY <1>2, ParallelAssumption DEF Fork, IInv, ControlInv, TypeOK, ParentTypes, Jobs
  <2>2. QED
    BY <1>0, <1>1, <2>1 DEF Gone, Running
<1>3. CASE cpc' = cpc
  BY <1>1, <1>3 DEF Gone, Running
<1>4. CASE reapZombies
  BY <1>0, <1>1, <1>4 DEF reapZombies, Gone, Running
<1>5. QED
  BY <1>2, <1>3, <1>4 DEF ParentNext, PrintLine, StartFork, Poll, ReadSlot, DrainDone, ThrottleDone, GetToken,
      Prepare, ForkFails, ParentCrash, ParentEnds, StartFinish, FinishReading, FinishWait, FinishParent, childVars

\* The parent loses nothing of a report.
LEMMA ParentTexts == ASSUME IInv, IInv', OInv, OInv', RInv, ParentNext PROVE RInv'
<1>0. TypeOK /\ TypeOK'
  BY DEF IInv
<1>1. report' = report /\ left' = left
  BY ParentLeaves DEF ReadSlot
<1>2. SentInv'
  <2> SUFFICES ASSUME NEW i \in Jobs PROVE TextOf(i)' \o pipe'[i] \o left'[i] = report'[i]
    BY DEF SentInv
  <2>1. TextOf(i)' \o pipe'[i] = TextOf(i) \o pipe[i]
    BY KeepText, ParentLeaves, ReadText DEF Next
  <2>2. QED
    BY <1>1, <2>1 DEF RInv, SentInv
<1>3. UnsentInv'
  BY <1>1, ParentOfChildren DEF RInv, UnsentInv
<1>4. QuietInv'
  <2> SUFFICES ASSUME NEW i \in Jobs
               PROVE  /\ Running(i)' \/ cpc'[i] = "none" =>
                           output'[i] = <<>> /\ pipe'[i] = <<>> /\ left'[i] = report'[i]
                      /\ cpc'[i] \in {"none", "run"} => report'[i] = <<>>
    BY DEF QuietInv
  <2>1. ASSUME output[i] = <<>>, pipe[i] = <<>> PROVE output'[i] = <<>> /\ pipe'[i] = <<>>
    <3>1. CASE ReadSlot
      BY <2>1, <3>1, ReadText
    <3>2. CASE ~ReadSlot
      BY <2>1, <3>2, KeepText, ParentLeaves DEF Next
    <3>3. QED
      BY <3>1, <3>2
  <2>2. QED
    BY <1>1, <2>1, ParentOfChildren DEF RInv, QuietInv
<1>5. ReaderInv'
  <2> SUFFICES ASSUME pc' # "dead", NEW i \in Jobs, cpc'[i] # "none", ~eof'[i] PROVE Parent \in rd'[i]
    BY DEF ReaderInv, OpenChildren
  <2>0. pc # "dead" /\ \A j \in Jobs : cpc[j] # "none" /\ ~eof[j] => Parent \in rd[j]
    BY ParentOfChildren DEF RInv, ReaderInv, OpenChildren
  <2>1. CASE Fork
    <3>1. rd'[i] = (IF i = children - 1 THEN {Parent} ELSE rd[i])
                     \cup (IF i \in KeptReadEnds(children - 1) THEN {children - 1} ELSE {})
      BY <2>1 DEF Fork
    <3>2. CASE i = children - 1
      BY <3>1, <3>2
    <3>3. CASE i # children - 1
      <4>1. cpc'[i] = cpc[i] /\ eof'[i] = eof[i]
        BY <1>0, <2>1, <3>3 DEF Fork, TypeOK, ChildTypes
      <4>2. QED
        BY <2>0, <3>1, <3>3, <4>1
    <3>4. QED
      BY <3>2, <3>3
  <2>2. CASE ReadSlot
    <3>1. PICK s \in revents : ReadData(s) \/ ReadEOF(s)
      BY <2>2 DEF ReadSlot
    <3>2. cpc[i] # "none"
      BY <2>2 DEF ReadSlot, reapZombies
    <3>3. CASE ReadData(s)
      BY <2>0, <3>2, <3>3 DEF ReadData
    <3>4. CASE ReadEOF(s)
      <4>1. eof' = [eof EXCEPT ![pfd[s]] = TRUE] /\ rd' = [rd EXCEPT ![pfd[s]] = @ \ {Parent}]
        BY <3>4 DEF ReadEOF
      <4>2. eof \in [Jobs -> BOOLEAN] /\ rd \in [Jobs -> SUBSET Procs]
        BY <1>0 DEF TypeOK, FlagTypes, OSTypes
      <4>3. i # pfd[s]
        BY <4>1, <4>2
      <4>4. eof'[i] = eof[i] /\ rd'[i] = rd[i]
        BY <4>1, <4>2, <4>3
      <4>5. QED
        BY <2>0, <3>2, <4>4
    <3>5. QED
      BY <3>1, <3>3, <3>4
  <2>3. CASE ~Fork /\ ~ReadSlot
    <3>1. eof' = eof /\ rd' = rd /\ cpc[i] # "none"
      BY <2>3 DEF ParentNext, PrintLine, StartFork, Poll, DrainDone, ThrottleDone, GetToken, Prepare, ForkFails,
          ParentCrash, ParentEnds, StartFinish, FinishReading, FinishWait, FinishParent, childVars, osVars,
          reapZombies
    <3>2. QED
      BY <2>0, <3>1
  <2>4. QED
    BY <2>1, <2>2, <2>3
<1>6. QED
  BY <1>2, <1>3, <1>4, <1>5 DEF RInv

\* A child that still verifies has no text at the parent.
LEMMA QuietText ==
  ASSUME IInv, OInv, RInv, NEW i \in Jobs, Running(i)
  PROVE  TextOf(i) = <<>>
<1>1. ~eof[i]
  BY DEF IInv, EofMeansEnded, Gone, Running
<1>2. Include(i).kind = "include" /\ Include(i).n = i
  BY IncludeNames
<1>3. \A k \in 1..Len(Out) : Out[k].item # Include(i)
  BY <1>1, <1>2 DEF OInv, EmitInv
<1>4. QED
  BY <1>3, TextFacts DEF TextFound, IInv, RInv, QuietInv

\* What a step of child i leaves alone.
LEMMA ChildLeaves ==
  ASSUME IInv, OInv, NEW i \in Jobs, ChildNext(i)
  PROVE  /\ UNCHANGED <<pc, output, eof>> /\ Out' = Out
         /\ \A j \in Jobs : TextOf(j)' = TextOf(j)
         /\ \A j \in Jobs : j # i =>
              cpc'[j] = cpc[j] /\ pipe'[j] = pipe[j] /\ left'[j] = left[j] /\ report'[j] = report[j]
         /\ crashes' = 0 => crashes = 0
         /\ \A j \in Jobs : Parent \in rd[j] => Parent \in rd'[j]
         /\ cpc[i] # "none"
<1>0. TypeOK
  BY DEF IInv
<1>1. UNCHANGED <<pc, output, eof>> /\ Out' = Out
  BY <1>0, OtherOrder
<1>2. ASSUME NEW j \in Jobs PROVE TextOf(j)' = TextOf(j)
  <2>1. OutputOf(j)' = OutputOf(j)
    BY <1>1 DEF OutputOf, Include
  <2>2. QED
    BY <1>1, <2>1 DEF TextOf
<1>3. ASSUME NEW j \in Jobs, j # i
      PROVE  cpc'[j] = cpc[j] /\ pipe'[j] = pipe[j] /\ left'[j] = left[j] /\ report'[j] = report[j]
  BY <1>0, <1>3 DEF TypeOK, ChildTypes, OSTypes, ChildNext, VerifyDone, IgnoreAlarm, Alarm, FinishChild, WriteChunk,
     BrokenPipe, ExitChild, FinalizeInChild, ChildCrash, ChildEnds, osVars
<1>4. crashes' = 0 => crashes = 0
  <2>1. crashes \in Nat
    BY <1>0, ParallelAssumption DEF TypeOK, ChildTypes
  <2>2. CASE ChildCrash(i)
    <3>1. crashes' = crashes + 1
      BY <2>2 DEF ChildCrash
    <3>2. QED
      BY <2>1, <3>1
  <2>3. CASE ~ChildCrash(i)
    BY <2>3 DEF ChildNext, VerifyDone, IgnoreAlarm, Alarm, FinishChild, WriteChunk, BrokenPipe, ExitChild,
                FinalizeInChild
  <2>4. QED
    BY <2>2, <2>3
<1>5. ASSUME NEW j \in Jobs, Parent \in rd[j] PROVE Parent \in rd'[j]
  <2>1. Parent # i
    BY ParallelAssumption DEF Parent, Jobs
  <2>2. rd' = rd \/ rd'[j] = rd[j] \ {i}
    BY DEF ChildNext, VerifyDone, IgnoreAlarm, Alarm, FinishChild, WriteChunk, BrokenPipe, ExitChild,
           FinalizeInChild, ChildCrash, ChildEnds, CloseAll, osVars
  <2>3. QED
    BY <1>5, <2>1, <2>2
<1>6. cpc[i] # "none"
  BY DEF ChildNext, VerifyDone, IgnoreAlarm, Alarm, AlarmArmed, FinishChild, WriteChunk, BrokenPipe, ExitChild,
         FinalizeInChild, ChildCrash, Alive, Running
<1>7. QED
  BY <1>1, <1>2, <1>3, <1>4, <1>5, <1>6

\* A step of a child loses nothing of its report unless it is killed.
LEMMA ChildTexts == ASSUME IInv, IInv', OInv, OInv', RInv, NEW i \in Jobs, ChildNext(i) PROVE RInv'
<1>0. TypeOK /\ TypeOK'
  BY DEF IInv
<1>1. /\ pipe \in [Jobs -> Seq(Chunks)] /\ left \in [Jobs -> Seq(Chunks)] /\ report \in [Jobs -> Seq(Chunks)]
      /\ cpc \in [Jobs -> ChildPCs]
  BY <1>0 DEF TypeOK, ChildTypes, OSTypes
<1>2. /\ UNCHANGED <<pc, output, eof>>
      /\ \A j \in Jobs : TextOf(j)' = TextOf(j)
      /\ \A j \in Jobs : j # i =>
           cpc'[j] = cpc[j] /\ pipe'[j] = pipe[j] /\ left'[j] = left[j] /\ report'[j] = report[j]
      /\ crashes' = 0 => crashes = 0
      /\ \A j \in Jobs : Parent \in rd[j] => Parent \in rd'[j]
      /\ cpc[i] # "none"
  BY ChildLeaves
<1>3. ReaderInv'
  BY <1>2 DEF RInv, ReaderInv, OpenChildren
<1>4. SUFFICES /\ TextOf(i) \o pipe'[i] \o left'[i] = report'[i]
               /\ Gone(i)' /\ crashes' = 0 /\ pc # "dead" => left'[i] = <<>>
               /\ Running(i)' => output[i] = <<>> /\ pipe'[i] = <<>> /\ left'[i] = report'[i]
               /\ cpc'[i] = "run" => report'[i] = <<>>
               /\ cpc'[i] # "none"
  <2>1. SentInv'
    BY <1>2, <1>4 DEF RInv, SentInv
  <2>2. UnsentInv'
    BY <1>2, <1>4 DEF RInv, UnsentInv, Gone
  <2>3. QuietInv'
    BY <1>2, <1>4 DEF RInv, QuietInv, Running
  <2>4. QED
    BY <1>3, <2>1, <2>2, <2>3 DEF RInv
<1>5. /\ TextOf(i) \o pipe[i] \o left[i] = report[i]
      /\ Running(i) => output[i] = <<>> /\ pipe[i] = <<>> /\ left[i] = report[i] /\ TextOf(i) = <<>>
      /\ cpc[i] = "run" => report[i] = <<>>
      /\ TextOf(i) \in Seq(Chunks)
  BY <1>0, QuietText, TextType DEF RInv, SentInv, QuietInv, TextTyped
<1>6. CASE VerifyDone(i) \/ Alarm(i)
  <2>1. /\ Running(i) /\ pipe'[i] = <<>> /\ left'[i] = report'[i]
        /\ cpc'[i] \in {"shown", "alarm"}
    BY <1>1, <1>5, <1>6 DEF VerifyDone, Alarm, AlarmArmed, Running, osVars
  <2>2. report'[i] \in Seq(Chunks)
    BY <1>0 DEF TypeOK, ChildTypes
  <2>3. TextOf(i) \o pipe'[i] = <<>>
    BY <1>5, <2>1, EmptyIsSeq, ConcatEmptySeq
  <2>4. TextOf(i) \o pipe'[i] \o left'[i] = report'[i]
    BY <2>1, <2>2, <2>3, ConcatEmptySeq
  <2>5. QED
    BY <1>5, <2>1, <2>4 DEF Gone, Running
<1>7. CASE IgnoreAlarm(i) \/ FinishChild(i)
  <2>1. /\ UNCHANGED <<pipe, left, report>> /\ cpc'[i] \in {"ignored", "write"}
        /\ Running(i)
    BY <1>1, <1>7 DEF IgnoreAlarm, FinishChild, Running, osVars
  <2>2. QED
    BY <1>5, <2>1 DEF Gone, Running
<1>8. CASE WriteChunk(i)
  <2>1. /\ pipe'[i] = Append(pipe[i], Head(left[i])) /\ left'[i] = Tail(left[i]) /\ report' = report
        /\ cpc'[i] = "write" /\ left[i] # <<>>
    BY <1>1, <1>8 DEF WriteChunk
  <2>2. pipe[i] \in Seq(Chunks) /\ left[i] \in Seq(Chunks)
    BY <1>1
  <2>3. Head(left[i]) \in Chunks /\ Tail(left[i]) \in Seq(Chunks)
    BY <2>1, <2>2, HeadTailProperties
  <2>4. (TextOf(i) \o Append(pipe[i], Head(left[i]))) \o Tail(left[i]) = (TextOf(i) \o pipe[i]) \o left[i]
    BY <1>5, <2>1, <2>2, <2>3, MoveHead
  <2>5. QED
    BY <1>5, <2>1, <2>4 DEF Gone, Running
<1>9. CASE BrokenPipe(i)
  <2>1. /\ UNCHANGED <<pipe, left, report>> /\ cpc'[i] = "zombie" /\ cpc[i] = "write" /\ rd[i] = {}
    BY <1>1, <1>9 DEF BrokenPipe, ChildEnds
  <2>2. ~eof[i] /\ i \in OpenChildren
    BY <2>1 DEF IInv, EofMeansEnded, Gone, OpenChildren
  <2>3. pc = "dead"
    BY <2>1, <2>2 DEF RInv, ReaderInv
  <2>4. QED
    BY <1>5, <2>1, <2>3 DEF Running
<1>10. CASE ExitChild(i)
  <2>1. /\ UNCHANGED <<pipe, left, report>> /\ cpc'[i] = "zombie" /\ left[i] = <<>>
    BY <1>1, <1>10 DEF ExitChild, ChildEnds
  <2>2. QED
    BY <1>5, <2>1 DEF Running
<1>11. CASE FinalizeInChild(i)
  <2>1. /\ UNCHANGED <<pipe, left, report>> /\ cpc'[i] = "zombie" /\ cpc[i] = "run"
    BY <1>1, <1>11 DEF FinalizeInChild
  <2>2. QED
    BY <1>5, <2>1 DEF Running
<1>12. CASE ChildCrash(i)
  <2>1. /\ UNCHANGED <<pipe, left, report>> /\ cpc'[i] = "zombie" /\ crashes' = crashes + 1
    BY <1>1, <1>12 DEF ChildCrash, ChildEnds
  <2>2. crashes' # 0
    BY <1>0, <2>1, ParallelAssumption DEF TypeOK, ChildTypes
  <2>3. QED
    BY <1>5, <2>1, <2>2 DEF Running
<1>13. QED
  BY <1>6, <1>7, <1>8, <1>9, <1>10, <1>11, <1>12 DEF ChildNext

\* The texts are invariant.
LEMMA TextInvariance == Spec => [](IInv /\ OInv /\ RInv)
<1>1. Init => RInv
  <2> SUFFICES ASSUME Init PROVE RInv
    OBVIOUS
  <2>1. Out = <<>>
    BY DEF Init, Out
  <2>2. \A i \in Jobs : OutputOf(i) = {}
    BY <2>1 DEF OutputOf
  <2>3. \A i \in Jobs : TextOf(i) = <<>>
    BY <2>2 DEF TextOf, Init
  <2>4. SentInv
    <3>1. <<>> \o <<>> = <<>>
      BY EmptyIsSeq, ConcatEmptySeq
    <3>2. QED
      BY <2>3, <3>1 DEF SentInv, Init
  <2>5. UnsentInv /\ QuietInv /\ ReaderInv
    BY DEF Init, UnsentInv, QuietInv, ReaderInv, OpenChildren
  <2>6. QED
    BY <2>4, <2>5 DEF RInv
<1>2. (IInv /\ OInv) /\ (IInv /\ OInv)' /\ RInv /\ [Next]_vars => RInv'
  <2> SUFFICES ASSUME IInv, IInv', OInv, OInv', RInv, [Next]_vars PROVE RInv'
    OBVIOUS
  <2>1. CASE ParentNext
    BY <2>1, ParentTexts
  <2>2. CASE \E i \in Jobs : ChildNext(i)
    BY <2>2, ChildTexts
  <2>3. CASE Refill \/ UNCHANGED vars
    <3>1. UNCHANGED <<pc, output, eof, pipe, rd, cpc, report, left, crashes>>
      BY <2>3 DEF Refill, vars, parentVars, osVars, childVars
    <3>2. \A i \in Jobs : TextOf(i)' = TextOf(i)
      <4>1. ~ReadSlot
        BY <2>3 DEF Refill, ReadSlot, ReadData, ReadEOF, parentVars, vars, IInv, ReadNeverBlocks
      <4>2. QED
        BY <4>1, KeepText
    <3>3. SentInv' /\ UnsentInv' /\ QuietInv'
      BY <3>1, <3>2 DEF RInv, SentInv, UnsentInv, QuietInv, Gone, Running
    <3>4. ReaderInv'
      BY <3>1 DEF RInv, ReaderInv, OpenChildren
    <3>5. QED
      BY <3>3, <3>4 DEF RInv
  <2>4. QED
    BY <2>1, <2>2, <2>3 DEF Next
<1>3. QED
  BY <1>1, <1>2, OrderInvariance, PTL DEF Spec

\* Every report reaches its own placeholder unmixed and, unless something was
\* killed, whole: what was printed or buffered for a child, what is in its pipe
\* and what it has to write are together its report.
THEOREM ReportsStayIntact == Spec => []ReportsIntact
<1>1. RInv => ReportsIntact
  BY DEF RInv, SentInv, UnsentInv, ReportsIntact, TextOf
<1>2. QED
  BY <1>1, TextInvariance, PTL

-----------------------------------------------------------------------------
(* The report reads as if the checks had run one after the other *)

\* The results of the checks, as the abstract specification sees them.
Results == [i \in Jobs |-> ResultOf(i)]

\* The result of a check is its text, once the parent has seen its end.
LEMMA ResultFacts ==
  ASSUME NEW i \in Jobs
  PROVE  Results[i] = [known |-> eof[i], text |-> IF eof[i] THEN TextOf(i) ELSE <<>>]
BY DEF Results, ResultOf, TextOf

\* The fields of a result.
LEMMA ResultFields ==
  ASSUME NEW i \in Jobs
  PROVE  /\ Results[i].known = eof[i]
         /\ eof[i] => Results[i].text = TextOf(i)
<1>1. Results[i] = [known |-> eof[i], text |-> IF eof[i] THEN TextOf(i) ELSE <<>>]
  BY ResultFacts
<1>2. Results[i].known = eof[i]
  BY <1>1
<1>3. Results[i].text = IF eof[i] THEN TextOf(i) ELSE <<>>
  BY <1>1
<1>4. QED
  BY <1>2, <1>3

\* The same in the next state.
LEMMA ResultFactsNext ==
  ASSUME NEW i \in Jobs
  PROVE  Results'[i] = [known |-> eof'[i], text |-> IF eof'[i] THEN TextOf(i)' ELSE <<>>]
BY DEF Results, ResultOf, TextOf

\* A step in which the parent sees no end changes no result.
LEMMA KeepResults ==
  ASSUME IInv, IInv', OInv, OInv', [Next]_vars, eof' = eof
  PROVE  Results' = Results
<1>1. ASSUME NEW i \in Jobs PROVE Results'[i] = Results[i]
  <2>1. eof[i] => TextOf(i)' = TextOf(i)
    BY KeepText, ReadText
  <2>2. QED
    BY <2>1, ResultFacts, ResultFactsNext
<1>2. Results = [i \in Jobs |-> Results[i]] /\ Results' = [i \in Jobs |-> Results'[i]]
  BY DEF Results
<1>3. QED
  BY <1>1, <1>2

\* The end of child c: its result becomes known, no other one changes.
LEMMA EndResult ==
  ASSUME IInv, IInv', OInv, OInv', ReadSlot, NEW s \in revents, ReadEOF(s), NEW c \in Jobs, c = pfd[s]
  PROVE  /\ ~Results[c].known /\ Results'[c].text \in Seq(Chunks)
         /\ Results' = [Results EXCEPT ![c] = [known |-> TRUE, text |-> Results'[c].text]]
<1>0. TypeOK /\ TypeOK'
  BY DEF IInv
<1>1. ~eof[c]
  <2>1. s \in UsedSlots
    BY <1>0 DEF UsedSlots, IInv, ReadNeverBlocks, TypeOK, ParentTypes
  <2>2. c \in OpenChildren
    BY <2>1 DEF IInv, SlotsMatchChildren
  <2>3. QED
    BY <2>2 DEF OpenChildren
<1>2. eof' = [eof EXCEPT ![c] = TRUE] /\ eof \in [Jobs -> BOOLEAN]
  BY <1>0 DEF ReadEOF, TypeOK, FlagTypes
<1>3. eof'[c] = TRUE /\ \A i \in Jobs : i # c => eof'[i] = eof[i]
  BY <1>2
<1>4. TextOf(c)' \in Seq(Chunks)
  BY <1>0, TextTypeNext DEF TextTyped
<1>5. ~Results[c].known
  BY <1>1, ResultFields
<1>6. Results'[c] = [known |-> TRUE, text |-> TextOf(c)']
  BY <1>3, ResultFactsNext
<1>7. ASSUME NEW i \in Jobs, i # c PROVE Results'[i] = Results[i]
  <2>1. eof'[i] = eof[i] /\ (eof[i] => TextOf(i)' = TextOf(i))
    BY <1>3, <1>7, ReadText
  <2>2. QED
    BY <2>1, ResultFacts, ResultFactsNext
<1>8. DOMAIN Results = Jobs /\ Results = [i \in Jobs |-> Results[i]] /\ Results' = [i \in Jobs |-> Results'[i]]
  BY DEF Results
<1> DEFINE r == [Results EXCEPT ![c] = [known |-> TRUE, text |-> Results'[c].text]]
<1>9. r = [i \in Jobs |-> IF i = c THEN [known |-> TRUE, text |-> Results'[c].text] ELSE Results[i]]
  BY <1>8
<1>10. Results'[c].text = TextOf(c)' /\ Results'[c] = [known |-> TRUE, text |-> Results'[c].text]
  BY <1>6
<1>11. QED
  BY <1>4, <1>5, <1>7, <1>8, <1>9, <1>10

\* A flush prints the next items, each check with its result.
LEMMA FlushEmits ==
  ASSUME IInv, OInv
  PROVE  /\ Len(file) + Len(buf) <= Len(hist) /\ Len(file) \in Nat /\ Len(buf) \in Nat /\ Len(hist) \in Nat
         /\ \A k \in 1..Len(buf) :
              /\ hist[Len(file) + k].kind = "include" => Results[hist[Len(file) + k].n].known
              /\ buf[k] = [item |-> hist[Len(file) + k],
                           text |-> IF hist[Len(file) + k].kind = "include"
                                    THEN Results[hist[Len(file) + k].n].text ELSE <<>>]
<1>0. TypeOK
  BY DEF IInv
<1>1. /\ file \in Seq(Entries) /\ buf \in Seq(Entries) /\ Len(file) \in Nat /\ Len(buf) \in Nat
      /\ Len(hist) \in Nat /\ Len(parent_ss) \in Nat
  BY <1>0, LenProperties DEF TypeOK, ParentTypes
<1>2. Len(Out) = Len(file) + Len(buf) /\ \A k \in 1..Len(buf) : Out[Len(file) + k] = buf[k]
  <2>1. /\ Len(Out) = Len(file) + Len(buf)
        /\ \A k \in 1..Len(file) + Len(buf) : Out[k] = IF k <= Len(file) THEN file[k] ELSE buf[k - Len(file)]
    BY <1>1, ConcatProperties DEF Out
  <2>2. ASSUME NEW k \in 1..Len(buf) PROVE Out[Len(file) + k] = buf[k]
    <3>1. /\ Len(file) + k \in 1..Len(file) + Len(buf) /\ ~(Len(file) + k <= Len(file))
          /\ (Len(file) + k) - Len(file) = k
      BY <1>1
    <3>2. QED
      BY <2>1, <3>1
  <2>3. QED
    BY <2>1, <2>2
<1>3. Len(file) + Len(buf) <= Len(hist)
  BY <1>1, <1>2 DEF OInv, OrderInv
<1>4. ASSUME NEW k \in 1..Len(buf)
      PROVE  /\ hist[Len(file) + k].kind = "include" => Results[hist[Len(file) + k].n].known
             /\ buf[k] = [item |-> hist[Len(file) + k],
                          text |-> IF hist[Len(file) + k].kind = "include"
                                   THEN Results[hist[Len(file) + k].n].text ELSE <<>>]
  <2> DEFINE l == Len(file) + k
             x == hist[l]
  <2>1. l \in 1..Len(Out) /\ Out[l] = buf[k]
    BY <1>1, <1>2
  <2> HIDE DEF l
  <2>2. Out[l] \in Entries /\ Out[l].item = x
    BY <1>0, <2>1, OutType DEF OInv, OrderInv
  <2>3. x \in Items /\ buf[k] = [item |-> x, text |-> Out[l].text]
    BY <2>1, <2>2 DEF Entries
  <2>4. CASE x.kind = "include"
    <3>1. x.n \in Jobs /\ x = Include(x.n)
      BY <2>3, <2>4, IncludeNames
    <3>2. eof[x.n] /\ TextOf(x.n) = Out[l].text
      BY <1>0, <2>1, <2>2, <2>4, <3>1, TextFacts DEF TextFound, OInv, EmitInv
    <3>3. Results[x.n].known /\ Results[x.n].text = Out[l].text
      BY <3>1, <3>2, ResultFields
    <3>4. QED
      BY <2>3, <2>4, <3>3 DEF l
  <2>5. CASE x.kind # "include"
    <3>1. Out[l].text = <<>>
      BY <2>1, <2>2, <2>5 DEF OInv, EmitInv
    <3>2. QED
      BY <2>3, <2>5, <3>1 DEF l
  <2>6. QED
    BY <2>4, <2>5
<1>5. QED
  BY <1>1, <1>3, <1>4

\* A flush is a step of the abstract specification that prints, or none.
LEMMA FlushRefines ==
  ASSUME IInv, OInv, FlushOut, hist' = hist, Results' = Results
  PROVE  [Sequential!Next]_Sequential!vars
<1>1. /\ Len(file) + Len(buf) <= Len(hist) /\ Len(file) \in Nat /\ Len(buf) \in Nat /\ Len(hist) \in Nat
      /\ \A k \in 1..Len(buf) :
           /\ hist[Len(file) + k].kind = "include" => Results[hist[Len(file) + k].n].known
           /\ buf[k] = [item |-> hist[Len(file) + k],
                        text |-> IF hist[Len(file) + k].kind = "include"
                                 THEN Results[hist[Len(file) + k].n].text ELSE <<>>]
  BY FlushEmits
<1>2. file \in Seq(Entries) /\ buf \in Seq(Entries) /\ file' = file \o buf
  BY DEF IInv, TypeOK, ParentTypes, FlushOut
<1>3. CASE Len(buf) = 0
  <2>1. file' = file
    BY <1>2, <1>3, EmptySeq, ConcatEmptySeq
  <2>2. QED
    BY <2>1 DEF Sequential!vars, Results
<1>4. CASE Len(buf) > 0
  <2> DEFINE e == [k \in 1..Len(buf) |-> Sequential!Entry(hist[Len(file) + k])]
  <2>1. \A k \in 1..Len(buf) : Sequential!Printable(hist[Len(file) + k])
    BY <1>1 DEF Sequential!Printable, Results
  <2>2. ASSUME NEW k \in 1..Len(buf) PROVE buf[k] = e[k]
    BY <1>1 DEF Sequential!Entry, Results
  <2>3. buf = e
    <3>1. buf = [k \in 1..Len(buf) |-> buf[k]]
      BY <1>2, LenProperties
    <3>2. QED
      BY <2>2, <3>1
  <2>4. file' = file \o [k \in 1..Len(buf) |-> Sequential!Entry(hist[Len(file) + k])]
    BY <1>2, <2>3
  <2> HIDE DEF e
  <2>5. Sequential!Emit(Len(buf))
    BY <1>1, <2>1, <2>4 DEF Sequential!Emit, Results
  <2>6. Len(buf) \in 1..Len(hist)
    BY <1>1, <1>4
  <2>7. QED
    BY <2>5, <2>6 DEF Sequential!Next
<1>5. QED
  BY <1>1, <1>3, <1>4

\* Every step of the parallel mode is a step of the sequential report: a line or
\* a fork submits an item, an EOF ends a check, a flush prints, and all else is
\* invisible in the report.
LEMMA StepRefines ==
  ASSUME IInv, IInv', OInv, OInv', [Next]_vars
  PROVE  [Sequential!Next]_Sequential!vars
<1>0. TypeOK
  BY DEF IInv
<1>1. ASSUME UNCHANGED <<hist, file, eof>> PROVE [Sequential!Next]_Sequential!vars
  <2>1. Results' = Results
    BY <1>1, KeepResults
  <2>2. QED
    BY <1>1, <2>1 DEF Sequential!vars, Results
<1>2. CASE PrintLine \/ StartFork
  <2>1. eof' = eof /\ file' = file
    BY <1>2 DEF PrintLine, StartFork
  <2>2. Results' = Results
    BY <2>1, KeepResults
  <2>3. \E x \in Items : hist' = Append(hist, x)
    <3>1. CASE PrintLine
      <4>1. hist' = Append(hist, Line(Len(hist) + 1)) /\ Len(hist) < MaxItems
        BY <3>1 DEF PrintLine
      <4>2. Line(Len(hist) + 1) \in Items
        BY <1>0, <4>1, OutType, ParallelAssumption DEF Line, Items
      <4>3. QED
        BY <4>1, <4>2
    <3>2. CASE StartFork
      <4>1. hist' = Append(hist, Include(children)) /\ pc = "llvm" /\ Len(hist) < MaxItems
        BY <3>2 DEF StartFork
      <4>2. children <= Len(hist)
        <5>1. children \in Nat /\ Len(hist) \in Nat
          BY <1>0, OutType
        <5>2. children + 0 <= Len(hist)
          BY <4>1 DEF IInv, ControlInv
        <5>3. QED
          BY <5>1, <5>2
      <4>3. Include(children) \in Items
        BY <1>0, <4>1, <4>2, OutType, ParallelAssumption DEF Include, Items, Jobs
      <4>4. QED
        BY <4>1, <4>3
    <3>3. QED
      BY <1>2, <3>1, <3>2
  <2>4. QED
    BY <2>1, <2>2, <2>3 DEF Sequential!Next, Sequential!Submit, Results
<1>3. CASE ReadSlot
  <2>1. PICK s \in revents : ReadData(s) \/ ReadEOF(s)
    BY <1>3 DEF ReadSlot
  <2>2. hist' = hist /\ file' = file
    BY <1>3 DEF ReadSlot
  <2>3. CASE ReadData(s)
    BY <1>1, <2>2, <2>3 DEF ReadData
  <2>4. CASE ReadEOF(s)
    <3>1. PICK c \in Jobs : c = pfd[s]
      <4>1. s \in UsedSlots
        BY DEF UsedSlots, IInv, ReadNeverBlocks, TypeOK, ParentTypes
      <4>2. pfd[s] \in OpenChildren
        BY <4>1 DEF IInv, SlotsMatchChildren
      <4>3. QED
        BY <4>2 DEF OpenChildren
    <3>2. /\ ~Results[c].known /\ Results'[c].text \in Seq(Chunks)
          /\ Results' = [Results EXCEPT ![c] = [known |-> TRUE, text |-> Results'[c].text]]
      BY <1>3, <2>4, <3>1, EndResult
    <3>3. Sequential!Finish(c)
      BY <2>2, <3>2 DEF Sequential!Finish, Sequential!Known, Results
    <3>4. QED
      BY <3>3 DEF Sequential!Next
  <2>5. QED
    BY <2>1, <2>3, <2>4
<1>4. CASE Fork \/ ForkFails \/ FinishParent
  <2>1. FlushOut /\ hist' = hist /\ eof' = eof
    BY <1>4 DEF Fork, ForkFails, ParentEnds, FinishParent
  <2>2. QED
    BY <2>1, KeepResults, FlushRefines
<1>5. CASE Poll \/ DrainDone \/ ThrottleDone \/ GetToken \/ Prepare \/ ParentCrash \/ StartFinish
           \/ FinishReading \/ FinishWait
  <2>1. UNCHANGED <<hist, file, eof>>
    BY <1>5 DEF Poll, DrainDone, ThrottleDone, GetToken, Prepare, ParentCrash, ParentEnds, StartFinish,
                FinishReading, FinishWait
  <2>2. QED
    BY <1>1, <2>1
<1>6. CASE ~ParentNext
  <2>1. UNCHANGED <<hist, file, eof>>
    BY <1>0, <1>6, OtherOrder DEF Next
  <2>2. QED
    BY <1>1, <2>1
<1>7. QED
  BY <1>2, <1>3, <1>4, <1>5, <1>6 DEF ParentNext

\* The parallel mode implements the sequential report: whatever the children
\* do and whenever output is emitted, the report file grows as if the checks had
\* run one after the other.
THEOREM ImplementsSequentialReport == Spec => RefinesOrderedReport
<1>1. Init => Sequential!Init
  <2> SUFFICES ASSUME Init PROVE Sequential!Init
    OBVIOUS
  <2>1. \A i \in Jobs : ResultOf(i) = [known |-> FALSE, text |-> <<>>]
    BY DEF Init, ResultOf
  <2>2. QED
    BY <2>1 DEF Init, Sequential!Init, Sequential!Unknown
<1>2. (IInv /\ OInv) /\ (IInv /\ OInv)' /\ [Next]_vars => [Sequential!Next]_Sequential!vars
  BY StepRefines
<1>3. QED
  BY <1>1, <1>2, OrderInvariance, PTL DEF Spec, RefinesOrderedReport, Sequential!Spec
=============================================================================
