--------------------------- MODULE ParallelProofs ---------------------------
(***************************************************************************)
(* Proofs about Parallel for all values of its constants.                  *)
(***************************************************************************)
EXTENDS Parallel, SequenceTheorems, FiniteSetTheorems, TLAPS

\* The inductive invariant. SlotsMatchChildren is not inductive alone: that a
\* free slot exists needs the throttle (ControlInv), that a slot which is read
\* is in use needs ReadNeverBlocks, and that a child at EOF has ended needs
\* WriterInv.
IInv ==
  /\ TypeOK
  /\ ControlInv
  /\ SlotsMatchChildren
  /\ ReadNeverBlocks
  /\ WriterInv
  /\ EofMeansEnded

-----------------------------------------------------------------------------
(* Sequences *)

\* The empty sequence is a sequence over any set.
LEMMA EmptyIsSeq == ASSUME NEW S PROVE <<>> \in Seq(S)
OBVIOUS

\* Appending an element of S to a sequence over S gives one over S.
LEMMA AppendIsSeq ==
  ASSUME NEW S, NEW s \in Seq(S), NEW x \in S
  PROVE  /\ Append(s, x) \in Seq(S)
         /\ Len(Append(s, x)) = Len(s) + 1
         /\ Append(s, x) # <<>>
<1>1. Append(s, x) \in Seq(S) /\ Len(Append(s, x)) = Len(s) + 1
  OBVIOUS
<1>2. Len(s) \in Nat /\ Len(<<>>) = 0
  OBVIOUS
<1>3. QED
  BY <1>1, <1>2

\* What is left of a pipe or of parent_ss after a read is a sequence again.
LEMMA SuffixIsSeq ==
  ASSUME NEW S, NEW s \in Seq(S), NEW m \in 0..Len(s)
  PROVE  SubSeq(s, m + 1, Len(s)) \in Seq(S)
<1>1. Len(s) \in Nat /\ \A k \in m + 1 .. Len(s) : s[k] \in S
  BY LenProperties, ElementOfSeq
<1>2. QED
  BY <1>1, SubSeqProperties

\* What a read returns is a sequence over the same set.
LEMMA PrefixIsSeq ==
  ASSUME NEW S, NEW s \in Seq(S), NEW n \in 0..Len(s)
  PROVE  SubSeq(s, 1, n) \in Seq(S)
<1>1. Len(s) \in Nat /\ \A k \in 1 .. n : s[k] \in S
  BY LenProperties, ElementOfSeq
<1>2. QED
  BY <1>1, SubSeqProperties

-----------------------------------------------------------------------------
(* Types *)

\* parallel::init establishes the inductive invariant.
LEMMA InitIInv == Init => IInv
<1> SUFFICES ASSUME Init PROVE IInv
  OBVIOUS
<1> USE ParallelAssumption
<1>a. \A S : <<>> \in Seq(S)
  BY EmptyIsSeq
<1>b. ParentTypes
  BY <1>a DEF Init, ParentTypes, ParentPCs
<1>c. FlagTypes
  BY DEF Init, FlagTypes
<1>d. OSTypes /\ ChildTypes
  BY <1>a DEF Init, OSTypes, ChildTypes, ChildPCs
<1>1. TypeOK
  BY <1>b, <1>c, <1>d DEF TypeOK
<1>2. ControlInv
  BY DEF Init, ControlInv, Jobs, ReadLoops
<1>3. UsedSlots = {} /\ OpenChildren = {}
  BY DEF Init, UsedSlots, OpenChildren
<1>4. SlotsMatchChildren
  BY <1>3, FS_EmptySet DEF Init, SlotsMatchChildren
<1>5. ReadNeverBlocks /\ WriterInv /\ EofMeansEnded
  BY DEF Init, ReadNeverBlocks, WriterInv, EofMeansEnded, Alive, Running
<1>6. QED
  BY <1>1, <1>2, <1>4, <1>5 DEF IInv

\* Chunks of reports
LEMMA ReportTypes ==
  ASSUME NEW i \in Jobs, NEW n \in 0..MaxReport
  PROVE  ReportText(i, n) \in Seq(Chunks) /\ TimeoutText(i) \in Seq(Chunks)
<1> USE ParallelAssumption
<1>1. n \in Nat /\ \A k \in 1..n : <<i, k>> \in Chunks
  BY DEF Chunks
<1>2. ReportText(i, n) \in Seq(Chunks)
  BY <1>1 DEF ReportText
<1>3. <<i, 0>> \in Chunks
  BY DEF Chunks
<1>4. QED
  BY <1>2, <1>3 DEF TimeoutText

\* The entries emitOutput prints
LEMMA EmitTypes ==
  ASSUME TypeOK, NEW m \in 0..Len(parent_ss), EmitOutput(m)
  PROVE  /\ buf' \in Seq(Entries) /\ parent_ss' \in Seq(Items)
         /\ output' \in [Jobs -> Seq(Chunks)] /\ ssFail' \in BOOLEAN
<1> USE ParallelAssumption
<1>1. parent_ss \in Seq(Items) /\ buf \in Seq(Entries) /\ output \in [Jobs -> Seq(Chunks)]
  BY DEF TypeOK, ParentTypes
<1>2. Len(parent_ss) \in Nat /\ m \in Nat
  BY <1>1
<1>3. \A k \in 1..m : EntryOf(parent_ss[k]) \in Entries
  <2> SUFFICES ASSUME NEW k \in 1..m PROVE EntryOf(parent_ss[k]) \in Entries
    OBVIOUS
  <2>1. parent_ss[k] \in Items
    BY <1>1, <1>2
  <2>2. parent_ss[k].kind = "include" => parent_ss[k].n \in Jobs
    BY <2>1 DEF Items
  <2>3. (IF parent_ss[k].kind = "include" THEN output[parent_ss[k].n] ELSE <<>>) \in Seq(Chunks)
    BY <1>1, <2>2, EmptyIsSeq
  <2>4. QED
    BY <2>1, <2>3 DEF EntryOf, Entries
<1>4. [k \in 1..m |-> EntryOf(parent_ss[k])] \in Seq(Entries)
  BY <1>2, <1>3
<1>5. buf' \in Seq(Entries)
  BY <1>1, <1>4, ConcatProperties DEF EmitOutput
<1>6. parent_ss' \in Seq(Items)
  BY <1>1, SuffixIsSeq DEF EmitOutput
<1>7. output' \in [Jobs -> Seq(Chunks)]
  BY <1>1, EmptyIsSeq DEF EmitOutput
<1>8. ssFail' \in BOOLEAN
  BY DEF EmitOutput
<1>9. QED
  BY <1>5, <1>6, <1>7, <1>8

\* Writing to parent_ss keeps its type, whether the failbit is set or not.
LEMMA WriteSSType ==
  ASSUME TypeOK, NEW x \in Items, WriteSS(x)
  PROVE  parent_ss' \in Seq(Items)
BY AppendIsSeq DEF TypeOK, ParentTypes, WriteSS

\* out_file.flush() keeps the types of the file and of its buffer.
LEMMA FlushType ==
  ASSUME TypeOK, FlushOut
  PROVE  file' \in Seq(Entries) /\ buf' \in Seq(Entries)
BY ConcatProperties, EmptyIsSeq DEF TypeOK, ParentTypes, FlushOut

\* getToken and putToken keep the number of tokens a natural number.
LEMMA TokenType ==
  ASSUME TypeOK, TakeToken \/ PutToken
  PROVE  tokens' \in Nat
BY DEF TypeOK, OSTypes, TakeToken, PutToken

\* The end of a process leaves sets of processes at the ends of pipes.
LEMMA CloseType ==
  ASSUME TypeOK, NEW p, CloseAll(p)
  PROVE  wr' \in [Jobs -> SUBSET Procs] /\ rd' \in [Jobs -> SUBSET Procs]
BY DEF TypeOK, OSTypes, CloseAll

\* reapZombies keeps the types of the control states of children.
LEMMA ReapType ==
  ASSUME TypeOK, reapZombies
  PROVE  cpc' \in [Jobs -> ChildPCs]
BY DEF TypeOK, ChildTypes, reapZombies, ChildPCs

\* There are MaxActive slots: a free one is left as long as fewer are used.
LEMMA UsedSlotsCount ==
  ASSUME TypeOK
  PROVE  /\ IsFiniteSet(UsedSlots) /\ Cardinality(UsedSlots) \in Nat
         /\ \A s \in UsedSlots : Cardinality(UsedSlots) > 0
         /\ Cardinality(UsedSlots) < MaxActive => \E s \in Slots : pfd[s] = NoFd
<1> USE ParallelAssumption
<1>1. IsFiniteSet(Slots) /\ Cardinality(Slots) = MaxActive
  BY FS_Interval DEF Slots
<1>2. UsedSlots \in SUBSET Slots
  BY DEF UsedSlots
<1>3. IsFiniteSet(UsedSlots) /\ Cardinality(UsedSlots) \in Nat
  BY <1>1, <1>2, FS_Subset, FS_CardinalityType
<1>4. \A s \in UsedSlots : Cardinality(UsedSlots) > 0
  BY <1>3, FS_EmptySet
<1>5. ASSUME Cardinality(UsedSlots) < MaxActive
      PROVE  \E s \in Slots : pfd[s] = NoFd
  <2>1. UsedSlots # Slots
    BY <1>1, <1>3, <1>5
  <2>2. QED
    BY <2>1, <1>2 DEF UsedSlots
<1>6. QED
  BY <1>3, <1>4, <1>5

-----------------------------------------------------------------------------
(* Types are preserved by the parent, a child and the job server. *)

\* Every step of the parent preserves the types.
LEMMA ParentType == IInv /\ ParentNext => TypeOK'
<1> SUFFICES ASSUME IInv, ParentNext PROVE TypeOK'
  OBVIOUS
<1> USE ParallelAssumption
<1>0. TypeOK /\ ParentTypes /\ FlagTypes /\ OSTypes /\ ChildTypes
  BY DEF IInv, TypeOK
<1>h. Len(hist) \in Nat
  BY <1>0 DEF ParentTypes
<1>1. CASE PrintLine
  <2>1. Line(Len(hist) + 1) \in Items
    BY <1>1, <1>h DEF PrintLine, Line, Items
  <2>2. hist' \in Seq(Items) /\ parent_ss' \in Seq(Items)
    BY <1>0, <1>1, <2>1, AppendIsSeq, WriteSSType DEF PrintLine, ParentTypes
  <2>3. ParentTypes'
    BY <1>0, <1>1, <2>2 DEF PrintLine, ParentTypes
  <2>4. FlagTypes' /\ OSTypes' /\ ChildTypes'
    BY <1>0, <1>1 DEF PrintLine, FlagTypes, OSTypes, ChildTypes, osVars, childVars
  <2>5. QED
    BY <2>3, <2>4 DEF TypeOK
<1>2. CASE StartFork
  <2>1. children \in Jobs /\ Include(children) \in Items
    BY <1>0, <1>2, <1>h DEF StartFork, IInv, ControlInv, ParentTypes, Jobs, Include, Items
  <2>2. hist' \in Seq(Items)
    BY <1>0, <1>2, <2>1, AppendIsSeq DEF StartFork, ParentTypes
  <2>3. ParentTypes'
    BY <1>0, <1>2, <2>2 DEF StartFork, ParentTypes, ParentPCs, ReadLoops
  <2>4. FlagTypes' /\ OSTypes' /\ ChildTypes'
    BY <1>0, <1>2 DEF StartFork, FlagTypes, OSTypes, ChildTypes, osVars, childVars
  <2>5. QED
    BY <2>3, <2>4 DEF TypeOK
<1>3. CASE Poll
  <2>1. ParentTypes'
    BY <1>0, <1>3 DEF Poll, ParentTypes
  <2>2. FlagTypes' /\ OSTypes' /\ ChildTypes'
    BY <1>0, <1>3 DEF Poll, FlagTypes, OSTypes, ChildTypes, osVars, childVars
  <2>3. QED
    BY <2>1, <2>2 DEF TypeOK
<1>5. CASE DrainDone \/ ThrottleDone \/ FinishReading
  <2>1. ParentTypes'
    BY <1>0, <1>5 DEF DrainDone, ThrottleDone, FinishReading, ParentTypes, ParentPCs, ReadLoops
  <2>2. FlagTypes' /\ OSTypes' /\ ChildTypes'
    BY <1>0, <1>5 DEF DrainDone, ThrottleDone, FinishReading, FlagTypes, OSTypes,
                      ChildTypes, osVars, childVars
  <2>3. QED
    BY <2>1, <2>2 DEF TypeOK
<1>6. CASE GetToken \/ StartFinish
  <2>1. ParentTypes'
    BY <1>0, <1>6 DEF GetToken, StartFinish, ParentTypes, ParentPCs, ReadLoops
  <2>2. tokens' \in Nat
    BY <1>0, <1>6, TokenType DEF GetToken, StartFinish
  <2>3. FlagTypes' /\ OSTypes' /\ ChildTypes'
    BY <1>0, <1>6, <2>2 DEF GetToken, StartFinish, FlagTypes, OSTypes, ChildTypes, childVars
  <2>4. QED
    BY <2>1, <2>3 DEF TypeOK
<1>4. CASE ReadSlot
  <2> PICK s \in revents :
        /\ revents' = revents \ {s}
        /\ ReadData(s) \/ ReadEOF(s)
    BY <1>4 DEF ReadSlot
  <2> DEFINE i == pfd[s]
  <2>1. s \in UsedSlots /\ i \in Jobs
    BY <1>0 DEF IInv, ReadNeverBlocks, UsedSlots, ParentTypes
  <2>2. pipe[i] \in Seq(Chunks) /\ output[i] \in Seq(Chunks) /\ Len(pipe[i]) \in Nat
    BY <1>0, <2>1 DEF ParentTypes, OSTypes
  <2>3. active' \in 0..MaxActive
    <3>1. active \in 0..MaxActive /\ active > 0
      BY <1>0, <2>1, UsedSlotsCount DEF ParentTypes, IInv, SlotsMatchChildren
    <3>2. active' = active \/ active' = active - 1
      BY DEF ReadData, ReadEOF
    <3>3. QED
      BY <3>1, <3>2
  <2>4. output' \in [Jobs -> Seq(Chunks)] /\ pipe' \in [Jobs -> Seq(Chunks)]
    <3>1. CASE ReadEOF(s)
      BY <1>0, <3>1 DEF ReadEOF, ParentTypes, OSTypes
    <3>2. CASE ReadData(s)
      <4> DEFINE n == IF Len(pipe[i]) < MaxRead THEN Len(pipe[i]) ELSE MaxRead
      <4>1. n \in 0..Len(pipe[i])
        BY <2>2
      <4>2. SubSeq(pipe[i], 1, n) \in Seq(Chunks)
        BY <2>2, <4>1, PrefixIsSeq
      <4>3. SubSeq(pipe[i], n + 1, Len(pipe[i])) \in Seq(Chunks)
        BY <2>2, <4>1, SuffixIsSeq
      <4>4. output[i] \o SubSeq(pipe[i], 1, n) \in Seq(Chunks)
        BY <2>2, <4>2, ConcatProperties
      <4>5. /\ output' = [output EXCEPT ![i] = output[i] \o SubSeq(pipe[i], 1, n)]
            /\ pipe' = [pipe EXCEPT ![i] = SubSeq(pipe[i], n + 1, Len(pipe[i]))]
        BY <3>2, <1>0, <2>1 DEF ReadData, ParentTypes, OSTypes
      <4> HIDE DEF n, i
      <4>6. QED
        BY <1>0, <4>3, <4>4, <4>5 DEF ParentTypes, OSTypes
    <3>3. QED
      BY <3>1, <3>2
  <2>5. pfd' \in [Slots -> Jobs \cup {NoFd}]
    BY <1>0 DEF ReadData, ReadEOF, ParentTypes
  <2>6. ParentTypes'
    BY <1>0, <1>4, <2>3, <2>4, <2>5 DEF ReadSlot, ParentTypes
  <2>7. FlagTypes'
    <3>1. eof' \in [Jobs -> BOOLEAN]
      BY <1>0 DEF ReadData, ReadEOF, FlagTypes
    <3>2. ssFail' \in BOOLEAN
      BY <1>0, <1>4 DEF ReadSlot, FlagTypes
    <3>3. QED
      BY <3>1, <3>2 DEF FlagTypes
  <2>8. rd' \in [Jobs -> SUBSET Procs]
    BY <1>0, <2>1 DEF ReadData, ReadEOF, OSTypes
  <2>9. OSTypes'
    BY <1>0, <1>4, <2>4, <2>8 DEF ReadSlot, OSTypes
  <2>10. cpc' \in [Jobs -> ChildPCs]
    BY <1>0, <1>4, ReapType DEF ReadSlot, ChildTypes
  <2>11. ChildTypes'
    BY <1>0, <1>4, <2>10 DEF ReadSlot, ChildTypes
  <2>12. QED
    BY <2>6, <2>7, <2>9, <2>11 DEF TypeOK
<1>7. CASE Prepare
  <2>1. /\ buf' \in Seq(Entries) /\ parent_ss' \in Seq(Items)
        /\ output' \in [Jobs -> Seq(Chunks)] /\ ssFail' \in BOOLEAN
    <3>1. CASE children % EmitEvery = 0
      BY <1>0, <1>7, <3>1, EmitTypes DEF Prepare
    <3>2. CASE children % EmitEvery # 0
      BY <1>0, <1>7, <3>2 DEF Prepare, ParentTypes, FlagTypes
    <3>3. QED
      BY <3>1, <3>2
  <2>2. children' \in 0..MaxItems
    BY <1>0, <1>7, <1>h DEF Prepare, IInv, ControlInv, ParentTypes
  <2>3. ParentTypes'
    BY <1>0, <1>7, <2>1, <2>2 DEF Prepare, ParentTypes, ParentPCs
  <2>4. FlagTypes'
    BY <1>0, <1>7, <2>1 DEF Prepare, FlagTypes
  <2>5. OSTypes' /\ ChildTypes'
    BY <1>0, <1>7 DEF Prepare, OSTypes, ChildTypes, osVars, childVars
  <2>6. QED
    BY <2>3, <2>4, <2>5 DEF TypeOK
<1>8. CASE Fork
  <2> DEFINE i == children - 1
  <2>1. i \in Jobs /\ Include(i) \in Items
    BY <1>0, <1>8, <1>h DEF Fork, IInv, ControlInv, ParentTypes, Jobs, Include, Items
  <2>2. file' \in Seq(Entries) /\ buf' \in Seq(Entries) /\ parent_ss' \in Seq(Items)
    BY <1>0, <1>8, <2>1, FlushType, WriteSSType DEF Fork
  <2>3. active' \in 0..MaxActive
    BY <1>0, <1>8 DEF Fork, IInv, ControlInv, ParentTypes
  <2>4. pfd' \in [Slots -> Jobs \cup {NoFd}]
    BY <1>0, <1>8, <2>1 DEF Fork, ParentTypes
  <2>5. ParentTypes'
    BY <1>0, <1>8, <2>2, <2>3, <2>4 DEF Fork, ParentTypes, ParentPCs
  <2>6. FlagTypes'
    BY <1>0, <1>8 DEF Fork, FlagTypes
  <2>7. wr' \in [Jobs -> SUBSET Procs] /\ rd' \in [Jobs -> SUBSET Procs]
    BY <1>0, <1>8, <2>1 DEF Fork, OSTypes, Procs
  <2>8. OSTypes'
    BY <1>0, <1>8, <2>7 DEF Fork, OSTypes
  <2>9. ChildTypes'
    BY <1>0, <1>8, <2>1, <2>2 DEF Fork, ChildTypes, ChildPCs
  <2>10. QED
    BY <2>5, <2>6, <2>8, <2>9 DEF TypeOK
<1>9. CASE ForkFails \/ ParentCrash
  <2>1. file' \in Seq(Entries) /\ buf' \in Seq(Entries)
    BY <1>0, <1>9, FlushType DEF ForkFails, ParentCrash, ParentTypes
  <2>2. ParentEnds
    BY <1>9 DEF ForkFails, ParentCrash
  <2>3. ParentTypes' /\ FlagTypes'
    BY <1>0, <2>1, <2>2 DEF ParentEnds, ParentTypes, FlagTypes, ParentPCs
  <2>4. OSTypes'
    BY <1>0, <2>2, CloseType DEF ParentEnds, OSTypes
  <2>5. crashes' \in 0..MaxCrashes
    BY <1>0, <1>9 DEF ForkFails, ParentCrash, ChildTypes
  <2>6. ChildTypes'
    BY <1>0, <2>2, <2>5 DEF ParentEnds, ChildTypes
  <2>7. QED
    BY <2>3, <2>4, <2>6 DEF TypeOK
<1>10. CASE FinishWait
  <2> PICK m \in 0..Len(parent_ss) :
        EmitOutput(m) /\ pc' = IF m = Len(parent_ss) THEN "untoken" ELSE "abort"
    BY <1>10 DEF FinishWait
  <2>1. /\ buf' \in Seq(Entries) /\ parent_ss' \in Seq(Items)
        /\ output' \in [Jobs -> Seq(Chunks)] /\ ssFail' \in BOOLEAN
    BY <1>0, EmitTypes
  <2>2. ParentTypes'
    BY <1>0, <1>10, <2>1 DEF FinishWait, ParentTypes, ParentPCs
  <2>3. FlagTypes'
    BY <1>0, <1>10, <2>1 DEF FinishWait, FlagTypes
  <2>4. OSTypes' /\ ChildTypes'
    BY <1>0, <1>10, ReapType DEF FinishWait, OSTypes, ChildTypes, osVars
  <2>5. QED
    BY <2>2, <2>3, <2>4 DEF TypeOK
<1>11. CASE FinishParent
  <2>1. ParentTypes' /\ FlagTypes'
    BY <1>0, <1>11, FlushType DEF FinishParent, ParentTypes, FlagTypes, ParentPCs
  <2>2. OSTypes' /\ ChildTypes'
    BY <1>0, <1>11, TokenType DEF FinishParent, OSTypes, ChildTypes, childVars
  <2>3. QED
    BY <2>1, <2>2 DEF TypeOK
<1>12. QED
  BY <1>1, <1>2, <1>3, <1>4, <1>5, <1>6, <1>7, <1>8, <1>9, <1>10, <1>11 DEF ParentNext

\* Every step of a child preserves the types.
LEMMA ChildType == ASSUME NEW i \in Jobs PROVE IInv /\ ChildNext(i) => TypeOK'
<1> SUFFICES ASSUME IInv, ChildNext(i) PROVE TypeOK'
  OBVIOUS
<1> USE ParallelAssumption
<1>0. TypeOK /\ ParentTypes /\ FlagTypes /\ OSTypes /\ ChildTypes
  BY DEF IInv, TypeOK
<1>1. CASE VerifyDone(i)
  <2>1. ParentTypes' /\ FlagTypes' /\ OSTypes'
    BY <1>0, <1>1 DEF VerifyDone, ParentTypes, FlagTypes, OSTypes, parentVars, osVars
  <2>2. PICK n \in 0..MaxReport : /\ report' = [report EXCEPT ![i] = ReportText(i, n)]
                                  /\ left' = [left EXCEPT ![i] = ReportText(i, n)]
    BY <1>1 DEF VerifyDone
  <2>3. report' \in [Jobs -> Seq(Chunks)] /\ left' \in [Jobs -> Seq(Chunks)]
    BY <1>0, <2>2, ReportTypes DEF ChildTypes
  <2>4. ChildTypes'
    BY <1>0, <1>1, <2>3 DEF VerifyDone, ChildTypes, ChildPCs
  <2>5. QED
    BY <2>1, <2>4 DEF TypeOK
<1>2. CASE IgnoreAlarm(i)
  <2>1. ParentTypes' /\ FlagTypes' /\ OSTypes'
    BY <1>0, <1>2 DEF IgnoreAlarm, ParentTypes, FlagTypes, OSTypes, parentVars, osVars
  <2>2. ChildTypes'
    BY <1>0, <1>2 DEF IgnoreAlarm, ChildTypes, ChildPCs
  <2>3. QED
    BY <2>1, <2>2 DEF TypeOK
<1>3. CASE Alarm(i)
  <2>1. ParentTypes' /\ FlagTypes' /\ OSTypes'
    BY <1>0, <1>3 DEF Alarm, ParentTypes, FlagTypes, OSTypes, parentVars, osVars
  <2>2. TimeoutText(i) \in Seq(Chunks)
    BY ReportTypes
  <2>3. ChildTypes'
    BY <1>0, <1>3, <2>2 DEF Alarm, ChildTypes, ChildPCs
  <2>4. QED
    BY <2>1, <2>3 DEF TypeOK
<1>4. CASE FinishChild(i)
  <2>1. ParentTypes' /\ FlagTypes'
    BY <1>0, <1>4 DEF FinishChild, ParentTypes, FlagTypes, parentVars
  <2>2. OSTypes'
    BY <1>0, <1>4, TokenType DEF FinishChild, OSTypes
  <2>3. ChildTypes'
    BY <1>0, <1>4 DEF FinishChild, ChildTypes, ChildPCs
  <2>4. QED
    BY <2>1, <2>2, <2>3 DEF TypeOK
<1>5. CASE WriteChunk(i)
  <2>1. ParentTypes' /\ FlagTypes'
    BY <1>0, <1>5 DEF WriteChunk, ParentTypes, FlagTypes, parentVars
  <2>2. Head(left[i]) \in Chunks /\ Tail(left[i]) \in Seq(Chunks)
    BY <1>0, <1>5, HeadTailProperties DEF WriteChunk, ChildTypes
  <2>3. Append(pipe[i], Head(left[i])) \in Seq(Chunks)
    BY <1>0, <2>2, AppendIsSeq DEF OSTypes
  <2>4. OSTypes'
    BY <1>0, <1>5, <2>3 DEF WriteChunk, OSTypes
  <2>5. ChildTypes'
    BY <1>0, <1>5, <2>2 DEF WriteChunk, ChildTypes
  <2>6. QED
    BY <2>1, <2>4, <2>5 DEF TypeOK
<1>6. CASE BrokenPipe(i) \/ ExitChild(i) \/ ChildCrash(i)
  <2>1. ChildEnds(i)
    BY <1>6 DEF BrokenPipe, ExitChild, ChildCrash
  <2>2. file' \in Seq(Entries)
    <3>1. file \in Seq(Entries) /\ inherited[i] \in Seq(Entries)
      BY <1>0 DEF ParentTypes, ChildTypes
    <3>2. file \o inherited[i] \in Seq(Entries)
      BY <3>1, ConcatProperties
    <3>3. QED
      BY <1>6, <3>1, <3>2 DEF BrokenPipe, ExitChild, ChildCrash
  <2>3. ParentTypes' /\ FlagTypes'
    BY <1>0, <2>1, <2>2 DEF ChildEnds, ParentTypes, FlagTypes
  <2>4. OSTypes'
    BY <1>0, <1>6, <2>1, CloseType DEF ChildEnds, BrokenPipe, ExitChild, ChildCrash, OSTypes
  <2>5. crashes' \in 0..MaxCrashes
    BY <1>0, <1>6 DEF BrokenPipe, ExitChild, ChildCrash, ChildTypes
  <2>6. Cardinality({i} \cap holds) \in Nat
    BY FS_Singleton, FS_Intersection, FS_CardinalityType
  <2>7. ChildTypes'
    BY <1>0, <2>1, <2>5, <2>6 DEF ChildEnds, ChildTypes, ChildPCs
  <2>8. QED
    BY <2>3, <2>4, <2>7 DEF TypeOK
<1>7. CASE FinalizeInChild(i)
  <2>1. ParentTypes' /\ FlagTypes'
    BY <1>0, <1>7 DEF FinalizeInChild, ParentTypes, FlagTypes, parentVars
  <2>2. OSTypes'
    BY <1>0, <1>7, TokenType, CloseType DEF FinalizeInChild, OSTypes
  <2>3. ChildTypes'
    BY <1>0, <1>7 DEF FinalizeInChild, ChildTypes, ChildPCs
  <2>4. QED
    BY <2>1, <2>2, <2>3 DEF TypeOK
<1>8. QED
  BY <1>1, <1>2, <1>3, <1>4, <1>5, <1>6, <1>7 DEF ChildNext

\* A refill by the job server preserves the types.
LEMMA RefillType == IInv /\ Refill => TypeOK'
<1> SUFFICES ASSUME IInv, Refill PROVE TypeOK'
  OBVIOUS
<1> USE ParallelAssumption
<1>0. TypeOK /\ ParentTypes /\ FlagTypes /\ OSTypes /\ ChildTypes
  BY DEF IInv, TypeOK
<1>1. Cardinality({i \in Jobs : Running(i)}) \in Nat
  <2>1. IsFiniteSet(Jobs)
    BY FS_Interval DEF Jobs
  <2>2. QED
    BY <2>1, FS_Subset, FS_CardinalityType
<1>2. Runnable \in Nat
  BY <1>1 DEF Runnable
<1>3. tokens' \in Nat /\ minted' \in Nat
  BY <1>0, <1>2 DEF Refill, OSTypes, ChildTypes
<1>4. ParentTypes' /\ FlagTypes'
  BY <1>0 DEF Refill, ParentTypes, FlagTypes, parentVars
<1>5. OSTypes' /\ ChildTypes'
  BY <1>0, <1>3 DEF Refill, OSTypes, ChildTypes
<1>6. QED
  BY <1>4, <1>5 DEF TypeOK

-----------------------------------------------------------------------------
(* The rest of the invariant. Reaping changes only zombies, and a step that   *)
(* leaves the poll table, the pipes and the children alone keeps it.          *)

\* reapZombies changes neither who is alive nor who has ended.
LEMMA ReapFacts ==
  ASSUME TypeOK, reapZombies \/ UNCHANGED cpc
  PROVE  \A i \in Jobs :
           /\ cpc'[i] = "none" <=> cpc[i] = "none"
           /\ Gone(i)' <=> Gone(i)
           /\ Alive(i)' <=> Alive(i)
BY DEF TypeOK, ChildTypes, reapZombies, Gone, Alive, Running, ChildPCs

\* A step that leaves the poll table, the pipes and the children alone
\* preserves the inductive invariant apart from the types and the control state.
LEMMA Frame ==
  ASSUME IInv, UNCHANGED <<active, pfd, revents, eof, pipe, wr>>,
         reapZombies \/ UNCHANGED cpc
  PROVE  /\ SlotsMatchChildren' /\ ReadNeverBlocks' /\ WriterInv' /\ EofMeansEnded'
         /\ \A i \in Jobs : cpc'[i] = "none" <=> cpc[i] = "none"
<1>1. \A i \in Jobs :
           /\ cpc'[i] = "none" <=> cpc[i] = "none"
           /\ Gone(i)' <=> Gone(i)
           /\ Alive(i)' <=> Alive(i)
  BY ReapFacts DEF IInv
<1>2. UsedSlots' = UsedSlots
  BY DEF UsedSlots
<1>3. OpenChildren' = OpenChildren
  BY <1>1 DEF OpenChildren
<1>4. SlotsMatchChildren'
  BY <1>2, <1>3 DEF IInv, SlotsMatchChildren
<1>5. ReadNeverBlocks'
  BY DEF IInv, ReadNeverBlocks
<1>6. WriterInv' /\ EofMeansEnded'
  BY <1>1 DEF IInv, WriterInv, EofMeansEnded
<1>7. QED
  BY <1>1, <1>4, <1>5, <1>6

\* Every step of the parent preserves the inductive invariant.
LEMMA ParentIInv == IInv /\ ParentNext => IInv'
<1> SUFFICES ASSUME IInv, ParentNext PROVE IInv'
  OBVIOUS
<1> USE ParallelAssumption
<1>0. TypeOK /\ TypeOK' /\ ControlInv
  BY ParentType DEF IInv
<1>t. Len(hist) \in Nat /\ children \in 0..MaxItems /\ active \in 0..MaxActive
  BY <1>0 DEF TypeOK, ParentTypes
<1>1. CASE PrintLine \/ StartFork
  <2>1. Len(hist') = Len(hist) + 1
    <3>1. hist \in Seq(Items) /\ hist' \in Seq(Items)
      BY <1>0 DEF TypeOK, ParentTypes
    <3>2. \E x : hist' = Append(hist, x)
      BY <1>1 DEF PrintLine, StartFork
    <3>3. QED
      BY <3>1, <3>2
  <2>2. ControlInv'
    BY <1>0, <1>t, <1>1, <2>1 DEF PrintLine, StartFork, ControlInv, childVars, ReadLoops
  <2>3. QED
    BY <1>0, <1>1, <2>2, Frame DEF PrintLine, StartFork, IInv, osVars, childVars
<1>2. CASE Poll
  <2>1. ControlInv'
    BY <1>0, <1>2 DEF Poll, ControlInv, childVars
  <2>2. ReadNeverBlocks'
    BY <1>2 DEF Poll, ReadNeverBlocks, Ready, osVars
  <2>3. SlotsMatchChildren' /\ WriterInv' /\ EofMeansEnded'
    BY <1>2 DEF Poll, IInv, SlotsMatchChildren, UsedSlots, OpenChildren, WriterInv,
                EofMeansEnded, Alive, Running, Gone, osVars, childVars
  <2>4. QED
    BY <1>0, <2>1, <2>2, <2>3 DEF IInv
<1>4. CASE DrainDone \/ ThrottleDone \/ FinishReading \/ GetToken \/ StartFinish
  <2>1. ControlInv'
    BY <1>0, <1>t, <1>4 DEF DrainDone, ThrottleDone, FinishReading, GetToken, StartFinish,
                      ControlInv, ReadLoops, childVars
  <2>2. QED
    BY <1>0, <1>4, <2>1, Frame DEF DrainDone, ThrottleDone, FinishReading, GetToken,
                      StartFinish, IInv, osVars, childVars
<1>5. CASE Prepare
  <2>1. ControlInv'
    BY <1>0, <1>t, <1>5 DEF Prepare, ControlInv, ReadLoops, Jobs, childVars
  <2>2. QED
    BY <1>0, <1>5, <2>1, Frame DEF Prepare, IInv, osVars, childVars
<1>6. CASE FinishWait \/ FinishParent
  <2>1. \A i \in Jobs : cpc'[i] = "none" <=> cpc[i] = "none"
    BY <1>0, <1>6, ReapFacts DEF FinishWait, FinishParent, childVars
  <2>2. pc' \in {"untoken", "abort", "done"} /\ revents' = {}
    BY <1>0, <1>6 DEF FinishWait, FinishParent, ControlInv, ReadLoops
  <2>3. UNCHANGED <<hist, children, eof, active>>
    BY <1>6 DEF FinishWait, FinishParent
  <2>4. ControlInv'
    BY <1>0, <1>t, <2>1, <2>2, <2>3 DEF ControlInv
  <2>5. QED
    BY <1>0, <1>6, <2>4, Frame DEF FinishWait, FinishParent, IInv, osVars, childVars
<1>7. CASE ForkFails \/ ParentCrash
  <2>1. ParentEnds
    BY <1>7 DEF ForkFails, ParentCrash
  <2>2. ControlInv'
    BY <1>0, <1>t, <2>1 DEF ParentEnds, ControlInv
  <2>3. \A i \in Jobs : wr'[i] = wr[i] \ {Parent}
    BY <2>1 DEF ParentEnds, CloseAll
  <2>4. ReadNeverBlocks'
    <3> SUFFICES ASSUME NEW s \in revents
                 PROVE  pfd[s] # NoFd /\ (pipe[pfd[s]] # <<>> \/ wr'[pfd[s]] = {})
      BY <2>1 DEF ParentEnds, ReadNeverBlocks
    <3>1. pfd[s] # NoFd /\ (pipe[pfd[s]] # <<>> \/ wr[pfd[s]] = {})
      BY DEF IInv, ReadNeverBlocks
    <3>2. pfd[s] \in Jobs
      BY <1>0, <3>1 DEF TypeOK, ParentTypes
    <3>3. QED
      BY <3>1, <3>2, <2>3
  <2>5. WriterInv'
    <3> SUFFICES ASSUME NEW i \in Jobs, Alive(i)' PROVE i \in wr'[i]
      BY DEF WriterInv
    <3>1. i \in wr[i]
      BY <2>1 DEF IInv, WriterInv, ParentEnds, Alive, Running
    <3>2. i # Parent
      BY DEF Jobs, Parent
    <3>3. QED
      BY <3>1, <3>2, <2>3
  <2>6. SlotsMatchChildren' /\ EofMeansEnded'
    BY <2>1 DEF ParentEnds, IInv, SlotsMatchChildren, UsedSlots, OpenChildren,
                EofMeansEnded, Gone
  <2>7. QED
    BY <1>0, <2>2, <2>4, <2>5, <2>6 DEF IInv
<1>8. CASE Fork
  <2> DEFINE i == children - 1
  <2>1. i \in Jobs /\ cpc[i] = "none" /\ ~eof[i] /\ active < MaxActive /\ revents = {}
    BY <1>0, <1>t, <1>8 DEF Fork, ControlInv, Jobs, ReadLoops
  <2>2. PICK s \in Slots : FreeSlot(s) /\ pfd' = [pfd EXCEPT ![s] = i]
    BY <1>8 DEF Fork
  <2>3. cpc' = [cpc EXCEPT ![i] = "run"] /\ UNCHANGED <<hist, children, eof, revents, pipe>>
        /\ pc' = "llvm" /\ active' = active + 1
    BY <1>8 DEF Fork
  <2> HIDE DEF i
  <2>4. pfd[s] = NoFd /\ i # NoFd
    BY <2>1, <2>2 DEF FreeSlot, Jobs, NoFd
  <2>5. UsedSlots' = UsedSlots \cup {s} /\ s \notin UsedSlots
    BY <1>0, <2>2, <2>4 DEF UsedSlots, TypeOK, ParentTypes
  <2>6. OpenChildren' = OpenChildren \cup {i} /\ i \notin OpenChildren
    BY <1>0, <2>1, <2>3 DEF OpenChildren, TypeOK, ChildTypes
  <2>7. active' = Cardinality(UsedSlots')
    BY <1>0, <1>t, <2>3, <2>5, UsedSlotsCount, FS_AddElement DEF IInv, SlotsMatchChildren
  <2>8. \A a \in UsedSlots : pfd'[a] = pfd[a] /\ pfd[a] \in OpenChildren
    BY <1>0, <2>2, <2>4 DEF UsedSlots, TypeOK, ParentTypes, IInv, SlotsMatchChildren
  <2>9. pfd'[s] = i
    BY <1>0, <2>2 DEF TypeOK, ParentTypes
  <2>10. \A a, b \in UsedSlots' : pfd'[a] = pfd'[b] => a = b
    BY <2>5, <2>6, <2>8, <2>9 DEF IInv, SlotsMatchChildren
  <2>11. {pfd'[a] : a \in UsedSlots'} = OpenChildren'
    BY <2>5, <2>6, <2>8, <2>9 DEF IInv, SlotsMatchChildren
  <2>12. SlotsMatchChildren'
    BY <2>7, <2>10, <2>11 DEF SlotsMatchChildren
  <2>13. ControlInv'
    BY <1>0, <1>t, <2>1, <2>3 DEF ControlInv, TypeOK, ChildTypes, i
  <2>14. ReadNeverBlocks'
    BY <2>1, <2>3 DEF ReadNeverBlocks
  <2>15. WriterInv'
    <3> SUFFICES ASSUME NEW j \in Jobs, Alive(j)' PROVE j \in wr'[j]
      BY DEF WriterInv
    <3>1. CASE j = i
      BY <1>8, <3>1 DEF Fork, i
    <3>2. CASE j # i
      <4>1. j \in wr[j] /\ j # Parent
        <5>1. cpc'[j] = cpc[j] /\ j # Parent
          BY <1>0, <2>3, <3>2 DEF Jobs, Parent, TypeOK, ChildTypes
        <5>2. Alive(j)
          BY <5>1 DEF Alive, Running
        <5>3. QED
          BY <5>1, <5>2 DEF IInv, WriterInv
      <4>2. QED
        BY <1>8, <4>1 DEF Fork
    <3>3. QED
      BY <3>1, <3>2
  <2>16. EofMeansEnded'
    BY <1>0, <2>1, <2>3 DEF IInv, EofMeansEnded, Gone, TypeOK, ChildTypes
  <2>17. QED
    BY <1>0, <2>12, <2>13, <2>14, <2>15, <2>16 DEF IInv
<1>3. CASE ReadSlot
  <2> PICK s \in revents :
        /\ revents' = revents \ {s}
        /\ ReadData(s) \/ ReadEOF(s)
    BY <1>3 DEF ReadSlot
  <2> DEFINE i == pfd[s]
  <2>1. /\ UNCHANGED <<pc, hist, children, wr>>
        /\ reapZombies \/ UNCHANGED cpc
    BY <1>3 DEF ReadSlot
  <2>2. \A j \in Jobs : /\ cpc'[j] = "none" <=> cpc[j] = "none"
                        /\ Gone(j)' <=> Gone(j)
                        /\ Alive(j)' <=> Alive(j)
    BY <1>0, <2>1, ReapFacts
  <2>3. s \in UsedSlots /\ i \in Jobs /\ i # NoFd /\ s \in Slots
    BY <1>0 DEF IInv, ReadNeverBlocks, UsedSlots, TypeOK, ParentTypes
  <2>4. i \in OpenChildren
    BY <2>3 DEF IInv, SlotsMatchChildren
  <2>5. \A t \in revents : t \in UsedSlots /\ pfd[t] \in Jobs /\ (t # s => pfd[t] # i)
    BY <1>0, <2>3 DEF IInv, ReadNeverBlocks, SlotsMatchChildren, UsedSlots, TypeOK, ParentTypes
  <2> HIDE DEF i
  <2>6. \A j \in Jobs : j # i => pipe'[j] = pipe[j]
    BY <1>0 DEF ReadData, ReadEOF, TypeOK, OSTypes, i
  <2>7. \A t \in Slots : t # s => pfd'[t] = pfd[t]
    BY <1>0 DEF ReadData, ReadEOF, TypeOK, ParentTypes
  <2>8. ReadNeverBlocks'
    <3> SUFFICES ASSUME NEW t \in revents, t # s
                 PROVE  pfd'[t] # NoFd /\ (pipe'[pfd'[t]] # <<>> \/ wr[pfd'[t]] = {})
      BY <2>1 DEF ReadNeverBlocks
    <3>1. t \in Slots /\ pfd'[t] = pfd[t] /\ pfd[t] \in Jobs /\ pfd[t] # i
      BY <1>0, <2>5, <2>7 DEF TypeOK, ParentTypes
    <3>2. QED
      BY <3>1, <2>6 DEF IInv, ReadNeverBlocks
  <2>9. WriterInv'
    BY <2>1, <2>2 DEF IInv, WriterInv
  <2>10. CASE ReadData(s)
    <3>1. UNCHANGED <<eof, active, pfd>>
      BY <2>10 DEF ReadData
    <3>2. UsedSlots' = UsedSlots /\ OpenChildren' = OpenChildren
      BY <2>2, <3>1 DEF UsedSlots, OpenChildren
    <3>3. SlotsMatchChildren'
      BY <3>1, <3>2 DEF IInv, SlotsMatchChildren
    <3>4. EofMeansEnded'
      BY <2>2, <2>4, <2>6, <3>1 DEF IInv, EofMeansEnded, OpenChildren
    <3>5. ControlInv'
      BY <1>0, <1>t, <1>3, <2>1, <2>2, <3>1 DEF ControlInv, ReadSlot, ReadLoops
    <3>6. QED
      BY <1>0, <2>8, <2>9, <3>3, <3>4, <3>5 DEF IInv
  <2>11. CASE ReadEOF(s)
    <3>1. /\ eof' = [eof EXCEPT ![i] = TRUE] /\ active' = active - 1
          /\ pfd' = [pfd EXCEPT ![s] = NoFd] /\ pipe' = pipe
          /\ pipe[i] = <<>> /\ wr[i] = {}
      BY <2>11 DEF ReadEOF, i
    <3>2. Gone(i)
      BY <1>0, <2>3, <2>4, <3>1 DEF IInv, WriterInv, OpenChildren, Alive, Running, Gone,
                             TypeOK, ChildTypes, ChildPCs
    <3>3. \A j \in Jobs : eof'[j] <=> (j = i \/ eof[j])
      BY <1>0, <2>3, <3>1 DEF TypeOK, FlagTypes
    <3>4. EofMeansEnded'
      BY <2>2, <3>1, <3>2, <3>3 DEF IInv, EofMeansEnded
    <3>5. UsedSlots' = UsedSlots \ {s}
      BY <1>0, <2>3, <3>1 DEF UsedSlots, TypeOK, ParentTypes
    <3>6. OpenChildren' = OpenChildren \ {i}
      BY <2>2, <3>3 DEF OpenChildren
    <3>7. active' = Cardinality(UsedSlots')
      BY <1>0, <2>3, <3>1, <3>5, UsedSlotsCount, FS_RemoveElement DEF IInv, SlotsMatchChildren
    <3>8. \A a \in UsedSlots' : a \in UsedSlots /\ pfd'[a] = pfd[a] /\ pfd[a] # i
      BY <2>3, <2>7, <3>5 DEF IInv, SlotsMatchChildren, UsedSlots, i
    <3>9. \A a, b \in UsedSlots' : pfd'[a] = pfd'[b] => a = b
      BY <3>8 DEF IInv, SlotsMatchChildren
    <3>10. {pfd'[a] : a \in UsedSlots'} = OpenChildren'
      BY <3>5, <3>6, <3>8 DEF IInv, SlotsMatchChildren, i
    <3>11. SlotsMatchChildren'
      BY <3>7, <3>9, <3>10 DEF SlotsMatchChildren
    <3>12. ControlInv'
      <4>1. \A j \in Jobs : cpc'[j] = "none" => ~eof'[j]
        BY <2>2, <2>4, <3>3, <1>0 DEF ControlInv, OpenChildren
      <4>2. active' < active
        BY <1>t, <3>1
      <4>3. QED
        BY <1>0, <1>t, <1>3, <2>1, <2>2, <3>1, <4>1 DEF ControlInv, ReadSlot, ReadLoops
    <3>13. QED
      BY <1>0, <2>8, <2>9, <3>4, <3>11, <3>12 DEF IInv
  <2>12. QED
    BY <2>10, <2>11
<1>9. QED
  BY <1>1, <1>2, <1>3, <1>4, <1>5, <1>6, <1>7, <1>8 DEF ParentNext

\* Every step of a child preserves the inductive invariant.
LEMMA ChildIInv == ASSUME NEW i \in Jobs PROVE IInv /\ ChildNext(i) => IInv'
<1> SUFFICES ASSUME IInv, ChildNext(i) PROVE IInv'
  OBVIOUS
<1> USE ParallelAssumption
<1>0. TypeOK /\ TypeOK' /\ ControlInv
  BY ChildType DEF IInv
<1>1. /\ UNCHANGED <<pc, hist, children, active, pfd, revents, eof>>
      /\ Alive(i)
      /\ \E x \in ChildPCs \ {"none"} : cpc' = [cpc EXCEPT ![i] = x]
  <2>1. CASE WriteChunk(i)
    <3>1. cpc' = cpc /\ cpc[i] = "write"
      BY <2>1 DEF WriteChunk
    <3>2. cpc' = [cpc EXCEPT ![i] = "write"]
      BY <1>0, <3>1 DEF TypeOK, ChildTypes
    <3>3. QED
      BY <2>1, <3>1, <3>2 DEF WriteChunk, Alive, ChildPCs, parentVars
  <2>2. CASE ~WriteChunk(i)
    BY <2>2 DEF ChildNext, VerifyDone, IgnoreAlarm, Alarm, AlarmArmed, FinishChild,
                BrokenPipe, ExitChild, ChildCrash, ChildEnds, FinalizeInChild, Alive,
                Running, ChildPCs, parentVars
  <2>3. QED
    BY <2>1, <2>2
<1>2. \A j \in Jobs : /\ cpc'[j] = "none" <=> cpc[j] = "none"
                      /\ j # i => cpc'[j] = cpc[j]
  BY <1>0, <1>1 DEF TypeOK, ChildTypes, Alive, Running
<1>3. \A j \in Jobs : Gone(j) => Gone(j)' /\ j # i
  BY <1>1, <1>2 DEF Gone, Alive, Running
<1>4. \/ pipe' = pipe /\ wr' = wr /\ (Alive(i)' => Alive(i))
      \/ pipe' = pipe /\ ~Alive(i)' /\ wr' = [j \in Jobs |-> wr[j] \ {i}]
      \/ pipe' = [pipe EXCEPT ![i] = Append(@, Head(left[i]))] /\ wr' = wr /\ left[i] # <<>>
  <2>1. CASE WriteChunk(i)
    BY <2>1 DEF WriteChunk
  <2>2. CASE VerifyDone(i) \/ IgnoreAlarm(i) \/ Alarm(i) \/ FinishChild(i)
    BY <1>1, <2>2 DEF VerifyDone, IgnoreAlarm, Alarm, FinishChild, osVars
  <2>3. CASE BrokenPipe(i) \/ ExitChild(i) \/ ChildCrash(i) \/ FinalizeInChild(i)
    <3>1. CloseAll(i) /\ pipe' = pipe /\ cpc' = [cpc EXCEPT ![i] = "zombie"]
      BY <2>3 DEF BrokenPipe, ExitChild, ChildCrash, ChildEnds, FinalizeInChild
    <3>2. ~Alive(i)'
      BY <1>0, <3>1 DEF TypeOK, ChildTypes, Alive, Running
    <3>3. QED
      BY <3>1, <3>2 DEF CloseAll
  <2>4. QED
    BY <2>1, <2>2, <2>3 DEF ChildNext
<1>5. \A j \in Jobs : /\ wr'[j] \in SUBSET wr[j]
                      /\ pipe[j] # <<>> => pipe'[j] # <<>>
                      /\ j # i => pipe'[j] = pipe[j]
  <2>1. CASE pipe' = pipe
    BY <1>4, <2>1
  <2>2. CASE pipe' = [pipe EXCEPT ![i] = Append(@, Head(left[i]))] /\ wr' = wr /\ left[i] # <<>>
    <3>1. pipe[i] \in Seq(Chunks) /\ Head(left[i]) \in Chunks
      BY <1>0, <2>2, HeadTailProperties DEF TypeOK, OSTypes, ChildTypes
    <3>2. Append(pipe[i], Head(left[i])) # <<>>
      BY <3>1, AppendIsSeq
    <3>3. QED
      BY <1>0, <2>2, <3>2 DEF TypeOK, OSTypes
  <2>3. QED
    BY <1>4, <2>1, <2>2
<1>6. ControlInv'
  <2>1. pc = "fork" => children - 1 \in Jobs
    BY <1>0 DEF ControlInv, TypeOK, ParentTypes, Jobs
  <2>2. QED
    BY <1>0, <1>1, <1>2, <2>1 DEF ControlInv
<1>7. SlotsMatchChildren'
  <2>1. UsedSlots' = UsedSlots /\ OpenChildren' = OpenChildren
    BY <1>1, <1>2 DEF UsedSlots, OpenChildren
  <2>2. QED
    BY <1>1, <2>1 DEF IInv, SlotsMatchChildren
<1>8. ReadNeverBlocks'
  <2> SUFFICES ASSUME NEW s \in revents
               PROVE  pfd[s] # NoFd /\ (pipe'[pfd[s]] # <<>> \/ wr'[pfd[s]] = {})
    BY <1>1 DEF ReadNeverBlocks
  <2>1. pfd[s] # NoFd /\ (pipe[pfd[s]] # <<>> \/ wr[pfd[s]] = {})
    BY DEF IInv, ReadNeverBlocks
  <2>2. pfd[s] \in Jobs
    BY <1>0, <2>1 DEF TypeOK, ParentTypes
  <2>3. QED
    BY <2>1, <2>2, <1>5
<1>9. WriterInv'
  <2> SUFFICES ASSUME NEW j \in Jobs, Alive(j)' PROVE j \in wr'[j]
    BY DEF WriterInv
  <2>1. Alive(j)
    BY <1>1, <1>2 DEF Alive, Running
  <2>2. j \in wr[j]
    BY <2>1 DEF IInv, WriterInv
  <2>3. QED
    BY <1>4, <2>2
<1>10. EofMeansEnded'
  BY <1>1, <1>3, <1>5 DEF IInv, EofMeansEnded
<1>11. QED
  BY <1>0, <1>6, <1>7, <1>8, <1>9, <1>10 DEF IInv

\* The inductive invariant is preserved by every step and by stuttering.
LEMMA NextIInv == IInv /\ [Next]_vars => IInv'
<1> SUFFICES ASSUME IInv, [Next]_vars PROVE IInv'
  OBVIOUS
<1>1. CASE ParentNext
  BY <1>1, ParentIInv
<1>2. CASE \E i \in Jobs : ChildNext(i)
  BY <1>2, ChildIInv
<1>3. CASE Refill
  <2>1. TypeOK'
    BY <1>3, RefillType
  <2>2. ControlInv'
    BY <1>3 DEF IInv, Refill, ControlInv, parentVars
  <2>3. QED
    BY <1>3, <2>1, <2>2, Frame DEF Refill, parentVars, IInv
<1>4. CASE UNCHANGED vars
  <2>1. TypeOK'
    BY <1>4 DEF IInv, vars, parentVars, osVars, childVars, TypeOK, ParentTypes, FlagTypes,
                OSTypes, ChildTypes
  <2>2. ControlInv'
    BY <1>4 DEF IInv, vars, parentVars, childVars, ControlInv
  <2>3. QED
    BY <1>4, <2>1, <2>2, Frame DEF vars, parentVars, osVars, childVars, IInv
<1>5. QED
  BY <1>1, <1>2, <1>3, <1>4 DEF Next

\* The inductive invariant holds in every reachable state.
LEMMA Invariance == Spec => []IInv
BY InitIInv, NextIInv, PTL DEF Spec

-----------------------------------------------------------------------------
(* Results *)

\* All variables of the parallel manager, the pipes and the children keep
\* their types; active_children stays between 0 and max_active_children.
THEOREM TypeCorrect == Spec => []TypeOK
<1>1. IInv => TypeOK
  BY DEF IInv
<1>2. QED
  BY <1>1, Invariance, PTL

\* The poll table, active_children and the open children agree for any number
\* of children, any max_active_children and any crashes.
THEOREM SlotsCorrect == Spec => []SlotsMatchChildren
<1>1. IInv => SlotsMatchChildren
  BY DEF IInv
<1>2. QED
  BY <1>1, Invariance, PTL

\* assert(found) in limitedFork cannot fail.
THEOREM ForkAlwaysFindsSlot == Spec => []ForkFindsSlot
<1>1. IInv => ForkFindsSlot
  BY UsedSlotsCount DEF IInv, ControlInv, SlotsMatchChildren, ForkFindsSlot
<1>2. QED
  BY <1>1, Invariance, PTL

\* read() in readFromChildren never blocks and never sees a closed descriptor.
THEOREM ReadsNeverBlock == Spec => []ReadNeverBlocks
<1>1. IInv => ReadNeverBlocks
  BY DEF IInv
<1>2. QED
  BY <1>1, Invariance, PTL

\* EOF is seen only after the child has ended and its pipe has been drained.
THEOREM EofOnlyAfterEnd == Spec => []EofMeansEnded
<1>1. IInv => EofMeansEnded
  BY DEF IInv
<1>2. QED
  BY <1>1, Invariance, PTL

-----------------------------------------------------------------------------
(* Tokens *)

\* The children that hold a token are exactly the ones that verify: each got
\* one at its fork, and returns it before it writes its report.
HoldInv == holds = {i \in Jobs : Running(i)}

\* Tokens a child that verifies is counted for, and its number.
LEMMA HoldsCount ==
  ASSUME TypeOK, NEW i \in Jobs
  PROVE  /\ IsFiniteSet(holds) /\ Cardinality(holds) \in Nat
         /\ i \notin holds => Cardinality(holds \cup {i}) = Cardinality(holds) + 1
         /\ i \in holds => Cardinality(holds \ {i}) = Cardinality(holds) - 1
         /\ i \notin holds => Cardinality({i} \cap holds) = 0 /\ holds \ {i} = holds
         /\ i \in holds => Cardinality({i} \cap holds) = 1
<1> USE ParallelAssumption
<1>1. IsFiniteSet(Jobs)
  BY FS_Interval DEF Jobs
<1>2. IsFiniteSet(holds) /\ Cardinality(holds) \in Nat
  BY <1>1, FS_Subset, FS_CardinalityType DEF TypeOK, ChildTypes
<1>3. i \notin holds => {i} \cap holds = {} /\ holds \ {i} = holds
  OBVIOUS
<1>4. i \in holds => {i} \cap holds = {i}
  OBVIOUS
<1>5. Cardinality({}) = 0 /\ Cardinality({i}) = 1
  BY FS_EmptySet, FS_Singleton
<1>6. QED
  BY <1>2, <1>3, <1>4, <1>5, FS_AddElement, FS_RemoveElement

\* Steps of the parent.
LEMMA ParentTokens ==
  ASSUME IInv, HoldInv, TokenConservation, ParentNext
  PROVE  HoldInv' /\ TokenConservation'
<1> USE ParallelAssumption
<1>0. TypeOK /\ ControlInv
  BY DEF IInv
<1>1. /\ tokens \in Nat /\ leaked \in Nat /\ minted \in Nat /\ children \in Nat
      /\ cpc \in [Jobs -> ChildPCs] /\ holds \in SUBSET Jobs
  BY <1>0 DEF TypeOK, OSTypes, ChildTypes, ParentTypes
<1>2. IsFiniteSet(holds) /\ Cardinality(holds) \in Nat
  <2>1. IsFiniteSet(Jobs)
    BY FS_Interval DEF Jobs
  <2>2. QED
    BY <1>1, <2>1, FS_Subset, FS_CardinalityType
<1>3. CASE ReadSlot \/ FinishWait \/ PrintLine \/ StartFork \/ Poll \/ DrainDone \/ ThrottleDone \/
           Prepare \/ FinishReading
  <2>1. UNCHANGED <<tokens, holds, leaked, minted>> /\ (reapZombies \/ UNCHANGED cpc)
    BY <1>3 DEF ReadSlot, FinishWait, PrintLine, StartFork, Poll, DrainDone, ThrottleDone,
                Prepare, FinishReading, osVars, childVars
  <2>2. HoldInv'
    BY <1>1, <2>1 DEF HoldInv, Running, reapZombies
  <2>3. /\ pc' \in {"prepare", "fork"} <=> pc \in {"prepare", "fork"}
        /\ pc' \in Lending <=> pc \in Lending
    BY <1>3 DEF ReadSlot, FinishWait, PrintLine, StartFork, Poll, DrainDone, ThrottleDone,
                Prepare, FinishReading, ReadLoops, Lending
  <2>4. QED
    BY <2>1, <2>2, <2>3 DEF TokenConservation
<1>4. CASE GetToken \/ StartFinish \/ FinishParent
  <2>1. UNCHANGED <<cpc, holds, leaked, minted>>
    BY <1>4 DEF GetToken, StartFinish, FinishParent, childVars
  <2>2. HoldInv'
    BY <2>1 DEF HoldInv, Running
  <2>3. TokenConservation'
    BY <1>1, <1>2, <1>4, <2>1 DEF TokenConservation, GetToken, StartFinish, FinishParent, TakeToken,
                                  PutToken, Lending
  <2>4. QED
    BY <2>2, <2>3
<1>5. CASE Fork
  <2>1. /\ children - 1 \in Jobs /\ cpc[children - 1] = "none" /\ pc = "fork" /\ pc' = "llvm"
        /\ holds' = holds \cup {children - 1} /\ UNCHANGED <<tokens, leaked, minted>>
        /\ cpc' = [cpc EXCEPT ![children - 1] = "run"]
    BY <1>0, <1>5 DEF Fork, ControlInv, TypeOK, ParentTypes, Jobs
  <2>2. HoldInv'
    BY <1>1, <2>1 DEF HoldInv, Running
  <2>3. children - 1 \notin holds
    BY <2>1 DEF HoldInv, Running
  <2>4. Cardinality(holds') = Cardinality(holds) + 1
    BY <1>0, <2>1, <2>3, HoldsCount
  <2>5. TokenConservation'
    BY <1>1, <1>2, <2>1, <2>4 DEF TokenConservation, Lending
  <2>6. QED
    BY <2>2, <2>5
<1>6. CASE ForkFails \/ ParentCrash
  <2>1. ParentEnds
    BY <1>6 DEF ForkFails, ParentCrash
  <2>2. HoldInv'
    BY <2>1 DEF ParentEnds, HoldInv, Running
  <2>3. TokenConservation'
    BY <1>1, <1>2, <2>1 DEF ParentEnds, TokenConservation, Lending
  <2>4. QED
    BY <2>2, <2>3
<1>7. QED
  BY <1>3, <1>4, <1>5, <1>6 DEF ParentNext

\* Steps of a child.
LEMMA ChildTokens ==
  ASSUME IInv, HoldInv, TokenConservation, NEW i \in Jobs, ChildNext(i)
  PROVE  HoldInv' /\ TokenConservation'
<1> USE ParallelAssumption
<1>0. TypeOK
  BY DEF IInv
<1>1. /\ tokens \in Nat /\ leaked \in Nat /\ minted \in Nat
      /\ cpc \in [Jobs -> ChildPCs] /\ holds \in SUBSET Jobs
  BY <1>0 DEF TypeOK, OSTypes, ChildTypes
<1>2. Cardinality(holds) \in Nat
  BY <1>0, HoldsCount
<1>3. CASE VerifyDone(i) \/ IgnoreAlarm(i) \/ Alarm(i) \/ WriteChunk(i)
  <2>1. UNCHANGED <<pc, tokens, holds, leaked, minted>>
    BY <1>3 DEF VerifyDone, IgnoreAlarm, Alarm, WriteChunk, parentVars, osVars
  <2>2. \A j \in Jobs : Running(j)' <=> Running(j)
    BY <1>1, <1>3 DEF VerifyDone, IgnoreAlarm, Alarm, AlarmArmed, WriteChunk, Running
  <2>3. QED
    BY <2>1, <2>2 DEF HoldInv, TokenConservation
<1>4. CASE FinishChild(i) \/ FinalizeInChild(i)
  <2>1. /\ UNCHANGED <<pc, leaked, minted>> /\ holds' = holds \ {i} /\ PutToken
        /\ cpc' \in {[cpc EXCEPT ![i] = "write"], [cpc EXCEPT ![i] = "zombie"]} /\ Running(i)
    BY <1>4 DEF FinishChild, FinalizeInChild, parentVars, Running
  <2>2. HoldInv'
    BY <1>1, <2>1 DEF HoldInv, Running
  <2>3. Cardinality(holds') = Cardinality(holds) - 1
    BY <1>0, <2>1, HoldsCount DEF HoldInv
  <2>4. TokenConservation'
    BY <1>1, <1>2, <2>1, <2>3 DEF TokenConservation, PutToken
  <2>5. QED
    BY <2>2, <2>4
<1>5. CASE BrokenPipe(i) \/ ExitChild(i) \/ ChildCrash(i)
  <2>1. /\ UNCHANGED <<pc, tokens, minted>> /\ holds' = holds \ {i}
        /\ leaked' = leaked + Cardinality({i} \cap holds) /\ cpc' = [cpc EXCEPT ![i] = "zombie"]
    BY <1>5 DEF BrokenPipe, ExitChild, ChildCrash, ChildEnds
  <2>2. HoldInv'
    BY <1>1, <2>1 DEF HoldInv, Running
  <2>3. CASE i \in holds
    <3>1. Cardinality(holds') = Cardinality(holds) - 1 /\ leaked' = leaked + 1
      BY <1>0, <2>1, <2>3, HoldsCount
    <3>2. QED
      BY <1>1, <1>2, <2>1, <2>2, <3>1 DEF TokenConservation
  <2>4. CASE i \notin holds
    <3>0. holds \ {i} = holds /\ Cardinality({i} \cap holds) = 0
      BY <1>0, <2>4, HoldsCount
    <3>1. holds' = holds /\ leaked' = leaked
      BY <1>1, <2>1, <3>0
    <3>2. QED
      BY <2>1, <2>2, <3>1 DEF TokenConservation
  <2>5. QED
    BY <2>3, <2>4
<1>6. QED
  BY <1>3, <1>4, <1>5 DEF ChildNext

\* Every child returns its token exactly once on every way out but a kill, and
\* the parent takes back the one it lends, with any number of children.
THEOREM TokensConserved == Spec => []TokenConservation
<1> USE ParallelAssumption
<1>1. Init => HoldInv /\ TokenConservation
  <2> SUFFICES ASSUME Init PROVE HoldInv /\ TokenConservation
    OBVIOUS
  <2>1. HoldInv
    BY DEF Init, HoldInv, Running
  <2>2. Cardinality(holds) = 0
    BY FS_EmptySet DEF Init
  <2>3. QED
    BY <2>1, <2>2 DEF Init, TokenConservation, Lending
<1>2. IInv /\ HoldInv /\ TokenConservation /\ [Next]_vars => HoldInv' /\ TokenConservation'
  <2> SUFFICES ASSUME IInv, HoldInv, TokenConservation, [Next]_vars
               PROVE  HoldInv' /\ TokenConservation'
    OBVIOUS
  <2>1. CASE Refill
    <3>1. Cardinality({j \in Jobs : Running(j)}) \in Nat
      <4>1. IsFiniteSet(Jobs)
        BY FS_Interval DEF Jobs
      <4>2. QED
        BY <4>1, FS_Subset, FS_CardinalityType
    <3>2. Runnable \in Nat /\ tokens \in Nat /\ minted \in Nat /\ leaked \in Nat
      BY <3>1 DEF Runnable, IInv, TypeOK, OSTypes, ChildTypes
    <3>3. UNCHANGED <<pc, cpc, holds, leaked>>
      BY <2>1 DEF Refill, parentVars
    <3>4. HoldInv'
      BY <3>3 DEF HoldInv, Running
    <3>5. Cardinality(holds) \in Nat
      BY <3>1 DEF HoldInv
    <3>6. TokenConservation'
      BY <2>1, <3>2, <3>3, <3>5 DEF TokenConservation, Refill
    <3>7. QED
      BY <3>4, <3>6
  <2>2. CASE UNCHANGED vars
    BY <2>2 DEF vars, parentVars, osVars, childVars, HoldInv, Running, TokenConservation
  <2>3. QED
    BY <2>1, <2>2, ParentTokens, ChildTokens DEF Next
<1>3. QED
  BY <1>1, <1>2, Invariance, PTL DEF Spec
=============================================================================
