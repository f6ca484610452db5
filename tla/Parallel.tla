------------------------------ MODULE Parallel ------------------------------
(***************************************************************************)
(* The parallel mode of the Clang plugin: util/parallel.cpp with its fifo  *)
(* and unrestricted token managers, and the part of tv/tv.cpp that uses    *)
(* them.                                                                   *)
(*                                                                         *)
(* One compiler process (the parent) runs LLVM passes. For each refinement *)
(* check it forks a child, writes the placeholder include(index) into the  *)
(* stringstream parent_ss and goes on compiling. A child verifies, returns *)
(* its job token, writes its report to the parent through a pipe of        *)
(* bounded capacity and exits. The parent drains the pipes at each fork    *)
(* and at the end, and replaces the placeholders by the reports.           *)
(*                                                                         *)
(* An atomic step is what happens between two points at which another      *)
(* process can be noticed: a poll, a read, a write, a token read, a fork.  *)
(* A report is a sequence of chunks; a chunk <<i, k>> names its job.       *)
(***************************************************************************)
EXTENDS Integers, Sequences, FiniteSets

CONSTANTS
  MaxItems,    \* bound: lines and refinement checks the compiler produces
  MaxActive,   \* max_active_children (-max-subprocesses)
  EmitEvery,   \* limitedFork emits output for one index in EmitEvery (100)
  PipeCap,     \* capacity of a pipe, in chunks
  MaxRead,     \* chunks one read() can return (maxRead)
  MaxReport,   \* bound: chunks of a child's report
  MaxCrashes,  \* bound: processes that are killed or abort
  NProcs,      \* tokens the job server puts into the FIFO
  Fifo,        \* TRUE: -tv-parallel=fifo, FALSE: -tv-parallel=unrestricted
  ErrorFatal   \* -tv-exit-on-error

ASSUME ParallelAssumption ==
  /\ MaxItems \in Nat /\ MaxReport \in Nat /\ MaxCrashes \in Nat
  /\ NProcs \in Nat
  /\ MaxActive \in Nat \ {0} /\ EmitEvery \in Nat \ {0}
  /\ PipeCap \in Nat \ {0} /\ MaxRead \in Nat \ {0}
  /\ Fifo \in BOOLEAN /\ ErrorFatal \in BOOLEAN

VARIABLES
  \* the parent process
  pc,          \* where the parent is
  hist,        \* history: the items in the order the compiler produced them
  parent_ss,   \* text and placeholders not yet emitted
  ssFail,      \* the failbit of parent_ss: while set, writes to it are dropped
  children,    \* children.size()
  active,      \* active_children
  pfd,         \* slot -> index of the child polled there, or NoFd
  revents,     \* slots the last poll reported and that are not yet read
  eof,         \* children[i].eof
  output,      \* children[i].output in the parent
  buf,         \* entries in the buffer of out_file
  file,        \* entries in the report file
  \* the operating system
  pipe,        \* chunks in flight in the pipe of a child
  wr,          \* processes that hold the write end of a pipe
  rd,          \* processes that hold the read end of a pipe
  tokens,      \* bytes in the job server's FIFO
  \* the child processes
  cpc,         \* where a child is
  report,      \* the text a child has to send (me.output, or the timeout text)
  left,        \* what of it is still to be written
  inherited,   \* contents of the buffer of out_file a child got at fork()
  holds,       \* children that took a token and have not returned it
  leaked,      \* history: tokens that died with their holder
  minted,      \* history: tokens added by the job server or left by a parent
  crashes      \* bound: crashes so far

parentVars == <<pc, hist, parent_ss, ssFail, children, active, pfd, revents,
                eof, output, buf, file>>
osVars     == <<pipe, wr, rd, tokens>>
childVars  == <<cpc, report, left, inherited, holds, leaked, minted, crashes>>
vars       == <<parentVars, osVars, childVars>>

Parent == -1                    \* the parent among the processes
NoFd   == -1                    \* pfd[i].fd == -1
Jobs   == 0..MaxItems - 1       \* indices into children
Slots  == 1..MaxActive
Procs  == Jobs \cup {Parent}
Chunks == Jobs \X (0..MaxReport)

Items       == [kind : {"line"}, n : 1..MaxItems] \cup [kind : {"include"}, n : Jobs]
Entries     == [item : Items, text : Seq(Chunks)]
Line(n)     == [kind |-> "line", n |-> n]
Include(i)  == [kind |-> "include", n |-> i]

ReadLoops   == {"drain", "throttle", "finish"}
ParentPCs   == ReadLoops \cup {"llvm", "token", "prepare", "fork", "wait",
                              "untoken", "done", "dead", "abort"}
\* finishParent has put the token the compiler itself runs on
Lending     == {"finish", "wait", "untoken", "abort"}
ChildPCs    == {"none", "run", "shown", "ignored", "alarm", "write", "zombie", "reaped"}

TimeoutText(i)   == << <<i, 0>> >>
ReportText(i, n) == [k \in 1..n |-> <<i, k>>]

Gone(i)    == cpc[i] \in {"zombie", "reaped"}
Running(i) == cpc[i] \in {"run", "shown", "ignored", "alarm"}
Alive(i)   == Running(i) \/ cpc[i] = "write"

-----------------------------------------------------------------------------
\* parallel::init, childProcess and the members of class parallel
Init ==
  /\ pc = "llvm"
  /\ hist = <<>> /\ parent_ss = <<>> /\ ssFail = FALSE
  /\ children = 0 /\ active = 0
  /\ pfd = [s \in Slots |-> NoFd]
  /\ revents = {}
  /\ eof = [i \in Jobs |-> FALSE]
  /\ output = [i \in Jobs |-> <<>>]
  /\ buf = <<>> /\ file = <<>>
  /\ pipe = [i \in Jobs |-> <<>>]
  /\ wr = [i \in Jobs |-> {}] /\ rd = [i \in Jobs |-> {}]
  /\ tokens = NProcs
  /\ cpc = [i \in Jobs |-> "none"]
  /\ report = [i \in Jobs |-> <<>>] /\ left = [i \in Jobs |-> <<>>]
  /\ inherited = [i \in Jobs |-> <<>>]
  /\ holds = {} /\ leaked = 0 /\ minted = 0 /\ crashes = 0

\* Mutant: the zombies are not collected.
reapZombies_Never == UNCHANGED cpc

\* reapZombies: collect every child that has exited, without blocking
reapZombies == cpc' = [i \in Jobs |-> IF cpc[i] = "zombie" THEN "reaped" ELSE cpc[i]]

\* A process ends: the kernel closes its descriptors.
CloseAll(p) ==
  /\ wr' = [i \in Jobs |-> wr[i] \ {p}]
  /\ rd' = [i \in Jobs |-> rd[i] \ {p}]

-----------------------------------------------------------------------------
(* The parent. *)

\* *out << line: while parallelMgr is set, out is parent_ss.
WriteSS(item) == parent_ss' = IF ssFail THEN parent_ss ELSE Append(parent_ss, item)

\* The compiler prints something that needs no solver (a syntactically equal
\* pair, a repeated query).
PrintLine ==
  /\ pc = "llvm" /\ Len(hist) < MaxItems
  /\ LET item == Line(Len(hist) + 1)
     IN  hist' = Append(hist, item) /\ WriteSS(item)
  /\ UNCHANGED <<pc, ssFail, children, active, pfd, revents, eof, output, buf,
                 file, osVars, childVars>>

\* verify() calls limitedFork(), which first drains without blocking.
StartFork ==
  /\ pc = "llvm" /\ Len(hist) < MaxItems
  /\ hist' = Append(hist, Include(children))
  /\ pc' = "drain"
  /\ UNCHANGED <<parent_ss, ssFail, children, active, pfd, revents, eof, output,
                 buf, file, osVars, childVars>>

\* A slot poll() reports: data in the pipe, or no writer left.
Ready(s) ==
  pfd[s] # NoFd /\ (pipe[pfd[s]] # <<>> \/ wr[pfd[s]] = {})

\* Mutant: the test of revents is missing, every polled slot is read.
Poll_AllSlots ==
  /\ pc \in ReadLoops /\ revents = {}
  /\ active > 0
  /\ pc = "throttle" => active >= MaxActive
  /\ \E s \in Slots : Ready(s)
  /\ revents' = {s \in Slots : pfd[s] # NoFd}
  /\ UNCHANGED <<pc, hist, parent_ss, ssFail, children, active, pfd, eof, output,
                 buf, file, osVars, childVars>>

\* readFromChildren up to poll(): revents is filled in for every slot.
Poll ==
  /\ pc \in ReadLoops /\ revents = {}
  /\ active > 0
  /\ pc = "throttle" => active >= MaxActive
  /\ \E s \in Slots : Ready(s)
  /\ revents' = {s \in Slots : Ready(s)}
  /\ UNCHANGED <<pc, hist, parent_ss, ssFail, children, active, pfd, eof, output,
                 buf, file, osVars, childVars>>

\* Mutant: a read that empties the pipe is taken for the end of the child.
ReadData_EofWhenEmptied(s) ==
  LET i == pfd[s]
      n == IF Len(pipe[i]) < MaxRead THEN Len(pipe[i]) ELSE MaxRead
  IN  /\ pipe[i] # <<>>
      /\ output' = [output EXCEPT ![i] = @ \o SubSeq(pipe[i], 1, n)]
      /\ pipe' = [pipe EXCEPT ![i] = SubSeq(@, n + 1, Len(@))]
      /\ eof' = [eof EXCEPT ![i] = n = Len(pipe[i])]
      /\ UNCHANGED <<active, pfd, rd>>

\* Data: c.output.write(data, size)
ReadData(s) ==
  LET i == pfd[s]
      n == IF Len(pipe[i]) < MaxRead THEN Len(pipe[i]) ELSE MaxRead
  IN  /\ pipe[i] # <<>>
      /\ output' = [output EXCEPT ![i] = @ \o SubSeq(pipe[i], 1, n)]
      /\ pipe' = [pipe EXCEPT ![i] = SubSeq(@, n + 1, Len(@))]
      /\ UNCHANGED <<eof, active, pfd, rd>>

\* Mutant: pfd[i].fd = -1 is missing, the slot stays in use.
ReadEOF_KeepsSlot(s) ==
  LET i == pfd[s]
  IN  /\ pipe[i] = <<>> /\ wr[i] = {}
      /\ eof' = [eof EXCEPT ![i] = TRUE]
      /\ active' = active - 1
      /\ rd' = [rd EXCEPT ![i] = @ \ {Parent}]
      /\ UNCHANGED <<output, pipe, pfd>>

\* size == 0: the child has closed its end
ReadEOF(s) ==
  LET i == pfd[s]
  IN  /\ pipe[i] = <<>> /\ wr[i] = {}
      /\ eof' = [eof EXCEPT ![i] = TRUE]
      /\ active' = active - 1
      /\ pfd' = [pfd EXCEPT ![s] = NoFd]
      /\ rd' = [rd EXCEPT ![i] = @ \ {Parent}]
      /\ UNCHANGED <<output, pipe>>

\* The loop of readFromChildren over the slots, in order; after the last one
\* the caller reaps zombies.
ReadSlot ==
  /\ pc \in ReadLoops
  /\ \E s \in revents :
       /\ \A t \in revents : s <= t
       /\ revents' = revents \ {s}
       /\ ReadData(s) \/ ReadEOF(s)
  /\ IF revents' = {} THEN reapZombies ELSE UNCHANGED cpc
  /\ UNCHANGED <<pc, hist, parent_ss, ssFail, children, buf, file, wr, tokens,
                 report, left, inherited, holds, leaked, minted, crashes>>

\* readFromChildren(false) returned false: nothing to drain now
DrainDone ==
  /\ pc = "drain" /\ revents = {}
  /\ active = 0 \/ ~\E s \in Slots : Ready(s)
  /\ pc' = "throttle"
  /\ UNCHANGED <<hist, parent_ss, ssFail, children, active, pfd, revents, eof,
                 output, buf, file, osVars, childVars>>

\* Mutant: > instead of >= in the loop condition.
ThrottleDone_OffByOne ==
  /\ pc = "throttle" /\ revents = {}
  /\ active <= MaxActive
  /\ pc' = "token"
  /\ UNCHANGED <<hist, parent_ss, ssFail, children, active, pfd, revents, eof,
                 output, buf, file, osVars, childVars>>

\* Fewer than max_active_children are open: leave the blocking loop
ThrottleDone ==
  /\ pc = "throttle" /\ revents = {}
  /\ active < MaxActive
  /\ pc' = "token"
  /\ UNCHANGED <<hist, parent_ss, ssFail, children, active, pfd, revents, eof,
                 output, buf, file, osVars, childVars>>

\* Mutant: an empty FIFO is taken for a token.
TakeToken_NoWait == tokens' = IF Fifo THEN tokens - 1 ELSE tokens

\* getToken of the manager: a blocking one-byte read from the FIFO, or nothing
TakeToken == IF Fifo THEN tokens > 0 /\ tokens' = tokens - 1 ELSE UNCHANGED tokens

\* putToken of the manager
PutToken == tokens' = IF Fifo THEN tokens + 1 ELSE tokens

GetToken ==
  /\ pc = "token"
  /\ TakeToken
  /\ pc' = "prepare"
  /\ UNCHANGED <<hist, parent_ss, ssFail, children, active, pfd, revents, eof,
                 output, buf, file, pipe, wr, rd, childVars>>

\* emitOutput: an item can be emitted if it is text or its child is at EOF.
CanEmit(item) == item.kind = "include" => eof[item.n]

\* emitOutput stops after m items: at the first placeholder whose child is
\* still open (which is put back) or at the end of parent_ss.
EmitStopsAfter(m) ==
  /\ \A k \in 1..m : CanEmit(parent_ss[k])
  /\ m < Len(parent_ss) => ~CanEmit(parent_ss[m + 1])

EntryOf(item) ==
  [item |-> item, text |-> IF item.kind = "include" THEN output[item.n] ELSE <<>>]

Emitted(m) == [k \in 1..m |-> EntryOf(parent_ss[k])]

\* Mutant: the line read one too far is not put back.
EmitOutput_DropsLine(m) ==
  /\ EmitStopsAfter(m)
  /\ buf' = buf \o [k \in 1..m |-> EntryOf(parent_ss[k])]
  /\ output' = [i \in Jobs |->
        IF \E k \in 1..m : parent_ss[k] = Include(i) THEN <<>> ELSE output[i]]
  /\ parent_ss' = SubSeq(parent_ss, m + 2, Len(parent_ss))
  /\ ssFail' = FALSE

\* emitOutput: move items to the buffer of out_file, free the text of the
\* children they name, and clear() the failbit that reaching the end has set.
EmitOutput(m) ==
  /\ EmitStopsAfter(m)
  /\ buf' = buf \o [k \in 1..m |-> EntryOf(parent_ss[k])]
  /\ output' = [i \in Jobs |->
        IF \E k \in 1..m : parent_ss[k] = Include(i) THEN <<>> ELSE output[i]]
  /\ parent_ss' = SubSeq(parent_ss, m + 1, Len(parent_ss))
  /\ ssFail' = FALSE

\* limitedFork makes room for the child and emits output now and then.
Prepare ==
  /\ pc = "prepare"
  /\ children' = children + 1
  /\ IF children % EmitEvery = 0
     THEN \E m \in 0..Len(parent_ss) : EmitOutput(m)
     ELSE UNCHANGED <<buf, output, parent_ss, ssFail>>
  /\ pc' = "fork"
  /\ UNCHANGED <<hist, active, pfd, revents, eof, file, osVars, childVars>>

\* Mutant: flush() is missing, the child inherits the text.
FlushOut_Missing == UNCHANGED <<file, buf>>

\* out_file.flush(): the child must not inherit buffered text
FlushOut == file' = file \o buf /\ buf' = <<>>

\* Read ends the new child i still holds once it has closed those of all
\* children that are not at EOF (its own included).
KeptReadEnds(i) ==
  {j \in Jobs : j = i \/ Parent \in rd[j]} \ {j \in 0..children - 1 : ~eof[j]}

\* The write ends the parent has open after it closed newKid.pipe[1].
KeptWriteEnds(i) == {j \in Jobs : Parent \in wr[j]} \ {i}

\* The first free slot gets the new pipe; assert(found) demands there is one.
FreeSlot(s) == pfd[s] = NoFd /\ \A t \in Slots : t < s => pfd[t] # NoFd

\* pipe() and fork() succeed; the parent leaves the placeholder and returns to
\* LLVM, the child arms its alarm and verifies.
Fork ==
  LET i == children - 1
  IN  /\ pc = "fork"
      /\ FlushOut
      /\ rd' = [j \in Jobs |->
           (IF j = i THEN {Parent} ELSE rd[j])
             \cup (IF j \in KeptReadEnds(i) THEN {i} ELSE {})]
      /\ wr' = [j \in Jobs |->
           (IF j = i \/ j \in KeptWriteEnds(i) THEN {i} ELSE {})
             \cup (IF j \in KeptWriteEnds(i) THEN {Parent} ELSE {})
             \cup (wr[j] \ {Parent})]
      /\ active' = active + 1
      /\ \E s \in Slots : FreeSlot(s) /\ pfd' = [pfd EXCEPT ![s] = i]
      /\ cpc' = [cpc EXCEPT ![i] = "run"]
      /\ inherited' = [inherited EXCEPT ![i] = buf']
      /\ holds' = holds \cup {i}
      /\ WriteSS(Include(i))
      /\ pc' = "llvm"
      /\ UNCHANGED <<hist, ssFail, children, revents, eof, output, pipe, tokens,
                     report, left, leaked, minted, crashes>>

\* The parent process ends without finishParent().
ParentEnds ==
  /\ pc' = "dead"
  /\ CloseAll(Parent)
  /\ leaked' = leaked + (IF pc \in {"prepare", "fork"} THEN 1 ELSE 0)
  /\ minted' = minted + (IF pc \in Lending THEN 1 ELSE 0)
  /\ UNCHANGED <<hist, parent_ss, ssFail, children, active, pfd, revents, eof,
                 output, pipe, tokens, cpc, report, left, inherited, holds>>

\* pipe() or fork() fails: limitedFork returns -1 and verify() calls exit(-1).
ForkFails ==
  /\ pc = "fork"
  /\ FlushOut
  /\ ParentEnds
  /\ UNCHANGED crashes

\* The compiler crashes or is killed.
ParentCrash ==
  /\ pc \notin {"done", "dead"} /\ crashes < MaxCrashes
  /\ crashes' = crashes + 1
  /\ ParentEnds
  /\ UNCHANGED <<file, buf>>

\* finalize() calls finishParent(): the fifo manager first gives up the token
\* the compiler runs on.
StartFinish ==
  /\ pc = "llvm"
  /\ PutToken
  /\ pc' = "finish"
  /\ UNCHANGED <<hist, parent_ss, ssFail, children, active, pfd, revents, eof,
                 output, buf, file, pipe, wr, rd, childVars>>

\* readFromChildren(true) returned false: every child is at EOF
FinishReading ==
  /\ pc = "finish" /\ revents = {} /\ active = 0
  /\ pc' = "wait"
  /\ UNCHANGED <<hist, parent_ss, ssFail, children, active, pfd, revents, eof,
                 output, buf, file, osVars, childVars>>

\* wait() until there is no child left, then ENSURE(emitOutput())
FinishWait ==
  /\ pc = "wait"
  /\ \A i \in Jobs : ~Alive(i)
  /\ reapZombies
  /\ \E m \in 0..Len(parent_ss) :
       /\ EmitOutput(m)
       /\ pc' = IF m = Len(parent_ss) THEN "untoken" ELSE "abort"
  /\ UNCHANGED <<hist, children, active, pfd, revents, eof, file, osVars,
                 report, left, inherited, holds, leaked, minted, crashes>>

\* The fifo manager takes a token back; the compiler ends and out_file is closed.
FinishParent ==
  /\ pc = "untoken"
  /\ TakeToken
  /\ FlushOut
  /\ pc' = "done"
  /\ UNCHANGED <<hist, parent_ss, ssFail, children, active, pfd, revents, eof,
                 output, pipe, wr, rd, childVars>>
-----------------------------------------------------------------------------
(* A child process. *)

\* The verifier is done; its report is in me.output, the alarm is still armed.
VerifyDone(i) ==
  /\ cpc[i] = "run"
  /\ \E n \in 0..MaxReport :
       /\ report' = [report EXCEPT ![i] = ReportText(i, n)]
       /\ left' = [left EXCEPT ![i] = ReportText(i, n)]
  /\ cpc' = [cpc EXCEPT ![i] = "shown"]
  /\ UNCHANGED <<parentVars, osVars, inherited, holds, leaked, minted, crashes>>

\* signal(SIGALRM, SIG_IGN)
IgnoreAlarm(i) ==
  /\ cpc[i] = "shown"
  /\ cpc' = [cpc EXCEPT ![i] = "ignored"]
  /\ UNCHANGED <<parentVars, osVars, report, left, inherited, holds, leaked,
                 minted, crashes>>

\* Mutant: signal(SIGALRM, SIG_IGN) is missing.
AlarmArmed_Always(i) == cpc[i] \in {"run", "shown", "ignored", "write"}

\* States in which SIGALRM runs sigalarm_handler
AlarmArmed(i) == cpc[i] \in {"run", "shown"}

\* sigalarm_handler enters finishChild(true)
Alarm(i) ==
  /\ AlarmArmed(i)
  /\ report' = [report EXCEPT ![i] = TimeoutText(i)]
  /\ left' = [left EXCEPT ![i] = TimeoutText(i)]
  /\ cpc' = [cpc EXCEPT ![i] = "alarm"]
  /\ UNCHANGED <<parentVars, osVars, inherited, holds, leaked, minted, crashes>>

\* Mutant: the token goes back only after all writes.
FinishChild_WriteFirst(i) ==
  /\ cpc[i] \in {"ignored", "alarm"}
  /\ \/ /\ left[i] # <<>> /\ rd[i] # {} /\ Len(pipe[i]) < PipeCap
        /\ pipe' = [pipe EXCEPT ![i] = Append(@, Head(left[i]))]
        /\ left' = [left EXCEPT ![i] = Tail(@)]
        /\ UNCHANGED <<tokens, holds, cpc>>
     \/ /\ left[i] = <<>>
        /\ PutToken
        /\ holds' = holds \ {i}
        /\ cpc' = [cpc EXCEPT ![i] = "write"]
        /\ UNCHANGED <<pipe, left>>
  /\ UNCHANGED <<parentVars, wr, rd, report, inherited, leaked, minted, crashes>>

\* finishChild: the token goes back before any write that may block
FinishChild(i) ==
  /\ cpc[i] \in {"ignored", "alarm"}
  /\ PutToken
  /\ holds' = holds \ {i}
  /\ cpc' = [cpc EXCEPT ![i] = "write"]
  /\ UNCHANGED <<parentVars, pipe, wr, rd, report, left, inherited, leaked,
                 minted, crashes>>

\* One write() of safe_write: whatever fits now
WriteChunk(i) ==
  /\ cpc[i] = "write" /\ left[i] # <<>>
  /\ rd[i] # {} /\ Len(pipe[i]) < PipeCap
  /\ pipe' = [pipe EXCEPT ![i] = Append(@, Head(left[i]))]
  /\ left' = [left EXCEPT ![i] = Tail(@)]
  /\ UNCHANGED <<parentVars, wr, rd, tokens, cpc, report, inherited, holds,
                 leaked, minted, crashes>>

\* The process is gone; what it had not written is lost, and so is its token.
ChildEnds(i) ==
  /\ cpc' = [cpc EXCEPT ![i] = "zombie"]
  /\ CloseAll(i)
  /\ holds' = holds \ {i}
  /\ leaked' = leaked + Cardinality({i} \cap holds)
  /\ UNCHANGED <<pc, hist, parent_ss, ssFail, children, active, pfd, revents,
                 eof, output, buf, pipe, report, left, inherited, minted>>

\* Nobody can read the pipe any more: SIGPIPE
BrokenPipe(i) ==
  /\ cpc[i] = "write" /\ left[i] # <<>> /\ rd[i] = {}
  /\ ChildEnds(i)
  /\ UNCHANGED <<file, tokens, crashes>>

\* exit(0), which flushes the inherited out_file, or after a timeout _Exit(0)
ExitChild(i) ==
  /\ cpc[i] = "write" /\ left[i] = <<>>
  /\ ChildEnds(i)
  /\ file' = IF report[i] = TimeoutText(i) THEN file ELSE file \o inherited[i]
  /\ UNCHANGED <<tokens, crashes>>

\* With -tv-exit-on-error verify() calls finalize() in the child as well:
\* finishParent() puts the token, then ensureParent() aborts the process.
FinalizeInChild(i) ==
  /\ cpc[i] = "run" /\ ErrorFatal
  /\ PutToken
  /\ cpc' = [cpc EXCEPT ![i] = "zombie"]
  /\ CloseAll(i)
  /\ holds' = holds \ {i}
  /\ UNCHANGED <<parentVars, pipe, report, left, inherited, leaked, minted, crashes>>

\* Out of memory, a solver crash, a kill
ChildCrash(i) ==
  /\ Alive(i) /\ crashes < MaxCrashes
  /\ crashes' = crashes + 1
  /\ ChildEnds(i)
  /\ UNCHANGED <<file, tokens>>
-----------------------------------------------------------------------------
(* The job server (in one step; module JobServer has its steps). *)

ParentBlocked ==
  \/ pc \in {"throttle", "finish"} /\ revents = {} /\ ~\E s \in Slots : Ready(s)
  \/ pc \in {"token", "untoken"} /\ tokens = 0
  \/ pc \in {"wait", "done", "dead", "abort"}

Runnable == Cardinality({i \in Jobs : Running(i)}) + (IF ParentBlocked THEN 0 ELSE 1)

\* refill_tokens: replace leaked tokens up to the desired level
Refill ==
  /\ Fifo
  /\ NProcs - Runnable > tokens
  /\ tokens' = NProcs - Runnable
  /\ minted' = minted + (NProcs - Runnable - tokens)
  /\ UNCHANGED <<parentVars, pipe, wr, rd, cpc, report, left, inherited, holds,
                 leaked, crashes>>

-----------------------------------------------------------------------------
ParentNext ==
  \/ PrintLine \/ StartFork \/ Poll \/ ReadSlot \/ DrainDone \/ ThrottleDone
  \/ GetToken \/ Prepare \/ Fork \/ ForkFails \/ ParentCrash
  \/ StartFinish \/ FinishReading \/ FinishWait \/ FinishParent

ChildNext(i) ==
  \/ VerifyDone(i) \/ IgnoreAlarm(i) \/ Alarm(i) \/ FinishChild(i)
  \/ WriteChunk(i) \/ BrokenPipe(i) \/ ExitChild(i) \/ FinalizeInChild(i)
  \/ ChildCrash(i)

\* Everything has ended.
Ended == pc \in {"done", "dead", "abort"} /\ \A i \in Jobs : ~Alive(i)

Next ==
  \/ ParentNext
  \/ \E i \in Jobs : ChildNext(i)
  \/ Refill
  \/ Ended /\ UNCHANGED vars   \* the processes have exited

Spec == Init /\ [][Next]_vars

\* The kernel schedules every process that can run; LLVM and the verifier come
\* to an end (the solver has a time limit, the child an alarm). The job server
\* wakes up every second, but nobody may depend on it unless tokens leaked: on
\* other systems than Linux it never refills. Crashes are never forced.
Fairness ==
  /\ WF_vars(ParentNext /\ crashes' = crashes)
  /\ \A i \in Jobs : WF_vars(ChildNext(i) /\ crashes' = crashes)
  /\ WF_vars(Refill /\ leaked > 0)

FairSpec == Spec /\ Fairness

-----------------------------------------------------------------------------
(* Properties *)

ParentTypes ==
  /\ pc \in ParentPCs
  /\ hist \in Seq(Items) /\ parent_ss \in Seq(Items)
  /\ children \in 0..MaxItems /\ active \in 0..MaxActive
  /\ pfd \in [Slots -> Jobs \cup {NoFd}] /\ revents \in SUBSET Slots
  /\ output \in [Jobs -> Seq(Chunks)]
  /\ buf \in Seq(Entries) /\ file \in Seq(Entries)

FlagTypes == ssFail \in BOOLEAN /\ eof \in [Jobs -> BOOLEAN]

OSTypes ==
  /\ pipe \in [Jobs -> Seq(Chunks)]
  /\ wr \in [Jobs -> SUBSET Procs] /\ rd \in [Jobs -> SUBSET Procs]
  /\ tokens \in Nat

ChildTypes ==
  /\ cpc \in [Jobs -> ChildPCs]
  /\ report \in [Jobs -> Seq(Chunks)] /\ left \in [Jobs -> Seq(Chunks)]
  /\ inherited \in [Jobs -> Seq(Entries)]
  /\ holds \in SUBSET Jobs
  /\ leaked \in Nat /\ minted \in Nat /\ crashes \in 0..MaxCrashes

TypeOK == ParentTypes /\ FlagTypes /\ OSTypes /\ ChildTypes

UsedSlots == {s \in Slots : pfd[s] # NoFd}

\* The children that were forked and whose EOF the parent has not seen.
OpenChildren == {i \in Jobs : cpc[i] # "none" /\ ~eof[i]}

\* The poll table and active_children agree: the used slots are exactly the
\* open children, each in one slot, and active_children counts them. With the
\* throttle this is what assert(found) in limitedFork and
\* assert(active_children == 0) in finishParent rest on.
SlotsMatchChildren ==
  /\ active = Cardinality(UsedSlots)
  /\ \A s, t \in UsedSlots : pfd[s] = pfd[t] => s = t
  /\ {pfd[s] : s \in UsedSlots} = OpenChildren

\* assert(found) in limitedFork: a slot is free whenever a fork is due.
ForkFindsSlot == pc = "fork" => \E s \in Slots : pfd[s] = NoFd

\* A slot poll() reported stays readable until readFromChildren gets to it, so
\* its read() neither blocks the parent nor hits a closed descriptor, although
\* children go on running between the poll and the read.
ReadNeverBlocks ==
  \A s \in revents : pfd[s] # NoFd /\ (pipe[pfd[s]] # <<>> \/ wr[pfd[s]] = {})

\* When the parent sees EOF the child has ended and all it ever wrote has been
\* read: no other process keeps the write end open, none closes it early.
EofMeansEnded == \A i \in Jobs : eof[i] => Gone(i) /\ pipe[i] = <<>>

\* What the parent's control state says of its counters: each refinement check
\* is counted in hist before it gets an index, a child of a later index does not
\* exist yet, the throttle has made room, and only the read loops have slots
\* left to read.
ControlInv ==
  /\ Len(hist) <= MaxItems
  /\ children + (IF pc \in {"drain", "throttle", "token", "prepare"} THEN 1 ELSE 0)
       <= Len(hist)
  /\ \A i \in Jobs : i >= children => cpc[i] = "none"
  /\ \A i \in Jobs : cpc[i] = "none" => ~eof[i]
  /\ pc = "fork" => children > 0 /\ cpc[children - 1] = "none"
  /\ pc \in {"token", "prepare", "fork"} => active < MaxActive
  /\ pc \notin ReadLoops \cup {"dead"} => revents = {}

\* A living child holds the write end of its own pipe.
WriterInv == \A i \in Jobs : Alive(i) => i \in wr[i]

ItemsOf(entries) == [k \in 1..Len(entries) |-> entries[k].item]

\* What limitedFork has been called for but has no placeholder yet.
InFork == pc \in {"drain", "throttle", "token", "prepare", "fork"}

\* The report file, the buffer of out_file and parent_ss are together the
\* items the compiler produced, in its order, each once, whatever the order
\* in which children finish and whenever emitOutput runs.
ProgramOrder ==
  pc # "dead" =>
    ItemsOf(file \o buf) \o parent_ss =
      IF InFork THEN SubSeq(hist, 1, Len(hist) - 1) ELSE hist

Out == file \o buf
OutputOf(i) == {k \in 1..Len(Out) : Out[k].item = Include(i)}

\* A report reaches its own placeholder unmixed: what the parent has emitted or
\* buffered for a child, what is in the pipe and what the child still has to
\* write are together its report; and if nothing was killed, a child that has
\* ended has left nothing unsent.
ReportsIntact ==
  \A i \in Jobs :
    LET text == IF OutputOf(i) = {} THEN output[i]
                ELSE Out[CHOOSE k \in OutputOf(i) : TRUE].text
    IN  /\ text \o pipe[i] \o left[i] = report[i]
        /\ Gone(i) /\ crashes = 0 /\ pc # "dead" => left[i] = <<>>

\* A finished parent has printed everything and leaves no zombie behind.
FinishedIsComplete ==
  pc \in {"untoken", "done"} =>
    parent_ss = <<>> /\ Len(Out) = Len(hist) /\ \A i \in Jobs : cpc[i] \in {"none", "reaped"}

\* Every child returns its token exactly once on every way out but a kill, and
\* the parent takes back the one it lends: the FIFO holds what it should.
TokenConservation ==
  Fifo =>
    tokens + Cardinality(holds) + leaked + (IF pc \in {"prepare", "fork"} THEN 1 ELSE 0)
      = NProcs + minted + (IF pc \in Lending THEN 1 ELSE 0)

\* The report reads as if the checks had run one after the other.
ResultOf(i) ==
  [known |-> eof[i],
   text  |-> IF ~eof[i] THEN <<>>
             ELSE IF OutputOf(i) = {} THEN output[i]
             ELSE Out[CHOOSE k \in OutputOf(i) : TRUE].text]

Sequential == INSTANCE OrderedReport WITH
  Texts <- Seq(Chunks), items <- hist, results <- [i \in Jobs |-> ResultOf(i)],
  printed <- file

\* Parallel mode implements the sequential report.
RefinesOrderedReport == Sequential!Spec

\* Whatever is killed, and whichever pipe is full, the compilation and every
\* child come to an end: nobody waits for ever on a token, a pipe or a process.
EveryoneEnds == <>[]Ended
============================================================================
