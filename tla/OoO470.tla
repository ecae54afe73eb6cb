------------------------------- MODULE OoO470 -------------------------------
(***************************************************************************)
(* The OoO470 processor of HW1: an out-of-order core in the style of the   *)
(* MIPS R10000, simulated cycle by cycle.                                  *)
(*                                                                         *)
(* main.cpp runs the stages of a cycle one after the other, in the order   *)
(* execution, commit, issue, rename and dispatch, fetch and decode; step   *)
(* names the stage whose turn it is.  The loops of a stage are unrolled:   *)
(* one iteration (one instruction retired, rolled back, issued or          *)
(* dispatched) is one step and n counts the iterations.  The program is    *)
(* sequential, so nothing comes between two iterations and no step is      *)
(* optional.                                                               *)
(*                                                                         *)
(* curr is the state latched at the start of the cycle, of which only the  *)
(* fields that stages read are kept.  The other variables are the working  *)
(* copies (the code's next and view), which the latch turns into curr.     *)
(* The Active List, the Free List and the Integer Queue are sequences,     *)
(* oldest first.                                                           *)
(***************************************************************************)
EXTENDS ISA470, SequencesExt

CONSTANTS
    Width,      \* instructions per cycle and stage (4 in the code)
    NPhys,      \* physical registers (64)
    ALCap,      \* capacity of the Active List (32)
    IQCap,      \* capacity of the Integer Queue (32)
    FLCap,      \* capacity of the Free List (32)
    ExcVector,  \* address of the exception handler (0x10000)
    Programs    \* the programs to run

ASSUME SizeAssumption ==
    /\ Width \in Nat \ {0}
    /\ ALCap \in Nat /\ IQCap \in Nat
    /\ NPhys \in Nat /\ FLCap \in Nat /\ NPhys = NLog + FLCap

ASSUME ProgramAssumption ==
    /\ ExcVector \in Nat
    /\ Programs \subseteq Seq(Instruction)

VARIABLES
    prog,   \* the instruction memory
    step,   \* the stage about to act
    n,      \* iterations of the stage's loop done in this cycle
    curr,   \* latched pc, dir, exc and al
    pc, dir, exc, excPC,            \* next: front end and exception state
    map, prf, busy,                 \* next: rename map, register file, busy bits
    fl, al, iq,                     \* view: Free List, Active List, Integer Queue
    s1, s2,                         \* the two pipeline registers of the ALUs
    ctx                             \* CycleContext: the signals of this cycle

vars == <<prog, step, n, curr, pc, dir, exc, excPC, map, prf, busy,
          fl, al, iq, s1, s2, ctx>>

frontEnd == <<pc, dir>>
excState == <<exc, excPC>>
regState == <<map, prf, busy>>
queues == <<fl, al, iq>>
alus == <<s1, s2>>

-----------------------------------------------------------------------------
(* Data *)

PhysReg == 0 .. NPhys - 1

\* Slip: commit forgets to reset the ALUs.
RequestWithoutReset == {"haltFetchDecode", "haltRenameDispatch", "integerQueueReset"}

\* The four requests commit raises for the later stages.
Request == {"haltFetchDecode", "haltRenameDispatch",
            "executionReset", "integerQueueReset"}

ActiveListEntry == [done : BOOLEAN, exception : BOOLEAN, ld : LogReg,
                    old : PhysReg, pc : Nat]

\* An operand's value is meaningful once it is ready (std::optional in the code).
IntegerQueueEntry == [op : Opcode, dst : PhysReg, pc : Nat,
                      aReady : BOOLEAN, aTag : PhysReg, aVal : Word,
                      bReady : BOOLEAN, bTag : PhysReg, bVal : Word]

IssuedInstruction == [op : Opcode, a : Word, b : Word, dst : PhysReg, pc : Nat]

ForwardingResult == [reg : PhysReg, val : Word, exception : BOOLEAN, pc : Nat]

Latched == [pc : Nat, dir : Seq(Nat), exc : BOOLEAN, al : Seq(ActiveListEntry)]

\* suppress holds the address of a faulting head, if one was forwarded.
Signals == [fwd : Seq(ForwardingResult), req : SUBSET Request,
            backpressure : BOOLEAN, suppress : SUBSET Nat]

NoSignals == [fwd |-> <<>>, req |-> {}, backpressure |-> FALSE, suppress |-> {}]

Least(a, b) == IF a <= b THEN a ELSE b

\* Every queue drops what is pushed on it when it is full.
Push(q, cap, e) == IF Len(q) < cap THEN Append(q, e) ELSE q

Init ==
    /\ prog \in Programs
    /\ step = "execution"
    /\ n = 0
    /\ curr = [pc |-> 0, dir |-> <<>>, exc |-> FALSE, al |-> <<>>]
    /\ pc = 0
    /\ dir = <<>>
    /\ exc = FALSE
    /\ excPC = 0
    /\ map = [l \in LogReg |-> l]
    /\ prf = [r \in PhysReg |-> 0]
    /\ busy = [r \in PhysReg |-> FALSE]
    /\ fl = [i \in 1 .. FLCap |-> NLog + i - 1]
    /\ al = <<>>
    /\ iq = <<>>
    /\ s1 = <<>>
    /\ s2 = <<>>
    /\ ctx = NoSignals

-----------------------------------------------------------------------------
(* Execution: two-cycle ALUs *)

\* Slip: instructions that executed but did not retire do not count.
NothingToExecute ==
    /\ pc = ExcVector \/ dir = <<>>
    /\ iq = <<>>
    /\ s1 = <<>> /\ s2 = <<>>

\* At an exception the DIR is left as it is; its size does not count then.
NoInflightWork ==
    /\ pc = ExcVector \/ dir = <<>>
    /\ iq = <<>>
    /\ al = <<>>
    /\ s1 = <<>> /\ s2 = <<>>

SimulationDone == ~exc /\ pc >= Len(prog) /\ NoInflightWork

ResultOf(e) == [reg |-> e.dst, val |-> Compute(e.op, e.a, e.b),
                exception |-> Faults(e.op, e.b), pc |-> e.pc]

\* The ALUs forward what is in their second register and move the first one up.
\* The reset that line 50 honours is never pending here: requests are cleared
\* when the cycle starts.
Execute ==
    /\ step = "execution"
    /\ ~SimulationDone
    /\ ctx' = [ctx EXCEPT !.fwd = [i \in 1 .. Len(s2) |-> ResultOf(s2[i])]]
    /\ s2' = s1
    /\ s1' = <<>>
    /\ step' = "commit"
    /\ n' = 0
    /\ UNCHANGED <<prog, curr, frontEnd, excState, regState, queues>>

-----------------------------------------------------------------------------
(* Commit: retirement, exception detection and rollback *)

\* Commit looks for instructions to retire in the Active List of the cycle's
\* start, so that what is forwarded now retires in the next cycle at the earliest.
MayRetire == n < Width /\ n < Len(curr.al) /\ curr.al[n + 1].done

RetireFront ==
    /\ step = "commit" /\ ~curr.exc
    /\ MayRetire
    /\ ~curr.al[n + 1].exception
    /\ fl' = Push(fl, FLCap, Head(al).old)
    /\ busy' = [busy EXCEPT ![Head(al).old] = FALSE]
    /\ al' = Tail(al)
    /\ n' = n + 1
    /\ UNCHANGED <<prog, step, curr, frontEnd, excState, map, prf, iq, alus, ctx>>

\* An exception at the head of the Active List; forwarding is then not applied.
DetectException ==
    /\ step = "commit" /\ ~curr.exc
    /\ MayRetire
    /\ curr.al[n + 1].exception
    /\ exc' = TRUE
    /\ excPC' = curr.al[n + 1].pc
    /\ ctx' = [ctx EXCEPT !.req = Request]
    /\ step' = "control"
    /\ UNCHANGED <<prog, n, curr, frontEnd, regState, queues, alus>>

\* Where the forwarded results of this cycle complete an Active List entry.
Completions(e) == {k \in DOMAIN ctx.fwd : ctx.fwd[k].pc = e.pc}

\* Slip: the exception flag of the result is not copied.
MarkedDone(e) == IF Completions(e) = {} THEN e ELSE [e EXCEPT !.done = TRUE]

\* An Active List entry after it has seen the forwarded results.
Marked(e) ==
    IF Completions(e) = {} THEN e
    ELSE LET k == CHOOSE k \in Completions(e) : TRUE
         IN  [e EXCEPT !.done = TRUE, !.exception = ctx.fwd[k].exception]

\* The result of the instruction at the head is kept from the other stages when
\* it is an exception.
HeadFault ==
    IF al # <<>> /\ Completions(Head(al)) # {} /\ Marked(Head(al)).exception
    THEN {Head(al).pc}
    ELSE {}

ObserveResults ==
    /\ step = "commit" /\ ~curr.exc
    /\ ~MayRetire
    /\ al' = [i \in 1 .. Len(al) |-> Marked(al[i])]
    /\ ctx' = [ctx EXCEPT !.suppress = HeadFault]
    /\ step' = "control"
    /\ UNCHANGED <<prog, n, curr, frontEnd, excState, regState, fl, iq, alus>>

\* Slip: rollback starts at the oldest instruction.
OldestFirst == Head(al)

\* The instruction to undo next.
Undone == Last(al)

\* Slip: the register of the restored mapping is freed.
RestoredRegister(e) == e.old

\* The register an instruction to be undone was given.
SpeculativeRegister(e) == map[e.ld]

\* The youngest instruction gives its register back and the mapping it replaced
\* is restored.
RollBackYoungest ==
    /\ step = "commit" /\ curr.exc /\ curr.al # <<>>
    /\ al # <<>> /\ n < Width
    /\ exc' = TRUE
    /\ ctx' = [ctx EXCEPT !.req = Request]
    /\ fl' = Push(fl, FLCap, SpeculativeRegister(Undone))
    /\ busy' = [busy EXCEPT ![SpeculativeRegister(Undone)] = FALSE]
    /\ map' = [map EXCEPT ![Undone.ld] = Undone.old]
    /\ al' = Front(al)
    /\ n' = n + 1
    /\ UNCHANGED <<prog, step, curr, frontEnd, excPC, prf, iq, alus>>

RollBackEnd ==
    /\ step = "commit" /\ curr.exc /\ curr.al # <<>>
    /\ al = <<>> \/ n = Width
    /\ step' = "control"
    /\ UNCHANGED <<prog, n, curr, frontEnd, excState, regState, queues, alus, ctx>>

LeaveException ==
    /\ step = "commit" /\ curr.exc /\ curr.al = <<>>
    /\ exc' = FALSE
    /\ ctx' = [ctx EXCEPT !.req = Request]
    /\ step' = "control"
    /\ UNCHANGED <<prog, n, curr, frontEnd, excPC, regState, queues, alus>>

Commit == \/ RetireFront \/ DetectException \/ ObserveResults
          \/ RollBackYoungest \/ RollBackEnd \/ LeaveException

\* The main loop empties the ALUs between commit and issue.
ResetExecution ==
    /\ step = "control"
    /\ IF "executionReset" \in ctx.req
          THEN s1' = <<>> /\ s2' = <<>>
          ELSE UNCHANGED alus
    /\ step' = "issue"
    /\ n' = 0
    /\ UNCHANGED <<prog, curr, frontEnd, excState, regState, queues, ctx>>

-----------------------------------------------------------------------------
(* Issue *)

\* Slip: no faulting result is delivered, wherever its instruction stands.
DeliveredFaultless(r) ==
    {k \in DOMAIN ctx.fwd : ctx.fwd[k].reg = r /\ ~ctx.fwd[k].exception}

\* Where the forwarding paths deliver a value for physical register r.
Delivered(r) ==
    {k \in DOMAIN ctx.fwd : ctx.fwd[k].reg = r /\ ctx.fwd[k].pc \notin ctx.suppress}

ForwardedValue(r) == ctx.fwd[CHOOSE k \in Delivered(r) : TRUE].val

\* Slip: one delivery wakes one operand only.
WokenUpOnce(e) ==
    LET a == ~e.aReady /\ Delivered(e.aTag) # {}
        b == ~a /\ ~e.bReady /\ Delivered(e.bTag) # {}
    IN  [e EXCEPT !.aReady = @ \/ a, !.aVal = IF a THEN ForwardedValue(e.aTag) ELSE @,
                  !.bReady = @ \/ b, !.bVal = IF b THEN ForwardedValue(e.bTag) ELSE @]

\* Slip: the entry becomes ready but the second operand keeps its old value.
WokenUpStale(e) ==
    LET a == ~e.aReady /\ Delivered(e.aTag) # {}
        b == ~e.bReady /\ Delivered(e.bTag) # {}
    IN  [e EXCEPT !.aReady = @ \/ a, !.aVal = IF a THEN ForwardedValue(e.aTag) ELSE @,
                  !.bReady = @ \/ b]

\* A waiting operand takes a delivered value.
WokenUp(e) ==
    LET a == ~e.aReady /\ Delivered(e.aTag) # {}
        b == ~e.bReady /\ Delivered(e.bTag) # {}
    IN  [e EXCEPT !.aReady = @ \/ a, !.aVal = IF a THEN ForwardedValue(e.aTag) ELSE @,
                  !.bReady = @ \/ b, !.bVal = IF b THEN ForwardedValue(e.bTag) ELSE @]

ResetQueue ==
    /\ step = "issue"
    /\ "integerQueueReset" \in ctx.req
    /\ iq' = <<>>
    /\ step' = "rename"
    /\ UNCHANGED <<prog, n, curr, frontEnd, excState, regState, fl, al, alus, ctx>>

WakeUp ==
    /\ step = "issue"
    /\ "integerQueueReset" \notin ctx.req
    /\ iq' = [i \in 1 .. Len(iq) |-> WokenUp(iq[i])]
    /\ step' = "select"
    /\ UNCHANGED <<prog, n, curr, frontEnd, excState, regState, fl, al, alus, ctx>>

Ready(e) == e.aReady /\ e.bReady

\* The oldest ready entry, when an ALU is free to take it.
Issuable(i) ==
    /\ n < Width
    /\ Ready(iq[i])
    /\ \A j \in 1 .. i - 1 : ~Ready(iq[j])
    /\ Len(s1) < Width

IssueOldestReady ==
    /\ step = "select"
    /\ \E i \in DOMAIN iq :
          /\ Issuable(i)
          /\ s1' = Append(s1, [op |-> iq[i].op, a |-> iq[i].aVal, b |-> iq[i].bVal,
                               dst |-> iq[i].dst, pc |-> iq[i].pc])
          /\ iq' = RemoveAt(iq, i)
    /\ n' = n + 1
    /\ UNCHANGED <<prog, step, curr, frontEnd, excState, regState, fl, al, s2, ctx>>

IssueEnd ==
    /\ step = "select"
    /\ \A i \in DOMAIN iq : ~Issuable(i)
    /\ step' = "rename"
    /\ UNCHANGED <<prog, n, curr, frontEnd, excState, regState, queues, alus, ctx>>

Issue == ResetQueue \/ WakeUp \/ IssueOldestReady \/ IssueEnd

-----------------------------------------------------------------------------
(* Rename and dispatch *)

RenameHalted ==
    /\ step = "rename"
    /\ "haltRenameDispatch" \in ctx.req
    /\ step' = "fetch"
    /\ UNCHANGED <<prog, n, curr, frontEnd, excState, regState, queues, alus, ctx>>

\* Slip: the Integer Queue's room is not checked.
EnoughButForIQ == Len(curr.dir) <= Len(fl) /\ Len(curr.dir) <= ALCap - Len(al)

\* Slip: the Active List's room is not checked.
EnoughButForAL == Len(curr.dir) <= Len(fl) /\ Len(curr.dir) <= IQCap - Len(iq)

\* Slip: a bundle that fits exactly is refused.
MoreThanEnough ==
    /\ Len(curr.dir) < Len(fl)
    /\ Len(curr.dir) < ALCap - Len(al)
    /\ Len(curr.dir) < IQCap - Len(iq)

\* All or nothing: the whole bundle is dispatched or none of it.
HasEnoughResources ==
    /\ Len(curr.dir) <= Len(fl)
    /\ Len(curr.dir) <= ALCap - Len(al)
    /\ Len(curr.dir) <= IQCap - Len(iq)

\* Results reach the register file; then dispatch begins, or backpressure tells
\* fetch to keep the bundle.
WriteBack ==
    /\ step = "rename"
    /\ "haltRenameDispatch" \notin ctx.req
    /\ prf' = [r \in PhysReg |->
                  IF Delivered(r) # {} THEN ForwardedValue(r) ELSE prf[r]]
    /\ busy' = [r \in PhysReg |-> busy[r] /\ Delivered(r) = {}]
    /\ ctx' = [ctx EXCEPT !.backpressure = curr.dir # <<>> /\ ~HasEnoughResources]
    /\ step' = IF curr.dir # <<>> /\ HasEnoughResources THEN "dispatch" ELSE "fetch"
    /\ n' = 0
    /\ UNCHANGED <<prog, curr, frontEnd, excState, map, queues, alus>>

\* The value of a register that is not busy; nothing (0) for one that is.
ReadOperand(r) == IF busy[r] THEN 0 ELSE prf[r]

\* The Integer Queue entry of instruction i, at address p, before its destination
\* is renamed.
QueueEntry(i, p, dst) ==
    [op |-> i.op, dst |-> dst, pc |-> p,
     aReady |-> ~busy[map[i.rs1]],
     aTag   |-> map[i.rs1],
     aVal   |-> ReadOperand(map[i.rs1]),
     bReady |-> i.useImm \/ ~busy[map[i.rs2]],
     bTag   |-> IF i.useImm THEN 0 ELSE map[i.rs2],
     bVal   |-> IF i.useImm THEN i.imm ELSE ReadOperand(map[i.rs2])]

\* The bundle was fetched by address and decoding only depends on the address.
DispatchNext ==
    /\ step = "dispatch"
    /\ n < Len(curr.dir)
    /\ LET p == curr.dir[n + 1]
           i == prog[p + 1]
           new == Head(fl)
       IN  /\ map' = [map EXCEPT ![i.dst] = new]
           /\ busy' = [busy EXCEPT ![new] = TRUE]
           /\ fl' = Tail(fl)
           /\ iq' = Push(iq, IQCap, QueueEntry(i, p, new))
           /\ al' = Push(al, ALCap, [done |-> FALSE, exception |-> FALSE, ld |-> i.dst,
                                     old |-> map[i.dst], pc |-> p])
    /\ n' = n + 1
    /\ UNCHANGED <<prog, step, curr, frontEnd, excState, prf, alus, ctx>>

DispatchEnd ==
    /\ step = "dispatch"
    /\ n = Len(curr.dir)
    /\ dir' = <<>>
    /\ step' = "fetch"
    /\ UNCHANGED <<prog, n, curr, pc, excState, regState, queues, alus, ctx>>

RenameAndDispatch == RenameHalted \/ WriteBack \/ DispatchNext \/ DispatchEnd

-----------------------------------------------------------------------------
(* Fetch and decode, and the end of the cycle *)

\* Slip: the whole bundle gets the address of its first instruction.
FetchBundleAtBase(from) == [i \in 1 .. Least(Width, Len(prog) - from) |-> from]

\* The addresses of up to Width instructions from an address on, as far as the
\* program reaches.
FetchBundle(from) == [i \in 1 .. Least(Width, Len(prog) - from) |-> from + i - 1]

FetchHalted ==
    /\ step = "fetch"
    /\ "haltFetchDecode" \in ctx.req
    /\ pc' = ExcVector
    /\ step' = "latch"
    /\ UNCHANGED <<prog, n, curr, dir, excState, regState, queues, alus, ctx>>

FetchStalled ==
    /\ step = "fetch"
    /\ "haltFetchDecode" \notin ctx.req
    /\ ctx.backpressure
    /\ step' = "latch"
    /\ UNCHANGED <<prog, n, curr, frontEnd, excState, regState, queues, alus, ctx>>

FetchAndDecode ==
    /\ step = "fetch"
    /\ "haltFetchDecode" \notin ctx.req
    /\ ~ctx.backpressure
    /\ dir' = FetchBundle(curr.pc)
    /\ pc' = pc + Len(FetchBundle(curr.pc))
    /\ step' = "latch"
    /\ UNCHANGED <<prog, n, curr, excState, regState, queues, alus, ctx>>

Fetch == FetchHalted \/ FetchStalled \/ FetchAndDecode

Latch ==
    /\ step = "latch"
    /\ curr' = [pc |-> pc, dir |-> dir, exc |-> exc, al |-> al]
    /\ ctx' = NoSignals
    /\ step' = "execution"
    /\ UNCHANGED <<prog, n, frontEnd, excState, regState, queues, alus>>

-----------------------------------------------------------------------------
Terminated == step = "execution" /\ SimulationDone /\ UNCHANGED vars

Next == \/ Execute \/ Commit \/ ResetExecution \/ Issue \/ RenameAndDispatch
        \/ Fetch \/ Latch \/ Terminated

Spec == Init /\ [][Next]_vars

\* The simulator runs until it is done.
FairSpec == Spec /\ WF_vars(Next)

-----------------------------------------------------------------------------
(* What the pieces of state mean *)

\* The physical register the i-th Active List entry writes: the one that the next
\* writer of the same logical register replaced, or the current mapping.
Destination(i) ==
    LET later == {j \in i + 1 .. Len(al) : al[j].ld = al[i].ld}
    IN  IF later = {} THEN map[al[i].ld]
        ELSE al[CHOOSE j \in later : \A k \in later : j <= k].old

\* The mapping as the oldest in-flight instruction finds it.
CommittedMap(l) ==
    LET writers == {j \in DOMAIN al : al[j].ld = l}
    IN  IF writers = {} THEN map[l]
        ELSE al[CHOOSE j \in writers : \A k \in writers : j <= k].old

\* Instructions between dispatch and forwarding.
InFlight == {iq[i] : i \in DOMAIN iq} \cup {s1[i] : i \in DOMAIN s1}
                \cup {s2[i] : i \in DOMAIN s2}

CycleStart == step = "execution"

-----------------------------------------------------------------------------
(* Properties *)

TypeOK ==
    /\ prog \in Programs
    /\ step \in {"execution", "commit", "control", "issue", "select",
                 "rename", "dispatch", "fetch", "latch"}
    /\ n \in Nat
    /\ curr \in Latched
    /\ pc \in Nat /\ dir \in Seq(Nat)
    /\ exc \in BOOLEAN /\ excPC \in Nat
    /\ map \in [LogReg -> PhysReg]
    /\ prf \in [PhysReg -> Word]
    /\ busy \in [PhysReg -> BOOLEAN]
    /\ fl \in Seq(PhysReg)
    /\ al \in Seq(ActiveListEntry)
    /\ iq \in Seq(IntegerQueueEntry)
    /\ s1 \in Seq(IssuedInstruction) /\ s2 \in Seq(IssuedInstruction)
    /\ ctx \in Signals

\* The three places a physical register can be in.
Mapped(r) == \E l \in LogReg : map[l] = r
Free(r) == \E i \in DOMAIN fl : fl[i] = r
Held(r) == \E i \in DOMAIN al : al[i].old = r

\* Each physical register is in one place at a time, and none is ever lost: it is
\* the mapping of one logical register, or on the Free List once, or the old
\* destination of one in-flight instruction.  (A double free would hand a live
\* register to a second instruction, a leak would stall dispatch for ever.)
RegisterPartition ==
    /\ \A l, m \in LogReg : map[l] = map[m] => l = m
    /\ \A i, j \in DOMAIN fl : fl[i] = fl[j] => i = j
    /\ \A i, j \in DOMAIN al : al[i].old = al[j].old => i = j
    /\ \A r \in PhysReg : Mapped(r) \/ Free(r) \/ Held(r)
    /\ \A r \in PhysReg : /\ ~(Mapped(r) /\ Free(r))
                          /\ ~(Mapped(r) /\ Held(r))
                          /\ ~(Free(r) /\ Held(r))

\* The three queues never hold more than they can, in spite of pushes nobody
\* checks: the registers on the Free List and in the Active List add up to the
\* Free List's size.
QueuesFit ==
    /\ Len(fl) + Len(al) = FLCap
    /\ Len(al) <= ALCap
    /\ Len(iq) <= IQCap
    /\ Len(s1) <= Width /\ Len(s2) <= Width /\ Len(ctx.fwd) <= Width

\* At the start of a cycle, a busy register is one whose value is on its way: the
\* destination of an instruction that waits or executes, or a register that only
\* the pending or running exception recovery will release.  Every instruction on
\* its way has its destination busy.
BusyMeansInFlight ==
    CycleStart =>
        /\ \A e \in InFlight : busy[e.dst]
        /\ \A r \in PhysReg : busy[r] =>
              \/ \E e \in InFlight : e.dst = r
              \/ al # <<>> /\ Head(al).exception /\ r = Destination(1)
              \/ exc /\ \E i \in DOMAIN al : r = Destination(i)

\* No instruction waits for a value nobody will deliver: the tag of a waiting
\* operand is the destination of an older instruction on its way, or of a head
\* whose exception is about to flush the queue.
NoLostWakeup ==
    CycleStart =>
        \A i \in DOMAIN iq :
            \A t \in (IF iq[i].aReady THEN {} ELSE {iq[i].aTag})
                        \cup (IF iq[i].bReady THEN {} ELSE {iq[i].bTag}) :
                \/ \E e \in InFlight : e.dst = t /\ e.pc < iq[i].pc
                \/ Head(al).exception /\ t = Destination(1)

\* A captured operand stays what its physical register holds: no register is
\* reallocated and overwritten while an instruction that read it is still queued.
OperandsMatchRegisters ==
    CycleStart =>
        \A i \in DOMAIN iq :
            /\ iq[i].aReady => iq[i].aVal = prf[iq[i].aTag]
            /\ iq[i].bReady /\ ~prog[iq[i].pc + 1].useImm
                  => iq[i].bVal = prf[iq[i].bTag]

\* Outside exception mode, every Active List entry that is not done is exactly once
\* in the Integer Queue or the ALUs, with the destination the rename map and the
\* younger entries give it; nothing else is there.
EachInstructionOnce ==
    CycleStart /\ ~exc =>
        LET pending == {i \in DOMAIN al : ~al[i].done}
        IN  /\ Len(iq) + Len(s1) + Len(s2) = Cardinality(pending)
            /\ \A i \in pending :
                  \E e \in InFlight : e.pc = al[i].pc /\ e.dst = Destination(i)

\* The registers the programmer sees.
ArchRegs == [l \in LogReg |-> prf[CommittedMap(l)]]

\* An exception has been handled: the PC is the vector, and not because the program
\* ends there, for the instruction at the exception PC does fault and is not about
\* to be dispatched or retired.
Recovered ==
    LET i == prog[excPC + 1]
    IN  /\ ~exc /\ pc = ExcVector
        /\ \A k \in DOMAIN al : al[k].pc # excPC
        /\ \A k \in DOMAIN dir : dir[k] # excPC
        /\ Faults(i.op, IF i.useImm THEN i.imm ELSE ArchRegs[i.rs2])

\* The Active List, the DIR and the PC follow the program without gap or repeat;
\* after an exception this only concerns the Active List.
ProgramOrder ==
    CycleStart =>
        LET follow == IF exc \/ Recovered THEN <<>> ELSE Append(dir, pc)
            addresses == [i \in DOMAIN al |-> al[i].pc] \o follow
        IN  \A i \in 1 .. Len(addresses) - 1 : addresses[i + 1] = addresses[i] + 1

\* In exception mode nothing is left in the queue or the ALUs that could deliver a
\* late result, and when the mode ends every register is back: none busy, none
\* speculative.
CleanRecovery ==
    CycleStart /\ (exc \/ Recovered) =>
        /\ iq = <<>> /\ s1 = <<>> /\ s2 = <<>>
        /\ ~exc => al = <<>> /\ Len(fl) = FLCap /\ \A r \in PhysReg : ~busy[r]

\* The address of the next instruction to take effect: the head of the Active List, or
\* of the DIR, or the PC.
ArchPC ==
    CASE exc -> excPC
      [] ~exc /\ ~Recovered /\ al # <<>> -> Head(al).pc
      [] ~exc /\ ~Recovered /\ al = <<>> /\ dir # <<>> -> Head(dir)
      [] OTHER -> pc

\* OoO470 implements the in-order machine: retirement is execution, and an
\* exception is precise, also when the program ends at the exception vector.
InOrder == INSTANCE InOrder470
    WITH regs <- ArchRegs, apc <- ArchPC, trap <- exc, epc <- excPC

InOrderSpec == InOrder!Spec

\* Running a program one instruction at a time to its end or first exception.
SequentialRun(p) ==
    LET run[k \in 0 .. Len(p)] ==
            IF k = 0 THEN [regs |-> [l \in LogReg |-> 0], fault |-> {}]
            ELSE LET prev == run[k - 1]
                     b == IF p[k].useImm THEN p[k].imm ELSE prev.regs[p[k].rs2]
                 IN  IF prev.fault # {} THEN prev
                     ELSE IF Faults(p[k].op, b) THEN [regs |-> prev.regs, fault |-> {k - 1}]
                     ELSE [regs |-> [prev.regs EXCEPT ![p[k].dst] =
                                        Compute(p[k].op, prev.regs[p[k].rs1], b)],
                           fault |-> {}]
    IN  run[Len(p)]

\* When the simulator stops, the whole program took effect: the registers are those
\* of the sequential run and the exception PC is the instruction that faulted.
DoneMeansComplete ==
    CycleStart /\ SimulationDone =>
        LET result == SequentialRun(prog)
        IN  /\ ArchRegs = result.regs
            /\ excPC = IF result.fault = {} THEN 0 ELSE CHOOSE a \in result.fault : TRUE

\* The simulator stops.
Termination == <>(CycleStart /\ SimulationDone)

=============================================================================
