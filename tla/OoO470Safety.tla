---------------------------- MODULE OoO470Safety ----------------------------
(***************************************************************************)
(* What is true of every instruction in flight in OoO470, in every state,  *)
(* and what follows from it, for every program that ends before the        *)
(* exception vector and every size of the processor: the invariants of     *)
(* OoO470 about the start of a cycle, and that OoO470 implements           *)
(* InOrder470.  Whatever is renamed, issued and forwarded out of order,    *)
(* the registers that the programmer sees change one instruction at a      *)
(* time, in program order, and an exception is precise.                    *)
(*                                                                         *)
(* The value of a register may be on its way: forwarded, but not yet       *)
(* written to the register file.  Missing and Values are the busy bits and *)
(* the register file as they are once what is on its way has arrived.  In  *)
(* their terms each entry of the Active List, of the Integer Queue and of  *)
(* the ALUs has its registers (of the map as the instruction finds it), its *)
(* operands and its outcome.  Outside exception mode that, the order of    *)
(* the addresses and the fact that each instruction is in one place make   *)
(* the invariant Normal; from the detection of an exception on, Trapped    *)
(* says what is left to undo.                                              *)
(*                                                                         *)
(* In normal operation the abstract program counter is NextAddress and the *)
(* abstract registers are those of the map as the oldest instruction finds *)
(* it.  Only retirement moves them.  From the detection of an exception on *)
(* the rollback restores the map without touching that view of it.  From   *)
(* this it follows that the registers are those of the sequential run of   *)
(* the program when the simulator stops.                                   *)
(***************************************************************************)
EXTENDS OoO470Proofs, FiniteSetTheorems

-----------------------------------------------------------------------------
(* One instruction in flight: p is the program, q the Active List, m the map, b *)
(* tells which registers have no value yet and v the values of the others.      *)

InstructionAt(p, q, i) == p[q[i].pc + 1]
Source1(p, q, m, i) == MapIn(q, m, i, InstructionAt(p, q, i).rs1)
Source2(p, q, m, i) == MapIn(q, m, i, InstructionAt(p, q, i).rs2)

Operand2(p, q, m, v, i) ==
    IF InstructionAt(p, q, i).useImm THEN InstructionAt(p, q, i).imm
    ELSE v[Source2(p, q, m, i)]

\* Its operands are known.
Available(p, q, m, b, i) ==
    /\ ~b[Source1(p, q, m, i)]
    /\ InstructionAt(p, q, i).useImm \/ ~b[Source2(p, q, m, i)]

Outcome(p, q, m, v, i) ==
    Compute(InstructionAt(p, q, i).op, v[Source1(p, q, m, i)], Operand2(p, q, m, v, i))

Faulty(p, q, m, v, i) == Faults(InstructionAt(p, q, i).op, Operand2(p, q, m, v, i))

\* The result of an instruction is missing until it is done, and then for good if
\* it is the oldest and faults.
EntryOK(p, q, m, b, v, i) ==
    /\ q[i].pc < Len(p) /\ q[i].ld = InstructionAt(p, q, i).dst
    /\ ~q[i].done => b[Dest(q, m, i)] /\ ~q[i].exception
    /\ q[i].done =>
          /\ Available(p, q, m, b, i)
          /\ q[i].exception <=> Faulty(p, q, m, v, i)
          /\ b[Dest(q, m, i)] => i = 1 /\ q[i].exception
          /\ ~b[Dest(q, m, i)] => v[Dest(q, m, i)] = Outcome(p, q, m, v, i)

\* e is the Integer Queue entry of the i-th instruction.
QueuedFor(p, q, m, b, v, e, i) ==
    /\ e.pc = q[i].pc /\ ~q[i].done
    /\ e.dst = Dest(q, m, i) /\ e.op = InstructionAt(p, q, i).op
    /\ e.aTag = Source1(p, q, m, i)
    /\ e.aReady <=> ~b[Source1(p, q, m, i)]
    /\ e.aReady => e.aVal = v[Source1(p, q, m, i)]
    /\ InstructionAt(p, q, i).useImm => e.bReady /\ e.bVal = InstructionAt(p, q, i).imm
    /\ ~InstructionAt(p, q, i).useImm =>
          /\ e.bTag = Source2(p, q, m, i)
          /\ e.bReady <=> ~b[Source2(p, q, m, i)]
          /\ e.bReady => e.bVal = v[Source2(p, q, m, i)]

\* e is the i-th instruction in an ALU.
IssuedFor(p, q, m, b, v, e, i) ==
    /\ e.pc = q[i].pc /\ ~q[i].done
    /\ e.dst = Dest(q, m, i) /\ e.op = InstructionAt(p, q, i).op
    /\ Available(p, q, m, b, i)
    /\ e.a = v[Source1(p, q, m, i)] /\ e.b = Operand2(p, q, m, v, i)

\* f is the result of the i-th instruction.
ForwardedFor(p, q, m, b, v, f, i) ==
    /\ f.pc = q[i].pc /\ ~q[i].done
    /\ f.reg = Dest(q, m, i)
    /\ Available(p, q, m, b, i)
    /\ f.val = Outcome(p, q, m, v, i)
    /\ f.exception <=> Faulty(p, q, m, v, i)

\* The Active List agrees with the program and the registers.
Consistent(p, q, m, b, v) ==
    /\ \A i \in 1 .. Len(q) : EntryOK(p, q, m, b, v, i)
    /\ \A r \in PhysReg : b[r] => \E i \in 1 .. Len(q) : r = Dest(q, m, i)

AllQueued(p, q, m, b, v, w) ==
    \A k \in 1 .. Len(w) : \E i \in 1 .. Len(q) : QueuedFor(p, q, m, b, v, w[k], i)
AllIssued(p, q, m, b, v, w) ==
    \A k \in 1 .. Len(w) : \E i \in 1 .. Len(q) : IssuedFor(p, q, m, b, v, w[k], i)
AllForwarded(p, q, m, b, v, w) ==
    \A k \in 1 .. Len(w) : \E i \in 1 .. Len(q) : ForwardedFor(p, q, m, b, v, w[k], i)

\* Addresses of the instructions in a queue.
OneEach(w) == \A j, k \in 1 .. Len(w) : w[j].pc = w[k].pc => j = k
Apart(w, x) == \A j \in 1 .. Len(w), k \in 1 .. Len(x) : w[j].pc # x[k].pc
Present(w, a) == \E k \in 1 .. Len(w) : w[k].pc = a

-----------------------------------------------------------------------------
(* The stages of a cycle *)

\* Results have reached the Active List but not the register file.
Bypassing == step \in {"control", "issue", "select", "rename"}

\* They have not reached the Integer Queue either.
BeforeWakeUp == step \in {"control", "issue"}

Missing == [r \in PhysReg |-> IF Bypassing /\ Delivered(r) # {} THEN FALSE ELSE busy[r]]
Values == [r \in PhysReg |->
              IF Bypassing /\ Delivered(r) # {} THEN ForwardedValue(r) ELSE prf[r]]

QueueMissing == IF BeforeWakeUp THEN busy ELSE Missing
QueueValues == IF BeforeWakeUp THEN prf ELSE Values

\* Results that have not reached the Active List.
Results == IF step = "commit" THEN ctx.fwd ELSE <<>>

\* Instructions of the DIR that are still to be dispatched.
Remaining == IF step = "dispatch" THEN Len(dir) - n ELSE Len(dir)

\* The Active List, the DIR and the PC follow each other.
Order ==
    /\ \A i \in 1 .. Len(al) : al[i].pc + Len(al) + Remaining + 1 = pc + i
    /\ \A j \in 1 .. Len(dir) : dir[j] + Len(dir) + 1 = pc + j

\* What is latched of the front end, and of the Active List while commit pops it.
FrontEnd ==
    /\ step = "commit" => \A i \in 1 .. Len(al) : al[i] = curr.al[n + i]
    /\ step # "latch" => curr.pc = pc
    /\ step \notin {"fetch", "latch"} => curr.dir = dir
    /\ step = "fetch" => ctx.backpressure \/ dir = <<>>
    /\ step = "dispatch" /\ n > 0 => al # <<>>

\* The address of the next instruction to retire.
NextAddress == pc - (Remaining + Len(al))

\* Until the first instruction retires all registers are 0; that it did retire shows
\* that no exception PC of 0 can be taken for an exception.
FirstInstruction ==
    /\ NextAddress = 0 => \A l \in LogReg : Values[MapIn(al, map, 1, l)] = 0
    /\ NextAddress > 0 =>
          ~(prog[1].op \in {"divu", "remu"} /\ (prog[1].useImm => prog[1].imm = 0))

\* What is being delivered was waited for.
ResultsAwaited ==
    Bypassing => \A k \in 1 .. Len(ctx.fwd) :
        /\ busy[ctx.fwd[k].reg]
        /\ \E i \in 1 .. Len(al) : ctx.fwd[k].reg = Dest(al, map, i)

InFlightOK ==
    /\ Consistent(prog, al, map, Missing, Values)
    /\ AllQueued(prog, al, map, QueueMissing, QueueValues, iq)
    /\ AllIssued(prog, al, map, Missing, Values, s1)
    /\ AllIssued(prog, al, map, Missing, Values, s2)
    /\ AllForwarded(prog, al, map, Missing, Values, Results)

\* No instruction is twice in the queue, the ALUs and the results.
Once ==
    /\ OneEach(iq) /\ OneEach(s1) /\ OneEach(s2) /\ OneEach(Results)
    /\ Apart(iq, s1) /\ Apart(iq, s2) /\ Apart(iq, Results)
    /\ Apart(s1, s2) /\ Apart(s1, Results) /\ Apart(s2, Results)

\* Every instruction that is not done is in one of them.
Covered == \A i \in 1 .. Len(al) : ~al[i].done =>
    Present(iq, al[i].pc) \/ Present(s1, al[i].pc) \/ Present(s2, al[i].pc)
        \/ Present(Results, al[i].pc)

\* No exception was detected so far.
NoException == ~exc /\ ~curr.exc /\ ctx.req = {} /\ excPC = 0

Normal ==
    /\ NoException /\ FrontEnd /\ Order
    /\ InFlightOK /\ ResultsAwaited /\ FirstInstruction
    /\ Once /\ Covered

\* An exception was detected: what the Active List holds is undone, whatever is left
\* in the queue and the ALUs is discarded within the cycle, and the fetch that
\* follows goes to the vector.
Trapped ==
    /\ excPC < Len(prog)
    /\ Faults(prog[excPC + 1].op, IF prog[excPC + 1].useImm THEN prog[excPC + 1].imm
                                   ELSE prf[MapIn(al, map, 1, prog[excPC + 1].rs2)])
    /\ \A i \in 1 .. Len(al) : al[i].pc + 1 = excPC + i /\ al[i].pc < Len(prog)
    /\ \A j \in 1 .. Len(dir) : excPC < dir[j]
    /\ \A r \in PhysReg : busy[r] => \E i \in 1 .. Len(al) : r = Dest(al, map, i)
    /\ ~exc => al = <<>>
    /\ step = "execution" => exc = curr.exc
    /\ step = "commit" => exc /\ curr.exc
    /\ step \in {"control", "issue", "rename", "fetch", "latch"} =>
          ctx.req = Request /\ (exc \/ curr.exc)
    /\ step \notin {"select", "dispatch"}
    /\ step = "commit" /\ n > 0 => ctx.req = Request
    /\ step \in {"execution", "commit", "latch"} \/ curr.exc => pc = ExcVector
    /\ step # "control" \/ curr.exc => s1 = <<>> /\ s2 = <<>>
    /\ step \notin {"control", "issue"} \/ curr.exc => iq = <<>>

PInv == Normal \/ Trapped

-----------------------------------------------------------------------------
(* One instruction at a time *)

Typing(p, q, m, b, v) ==
    /\ p \in Seq(Instruction)
    /\ q \in Seq(ActiveListEntry)
    /\ m \in [LogReg -> PhysReg]
    /\ b \in [PhysReg -> BOOLEAN]
    /\ v \in [PhysReg -> Word]

\* An instruction of the program has registers.
LEMMA Registers ==
    ASSUME NEW p, NEW q, NEW m, NEW b, NEW v, Typing(p, q, m, b, v),
           NEW i \in 1 .. Len(q), q[i].pc < Len(p)
    PROVE  /\ InstructionAt(p, q, i) \in Instruction
           /\ InstructionAt(p, q, i).rs1 \in LogReg /\ InstructionAt(p, q, i).rs2 \in LogReg
           /\ Source1(p, q, m, i) \in PhysReg
           /\ Source2(p, q, m, i) \in PhysReg
           /\ Dest(q, m, i) \in PhysReg
  <1>1. q[i] \in ActiveListEntry /\ i \in Nat \ {0} /\ i + 1 \in Nat \ {0} /\ Len(q) \in Nat
    BY DEF Typing
  <1>2. q[i].pc \in Nat /\ q[i].ld \in LogReg
    BY <1>1 DEF ActiveListEntry
  <1>3. q[i].pc + 1 \in 1 .. Len(p)
    BY <1>2 DEF Typing
  <1>4. InstructionAt(p, q, i) \in Instruction
    BY <1>3 DEF InstructionAt, Typing
  <1>5. InstructionAt(p, q, i).rs1 \in LogReg /\ InstructionAt(p, q, i).rs2 \in LogReg
    BY <1>4 DEF Instruction
  <1>6. ASSUME NEW k \in 1 .. Len(q) PROVE q[k].old \in PhysReg
    <2>1. q[k] \in ActiveListEntry
      BY DEF Typing
    <2> QED
      BY <2>1 DEF ActiveListEntry
  <1>7. m \in [LogReg -> PhysReg]
    BY DEF Typing
  <1>8. Source1(p, q, m, i) \in PhysReg
    BY <1>1, <1>5, <1>6, <1>7, MapType DEF Source1
  <1>9. Source2(p, q, m, i) \in PhysReg
    BY <1>1, <1>5, <1>6, <1>7, MapType DEF Source2
  <1>10. Dest(q, m, i) \in PhysReg
    BY <1>1, <1>2, <1>6, <1>7, MapType DEF Dest
  <1> QED
    BY <1>4, <1>5, <1>8, <1>9, <1>10

\* What the i-th instruction of (q, m) and the j-th of (r, l) have in common when
\* they are the same instruction.
SameRegisters(p, q, m, i, r, l, j) ==
    /\ r[j] = q[i]
    /\ Source1(p, r, l, j) = Source1(p, q, m, i)
    /\ Source2(p, r, l, j) = Source2(p, q, m, i)
    /\ Dest(r, l, j) = Dest(q, m, i)

\* A register is missing or has the same value as before; once it has a value, that is
\* kept.
Same(b, v, c, w, x) == c[x] = b[x] /\ w[x] = v[x]
Known(b, v, c, w, x) == ~b[x] => ~c[x] /\ w[x] = v[x]

\* An entry stays consistent where its registers do.
LEMMA CarryEntry ==
    ASSUME NEW p, NEW q, NEW m, NEW b, NEW v, NEW i, NEW r, NEW l, NEW c, NEW w, NEW j,
           SameRegisters(p, q, m, i, r, l, j), i = 1 => j = 1,
           Same(b, v, c, w, Source1(p, q, m, i)), Same(b, v, c, w, Source2(p, q, m, i)),
           Same(b, v, c, w, Dest(q, m, i)),
           EntryOK(p, q, m, b, v, i)
    PROVE  EntryOK(p, r, l, c, w, j)
  <1>1. InstructionAt(p, r, j) = InstructionAt(p, q, i)
    BY DEF InstructionAt, SameRegisters
  <1>2. Operand2(p, r, l, w, j) = Operand2(p, q, m, v, i)
    BY <1>1 DEF Operand2, SameRegisters, Same
  <1>3. /\ Outcome(p, r, l, w, j) = Outcome(p, q, m, v, i)
        /\ Faulty(p, r, l, w, j) = Faulty(p, q, m, v, i)
    BY <1>1, <1>2 DEF Outcome, Faulty, SameRegisters, Same
  <1>4. Available(p, r, l, c, j) = Available(p, q, m, b, i)
    BY <1>1 DEF Available, SameRegisters, Same
  <1> QED
    BY <1>1, <1>3, <1>4 DEF EntryOK, SameRegisters, Same

\* So does an entry of the Integer Queue.
LEMMA CarryQueued ==
    ASSUME NEW p, NEW q, NEW m, NEW b, NEW v, NEW i, NEW r, NEW l, NEW c, NEW w, NEW j, NEW e,
           SameRegisters(p, q, m, i, r, l, j),
           Same(b, v, c, w, Source1(p, q, m, i)), Same(b, v, c, w, Source2(p, q, m, i)),
           QueuedFor(p, q, m, b, v, e, i)
    PROVE  QueuedFor(p, r, l, c, w, e, j)
  <1>1. InstructionAt(p, r, j) = InstructionAt(p, q, i)
    BY DEF InstructionAt, SameRegisters
  <1> QED
    BY <1>1 DEF QueuedFor, SameRegisters, Same

\* An issued instruction and a result only need registers that have a value.
LEMMA CarryAvailable ==
    ASSUME NEW p, NEW q, NEW m, NEW b, NEW v, NEW i, NEW r, NEW l, NEW c, NEW w, NEW j,
           r[j].pc = q[i].pc,
           Source1(p, r, l, j) = Source1(p, q, m, i),
           Source2(p, r, l, j) = Source2(p, q, m, i),
           Known(b, v, c, w, Source1(p, q, m, i)), Known(b, v, c, w, Source2(p, q, m, i)),
           Available(p, q, m, b, i)
    PROVE  /\ Available(p, r, l, c, j)
           /\ Operand2(p, r, l, w, j) = Operand2(p, q, m, v, i)
           /\ Outcome(p, r, l, w, j) = Outcome(p, q, m, v, i)
           /\ Faulty(p, r, l, w, j) = Faulty(p, q, m, v, i)
  <1>1. InstructionAt(p, r, j) = InstructionAt(p, q, i)
    BY DEF InstructionAt
  <1>2. Available(p, r, l, c, j)
    BY <1>1 DEF Available, Known
  <1>3. Operand2(p, r, l, w, j) = Operand2(p, q, m, v, i)
    BY <1>1 DEF Available, Operand2, Known
  <1>4. w[Source1(p, r, l, j)] = v[Source1(p, q, m, i)]
    BY DEF Available, Known
  <1> QED
    BY <1>1, <1>2, <1>3, <1>4 DEF Outcome, Faulty

\* An issued instruction that keeps its registers and their values still matches its entry.
LEMMA CarryIssued ==
    ASSUME NEW p, NEW q, NEW m, NEW b, NEW v, NEW i, NEW r, NEW l, NEW c, NEW w, NEW j, NEW e,
           r[j].pc = q[i].pc, ~r[j].done,
           Source1(p, r, l, j) = Source1(p, q, m, i),
           Source2(p, r, l, j) = Source2(p, q, m, i),
           Dest(r, l, j) = Dest(q, m, i),
           Known(b, v, c, w, Source1(p, q, m, i)), Known(b, v, c, w, Source2(p, q, m, i)),
           IssuedFor(p, q, m, b, v, e, i)
    PROVE  IssuedFor(p, r, l, c, w, e, j)
  <1>1. Available(p, q, m, b, i)
    BY DEF IssuedFor
  <1>2. /\ Available(p, r, l, c, j)
        /\ Operand2(p, r, l, w, j) = Operand2(p, q, m, v, i)
    BY <1>1, CarryAvailable
  <1>4. w[Source1(p, r, l, j)] = v[Source1(p, q, m, i)]
    BY <1>1 DEF Available, Known
  <1>3. InstructionAt(p, r, j) = InstructionAt(p, q, i)
    BY DEF InstructionAt
  <1> QED
    BY <1>2, <1>3, <1>4 DEF IssuedFor

\* So does a result on its way.
LEMMA CarryForwarded ==
    ASSUME NEW p, NEW q, NEW m, NEW b, NEW v, NEW i, NEW r, NEW l, NEW c, NEW w, NEW j, NEW f,
           r[j].pc = q[i].pc, ~r[j].done,
           Source1(p, r, l, j) = Source1(p, q, m, i),
           Source2(p, r, l, j) = Source2(p, q, m, i),
           Dest(r, l, j) = Dest(q, m, i),
           Known(b, v, c, w, Source1(p, q, m, i)), Known(b, v, c, w, Source2(p, q, m, i)),
           ForwardedFor(p, q, m, b, v, f, i)
    PROVE  ForwardedFor(p, r, l, c, w, f, j)
  <1>1. Available(p, q, m, b, i)
    BY DEF ForwardedFor
  <1>2. /\ Available(p, r, l, c, j)
        /\ Outcome(p, r, l, w, j) = Outcome(p, q, m, v, i)
        /\ Faulty(p, r, l, w, j) = Faulty(p, q, m, v, i)
    BY <1>1, CarryAvailable
  <1> QED
    BY <1>2 DEF ForwardedFor

-----------------------------------------------------------------------------
(* The registers of an instruction do not change while it is in flight *)

\* Retirement of the head.
LEMMA RetireRegisters ==
    ASSUME NEW p, NEW q, NEW m, NEW b, NEW v, Typing(p, q, m, b, v),
           NEW i \in 1 .. Len(q), i # 1, q[i].pc < Len(p)
    PROVE  i - 1 \in 1 .. Len(Tail(q)) /\ SameRegisters(p, q, m, i, Tail(q), m, i - 1)
  <1> DEFINE r == Tail(q)
  <1>1. q \in Seq(ActiveListEntry) /\ q # <<>> /\ Len(q) \in Nat
    BY DEF Typing
  <1>2. Len(r) \in Nat /\ Len(q) = Len(r) + 1 /\ \A k \in 1 .. Len(r) : r[k] = q[k + 1]
    BY <1>1
  <1> HIDE DEF r
  <1>3. i - 1 \in 1 .. Len(r) /\ (i - 1) + 1 = i /\ i - 1 \in Nat \ {0} /\ i \in Nat \ {0}
    BY <1>1, <1>2
  <1>4. r[i - 1] = q[i]
    BY <1>2, <1>3
  <1>5. ASSUME NEW a PROVE /\ MapIn(r, m, i - 1, a) = MapIn(q, m, i, a)
                           /\ MapIn(r, m, (i - 1) + 1, a) = MapIn(q, m, i + 1, a)
    <2> DEFINE j == i - 1
    <2>1. MapIn(r, m, j, a) = MapIn(q, m, j + 1, a)
      <3>1. j \in Nat \ {0}
        BY <1>3
      <3> HIDE DEF j
      <3> QED
        BY <1>1, <1>2, <3>1, MapTail
    <2>2. MapIn(r, m, i, a) = MapIn(q, m, i + 1, a)
      BY <1>2, <1>3, MapTail
    <2> QED
      BY <1>3, <2>1, <2>2
  <1>6. SameRegisters(p, q, m, i, r, m, i - 1)
    BY <1>4, <1>5 DEF SameRegisters, Source1, Source2, Dest, InstructionAt
  <1> QED
    BY <1>3, <1>6 DEF r

\* Dispatch and rollback of a younger instruction.
LEMMA YoungerRegisters ==
    ASSUME NEW p, NEW q, NEW m, NEW b, NEW v, Typing(p, q, m, b, v),
           NEW r, NEW w, OneYounger(q, m, r, w),
           NEW i \in 1 .. Len(q), q[i].pc < Len(p)
    PROVE  SameRegisters(p, q, m, i, r, w, i)
  <1>1. Len(q) \in Nat /\ q[i] \in ActiveListEntry
    BY DEF Typing
  <1>2. q[i].ld \in LogReg
    BY <1>1 DEF ActiveListEntry
  <1>3. ASSUME NEW j \in 1 .. Len(q) + 1, NEW a \in LogReg
        PROVE  MapIn(r, w, j, a) = MapIn(q, m, j, a)
    BY <1>1, MapYounger
  <1>4. i \in 1 .. Len(q) + 1 /\ i + 1 \in 1 .. Len(q) + 1 /\ r[i] = q[i]
    BY <1>1 DEF OneYounger
  <1>5. InstructionAt(p, q, i).rs1 \in LogReg /\ InstructionAt(p, q, i).rs2 \in LogReg
    BY Registers
  <1>6. InstructionAt(p, r, i) = InstructionAt(p, q, i)
    BY <1>4 DEF InstructionAt
  <1>7. /\ Source1(p, r, w, i) = Source1(p, q, m, i)
        /\ Source2(p, r, w, i) = Source2(p, q, m, i)
    BY <1>3, <1>4, <1>5, <1>6 DEF Source1, Source2
  <1>8. Dest(r, w, i) = Dest(q, m, i)
    BY <1>2, <1>3, <1>4 DEF Dest
  <1> QED
    BY <1>4, <1>7, <1>8 DEF SameRegisters

\* Changes of the flags.
LEMMA FlagRegisters ==
    ASSUME NEW p, NEW q, NEW m, NEW r, Len(q) \in Nat, Len(r) = Len(q),
           \A k \in 1 .. Len(q) : r[k].pc = q[k].pc /\ r[k].ld = q[k].ld /\ r[k].old = q[k].old,
           NEW i \in 1 .. Len(q)
    PROVE  /\ InstructionAt(p, r, i) = InstructionAt(p, q, i)
           /\ Source1(p, r, m, i) = Source1(p, q, m, i)
           /\ Source2(p, r, m, i) = Source2(p, q, m, i)
           /\ Dest(r, m, i) = Dest(q, m, i)
  <1>1. i \in Nat \ {0} /\ i + 1 \in Nat \ {0}
    OBVIOUS
  <1>2. ASSUME NEW a PROVE MapIn(r, m, i, a) = MapIn(q, m, i, a)
    BY <1>1, MapSame
  <1>3. ASSUME NEW a PROVE MapIn(r, m, i + 1, a) = MapIn(q, m, i + 1, a)
    BY <1>1, MapSame
  <1>4. InstructionAt(p, r, i) = InstructionAt(p, q, i)
    BY DEF InstructionAt
  <1> QED
    BY <1>2, <1>3, <1>4 DEF Source1, Source2, Dest

-----------------------------------------------------------------------------
(* Retirement *)

\* The register that the head replaced is not missing, and what remains is as
\* consistent as it was.
LEMMA RetireConsistent ==
    ASSUME NEW p, NEW q, NEW m, NEW b, NEW v, Typing(p, q, m, b, v), InUseOnce(q, m),
           Consistent(p, q, m, b, v), q # <<>>, q[1].done, ~q[1].exception
    PROVE  ~b[q[1].old] /\ Consistent(p, Tail(q), m, b, v)
  <1> DEFINE r == Tail(q)
  <1>1. q \in Seq(ActiveListEntry) /\ Len(q) \in Nat /\ 1 \in 1 .. Len(q)
    BY DEF Typing
  <1>2. \A i \in 1 .. Len(q) : q[i].ld \in LogReg /\ q[i].old \in PhysReg
    <2> SUFFICES ASSUME NEW i \in 1 .. Len(q) PROVE q[i].ld \in LogReg /\ q[i].old \in PhysReg
      OBVIOUS
    <2>1. q[i] \in ActiveListEntry
      BY <1>1
    <2> QED
      BY <2>1 DEF ActiveListEntry
  <1>3. MapIn(q, m, 1, q[1].ld) = q[1].old
    BY <1>1, MapNext
  <1>4. ASSUME NEW j \in 1 .. Len(q) PROVE Dest(q, m, j) # q[1].old
    BY <1>1, <1>2, <1>3, CommittedApart
  <1>5. ~b[q[1].old]
    BY <1>1, <1>2, <1>4 DEF Consistent
  <1>6. \A i \in 1 .. Len(q) : EntryOK(p, q, m, b, v, i) /\ q[i].pc < Len(p)
    BY DEF Consistent, EntryOK
  <1>7. Len(r) = Len(q) - 1
    BY <1>1
  <1>8. ASSUME NEW i \in 1 .. Len(r) PROVE EntryOK(p, r, m, b, v, i)
    <2>1. PICK j \in 1 .. Len(q) : j # 1 /\ j - 1 = i
      <3>1. i + 1 \in 1 .. Len(q) /\ i + 1 # 1 /\ (i + 1) - 1 = i
        BY <1>1, <1>7
      <3> QED
        BY <3>1
    <2>2. SameRegisters(p, q, m, j, r, m, i)
      BY <1>6, <2>1, RetireRegisters
    <2>3. EntryOK(p, q, m, b, v, j)
      BY <1>6
    <2> HIDE DEF r
    <2>4. /\ Same(b, v, b, v, Source1(p, q, m, j)) /\ Same(b, v, b, v, Source2(p, q, m, j))
          /\ Same(b, v, b, v, Dest(q, m, j)) /\ (j = 1 => i = 1)
      BY <2>1 DEF Same
    <2> QED
      BY <2>1, <2>2, <2>3, <2>4, CarryEntry
  <1>9. ASSUME NEW x \in PhysReg, b[x] PROVE \E i \in 1 .. Len(r) : x = Dest(r, m, i)
    <2>1. PICK j \in 1 .. Len(q) : x = Dest(q, m, j)
      BY <1>9 DEF Consistent
    <2>2. j # 1
      <3>1. EntryOK(p, q, m, b, v, 1)
        BY <1>1, <1>6
      <3>2. ~b[Dest(q, m, 1)]
        BY <3>1 DEF EntryOK
      <3> QED
        BY <1>9, <2>1, <3>2
    <2>3. j - 1 \in 1 .. Len(r) /\ SameRegisters(p, q, m, j, r, m, j - 1)
      BY <1>6, <2>2, RetireRegisters
    <2> QED
      BY <2>1, <2>3 DEF SameRegisters
  <1> QED
    BY <1>5, <1>8, <1>9 DEF Consistent

\* Nothing that waits or executes belongs to the head.
LEMMA RetireHeld ==
    ASSUME NEW p, NEW q, NEW m, NEW b, NEW v, Typing(p, q, m, b, v),
           \A i \in 1 .. Len(q) : q[i].pc < Len(p), q # <<>>, q[1].done,
           NEW w
    PROVE  /\ AllQueued(p, q, m, b, v, w) => AllQueued(p, Tail(q), m, b, v, w)
           /\ AllIssued(p, q, m, b, v, w) => AllIssued(p, Tail(q), m, b, v, w)
           /\ AllForwarded(p, q, m, b, v, w) => AllForwarded(p, Tail(q), m, b, v, w)
  <1> DEFINE r == Tail(q)
  <1>1. ASSUME NEW i
        PROVE  /\ Same(b, v, b, v, Source1(p, q, m, i)) /\ Known(b, v, b, v, Source1(p, q, m, i))
               /\ Same(b, v, b, v, Source2(p, q, m, i)) /\ Known(b, v, b, v, Source2(p, q, m, i))
    BY DEF Same, Known
  <1>2. ASSUME NEW i \in 1 .. Len(q), i # 1
        PROVE  i - 1 \in 1 .. Len(r) /\ SameRegisters(p, q, m, i, r, m, i - 1)
    BY <1>2, RetireRegisters
  <1> HIDE DEF r
  <1>3. ASSUME AllQueued(p, q, m, b, v, w), NEW k \in 1 .. Len(w)
        PROVE  \E i \in 1 .. Len(r) : QueuedFor(p, r, m, b, v, w[k], i)
    <2>1. PICK i \in 1 .. Len(q) : QueuedFor(p, q, m, b, v, w[k], i)
      BY <1>3 DEF AllQueued
    <2>2. i # 1
      BY <2>1 DEF QueuedFor
    <2> DEFINE j == i - 1
               e == w[k]
    <2>3. SameRegisters(p, q, m, i, r, m, j) /\ QueuedFor(p, q, m, b, v, e, i)
      BY <1>2, <2>1, <2>2
    <2> HIDE DEF j, e
    <2>4. /\ Same(b, v, b, v, Source1(p, q, m, i))
          /\ Same(b, v, b, v, Source2(p, q, m, i))
      BY <1>1
    <2>5. QueuedFor(p, r, m, b, v, e, j)
      BY <2>3, <2>4, CarryQueued
    <2> USE DEF j, e
    <2> QED
      BY <1>2, <2>2, <2>5
  <1>4. ASSUME AllIssued(p, q, m, b, v, w), NEW k \in 1 .. Len(w)
        PROVE  \E i \in 1 .. Len(r) : IssuedFor(p, r, m, b, v, w[k], i)
    <2>1. PICK i \in 1 .. Len(q) : IssuedFor(p, q, m, b, v, w[k], i)
      BY <1>4 DEF AllIssued
    <2>2. i # 1 /\ ~q[i].done
      BY <2>1 DEF IssuedFor
    <2>3. SameRegisters(p, q, m, i, r, m, i - 1)
      BY <1>2, <2>2
    <2>4. IssuedFor(p, r, m, b, v, w[k], i - 1)
      BY <1>1, <2>1, <2>2, <2>3, CarryIssued DEF SameRegisters
    <2> QED
      BY <1>2, <2>2, <2>4
  <1>5. ASSUME AllForwarded(p, q, m, b, v, w), NEW k \in 1 .. Len(w)
        PROVE  \E i \in 1 .. Len(r) : ForwardedFor(p, r, m, b, v, w[k], i)
    <2>1. PICK i \in 1 .. Len(q) : ForwardedFor(p, q, m, b, v, w[k], i)
      BY <1>5 DEF AllForwarded
    <2>2. i # 1 /\ ~q[i].done
      BY <2>1 DEF ForwardedFor
    <2>3. SameRegisters(p, q, m, i, r, m, i - 1)
      BY <1>2, <2>2
    <2>4. ForwardedFor(p, r, m, b, v, w[k], i - 1)
      BY <1>1, <2>1, <2>2, <2>3, CarryForwarded DEF SameRegisters
    <2> QED
      BY <1>2, <2>2, <2>4
  <1> QED
    BY <1>3, <1>4, <1>5 DEF AllQueued, AllIssued, AllForwarded, r

-----------------------------------------------------------------------------
(* Dispatch *)

\* A register that no instruction and no mapping uses can be given away.
Unused(q, m, f) == \A j \in 1 .. Len(q) + 1, l \in LogReg : MapIn(q, m, j, l) # f

\* c and w are b and v, except at f, which is missing.
MissingToo(b, v, c, w, f) ==
    /\ c[f] = TRUE
    /\ \A x \in PhysReg : x # f => Same(b, v, c, w, x)

\* The registers of the instructions in flight keep what they have.
LEMMA DispatchSame ==
    ASSUME NEW p, NEW q, NEW m, NEW b, NEW v, Typing(p, q, m, b, v),
           NEW f, NEW c, NEW w, Unused(q, m, f), MissingToo(b, v, c, w, f),
           NEW i \in 1 .. Len(q), q[i].pc < Len(p)
    PROVE  /\ Same(b, v, c, w, Source1(p, q, m, i))
           /\ Same(b, v, c, w, Source2(p, q, m, i))
           /\ Same(b, v, c, w, Dest(q, m, i))
           /\ Known(b, v, c, w, Source1(p, q, m, i))
           /\ Known(b, v, c, w, Source2(p, q, m, i))
  <1>1. /\ InstructionAt(p, q, i).rs1 \in LogReg /\ InstructionAt(p, q, i).rs2 \in LogReg
        /\ Source1(p, q, m, i) \in PhysReg
        /\ Source2(p, q, m, i) \in PhysReg
        /\ Dest(q, m, i) \in PhysReg
    BY Registers
  <1>2. q[i] \in ActiveListEntry /\ Len(q) \in Nat
    BY DEF Typing
  <1>3. q[i].ld \in LogReg /\ i \in 1 .. Len(q) + 1 /\ i + 1 \in 1 .. Len(q) + 1
    BY <1>2 DEF ActiveListEntry
  <1>4. Source1(p, q, m, i) # f
    BY <1>1, <1>3 DEF Unused, Source1
  <1>5. Source2(p, q, m, i) # f
    BY <1>1, <1>3 DEF Unused, Source2
  <1>6. Dest(q, m, i) # f
    BY <1>1, <1>3 DEF Unused, Dest
  <1>7. /\ Same(b, v, c, w, Source1(p, q, m, i))
        /\ Same(b, v, c, w, Source2(p, q, m, i))
        /\ Same(b, v, c, w, Dest(q, m, i))
    BY <1>1, <1>4, <1>5, <1>6 DEF MissingToo
  <1> QED
    BY <1>7 DEF Same, Known

\* The new entry's destination is the register it was given.
LEMMA DispatchDest ==
    ASSUME NEW q, NEW m, NEW r, NEW l, Len(q) \in Nat, OneYounger(q, m, r, l)
    PROVE  Dest(r, l, Len(q) + 1) = l[r[Len(q) + 1].ld]
  <1>1. PICK h \in Nat \ {0} : h = Len(q) + 2
    OBVIOUS
  <1>2. Len(r) \in Nat /\ h = (Len(q) + 1) + 1
    BY <1>1 DEF OneYounger
  <1>3. \A k \in h .. Len(r) : r[k].ld # r[Len(q) + 1].ld
    BY <1>1 DEF OneYounger
  <1>4. FirstWriter(r, h, r[Len(q) + 1].ld) = 0
    BY <1>2, <1>3, FirstWriterNone
  <1> QED
    BY <1>2, <1>4 DEF Dest, MapIn

\* The last entry of r is the one dispatched for an instruction: it is not done, and f is
\* its register.
Dispatched(p, r, l, f) ==
    LET e == r[Len(r)]
    IN  /\ f = l[e.ld] /\ e.pc < Len(p) /\ e.ld = p[e.pc + 1].dst
        /\ e.done = FALSE /\ e.exception = FALSE

\* The Active List stays consistent.
LEMMA DispatchConsistent ==
    ASSUME NEW p, NEW q, NEW m, NEW b, NEW v, Typing(p, q, m, b, v),
           Consistent(p, q, m, b, v),
           NEW r, NEW l, OneYounger(q, m, r, l),
           NEW f, NEW c, NEW w, Unused(q, m, f), MissingToo(b, v, c, w, f),
           Dispatched(p, r, l, f)
    PROVE  Consistent(p, r, l, c, w)
  <1>1. Len(q) \in Nat /\ Len(r) = Len(q) + 1
    BY DEF Typing, OneYounger
  <1>2. Dest(r, l, Len(q) + 1) = f
    BY <1>1, DispatchDest DEF Dispatched
  <1>3. \A i \in 1 .. Len(q) : EntryOK(p, q, m, b, v, i) /\ q[i].pc < Len(p)
    BY DEF Consistent, EntryOK
  <1>4. ASSUME NEW i \in 1 .. Len(q)
        PROVE  EntryOK(p, r, l, c, w, i) /\ Dest(r, l, i) = Dest(q, m, i)
    <2>1. SameRegisters(p, q, m, i, r, l, i)
      BY <1>3, YoungerRegisters
    <2>2. /\ Same(b, v, c, w, Source1(p, q, m, i))
          /\ Same(b, v, c, w, Source2(p, q, m, i))
          /\ Same(b, v, c, w, Dest(q, m, i))
      BY <1>3, DispatchSame
    <2>3. EntryOK(p, q, m, b, v, i) /\ (i = 1 => i = 1)
      BY <1>3
    <2>4. EntryOK(p, r, l, c, w, i)
      BY <2>1, <2>2, <2>3, CarryEntry
    <2> QED
      BY <2>1, <2>4 DEF SameRegisters
  <1>5. EntryOK(p, r, l, c, w, Len(q) + 1)
    <2>1. c[f] = TRUE
      BY DEF MissingToo
    <2> QED
      BY <1>1, <1>2, <2>1 DEF Dispatched, EntryOK, InstructionAt
  <1>6. ASSUME NEW i \in 1 .. Len(r) PROVE EntryOK(p, r, l, c, w, i)
    <2>1. i \in 1 .. Len(q) \/ i = Len(q) + 1
      BY <1>1
    <2> QED
      BY <1>4, <1>5, <2>1
  <1>7. ASSUME NEW x \in PhysReg, c[x] PROVE \E i \in 1 .. Len(r) : x = Dest(r, l, i)
    <2>1. CASE x = f
      BY <1>1, <1>2, <2>1
    <2>2. CASE x # f
      <3>1. b[x]
        BY <1>7, <2>2 DEF MissingToo, Same
      <3>2. PICK i \in 1 .. Len(q) : x = Dest(q, m, i)
        BY <3>1 DEF Consistent
      <3>3. i \in 1 .. Len(r)
        BY <1>1
      <3> QED
        BY <1>4, <3>2, <3>3
    <2> QED
      BY <2>1, <2>2
  <1> QED
    BY <1>6, <1>7 DEF Consistent

\* What waits or executes stays what it was.
LEMMA DispatchHeld ==
    ASSUME NEW p, NEW q, NEW m, NEW b, NEW v, Typing(p, q, m, b, v),
           \A i \in 1 .. Len(q) : q[i].pc < Len(p),
           NEW r, NEW l, OneYounger(q, m, r, l),
           NEW f, NEW c, NEW w, Unused(q, m, f), MissingToo(b, v, c, w, f),
           NEW z
    PROVE  /\ AllQueued(p, q, m, b, v, z) => AllQueued(p, r, l, c, w, z)
           /\ AllIssued(p, q, m, b, v, z) => AllIssued(p, r, l, c, w, z)
  <1>1. Len(q) \in Nat /\ Len(r) = Len(q) + 1
    BY DEF Typing, OneYounger
  <1>2. ASSUME NEW i \in 1 .. Len(q)
        PROVE  /\ i \in 1 .. Len(r) /\ SameRegisters(p, q, m, i, r, l, i)
               /\ Same(b, v, c, w, Source1(p, q, m, i))
               /\ Same(b, v, c, w, Source2(p, q, m, i))
               /\ Known(b, v, c, w, Source1(p, q, m, i))
               /\ Known(b, v, c, w, Source2(p, q, m, i))
    <2>1. i \in 1 .. Len(r)
      BY <1>1
    <2>2. SameRegisters(p, q, m, i, r, l, i)
      BY YoungerRegisters
    <2> QED
      BY <2>1, <2>2, DispatchSame
  <1>3. ASSUME AllQueued(p, q, m, b, v, z), NEW k \in 1 .. Len(z)
        PROVE  \E i \in 1 .. Len(r) : QueuedFor(p, r, l, c, w, z[k], i)
    <2>1. PICK i \in 1 .. Len(q) : QueuedFor(p, q, m, b, v, z[k], i)
      BY <1>3 DEF AllQueued
    <2>2. /\ i \in 1 .. Len(r) /\ SameRegisters(p, q, m, i, r, l, i)
          /\ Same(b, v, c, w, Source1(p, q, m, i))
          /\ Same(b, v, c, w, Source2(p, q, m, i))
      BY <1>2
    <2>3. QueuedFor(p, r, l, c, w, z[k], i)
      BY <2>1, <2>2, CarryQueued
    <2> QED
      BY <2>2, <2>3
  <1>4. ASSUME AllIssued(p, q, m, b, v, z), NEW k \in 1 .. Len(z)
        PROVE  \E i \in 1 .. Len(r) : IssuedFor(p, r, l, c, w, z[k], i)
    <2>1. PICK i \in 1 .. Len(q) : IssuedFor(p, q, m, b, v, z[k], i)
      BY <1>4 DEF AllIssued
    <2>2. /\ i \in 1 .. Len(r) /\ SameRegisters(p, q, m, i, r, l, i)
          /\ Known(b, v, c, w, Source1(p, q, m, i))
          /\ Known(b, v, c, w, Source2(p, q, m, i))
      BY <1>2
    <2>3. ~q[i].done
      BY <2>1 DEF IssuedFor
    <2>4. IssuedFor(p, r, l, c, w, z[k], i)
      BY <2>1, <2>2, <2>3, CarryIssued DEF SameRegisters
    <2> QED
      BY <2>2, <2>4
  <1> QED
    BY <1>3, <1>4 DEF AllQueued, AllIssued

-----------------------------------------------------------------------------
(* Observation of results *)

\* r is q after it has seen the results z: those entries are done and have the
\* exception of their result.
Observed(q, r, z) ==
    /\ Len(r) = Len(q)
    /\ \A i \in 1 .. Len(q) : r[i].pc = q[i].pc /\ r[i].ld = q[i].ld /\ r[i].old = q[i].old
    /\ \A i \in 1 .. Len(q) : ~Present(z, q[i].pc) => r[i] = q[i]
    /\ \A i \in 1 .. Len(q), k \in 1 .. Len(z) :
          z[k].pc = q[i].pc => r[i].done = TRUE /\ r[i].exception = z[k].exception

\* c and w are b and v after the delivery of the results z, but for those in s.
DeliveredTo(b, v, c, w, z, s) ==
    \A x \in PhysReg :
        \/ c[x] = FALSE /\ \E k \in 1 .. Len(z) : z[k].reg = x /\ z[k].pc \notin s /\ w[x] = z[k].val
        \/ (\A k \in 1 .. Len(z) : z[k].reg = x => z[k].pc \in s) /\ Same(b, v, c, w, x)

\* Nothing is delivered to a register that has a value.
LEMMA ObserveKnown ==
    ASSUME NEW p, NEW q, NEW m, NEW b, NEW v, Typing(p, q, m, b, v),
           Consistent(p, q, m, b, v),
           NEW z, AllForwarded(p, q, m, b, v, z),
           NEW c, NEW w, NEW s, DeliveredTo(b, v, c, w, z, s),
           NEW x \in PhysReg
    PROVE  Known(b, v, c, w, x)
  <1>1. ASSUME NEW k \in 1 .. Len(z), z[k].reg = x PROVE b[x]
    <2>1. PICK i \in 1 .. Len(q) : ForwardedFor(p, q, m, b, v, z[k], i)
      BY DEF AllForwarded
    <2>2. ~q[i].done /\ x = Dest(q, m, i)
      BY <1>1, <2>1 DEF ForwardedFor
    <2> QED
      BY <2>2 DEF Consistent, EntryOK
  <1>2. CASE Same(b, v, c, w, x)
    BY <1>2 DEF Same, Known
  <1>3. CASE \E k \in 1 .. Len(z) : z[k].reg = x
    BY <1>1, <1>3 DEF Known
  <1> QED
    BY <1>2, <1>3 DEF DeliveredTo

\* The Active List is as consistent with what was delivered as it was before.
LEMMA ObserveConsistent ==
    ASSUME NEW p, NEW q, NEW m, NEW b, NEW v, Typing(p, q, m, b, v), InUseOnce(q, m),
           Consistent(p, q, m, b, v), OneEach(q),
           NEW z, AllForwarded(p, q, m, b, v, z), OneEach(z),
           NEW r, Observed(q, r, z),
           NEW c \in [PhysReg -> BOOLEAN], NEW w, NEW s, DeliveredTo(b, v, c, w, z, s),
           \A k \in 1 .. Len(z) : z[k].pc \in s => z[k].pc = q[1].pc /\ r[1].exception
    PROVE  Consistent(p, r, m, c, w)
  <1>1. q \in Seq(ActiveListEntry) /\ Len(q) \in Nat /\ Len(r) = Len(q)
    BY DEF Typing, Observed
  <1>2. \A i \in 1 .. Len(q) : q[i].ld \in LogReg
    <2> SUFFICES ASSUME NEW i \in 1 .. Len(q) PROVE q[i].ld \in LogReg
      OBVIOUS
    <2>1. q[i] \in ActiveListEntry
      BY <1>1
    <2> QED
      BY <2>1 DEF ActiveListEntry
  <1>3. \A i \in 1 .. Len(q) : EntryOK(p, q, m, b, v, i) /\ q[i].pc < Len(p)
    BY DEF Consistent, EntryOK
  <1>4. ASSUME NEW i \in 1 .. Len(q), NEW k \in 1 .. Len(z),
               z[k].reg = Dest(q, m, i) \/ z[k].pc = q[i].pc
        PROVE  ForwardedFor(p, q, m, b, v, z[k], i)
    <2>1. PICK j \in 1 .. Len(q) : ForwardedFor(p, q, m, b, v, z[k], j)
      BY DEF AllForwarded
    <2>2. z[k].reg = Dest(q, m, j) /\ z[k].pc = q[j].pc
      BY <2>1 DEF ForwardedFor
    <2>3. CASE Dest(q, m, i) = Dest(q, m, j)
      <3>1. i = j
        BY <1>1, <1>2, <2>3, DestinationsDiffer
      <3> QED
        BY <2>1, <3>1
    <2>4. CASE q[i].pc = q[j].pc
      <3>1. i = j
        BY <2>4 DEF OneEach
      <3> QED
        BY <2>1, <3>1
    <2> QED
      BY <1>4, <2>2, <2>3, <2>4
  <1>5. ASSUME NEW i \in 1 .. Len(q) PROVE EntryOK(p, r, m, c, w, i)
    <2> DEFINE d == Dest(q, m, i)
    <2>1. /\ InstructionAt(p, r, i) = InstructionAt(p, q, i)
          /\ Source1(p, r, m, i) = Source1(p, q, m, i)
          /\ Source2(p, r, m, i) = Source2(p, q, m, i)
          /\ Dest(r, m, i) = d
      BY <1>1, FlagRegisters, SMTT(30) DEF Observed
    <2>2. /\ Source1(p, q, m, i) \in PhysReg
          /\ Source2(p, q, m, i) \in PhysReg
          /\ d \in PhysReg
      BY <1>3, Registers
    <2>3. /\ Known(b, v, c, w, Source1(p, q, m, i))
          /\ Known(b, v, c, w, Source2(p, q, m, i))
          /\ Known(b, v, c, w, d)
      BY <2>2, ObserveKnown
    <2>4. /\ r[i].pc = q[i].pc /\ r[i].ld = q[i].ld
          /\ q[i].pc < Len(p) /\ q[i].ld = InstructionAt(p, q, i).dst
      BY <1>3 DEF Observed, EntryOK
    <2>5. Available(p, q, m, b, i) =>
             /\ Available(p, r, m, c, i)
             /\ Outcome(p, r, m, w, i) = Outcome(p, q, m, v, i)
             /\ Faulty(p, r, m, w, i) = Faulty(p, q, m, v, i)
      <3> SUFFICES ASSUME Available(p, q, m, b, i)
                   PROVE  /\ Available(p, r, m, c, i)
                          /\ Outcome(p, r, m, w, i) = Outcome(p, q, m, v, i)
                          /\ Faulty(p, r, m, w, i) = Faulty(p, q, m, v, i)
        OBVIOUS
      <3> HIDE DEF d
      <3> QED
        BY <2>1, <2>3, <2>4, CarryAvailable
    <2>6. \/ c[d] = FALSE /\ \E k \in 1 .. Len(z) :
                z[k].reg = d /\ z[k].pc \notin s /\ w[d] = z[k].val
          \/ (\A k \in 1 .. Len(z) : z[k].reg = d => z[k].pc \in s) /\ Same(b, v, c, w, d)
      BY <2>2 DEF DeliveredTo
    <2>7. CASE ~Present(z, q[i].pc)
      <3>1. r[i] = q[i]
        BY <2>7 DEF Observed
      <3>2. ASSUME NEW k \in 1 .. Len(z) PROVE z[k].reg # d
        <4>1. z[k].pc # q[i].pc
          BY <2>7 DEF Present
        <4> QED
          BY <1>4, <4>1 DEF ForwardedFor
      <3>3. Same(b, v, c, w, d)
        BY <2>6, <3>2
      <3>4. EntryOK(p, q, m, b, v, i)
        BY <1>3
      <3> HIDE DEF d
      <3>5. /\ ~q[i].done => b[d] /\ ~q[i].exception
            /\ q[i].done =>
                  /\ Available(p, q, m, b, i)
                  /\ q[i].exception <=> Faulty(p, q, m, v, i)
                  /\ b[d] => i = 1 /\ q[i].exception
                  /\ ~b[d] => v[d] = Outcome(p, q, m, v, i)
        BY <3>4 DEF EntryOK, d
      <3> QED
        BY <2>1, <2>4, <2>5, <3>1, <3>3, <3>5 DEF EntryOK, Same
    <2>8. CASE Present(z, q[i].pc)
      <3>1. PICK k \in 1 .. Len(z) : z[k].pc = q[i].pc
        BY <2>8 DEF Present
      <3>2. r[i].done = TRUE /\ r[i].exception = z[k].exception
        BY <3>1 DEF Observed
      <3>3. ForwardedFor(p, q, m, b, v, z[k], i)
        BY <1>4, <3>1
      <3>4. /\ Available(p, q, m, b, i) /\ ~q[i].done /\ z[k].reg = d
            /\ z[k].val = Outcome(p, q, m, v, i)
            /\ z[k].exception <=> Faulty(p, q, m, v, i)
        BY <3>3 DEF ForwardedFor
      <3>5. ASSUME NEW h \in 1 .. Len(z), z[h].reg = d PROVE h = k
        <4>1. ForwardedFor(p, q, m, b, v, z[h], i)
          BY <1>4, <3>5
        <4>2. z[h].pc = z[k].pc
          BY <3>1, <4>1 DEF ForwardedFor
        <4> QED
          BY <4>2 DEF OneEach
      <3>6. b[d]
        BY <1>3, <3>4 DEF EntryOK
      <3> HIDE DEF d
      <3>7. \/ c[d] = FALSE /\ w[d] = z[k].val
            \/ c[d] /\ z[k].pc \in s
        BY <2>6, <3>4, <3>5, <3>6 DEF Same
      <3>8. c[d] => i = 1 /\ r[i].exception
        <4> SUFFICES ASSUME c[d] PROVE i = 1 /\ r[i].exception
          OBVIOUS
        <4>1. z[k].pc = q[1].pc /\ r[1].exception
          BY <3>7
        <4>2. i = 1
          <5>1. 1 \in 1 .. Len(q) /\ q[i].pc = q[1].pc
            BY <1>1, <3>1, <4>1
          <5> QED
            BY <5>1 DEF OneEach
        <4> QED
          BY <4>1, <4>2
      <3>9. /\ r[i].exception <=> Faulty(p, r, m, w, i)
            /\ Available(p, r, m, c, i)
            /\ ~c[d] => w[d] = Outcome(p, r, m, w, i)
        BY <2>5, <3>2, <3>4, <3>7
      <3> QED
        BY <2>1, <2>4, <3>2, <3>8, <3>9 DEF EntryOK
    <2> QED
      BY <2>7, <2>8
  <1>6. ASSUME NEW x \in PhysReg, c[x] PROVE \E i \in 1 .. Len(r) : x = Dest(r, m, i)
    <2>1. b[x]
      BY <1>6 DEF DeliveredTo, Same
    <2>2. PICK i \in 1 .. Len(q) : x = Dest(q, m, i)
      BY <2>1 DEF Consistent
    <2>3. /\ InstructionAt(p, r, i) = InstructionAt(p, q, i)
          /\ Source1(p, r, m, i) = Source1(p, q, m, i)
          /\ Source2(p, r, m, i) = Source2(p, q, m, i)
          /\ Dest(r, m, i) = Dest(q, m, i)
      BY <1>1, FlagRegisters DEF Observed
    <2> QED
      BY <1>1, <2>2, <2>3
  <1> QED
    BY <1>1, <1>5, <1>6 DEF Consistent

\* What has no result among those observed waits or executes as before; the operands
\* of an issued instruction are those it has been issued with.
LEMMA ObserveHeld ==
    ASSUME NEW p, NEW q, NEW m, NEW b, NEW v, Typing(p, q, m, b, v),
           Consistent(p, q, m, b, v),
           NEW z, AllForwarded(p, q, m, b, v, z),
           NEW r, Observed(q, r, z),
           NEW c, NEW w, NEW s, DeliveredTo(b, v, c, w, z, s),
           NEW y, Apart(y, z)
    PROVE  /\ AllQueued(p, q, m, b, v, y) => AllQueued(p, r, m, b, v, y)
           /\ AllIssued(p, q, m, b, v, y) => AllIssued(p, r, m, c, w, y)
  <1>1. Len(q) \in Nat /\ Len(r) = Len(q)
    BY DEF Typing, Observed
  <1>2. ASSUME NEW i \in 1 .. Len(q)
        PROVE  /\ i \in 1 .. Len(r)
               /\ InstructionAt(p, r, i) = InstructionAt(p, q, i)
               /\ Source1(p, r, m, i) = Source1(p, q, m, i)
               /\ Source2(p, r, m, i) = Source2(p, q, m, i)
               /\ Dest(r, m, i) = Dest(q, m, i)
               /\ Known(b, v, c, w, Source1(p, q, m, i))
               /\ Known(b, v, c, w, Source2(p, q, m, i))
    <2>1. /\ InstructionAt(p, r, i) = InstructionAt(p, q, i)
          /\ Source1(p, r, m, i) = Source1(p, q, m, i)
          /\ Source2(p, r, m, i) = Source2(p, q, m, i)
          /\ Dest(r, m, i) = Dest(q, m, i)
      BY <1>1, FlagRegisters DEF Observed
    <2>2. q[i].pc < Len(p)
      BY DEF Consistent, EntryOK
    <2>3. Source1(p, q, m, i) \in PhysReg /\ Source2(p, q, m, i) \in PhysReg
      BY <2>2, Registers
    <2>4. Known(b, v, c, w, Source1(p, q, m, i)) /\ Known(b, v, c, w, Source2(p, q, m, i))
      BY <2>3, ObserveKnown
    <2> QED
      BY <1>1, <2>1, <2>4
  <1>3. ASSUME NEW i \in 1 .. Len(q), NEW k \in 1 .. Len(y), y[k].pc = q[i].pc
        PROVE  r[i] = q[i]
    <2>1. ~Present(z, q[i].pc)
      BY <1>3 DEF Apart, Present
    <2> QED
      BY <2>1 DEF Observed
  <1>4. ASSUME AllQueued(p, q, m, b, v, y), NEW k \in 1 .. Len(y)
        PROVE  \E i \in 1 .. Len(r) : QueuedFor(p, r, m, b, v, y[k], i)
    <2>1. PICK i \in 1 .. Len(q) : QueuedFor(p, q, m, b, v, y[k], i)
      BY <1>4 DEF AllQueued
    <2>2. r[i] = q[i]
      BY <1>3, <2>1 DEF QueuedFor
    <2>3. QueuedFor(p, r, m, b, v, y[k], i)
      BY <1>2, <2>1, <2>2 DEF QueuedFor
    <2> QED
      BY <1>2, <2>3
  <1>5. ASSUME AllIssued(p, q, m, b, v, y), NEW k \in 1 .. Len(y)
        PROVE  \E i \in 1 .. Len(r) : IssuedFor(p, r, m, c, w, y[k], i)
    <2>1. PICK i \in 1 .. Len(q) : IssuedFor(p, q, m, b, v, y[k], i)
      BY <1>5 DEF AllIssued
    <2>2. r[i] = q[i] /\ ~q[i].done
      BY <1>3, <2>1 DEF IssuedFor
    <2>3. /\ i \in 1 .. Len(r)
          /\ r[i].pc = q[i].pc /\ ~r[i].done
          /\ Source1(p, r, m, i) = Source1(p, q, m, i)
          /\ Source2(p, r, m, i) = Source2(p, q, m, i)
          /\ Dest(r, m, i) = Dest(q, m, i)
          /\ Known(b, v, c, w, Source1(p, q, m, i))
          /\ Known(b, v, c, w, Source2(p, q, m, i))
      BY <1>2, <2>2
    <2>4. IssuedFor(p, r, m, c, w, y[k], i)
      BY <2>1, <2>3, CarryIssued
    <2> QED
      BY <2>3, <2>4
  <1> QED
    BY <1>4, <1>5 DEF AllQueued, AllIssued

-----------------------------------------------------------------------------
(* The Integer Queue and the ALUs *)

\* A delivered value reaches the operands that wait for it and no others.
LEMMA WakeUpEntry ==
    ASSUME TypeOK, NEW i \in 1 .. Len(al), al[i].pc < Len(prog),
           \A k \in 1 .. Len(ctx.fwd) : busy[ctx.fwd[k].reg],
           NEW c, \A x \in PhysReg : c[x] = IF Delivered(x) # {} THEN FALSE ELSE busy[x],
           NEW w, \A x \in PhysReg :
                    w[x] = IF Delivered(x) # {} THEN ForwardedValue(x) ELSE prf[x],
           NEW e \in IntegerQueueEntry, QueuedFor(prog, al, map, busy, prf, e, i)
    PROVE  QueuedFor(prog, al, map, c, w, WokenUp(e), i)
  <1> DEFINE a == ~e.aReady /\ Delivered(e.aTag) # {}
             b == ~e.bReady /\ Delivered(e.bTag) # {}
             u == WokenUp(e)
             i1 == InstructionAt(prog, al, i)
             x1 == Source1(prog, al, map, i)
             x2 == Source2(prog, al, map, i)
  <1>1. Typing(prog, al, map, busy, prf)
    BY ProgramAssumption DEF TypeOK, Typing
  <1>2. /\ Source1(prog, al, map, i) \in PhysReg
        /\ Source2(prog, al, map, i) \in PhysReg
    BY <1>1, Registers
  <1>3. /\ u.pc = e.pc /\ u.op = e.op /\ u.dst = e.dst /\ u.aTag = e.aTag /\ u.bTag = e.bTag
        /\ u.aReady = (e.aReady \/ a) /\ u.bReady = (e.bReady \/ b)
        /\ u.aVal = IF a THEN ForwardedValue(e.aTag) ELSE e.aVal
        /\ u.bVal = IF b THEN ForwardedValue(e.bTag) ELSE e.bVal
    BY DEF WokenUp, IntegerQueueEntry
  <1>4. ASSUME NEW x \in PhysReg, Delivered(x) # {} PROVE busy[x]
    <2>1. PICK k \in DOMAIN ctx.fwd : ctx.fwd[k].reg = x
      BY <1>4 DEF Delivered
    <2>2. k \in 1 .. Len(ctx.fwd)
      BY <2>1 DEF TypeOK, Signals
    <2> QED
      BY <2>1, <2>2
  <1>5. /\ e.pc = al[i].pc /\ ~al[i].done
        /\ e.dst = Dest(al, map, i) /\ e.op = i1.op
        /\ e.aTag = x1
        /\ e.aReady <=> ~busy[x1]
        /\ e.aReady => e.aVal = prf[x1]
        /\ i1.useImm => e.bReady /\ e.bVal = i1.imm
        /\ ~i1.useImm =>
              /\ e.bTag = x2
              /\ e.bReady <=> ~busy[x2]
              /\ e.bReady => e.bVal = prf[x2]
    BY DEF QueuedFor
  <1>6. x1 \in PhysReg /\ x2 \in PhysReg
    BY <1>2
  <1>7. e.aReady \in BOOLEAN /\ e.bReady \in BOOLEAN /\ busy \in [PhysReg -> BOOLEAN]
    BY DEF IntegerQueueEntry, TypeOK
  <1> HIDE DEF u, i1, x1, x2
  <1>8. /\ u.aReady <=> ~c[x1]
        /\ u.aReady => u.aVal = w[x1]
    <2>1. CASE Delivered(x1) # {}
      BY <1>3, <1>4, <1>5, <1>6, <2>1
    <2>2. CASE Delivered(x1) = {}
      BY <1>3, <1>5, <1>6, <2>2
    <2> QED
      BY <2>1, <2>2
  <1>9. i1.useImm => u.bReady /\ u.bVal = i1.imm
    BY <1>3, <1>5
  <1>10. ~i1.useImm => /\ u.bReady <=> ~c[x2]
                       /\ u.bReady => u.bVal = w[x2]
    <2>1. CASE Delivered(x2) # {}
      BY <1>3, <1>4, <1>5, <1>6, <2>1, ZenonT(30)
    <2>2. CASE Delivered(x2) = {}
      BY <1>3, <1>5, <1>6, <2>2
    <2> QED
      BY <2>1, <2>2
  <1>11. /\ u.pc = al[i].pc /\ u.dst = Dest(al, map, i) /\ u.op = i1.op /\ u.aTag = x1
         /\ ~i1.useImm => u.bTag = x2
    BY <1>3, <1>5
  <1> QED
    BY <1>5, <1>8, <1>9, <1>10, <1>11 DEF QueuedFor, u, i1, x1, x2

\* A ready entry goes to an ALU with the values of its registers.
LEMMA IssueEntry ==
    ASSUME NEW p, NEW q, NEW m, NEW b, NEW v, NEW i, NEW e,
           QueuedFor(p, q, m, b, v, e, i), Ready(e)
    PROVE  IssuedFor(p, q, m, b, v,
                     [op |-> e.op, a |-> e.aVal, b |-> e.bVal, dst |-> e.dst, pc |-> e.pc], i)
  <1> DEFINE f == [op |-> e.op, a |-> e.aVal, b |-> e.bVal, dst |-> e.dst, pc |-> e.pc]
  <1>1. f.op = e.op /\ f.a = e.aVal /\ f.b = e.bVal /\ f.dst = e.dst /\ f.pc = e.pc
    OBVIOUS
  <1> HIDE DEF f
  <1>2. Available(p, q, m, b, i) /\ e.bVal = Operand2(p, q, m, v, i)
    BY DEF QueuedFor, Ready, Available, Operand2
  <1>3. IssuedFor(p, q, m, b, v, f, i)
    BY <1>1, <1>2 DEF QueuedFor, Ready, IssuedFor
  <1> QED
    BY <1>3 DEF f

\* Its result is the outcome of the instruction.
LEMMA ResultEntry ==
    ASSUME NEW p, NEW q, NEW m, NEW b, NEW v, NEW i, NEW e,
           IssuedFor(p, q, m, b, v, e, i)
    PROVE  ForwardedFor(p, q, m, b, v, ResultOf(e), i)
  BY DEF IssuedFor, ForwardedFor, ResultOf, Outcome, Faulty

-----------------------------------------------------------------------------
(* What the invariants say of a state *)

\* Types of the state, of what is missing and of the values.
LEMMA StateTypes ==
    ASSUME IInv
    PROVE  /\ TypeOK /\ prog \in Seq(Instruction)
           /\ n \in Nat /\ pc \in Nat /\ curr \in Latched /\ ctx \in Signals
           /\ al \in Seq(ActiveListEntry) /\ iq \in Seq(IntegerQueueEntry)
           /\ s1 \in Seq(IssuedInstruction) /\ s2 \in Seq(IssuedInstruction)
           /\ ctx.fwd \in Seq(ForwardingResult)
           /\ curr.dir \in Seq(Nat) /\ dir \in Seq(Nat) /\ curr.al \in Seq(ActiveListEntry)
           /\ fl \in Seq(PhysReg) /\ map \in [LogReg -> PhysReg]
           /\ busy \in [PhysReg -> BOOLEAN] /\ prf \in [PhysReg -> Word]
           /\ Missing \in [PhysReg -> BOOLEAN] /\ Values \in [PhysReg -> Word]
           /\ Typing(prog, al, map, busy, prf) /\ Typing(prog, al, map, Missing, Values)
           /\ InUseOnce(al, map)
  <1>1. /\ TypeOK /\ prog \in Seq(Instruction)
        /\ n \in Nat /\ pc \in Nat /\ curr \in Latched /\ ctx \in Signals
        /\ al \in Seq(ActiveListEntry) /\ iq \in Seq(IntegerQueueEntry)
        /\ s1 \in Seq(IssuedInstruction) /\ s2 \in Seq(IssuedInstruction)
        /\ dir \in Seq(Nat) /\ fl \in Seq(PhysReg) /\ map \in [LogReg -> PhysReg]
        /\ busy \in [PhysReg -> BOOLEAN] /\ prf \in [PhysReg -> Word]
    BY ProgramAssumption DEF IInv, TypeOK
  <1>2. /\ ctx.fwd \in Seq(ForwardingResult)
        /\ curr.dir \in Seq(Nat) /\ curr.al \in Seq(ActiveListEntry)
    BY <1>1 DEF Signals, Latched
  <1>3. Missing \in [PhysReg -> BOOLEAN]
    BY <1>1 DEF Missing
  <1>4. Values \in [PhysReg -> Word]
    BY <1>1, ForwardedType DEF Values
  <1>5. Typing(prog, al, map, busy, prf) /\ Typing(prog, al, map, Missing, Values)
    BY <1>1, <1>3, <1>4 DEF Typing
  <1>6. InUseOnce(al, map)
    BY PartitionApart DEF IInv
  <1> QED
    BY <1>1, <1>2, <1>3, <1>4, <1>5, <1>6

\* The addresses in the Active List differ.
LEMMA OrderedOnce ==
    ASSUME IInv, Order
    PROVE  OneEach(al)
  <1>1. al \in Seq(ActiveListEntry) /\ \A i \in 1 .. Len(al) : al[i].pc \in Nat
    <2>1. al \in Seq(ActiveListEntry)
      BY StateTypes
    <2>2. ASSUME NEW i \in 1 .. Len(al) PROVE al[i].pc \in Nat
      <3>1. al[i] \in ActiveListEntry
        BY <2>1
      <3> QED
        BY <3>1 DEF ActiveListEntry
    <2> QED
      BY <2>1, <2>2
  <1>2. Remaining \in Int /\ pc \in Nat /\ Len(al) \in Nat
    BY StateTypes DEF Remaining
  <1>3. \A i \in 1 .. Len(al) : al[i].pc + Len(al) + Remaining + 1 = pc + i
    BY DEF Order
  <1>4. ASSUME NEW i \in 1 .. Len(al), NEW j \in 1 .. Len(al), al[i].pc = al[j].pc
        PROVE  i = j
    <2>1. /\ al[i].pc + Len(al) + Remaining + 1 = pc + i
          /\ al[j].pc + Len(al) + Remaining + 1 = pc + j
      BY <1>3
    <2> QED
      BY <1>1, <1>2, <1>4, <2>1
  <1> QED
    BY <1>4 DEF OneEach

\* Where nothing is being delivered, the busy bits and the register file are all
\* there is to it.
LEMMA NotBypassing ==
    ASSUME busy \in [PhysReg -> BOOLEAN], prf \in [PhysReg -> Word], ~Bypassing
    PROVE  Missing = busy /\ Values = prf
  BY DEF Missing, Values

\* The step changes neither the registers nor what is delivered.
SameView == Missing' = Missing /\ Values' = Values

\* A step that leaves the registers, and what is being delivered, leaves the view of them.
LEMMA ViewKept ==
    ASSUME UNCHANGED <<busy, prf>>, Bypassing' <=> Bypassing,
           Bypassing => ctx' = ctx
    PROVE  SameView
  <1>1. CASE Bypassing
    <2>1. \A r : Delivered(r)' = Delivered(r)
      BY <1>1 DEF Delivered
    <2>2. \A r : ForwardedValue(r)' = ForwardedValue(r)
      BY <1>1, <2>1 DEF ForwardedValue
    <2> QED
      BY <1>1, <2>1, <2>2 DEF SameView, Missing, Values
  <1>2. CASE ~Bypassing
    BY <1>2 DEF SameView, Missing, Values
  <1> QED
    BY <1>1, <1>2

\* A step that moves no instruction and delivers nothing leaves what is in flight
\* as it was.
LEMMA QuietStep ==
    ASSUME Normal, SameView,
           UNCHANGED <<prog, al, map, iq, s1, s2>>,
           QueueMissing' = QueueMissing, QueueValues' = QueueValues, Results' = Results,
           NextAddress' = NextAddress
    PROVE  InFlightOK' /\ Once' /\ Covered' /\ FirstInstruction'
  <1>1. /\ InFlightOK /\ Once /\ Covered /\ FirstInstruction
        /\ Missing' = Missing /\ Values' = Values
    BY DEF Normal, SameView
  <1>2. InFlightOK'
    BY <1>1 DEF InFlightOK
  <1>3. Once' /\ Covered'
    BY <1>1 DEF Once, Covered
  <1>4. FirstInstruction'
    BY <1>1 DEF FirstInstruction
  <1> QED
    BY <1>2, <1>3, <1>4

-----------------------------------------------------------------------------
(* Without an exception: the steps that leave the registers alone *)

\* Results leave the ALUs; nothing is delivered yet.
LEMMA NormalExecute ==
    ASSUME IInv, Normal, Execute
    PROVE  Normal'
  <1>1. /\ step = "execution" /\ step' = "commit" /\ n' = 0
        /\ s2' = s1 /\ s1' = <<>>
        /\ ctx' = [ctx EXCEPT !.fwd = [i \in 1 .. Len(s2) |-> ResultOf(s2[i])]]
        /\ UNCHANGED <<prog, curr, pc, dir, exc, excPC, map, prf, busy, fl, al, iq>>
    BY DEF Execute, frontEnd, excState, regState, queues
  <1>2. ctx'.fwd = [i \in 1 .. Len(s2) |-> ResultOf(s2[i])] /\ ctx'.req = ctx.req
    BY <1>1, StateTypes DEF Signals
  <1>3. SameView
    BY <1>1, ViewKept DEF Bypassing
  <1>4. /\ QueueMissing' = QueueMissing /\ QueueValues' = QueueValues
        /\ Results = <<>> /\ Results' = ctx'.fwd
        /\ Remaining' = Remaining /\ NextAddress' = NextAddress
    BY <1>1, <1>3 DEF SameView, QueueMissing, QueueValues, BeforeWakeUp, Results,
                      Remaining, NextAddress
  <1>5. Len(s2) \in Nat /\ Len(Results') = Len(s2)
        /\ \A k \in 1 .. Len(s2) : Results'[k] = ResultOf(s2[k])
    BY <1>2, <1>4, StateTypes
  <1>6. NoException' /\ FrontEnd'
    <2>1. curr.al = al /\ curr.dir = dir
      BY <1>1 DEF IInv, ControlInv
    <2>2. Len(al) \in Nat
      BY StateTypes
    <2> QED
      BY <1>1, <1>2, <2>1, <2>2 DEF Normal, NoException, FrontEnd
  <1>7. Order' /\ FirstInstruction' /\ ResultsAwaited'
    BY <1>1, <1>3, <1>4 DEF Normal, Order, FirstInstruction, SameView, ResultsAwaited, Bypassing
  <1>8. InFlightOK'
    <2>1. /\ Consistent(prog, al, map, Missing, Values)
          /\ AllQueued(prog, al, map, QueueMissing, QueueValues, iq)
          /\ AllIssued(prog, al, map, Missing, Values, s1)
          /\ AllIssued(prog, al, map, Missing, Values, s2)
      BY DEF Normal, InFlightOK
    <2>2. AllForwarded(prog, al, map, Missing, Values, Results')
      <3> SUFFICES ASSUME NEW k \in 1 .. Len(s2)
                   PROVE  \E i \in 1 .. Len(al) :
                             ForwardedFor(prog, al, map, Missing, Values, Results'[k], i)
        BY <1>5 DEF AllForwarded
      <3>1. PICK i \in 1 .. Len(al) : IssuedFor(prog, al, map, Missing, Values, s2[k], i)
        BY <2>1 DEF AllIssued
      <3>2. ForwardedFor(prog, al, map, Missing, Values, ResultOf(s2[k]), i)
        BY <3>1, ResultEntry
      <3> QED
        BY <1>5, <3>2
    <2>3. AllIssued(prog, al, map, Missing, Values, s1')
      BY <1>1 DEF AllIssued
    <2> QED
      BY <1>1, <1>3, <1>4, <2>1, <2>2, <2>3 DEF InFlightOK, SameView
  <1>9. ASSUME NEW k \in 1 .. Len(s2) PROVE Results'[k].pc = s2[k].pc
    <2>1. Results'[k] = ResultOf(s2[k])
      BY <1>5
    <2> QED
      BY <2>1 DEF ResultOf
  <1>10. Once'
    <2>1. /\ OneEach(iq) /\ OneEach(s1) /\ OneEach(s2)
          /\ Apart(iq, s1) /\ Apart(iq, s2) /\ Apart(s1, s2)
      BY DEF Normal, Once
    <2>2. OneEach(Results') /\ Apart(iq, Results') /\ Apart(s1, Results')
      BY <1>5, <1>9, <2>1 DEF OneEach, Apart
    <2>3. /\ OneEach(<<>>) /\ Apart(iq, <<>>) /\ Apart(<<>>, s1) /\ Apart(<<>>, Results')
      BY DEF OneEach, Apart
    <2> QED
      BY <1>1, <2>1, <2>2, <2>3 DEF Once
  <1>11. Covered'
    <2> SUFFICES ASSUME NEW i \in 1 .. Len(al), ~al[i].done
                 PROVE  \/ Present(iq, al[i].pc) \/ Present(s1, al[i].pc)
                        \/ Present(Results', al[i].pc)
      BY <1>1 DEF Covered
    <2>1. \/ Present(iq, al[i].pc) \/ Present(s1, al[i].pc) \/ Present(s2, al[i].pc)
          \/ Present(<<>>, al[i].pc)
      BY <1>4 DEF Normal, Covered
    <2>2. ~Present(<<>>, al[i].pc)
      BY DEF Present
    <2>3. Present(s2, al[i].pc) => Present(Results', al[i].pc)
      BY <1>5, <1>9 DEF Present
    <2> QED
      BY <2>1, <2>2, <2>3
  <1> QED
    BY <1>6, <1>7, <1>8, <1>10, <1>11 DEF Normal

\* The ALUs are not reset, an issue stage that is done, a halted bundle.
LEMMA NormalQuiet ==
    ASSUME IInv, Normal, ResetExecution \/ IssueEnd \/ DispatchEnd \/ FetchStalled
    PROVE  Normal'
  <1>0. ctx.req = {} /\ Remaining \in Int
    BY StateTypes DEF Normal, NoException, Remaining
  <1>1. UNCHANGED <<prog, curr, pc, exc, excPC, map, prf, busy, fl, al, iq, s1, s2, ctx>>
    <2>1. CASE ResetExecution
      BY <1>0, <2>1 DEF ResetExecution, frontEnd, excState, regState, queues, alus
    <2>2. CASE IssueEnd \/ DispatchEnd \/ FetchStalled
      BY <2>2 DEF IssueEnd, DispatchEnd, FetchStalled, frontEnd, excState, regState, queues, alus
    <2> QED
      BY <2>1, <2>2
  <1>2. \/ step = "control" /\ step' = "issue" /\ dir' = dir
        \/ step = "select" /\ step' = "rename" /\ dir' = dir
        \/ step = "dispatch" /\ step' = "fetch" /\ dir' = <<>> /\ n = Len(curr.dir)
        \/ step = "fetch" /\ step' = "latch" /\ dir' = dir
    BY DEF ResetExecution, IssueEnd, DispatchEnd, FetchStalled, frontEnd
  <1>3. Bypassing' <=> Bypassing
    BY <1>2 DEF Bypassing
  <1>4. SameView
    BY <1>1, <1>3, ViewKept
  <1>5. /\ QueueMissing' = QueueMissing /\ QueueValues' = QueueValues /\ Results' = Results
    BY <1>1, <1>2, <1>4 DEF SameView, QueueMissing, QueueValues, BeforeWakeUp, Results
  <1>6. Remaining' = Remaining
    <2>1. step = "dispatch" => curr.dir = dir /\ Len(dir) \in Nat
      BY StateTypes DEF Normal, FrontEnd
    <2> QED
      BY <1>2, <2>1 DEF Remaining
  <1>7. NextAddress' = NextAddress
    BY <1>1, <1>6 DEF NextAddress
  <1>8. InFlightOK' /\ Once' /\ Covered' /\ FirstInstruction'
    BY <1>1, <1>4, <1>5, <1>7, QuietStep
  <1>9. NoException' /\ ResultsAwaited'
    BY <1>1, <1>3 DEF Normal, NoException, ResultsAwaited
  <1>10. FrontEnd'
    BY <1>1, <1>2 DEF Normal, FrontEnd
  <1>11. Order'
    BY <1>1, <1>2, <1>6 DEF Normal, Order
  <1> QED
    BY <1>8, <1>9, <1>10, <1>11 DEF Normal

\* Fetch adds a bundle that follows the DIR's; it was empty.
LEMMA NormalFetch ==
    ASSUME IInv, Normal, FetchAndDecode
    PROVE  Normal'
  <1>1. /\ step = "fetch" /\ step' = "latch" /\ ~ctx.backpressure
        /\ dir' = FetchBundle(curr.pc) /\ pc' = pc + Len(FetchBundle(curr.pc))
        /\ UNCHANGED <<prog, n, curr, exc, excPC, map, prf, busy, fl, al, iq, s1, s2, ctx>>
    BY DEF FetchAndDecode, excState, regState, queues, alus
  <1>2. dir = <<>> /\ curr.pc = pc
    BY <1>1 DEF Normal, FrontEnd
  <1>3. SameView
    BY <1>1, ViewKept DEF Bypassing
  <1>4. /\ QueueMissing' = QueueMissing /\ QueueValues' = QueueValues /\ Results' = Results
    BY <1>1, <1>3 DEF SameView, QueueMissing, QueueValues, BeforeWakeUp, Results
  <1>5. /\ pc \in Nat /\ Len(al) \in Nat /\ Len(dir') \in Nat
        /\ Remaining = 0 /\ Remaining' = Len(dir') /\ pc' = pc + Len(dir')
    <2>1. dir' \in Seq(Nat)
      BY <1>1, <1>2, StateTypes, BundleType
    <2>2. Remaining = 0 /\ Remaining' = Len(dir')
      BY <1>1, <1>2 DEF Remaining
    <2> QED
      BY <1>1, <2>1, <2>2, StateTypes
  <1>6. NextAddress' = NextAddress
    BY <1>1, <1>5 DEF NextAddress
  <1>7. InFlightOK' /\ Once' /\ Covered' /\ FirstInstruction'
    BY <1>1, <1>3, <1>4, <1>6, QuietStep
  <1>8. NoException' /\ ResultsAwaited' /\ FrontEnd'
    BY <1>1 DEF Normal, NoException, ResultsAwaited, FrontEnd, Bypassing
  <1>9. Order'
    <2>1. ASSUME NEW i \in 1 .. Len(al) PROVE al'[i].pc + Len(al') + Remaining' + 1 = pc' + i
      <3>1. al[i].pc \in Nat
        <4>1. al[i] \in ActiveListEntry
          BY StateTypes
        <4> QED
          BY <4>1 DEF ActiveListEntry
      <3>2. al[i].pc + Len(al) + Remaining + 1 = pc + i
        BY DEF Normal, Order
      <3>3. al[i].pc + Len(al) + Remaining' + 1 = (pc + Len(dir')) + i
        <4>1. al[i].pc + Len(al) + 1 = pc + i /\ i \in Nat
          BY <1>5, <3>1, <3>2
        <4>2. al[i].pc + Len(al) + Len(dir') + 1 = (pc + Len(dir')) + i
          <5> DEFINE x == al[i].pc
                     y == Len(al)
                     z == Len(dir')
          <5>1. x \in Nat /\ y \in Nat /\ z \in Nat /\ pc \in Nat /\ i \in Nat
                /\ x + y + 1 = pc + i
            BY <1>5, <3>1, <4>1
          <5> HIDE DEF x, y, z
          <5>2. x + y + z + 1 = (pc + z) + i
            BY <5>1
          <5> QED
            BY <5>2 DEF x, y, z
        <4> QED
          BY <1>5, <4>2
      <3> QED
        BY <1>1, <1>5, <3>3
    <2>2. ASSUME NEW j \in 1 .. Len(dir') PROVE dir'[j] + Len(dir') + 1 = pc' + j
      <3>1. dir'[j] = pc + j - 1
        <4>1. dir' \in Seq(Nat)
          BY <1>1, <1>2, StateTypes, BundleType
        <4>2. j \in DOMAIN dir'
          BY <4>1
        <4> QED
          BY <1>1, <1>2, <4>2 DEF FetchBundle
      <3> QED
        BY <1>5, <3>1
    <2> QED
      BY <1>1, <2>1, <2>2 DEF Order
  <1> QED
    BY <1>7, <1>8, <1>9 DEF Normal

\* The latch.
LEMMA NormalLatch ==
    ASSUME IInv, Normal, Latch
    PROVE  Normal'
  <1>1. /\ step = "latch" /\ step' = "execution"
        /\ curr' = [pc |-> pc, dir |-> dir, exc |-> exc, al |-> al]
        /\ ctx' = NoSignals
        /\ UNCHANGED <<prog, n, pc, dir, exc, excPC, map, prf, busy, fl, al, iq, s1, s2>>
    BY DEF Latch, frontEnd, excState, regState, queues, alus
  <1>2. SameView
    BY <1>1, ViewKept DEF Bypassing
  <1>3. /\ QueueMissing' = QueueMissing /\ QueueValues' = QueueValues /\ Results' = Results
        /\ Remaining' = Remaining /\ NextAddress' = NextAddress
    BY <1>1, <1>2 DEF SameView, QueueMissing, QueueValues, BeforeWakeUp, Results,
                      Remaining, NextAddress
  <1>4. InFlightOK' /\ Once' /\ Covered' /\ FirstInstruction'
    BY <1>1, <1>2, <1>3, QuietStep
  <1>5. NoException' /\ ResultsAwaited' /\ FrontEnd' /\ Order'
    BY <1>1, <1>3 DEF Normal, NoException, ResultsAwaited, FrontEnd, Order, Bypassing, NoSignals
  <1> QED
    BY <1>4, <1>5 DEF Normal

\* Write-back makes what was on its way arrive: nothing is missing or has a value
\* that was not so already.
LEMMA NormalWriteBack ==
    ASSUME IInv, Normal, WriteBack
    PROVE  Normal'
  <1>1. /\ step = "rename" /\ step' \in {"dispatch", "fetch"} /\ n' = 0
        /\ prf' = [r \in PhysReg |->
                      IF Delivered(r) # {} THEN ForwardedValue(r) ELSE prf[r]]
        /\ busy' = [r \in PhysReg |-> busy[r] /\ Delivered(r) = {}]
        /\ ctx' = [ctx EXCEPT !.backpressure = curr.dir # <<>> /\ ~HasEnoughResources]
        /\ step' = "fetch" => curr.dir = <<>> \/ ~HasEnoughResources
        /\ UNCHANGED <<prog, curr, pc, dir, exc, excPC, map, fl, al, iq, s1, s2>>
    BY DEF WriteBack, frontEnd, excState, queues, alus
  <1>2. /\ ctx'.req = ctx.req
        /\ ctx'.backpressure = (curr.dir # <<>> /\ ~HasEnoughResources)
    BY <1>1, StateTypes DEF Signals
  <1>3. /\ Missing = [r \in PhysReg |-> IF Delivered(r) # {} THEN FALSE ELSE busy[r]]
        /\ Values = [r \in PhysReg |->
                        IF Delivered(r) # {} THEN ForwardedValue(r) ELSE prf[r]]
    BY <1>1 DEF Missing, Values, Bypassing
  <1>4. /\ Missing' = [r \in PhysReg |-> busy'[r]] /\ Values' = [r \in PhysReg |-> prf'[r]]
    BY <1>1 DEF Missing, Values, Bypassing
  <1>5. SameView
    <2>1. ASSUME NEW r \in PhysReg PROVE busy'[r] = Missing[r] /\ prf'[r] = Values[r]
      <3>1. busy[r] \in BOOLEAN
        BY StateTypes
      <3>2. busy'[r] = (busy[r] /\ Delivered(r) = {})
        BY <1>1
      <3>3. Missing[r] = IF Delivered(r) # {} THEN FALSE ELSE busy[r]
        BY <1>3
      <3> QED
        BY <1>1, <1>3, <3>1, <3>2, <3>3
    <2> QED
      BY <1>3, <1>4, <2>1 DEF SameView
  <1>6. /\ QueueMissing' = QueueMissing /\ QueueValues' = QueueValues /\ Results' = Results
    BY <1>1, <1>5 DEF SameView, QueueMissing, QueueValues, BeforeWakeUp, Results
  <1>7. Remaining' = Remaining /\ NextAddress' = NextAddress
    <2>1. Len(dir) \in Nat
      BY StateTypes
    <2> QED
      BY <1>1, <2>1 DEF Remaining, NextAddress
  <1>8. InFlightOK' /\ Once' /\ Covered' /\ FirstInstruction'
    BY <1>1, <1>5, <1>6, <1>7, QuietStep
  <1>9. NoException' /\ ResultsAwaited' /\ Order'
    BY <1>1, <1>2, <1>7 DEF Normal, NoException, ResultsAwaited, Order, Bypassing
  <1>10. FrontEnd'
    <2>1. curr.dir = dir /\ curr.pc = pc
      BY <1>1 DEF Normal, FrontEnd
    <2>2. step' = "fetch" => ctx'.backpressure \/ dir = <<>>
      <3>1. CASE curr.dir = <<>>
        BY <2>1, <3>1
      <3>2. CASE curr.dir # <<>>
        BY <1>1, <1>2, <3>2
      <3> QED
        BY <3>1, <3>2
    <2> QED
      BY <1>1, <2>1, <2>2 DEF FrontEnd
  <1> QED
    BY <1>8, <1>9, <1>10 DEF Normal

\* What is left of a queue when its i-th element is taken.
LEMMA RemoveAtElements ==
    ASSUME NEW S, NEW q \in Seq(S), NEW i \in 1 .. Len(q)
    PROVE  /\ \A j \in 1 .. Len(RemoveAt(q, i)) :
                 \E k \in 1 .. Len(q) : k # i /\ RemoveAt(q, i)[j] = q[k]
           /\ \A k \in 1 .. Len(q) : k # i =>
                 \E j \in 1 .. Len(RemoveAt(q, i)) : RemoveAt(q, i)[j] = q[k]
           /\ OneEach(q) => OneEach(RemoveAt(q, i))
  <1> DEFINE r == RemoveAt(q, i)
             u == SubSeq(q, 1, i - 1)
             v == SubSeq(q, i + 1, Len(q))
             at(j) == IF j < i THEN j ELSE j + 1
  <1>1. Len(q) \in Nat /\ i \in Nat /\ \A j \in 1 .. Len(q) : q[j] \in S
    OBVIOUS
  <1>2. Len(r) = Len(q) - 1 /\ r \in Seq(S)
    BY RemoveAtType
  <1>3. /\ u \in Seq(S) /\ Len(u) = i - 1
        /\ \A j \in 1 .. i - 1 : u[j] = q[j]
    <2>1. /\ u \in Seq(S)
          /\ Len(u) = IF 1 <= i - 1 THEN ((i - 1) - 1) + 1 ELSE 0
          /\ \A j \in 1 .. ((i - 1) - 1) + 1 : u[j] = q[(1 + j) - 1]
      BY <1>1, SubSeqProperties
    <2> HIDE DEF u
    <2> QED
      BY <1>1, <2>1
  <1>4. /\ v \in Seq(S) /\ Len(v) = Len(q) - i
        /\ \A j \in 1 .. Len(q) - i : v[j] = q[i + j]
    <2>1. /\ v \in Seq(S)
          /\ Len(v) = IF i + 1 <= Len(q) THEN (Len(q) - (i + 1)) + 1 ELSE 0
          /\ \A j \in 1 .. (Len(q) - (i + 1)) + 1 : v[j] = q[((i + 1) + j) - 1]
      BY <1>1, SubSeqProperties
    <2> HIDE DEF v
    <2> QED
      BY <1>1, <2>1
  <1>5. r = u \o v
    BY DEF RemoveAt
  <1>6. ASSUME NEW j \in 1 .. Len(r)
        PROVE  r[j] = q[at(j)] /\ at(j) \in 1 .. Len(q) /\ at(j) # i
    <2> HIDE DEF u, v, r
    <2>1. (u \o v)[j] = IF j <= Len(u) THEN u[j] ELSE v[j - Len(u)]
      <3>1. j \in 1 .. Len(u) + Len(v)
        BY <1>1, <1>2, <1>3, <1>4
      <3> QED
        BY <1>3, <1>4, <3>1, ConcatProperties
    <2>2. CASE j < i
      BY <1>1, <1>2, <1>3, <1>5, <2>1, <2>2
    <2>3. CASE ~(j < i)
      <3>1. j - Len(u) \in 1 .. Len(q) - i /\ i + (j - Len(u)) = j + 1 /\ ~(j <= Len(u))
        BY <1>1, <1>2, <1>3, <2>3
      <3>2. v[j - Len(u)] = q[j + 1]
        BY <1>4, <3>1
      <3>3. r[j] = q[j + 1]
        BY <1>5, <2>1, <3>1, <3>2
      <3> QED
        BY <1>1, <1>2, <2>3, <3>3
    <2> QED
      BY <2>2, <2>3
  <1> HIDE DEF r, u, v
  <1>7. \A j \in 1 .. Len(r) : \E k \in 1 .. Len(q) : k # i /\ r[j] = q[k]
    BY <1>6
  <1>8. ASSUME NEW k \in 1 .. Len(q), k # i PROVE \E j \in 1 .. Len(r) : r[j] = q[k]
    <2>1. CASE k < i
      <3>1. k \in 1 .. Len(r) /\ at(k) = k
        BY <1>1, <1>2, <2>1
      <3> QED
        BY <1>6, <3>1
    <2>2. CASE ~(k < i)
      <3>1. k - 1 \in 1 .. Len(r) /\ at(k - 1) = k
        BY <1>1, <1>2, <1>8, <2>2
      <3> QED
        BY <1>6, <3>1
    <2> QED
      BY <2>1, <2>2
  <1>9. ASSUME OneEach(q), NEW j \in 1 .. Len(r), NEW k \in 1 .. Len(r), r[j].pc = r[k].pc
        PROVE  j = k
    <2>1. at(j) = at(k)
      BY <1>6, <1>9 DEF OneEach
    <2> QED
      BY <1>1, <1>2, <2>1
  <1> QED
    BY <1>7, <1>8, <1>9 DEF r, OneEach

\* Delivered values reach the waiting operands of the Integer Queue.
LEMMA NormalWakeUp ==
    ASSUME IInv, Normal, WakeUp
    PROVE  Normal'
  <1>1. /\ step = "issue" /\ step' = "select"
        /\ iq' = [i \in 1 .. Len(iq) |-> WokenUp(iq[i])]
        /\ UNCHANGED <<prog, n, curr, pc, dir, exc, excPC, map, prf, busy, fl, al, s1, s2, ctx>>
    BY DEF WakeUp, frontEnd, excState, regState, alus
  <1>2. SameView
    BY <1>1, ViewKept DEF Bypassing
  <1>3. /\ QueueMissing = busy /\ QueueValues = prf
        /\ QueueMissing' = Missing /\ QueueValues' = Values
        /\ Results = <<>> /\ Results' = <<>>
        /\ Remaining' = Remaining /\ NextAddress' = NextAddress
    BY <1>1, <1>2 DEF SameView, QueueMissing, QueueValues, BeforeWakeUp, Results,
                      Remaining, NextAddress
  <1>4. /\ Len(iq) \in Nat /\ Len(iq') = Len(iq)
        /\ \A k \in 1 .. Len(iq) : iq'[k] = WokenUp(iq[k])
    BY <1>1, StateTypes
  <1>5. NoException' /\ FrontEnd' /\ Order' /\ ResultsAwaited' /\ FirstInstruction'
    BY <1>1, <1>2, <1>3 DEF Normal, NoException, FrontEnd, Order, ResultsAwaited,
                            FirstInstruction, SameView, Bypassing
  <1>6. /\ Consistent(prog, al, map, Missing, Values)
        /\ AllQueued(prog, al, map, busy, prf, iq)
        /\ AllIssued(prog, al, map, Missing, Values, s1)
        /\ AllIssued(prog, al, map, Missing, Values, s2)
        /\ AllForwarded(prog, al, map, Missing, Values, <<>>)
    BY <1>3 DEF Normal, InFlightOK
  <1>7. AllQueued(prog, al, map, Missing, Values, iq')
    <2> SUFFICES ASSUME NEW k \in 1 .. Len(iq)
                 PROVE  \E i \in 1 .. Len(al) :
                           QueuedFor(prog, al, map, Missing, Values, WokenUp(iq[k]), i)
      BY <1>4 DEF AllQueued
    <2>1. PICK i \in 1 .. Len(al) : QueuedFor(prog, al, map, busy, prf, iq[k], i)
      BY <1>6 DEF AllQueued
    <2>2. al[i].pc < Len(prog)
      BY <1>6 DEF Consistent, EntryOK
    <2>3. \A j \in 1 .. Len(ctx.fwd) : busy[ctx.fwd[j].reg]
      BY <1>1 DEF Normal, ResultsAwaited, Bypassing
    <2>4. \A x \in PhysReg : Missing[x] = IF Delivered(x) # {} THEN FALSE ELSE busy[x]
      BY <1>1 DEF Missing, Bypassing
    <2>5. \A x \in PhysReg : Values[x] = IF Delivered(x) # {} THEN ForwardedValue(x) ELSE prf[x]
      BY <1>1 DEF Values, Bypassing
    <2>6. iq[k] \in IntegerQueueEntry /\ TypeOK
      BY <1>4, StateTypes
    <2>7. QueuedFor(prog, al, map, Missing, Values, WokenUp(iq[k]), i)
      BY <2>1, <2>2, <2>3, <2>4, <2>5, <2>6, WakeUpEntry
    <2> QED
      BY <2>7
  <1>8. InFlightOK'
    BY <1>1, <1>2, <1>3, <1>6, <1>7 DEF InFlightOK, SameView
  <1>9. ASSUME NEW k \in 1 .. Len(iq) PROVE iq'[k].pc = iq[k].pc
    <2>1. iq[k] \in IntegerQueueEntry
      BY <1>4, StateTypes
    <2>2. iq'[k] = WokenUp(iq[k])
      BY <1>4
    <2> QED
      BY <2>1, <2>2 DEF WokenUp, IntegerQueueEntry
  <1>10. Once'
    <2>1. /\ OneEach(iq) /\ OneEach(s1) /\ OneEach(s2) /\ OneEach(<<>>)
          /\ Apart(iq, s1) /\ Apart(iq, s2) /\ Apart(iq, <<>>)
          /\ Apart(s1, s2) /\ Apart(s1, <<>>) /\ Apart(s2, <<>>)
      BY <1>3 DEF Normal, Once
    <2>2. OneEach(iq') /\ Apart(iq', s1) /\ Apart(iq', s2) /\ Apart(iq', <<>>)
      BY <1>4, <1>9, <2>1 DEF OneEach, Apart
    <2> QED
      BY <1>1, <1>3, <2>1, <2>2 DEF Once
  <1>11. Covered'
    <2>1. \A a : Present(iq, a) => Present(iq', a)
      BY <1>4, <1>9 DEF Present
    <2> QED
      BY <1>1, <1>3, <2>1 DEF Normal, Covered
  <1> QED
    BY <1>5, <1>8, <1>10, <1>11 DEF Normal

\* The oldest ready entry goes from the Integer Queue to an ALU.
LEMMA NormalIssue ==
    ASSUME IInv, Normal, IssueOldestReady
    PROVE  Normal'
  <1>1. PICK i \in DOMAIN iq :
            /\ Issuable(i)
            /\ s1' = Append(s1, [op |-> iq[i].op, a |-> iq[i].aVal, b |-> iq[i].bVal,
                                 dst |-> iq[i].dst, pc |-> iq[i].pc])
            /\ iq' = RemoveAt(iq, i)
    BY DEF IssueOldestReady
  <1> DEFINE f == [op |-> iq[i].op, a |-> iq[i].aVal, b |-> iq[i].bVal,
                   dst |-> iq[i].dst, pc |-> iq[i].pc]
  <1>2. /\ step = "select" /\ step' = "select"
        /\ UNCHANGED <<prog, curr, pc, dir, exc, excPC, map, prf, busy, fl, al, s2, ctx>>
    BY DEF IssueOldestReady, frontEnd, excState, regState
  <1>3. SameView
    BY <1>2, ViewKept DEF Bypassing
  <1>4. /\ QueueMissing = Missing /\ QueueValues = Values
        /\ QueueMissing' = Missing /\ QueueValues' = Values
        /\ Results = <<>> /\ Results' = <<>>
        /\ Remaining' = Remaining /\ NextAddress' = NextAddress
    BY <1>2, <1>3 DEF SameView, QueueMissing, QueueValues, BeforeWakeUp, Results,
                      Remaining, NextAddress
  <1>5. NoException' /\ FrontEnd' /\ Order' /\ ResultsAwaited' /\ FirstInstruction'
    BY <1>2, <1>3, <1>4 DEF Normal, NoException, FrontEnd, Order, ResultsAwaited,
                            FirstInstruction, SameView, Bypassing
  <1>6. /\ Consistent(prog, al, map, Missing, Values)
        /\ AllQueued(prog, al, map, Missing, Values, iq)
        /\ AllIssued(prog, al, map, Missing, Values, s1)
        /\ AllIssued(prog, al, map, Missing, Values, s2)
        /\ AllForwarded(prog, al, map, Missing, Values, <<>>)
    BY <1>4 DEF Normal, InFlightOK
  <1>7. iq \in Seq(IntegerQueueEntry) /\ s1 \in Seq(IssuedInstruction) /\ i \in 1 .. Len(iq)
    BY StateTypes, SMTT(30)
  <1>8. /\ \A j \in 1 .. Len(iq') : \E k \in 1 .. Len(iq) : k # i /\ iq'[j] = iq[k]
        /\ \A k \in 1 .. Len(iq) : k # i => \E j \in 1 .. Len(iq') : iq'[j] = iq[k]
        /\ OneEach(iq) => OneEach(iq')
    BY <1>1, <1>7, RemoveAtElements, ZenonT(30)
  <1>9. /\ Len(s1) \in Nat /\ Len(s1') = Len(s1) + 1
        /\ s1'[Len(s1) + 1] = f
        /\ \A k \in 1 .. Len(s1) : s1'[k] = s1[k]
    <2> HIDE DEF f
    <2>1. s1' = Append(s1, f)
      BY <1>1 DEF f
    <2> QED
      BY <1>7, <2>1
  <1>10. f.pc = iq[i].pc
    OBVIOUS
  <1>11. \E j \in 1 .. Len(al) : IssuedFor(prog, al, map, Missing, Values, f, j)
    <2>1. PICK j \in 1 .. Len(al) : QueuedFor(prog, al, map, Missing, Values, iq[i], j)
      BY <1>6, <1>7 DEF AllQueued
    <2>2. Ready(iq[i])
      BY <1>1 DEF Issuable
    <2>3. IssuedFor(prog, al, map, Missing, Values, f, j)
      BY <2>1, <2>2, IssueEntry
    <2> QED
      BY <2>3
  <1> HIDE DEF f
  <1>12. InFlightOK'
    <2>1. AllQueued(prog, al, map, Missing, Values, iq')
      BY <1>6, <1>8 DEF AllQueued
    <2>2. AllIssued(prog, al, map, Missing, Values, s1')
      <3> SUFFICES ASSUME NEW k \in 1 .. Len(s1')
                   PROVE  \E j \in 1 .. Len(al) :
                             IssuedFor(prog, al, map, Missing, Values, s1'[k], j)
        BY DEF AllIssued
      <3>1. k \in 1 .. Len(s1) \/ k = Len(s1) + 1
        BY <1>9
      <3> QED
        BY <1>6, <1>9, <1>11, <3>1 DEF AllIssued
    <2> QED
      BY <1>2, <1>3, <1>4, <1>6, <2>1, <2>2 DEF InFlightOK, SameView
  <1>13. Once'
    <2>1. /\ OneEach(iq) /\ OneEach(s1) /\ OneEach(s2) /\ OneEach(<<>>)
          /\ Apart(iq, s1) /\ Apart(iq, s2) /\ Apart(iq, <<>>)
          /\ Apart(s1, s2) /\ Apart(s1, <<>>) /\ Apart(s2, <<>>)
      BY <1>4 DEF Normal, Once
    <2>2. ASSUME NEW k \in 1 .. Len(s1')
          PROVE  (k \in 1 .. Len(s1) /\ s1'[k].pc = s1[k].pc)
                    \/ (k = Len(s1) + 1 /\ s1'[k].pc = iq[i].pc)
      BY <1>9, <1>10
    <2>3. OneEach(s1')
      BY <1>7, <2>1, <2>2 DEF OneEach, Apart
    <2>4. Apart(s1', s2)
      BY <1>7, <2>1, <2>2 DEF Apart
    <2>5. ASSUME NEW j \in 1 .. Len(iq'), NEW k \in 1 .. Len(s1') PROVE iq'[j].pc # s1'[k].pc
      <3>1. PICK h \in 1 .. Len(iq) : h # i /\ iq'[j] = iq[h]
        BY <1>8
      <3>2. iq[h].pc # iq[i].pc
        BY <1>7, <2>1, <3>1 DEF OneEach
      <3> QED
        BY <2>1, <2>2, <3>1, <3>2 DEF Apart
    <2>6. OneEach(iq') /\ Apart(iq', s2) /\ Apart(iq', <<>>) /\ Apart(s1', <<>>)
      BY <1>8, <2>1, SMTT(30) DEF Apart
    <2> QED
      BY <1>2, <1>4, <2>1, <2>3, <2>4, <2>5, <2>6 DEF Once, Apart
  <1>14. Covered'
    <2>1. ASSUME NEW a, Present(iq, a) PROVE Present(iq', a) \/ Present(s1', a)
      <3>1. PICK k \in 1 .. Len(iq) : iq[k].pc = a
        BY <2>1 DEF Present
      <3>2. CASE k = i
        BY <1>9, <1>10, <3>1, <3>2 DEF Present
      <3>3. CASE k # i
        BY <1>8, <3>1, <3>3 DEF Present
      <3> QED
        BY <3>2, <3>3
    <2>2. ASSUME NEW a, Present(s1, a) PROVE Present(s1', a)
      BY <1>9, <2>2 DEF Present
    <2> QED
      BY <1>2, <1>4, <2>1, <2>2 DEF Normal, Covered
  <1> QED
    BY <1>5, <1>12, <1>13, <1>14 DEF Normal

-----------------------------------------------------------------------------
(* Without an exception: retirement, observation, dispatch *)

\* The head of the Active List is the one commit looks at.
LEMMA HeadLatched ==
    ASSUME IInv, Normal, step = "commit", MayRetire
    PROVE  /\ al # <<>> /\ Head(al) = al[1] /\ al[1] = curr.al[n + 1]
           /\ al[1] \in ActiveListEntry /\ al[1].done
           /\ Len(al) \in Nat /\ 1 \in 1 .. Len(al)
  <1>1. /\ n < Len(curr.al) /\ curr.al[n + 1].done
        /\ Len(al) = Len(curr.al) - n
        /\ \A i \in 1 .. Len(al) : al[i] = curr.al[n + i]
    BY DEF MayRetire, IInv, ControlInv, Normal, FrontEnd
  <1>2. n \in Nat /\ Len(curr.al) \in Nat /\ al \in Seq(ActiveListEntry)
    BY StateTypes
  <1>3. Len(al) \in Nat /\ 1 \in 1 .. Len(al)
    BY <1>1, <1>2
  <1>4. al # <<>> /\ Head(al) = al[1] /\ al[1] \in ActiveListEntry
    BY <1>2, <1>3
  <1> QED
    BY <1>1, <1>3, <1>4

\* The oldest instruction retires.
LEMMA NormalRetire ==
    ASSUME IInv, Normal, RetireFront
    PROVE  Normal'
  <1>1. /\ step = "commit" /\ step' = "commit" /\ n' = n + 1
        /\ MayRetire /\ ~curr.al[n + 1].exception
        /\ busy' = [busy EXCEPT ![Head(al).old] = FALSE]
        /\ al' = Tail(al)
        /\ UNCHANGED <<prog, curr, pc, dir, exc, excPC, map, prf, iq, s1, s2, ctx>>
    BY DEF RetireFront, frontEnd, excState, alus
  <1>2. /\ al # <<>> /\ Head(al) = al[1] /\ al[1] = curr.al[n + 1]
        /\ al[1] \in ActiveListEntry /\ al[1].done
        /\ Len(al) \in Nat /\ 1 \in 1 .. Len(al)
    BY <1>1, HeadLatched
  <1>3. Missing = busy /\ Values = prf
    BY <1>1, NotBypassing, StateTypes DEF Bypassing
  <1>4. /\ Consistent(prog, al, map, busy, prf)
        /\ AllQueued(prog, al, map, busy, prf, iq)
        /\ AllIssued(prog, al, map, busy, prf, s1)
        /\ AllIssued(prog, al, map, busy, prf, s2)
        /\ AllForwarded(prog, al, map, busy, prf, Results)
    BY <1>1, <1>3 DEF Normal, InFlightOK, QueueMissing, QueueValues, BeforeWakeUp
  <1>5. ~busy[al[1].old] /\ Consistent(prog, Tail(al), map, busy, prf)
    BY <1>1, <1>2, <1>4, StateTypes, RetireConsistent
  <1>6. busy' = busy
    <2>1. al[1].old \in PhysReg
      BY <1>2 DEF ActiveListEntry
    <2>2. busy[al[1].old] = FALSE
      BY <1>5, <2>1, StateTypes
    <2> QED
      BY <1>1, <1>2, <2>1, <2>2, StateTypes
  <1>7. Missing' = busy /\ Values' = prf
    <2>1. /\ Missing' = [r \in PhysReg |-> busy'[r]]
          /\ Values' = [r \in PhysReg |-> prf'[r]]
      BY <1>1 DEF Missing, Values, Bypassing
    <2> QED
      BY <1>1, <1>6, <2>1, StateTypes
  <1>8. /\ QueueMissing' = busy /\ QueueValues' = prf
        /\ Results' = Results /\ Remaining' = Remaining
    BY <1>1, <1>7 DEF QueueMissing, QueueValues, BeforeWakeUp, Results, Remaining
  <1>9. /\ Tail(al) \in Seq(ActiveListEntry) /\ Len(Tail(al)) = Len(al) - 1
        /\ \A i \in 1 .. Len(al) - 1 : Tail(al)[i] = al[i + 1]
    BY <1>2, StateTypes
  <1>10. InFlightOK'
    <2>1. Typing(prog, al, map, busy, prf) /\ \A i \in 1 .. Len(al) : al[i].pc < Len(prog)
      BY <1>4, StateTypes DEF Consistent, EntryOK
    <2>2. /\ AllQueued(prog, Tail(al), map, busy, prf, iq)
          /\ AllIssued(prog, Tail(al), map, busy, prf, s1)
          /\ AllIssued(prog, Tail(al), map, busy, prf, s2)
          /\ AllForwarded(prog, Tail(al), map, busy, prf, Results)
      BY <1>2, <1>4, <2>1, RetireHeld
    <2> QED
      BY <1>1, <1>5, <1>7, <1>8, <2>2 DEF InFlightOK
  <1>11. NoException' /\ ResultsAwaited'
    BY <1>1 DEF Normal, NoException, ResultsAwaited, Bypassing
  <1>12. FrontEnd'
    <2>1. ASSUME NEW i \in 1 .. Len(al) - 1 PROVE Tail(al)[i] = curr.al[(n + 1) + i]
      <3>0. n \in Nat /\ i \in Nat /\ i <= Len(al) - 1
        BY <1>2, StateTypes
      <3>1. i + 1 \in 1 .. Len(al) /\ n + (i + 1) = (n + 1) + i
        BY <1>2, <3>0
      <3>2. al[i + 1] = curr.al[n + (i + 1)]
        BY <1>1, <3>1 DEF Normal, FrontEnd
      <3> QED
        BY <1>9, <3>1, <3>2
    <2>2. \A i \in 1 .. Len(al') : al'[i] = curr.al[n' + i]
      BY <1>1, <1>9, <2>1
    <2>3. FrontEnd
      BY DEF Normal
    <2> QED
      BY <1>1, <2>2, <2>3 DEF FrontEnd
  <1>13. Remaining \in Int /\ pc \in Nat
    BY StateTypes DEF Remaining
  <1>14. Order'
    <2>1. ASSUME NEW i \in 1 .. Len(al') PROVE al'[i].pc + Len(al') + Remaining' + 1 = pc' + i
      <3>1. i \in Nat /\ i + 1 \in 1 .. Len(al) /\ al'[i] = al[i + 1]
        BY <1>1, <1>2, <1>9
      <3>2. al[i + 1].pc + Len(al) + Remaining + 1 = pc + (i + 1)
        BY <3>1 DEF Normal, Order
      <3>3. al[i + 1].pc \in Nat
        <4>1. al[i + 1] \in ActiveListEntry
          BY <3>1, StateTypes
        <4> QED
          BY <4>1 DEF ActiveListEntry
      <3>4. al[i + 1].pc + (Len(al) - 1) + Remaining + 1 = pc + i
        <4> DEFINE x == al[i + 1].pc
                   y == Len(al)
                   z == Remaining
        <4>1. x \in Nat /\ y \in Nat /\ z \in Int /\ i \in Nat /\ x + y + z + 1 = pc + (i + 1)
          BY <1>2, <1>13, <3>1, <3>2, <3>3
        <4> HIDE DEF x, y, z
        <4>2. x + (y - 1) + z + 1 = pc + i
          BY <1>13, <4>1
        <4> QED
          BY <4>2 DEF x, y, z
      <3> QED
        BY <1>1, <1>8, <1>9, <3>1, <3>4
    <2>2. Order
      BY DEF Normal
    <2> QED
      BY <1>1, <2>1, <2>2 DEF Order
  <1>15. NextAddress' = NextAddress + 1
    <2>1. Len(al') = Len(al) - 1
      BY <1>1, <1>9
    <2> QED
      BY <1>1, <1>2, <1>8, <1>13, <2>1 DEF NextAddress
  <1>16. NextAddress = al[1].pc /\ NextAddress \in Nat
    <2>1. al[1].pc \in Nat
      BY <1>2 DEF ActiveListEntry
    <2>2. al[1].pc + Len(al) + Remaining + 1 = pc + 1
      BY <1>2 DEF Normal, Order
    <2> DEFINE x == al[1].pc
               y == Len(al)
               z == Remaining
    <2>3. x \in Nat /\ y \in Nat /\ z \in Int /\ x + y + z + 1 = pc + 1
      BY <1>2, <1>13, <2>1, <2>2
    <2>4. NextAddress = pc - (z + y)
      BY DEF NextAddress
    <2> HIDE DEF x, y, z
    <2>5. NextAddress = x /\ x \in Nat
      BY <1>13, <2>3, <2>4
    <2> QED
      BY <2>5 DEF x
  <1>17. FirstInstruction'
    <2>1. CASE NextAddress > 0
      BY <1>1, <1>15, <1>16, <2>1 DEF Normal, FirstInstruction
    <2>2. CASE NextAddress = 0
      <3> DEFINE i1 == prog[1]
      <3>1. InstructionAt(prog, al, 1) = i1
        BY <1>16, <2>2 DEF InstructionAt
      <3>2. EntryOK(prog, al, map, busy, prf, 1)
        BY <1>2, <1>4 DEF Consistent
      <3>3. ~Faults(i1.op, Operand2(prog, al, map, prf, 1))
        BY <1>1, <1>2, <3>1, <3>2 DEF EntryOK, Faulty
      <3>4. i1.rs2 \in LogReg
        <4>1. al[1].pc < Len(prog) /\ Typing(prog, al, map, busy, prf)
          BY <3>2, StateTypes DEF EntryOK
        <4> QED
          BY <1>2, <3>1, <4>1, Registers
      <3>5. prf[Source2(prog, al, map, 1)] = 0
        BY <1>3, <2>2, <3>1, <3>4 DEF Normal, FirstInstruction, Source2
      <3>6. Operand2(prog, al, map, prf, 1) = IF i1.useImm THEN i1.imm ELSE 0
        BY <3>1, <3>5 DEF Operand2
      <3>7. ~(i1.op \in {"divu", "remu"} /\ (i1.useImm => i1.imm = 0))
        BY <3>3, <3>6 DEF Faults
      <3>8. NextAddress' # 0
        BY <1>15, <1>16
      <3> QED
        BY <1>1, <3>7, <3>8 DEF FirstInstruction
    <2> QED
      BY <1>16, <2>1, <2>2
  <1>18. Once'
    BY <1>1, <1>8 DEF Normal, Once
  <1>19. Covered'
    <2> SUFFICES ASSUME NEW i \in 1 .. Len(al'), ~al'[i].done
                 PROVE  \/ Present(iq, al'[i].pc) \/ Present(s1, al'[i].pc)
                        \/ Present(s2, al'[i].pc) \/ Present(Results, al'[i].pc)
      BY <1>1, <1>8 DEF Covered
    <2>1. i + 1 \in 1 .. Len(al) /\ al'[i] = al[i + 1]
      BY <1>1, <1>2, <1>9
    <2> QED
      BY <2>1 DEF Normal, Covered
  <1> QED
    BY <1>10, <1>11, <1>12, <1>14, <1>17, <1>18, <1>19 DEF Normal


\* What one entry is after the observation.
LEMMA MarkedEntry ==
    ASSUME NEW e \in ActiveListEntry, ctx \in Signals
    PROVE  /\ Marked(e).pc = e.pc /\ Marked(e).ld = e.ld /\ Marked(e).old = e.old
           /\ ~Present(ctx.fwd, e.pc) => Marked(e) = e
           /\ \A k \in 1 .. Len(ctx.fwd) :
                 OneEach(ctx.fwd) /\ ctx.fwd[k].pc = e.pc =>
                    Marked(e).done = TRUE /\ Marked(e).exception = ctx.fwd[k].exception
  <1>1. DOMAIN ctx.fwd = 1 .. Len(ctx.fwd)
    BY DEF Signals
  <1>2. CASE Completions(e) = {}
    <2>1. Marked(e) = e
      BY <1>2 DEF Marked
    <2>2. ~Present(ctx.fwd, e.pc)
      BY <1>1, <1>2 DEF Completions, Present
    <2> QED
      BY <2>1, <2>2 DEF Present
  <1>3. CASE Completions(e) # {}
    <2> DEFINE c == CHOOSE k \in Completions(e) : TRUE
    <2>1. /\ c \in Completions(e)
          /\ Marked(e) = [e EXCEPT !.done = TRUE, !.exception = ctx.fwd[c].exception]
      BY <1>3 DEF Marked
    <2> HIDE DEF c
    <2>2. c \in 1 .. Len(ctx.fwd) /\ ctx.fwd[c].pc = e.pc
      BY <1>1, <2>1 DEF Completions
    <2>3. /\ Marked(e).pc = e.pc /\ Marked(e).ld = e.ld /\ Marked(e).old = e.old
          /\ Marked(e).done = TRUE /\ Marked(e).exception = ctx.fwd[c].exception
      BY <2>1 DEF ActiveListEntry
    <2>4. Present(ctx.fwd, e.pc)
      BY <2>2 DEF Present
    <2>5. ASSUME NEW k \in 1 .. Len(ctx.fwd), OneEach(ctx.fwd), ctx.fwd[k].pc = e.pc
          PROVE  k = c
      BY <2>2, <2>5 DEF OneEach
    <2> QED
      BY <2>3, <2>4, <2>5
  <1> QED
    BY <1>2, <1>3

\* What is on its way once commit has seen the results.
LEMMA ObserveDelivers ==
    ASSUME IInv, ObserveResults
    PROVE  /\ DeliveredTo(busy, prf, Missing', Values', ctx.fwd, HeadFault)
           /\ Missing' \in [PhysReg -> BOOLEAN]
  <1>1. /\ step' = "control" /\ ctx' = [ctx EXCEPT !.suppress = HeadFault]
        /\ UNCHANGED <<busy, prf>>
    BY DEF ObserveResults, regState
  <1>2. ctx'.fwd = ctx.fwd /\ ctx'.suppress = HeadFault
        /\ DOMAIN ctx.fwd = 1 .. Len(ctx.fwd) /\ busy \in [PhysReg -> BOOLEAN]
    BY <1>1, StateTypes DEF Signals
  <1> DEFINE D(x) == {k \in 1 .. Len(ctx.fwd) :
                         ctx.fwd[k].reg = x /\ ctx.fwd[k].pc \notin HeadFault}
  <1>3. ASSUME NEW x PROVE Delivered(x)' = D(x)
    BY <1>2 DEF Delivered
  <1>4. /\ Missing' = [r \in PhysReg |-> IF Delivered(r)' # {} THEN FALSE ELSE busy[r]]
        /\ Values' = [r \in PhysReg |-> IF Delivered(r)' # {} THEN ForwardedValue(r)' ELSE prf[r]]
    BY <1>1 DEF Missing, Values, Bypassing
  <1>5. Missing' \in [PhysReg -> BOOLEAN]
    BY <1>2, <1>4
  <1>6. ASSUME NEW x \in PhysReg
        PROVE  \/ Missing'[x] = FALSE
                     /\ \E k \in 1 .. Len(ctx.fwd) : ctx.fwd[k].reg = x
                           /\ ctx.fwd[k].pc \notin HeadFault /\ Values'[x] = ctx.fwd[k].val
               \/ (\A k \in 1 .. Len(ctx.fwd) : ctx.fwd[k].reg = x => ctx.fwd[k].pc \in HeadFault)
                     /\ Same(busy, prf, Missing', Values', x)
    <2>1. CASE D(x) # {}
      <3>1. ForwardedValue(x)' = ctx.fwd[CHOOSE k \in D(x) : TRUE].val
        BY <1>2, <1>3 DEF ForwardedValue
      <3>2. PICK k \in D(x) : ForwardedValue(x)' = ctx.fwd[k].val
        BY <2>1, <3>1
      <3>3. Missing'[x] = FALSE /\ Values'[x] = ctx.fwd[k].val
        BY <1>3, <1>4, <2>1, <3>2
      <3> QED
        BY <3>2, <3>3
    <2>2. CASE D(x) = {}
      <3>1. Missing'[x] = busy[x] /\ Values'[x] = prf[x]
        BY <1>3, <1>4, <2>2
      <3>2. \A k \in 1 .. Len(ctx.fwd) : ctx.fwd[k].reg = x => ctx.fwd[k].pc \in HeadFault
        BY <2>2
      <3> QED
        BY <3>1, <3>2 DEF Same
    <2> QED
      BY <2>1, <2>2
  <1> QED
    BY <1>5, <1>6 DEF DeliveredTo

\* Results are observed; those of a faulting head are not delivered.
LEMMA NormalObserve ==
    ASSUME IInv, Normal, ObserveResults
    PROVE  Normal'
  <1> DEFINE z == ctx.fwd
  <1>1. /\ step = "commit" /\ step' = "control"
        /\ al' = [i \in 1 .. Len(al) |-> Marked(al[i])]
        /\ ctx' = [ctx EXCEPT !.suppress = HeadFault]
        /\ UNCHANGED <<prog, n, curr, pc, dir, exc, excPC, map, prf, busy, fl, iq, s1, s2>>
    BY DEF ObserveResults, frontEnd, excState, regState, alus
  <1>2. /\ ctx'.fwd = ctx.fwd /\ ctx'.req = ctx.req
        /\ Len(al) \in Nat /\ ctx \in Signals /\ al \in Seq(ActiveListEntry)
        /\ \A i \in 1 .. Len(al) : al[i] \in ActiveListEntry
    BY <1>1, StateTypes, SMTT(30) DEF Signals
  <1>3. /\ Missing = busy /\ Values = prf /\ QueueMissing = busy /\ QueueValues = prf
        /\ Results = z
    <2>1. Missing = busy /\ Values = prf
      BY <1>1, NotBypassing, StateTypes DEF Bypassing
    <2> QED
      BY <1>1, <2>1 DEF QueueMissing, QueueValues, BeforeWakeUp, Results
  <1>4. /\ QueueMissing' = busy /\ QueueValues' = prf /\ Results' = <<>>
    BY <1>1 DEF QueueMissing, QueueValues, BeforeWakeUp, Results
  <1>5. /\ Consistent(prog, al, map, busy, prf)
        /\ AllQueued(prog, al, map, busy, prf, iq)
        /\ AllIssued(prog, al, map, busy, prf, s1)
        /\ AllIssued(prog, al, map, busy, prf, s2)
        /\ AllForwarded(prog, al, map, busy, prf, z)
    BY <1>3 DEF Normal, InFlightOK
  <1>6. /\ OneEach(iq) /\ OneEach(s1) /\ OneEach(s2) /\ OneEach(z)
        /\ Apart(iq, s1) /\ Apart(iq, s2) /\ Apart(iq, z)
        /\ Apart(s1, s2) /\ Apart(s1, z) /\ Apart(s2, z)
    BY <1>3 DEF Normal, Once
  <1>7. Typing(prog, al, map, busy, prf) /\ InUseOnce(al, map) /\ OneEach(al)
    BY StateTypes, OrderedOnce DEF Normal
  <1>8. Len(al') = Len(al) /\ \A i \in 1 .. Len(al) : al'[i] = Marked(al[i])
    BY <1>1, <1>2
  <1>9. Observed(al, al', z)
    <2>1. ASSUME NEW i \in 1 .. Len(al)
          PROVE  /\ al'[i].pc = al[i].pc /\ al'[i].ld = al[i].ld /\ al'[i].old = al[i].old
                 /\ ~Present(z, al[i].pc) => al'[i] = al[i]
                 /\ \A k \in 1 .. Len(z) : z[k].pc = al[i].pc =>
                       al'[i].done = TRUE /\ al'[i].exception = z[k].exception
      <3>1. al[i] \in ActiveListEntry /\ ctx \in Signals /\ OneEach(ctx.fwd)
        BY <1>2, <1>6
      <3> DEFINE e == al[i]
      <3>2. /\ Marked(e).pc = e.pc /\ Marked(e).ld = e.ld /\ Marked(e).old = e.old
            /\ ~Present(ctx.fwd, e.pc) => Marked(e) = e
            /\ \A k \in 1 .. Len(ctx.fwd) :
                  OneEach(ctx.fwd) /\ ctx.fwd[k].pc = e.pc =>
                     Marked(e).done = TRUE /\ Marked(e).exception = ctx.fwd[k].exception
        BY <3>1, MarkedEntry
      <3> QED
        BY <1>8, <3>1, <3>2
    <2> QED
      BY <1>8, <2>1 DEF Observed
  <1>10. /\ DeliveredTo(busy, prf, Missing', Values', z, HeadFault)
         /\ Missing' \in [PhysReg -> BOOLEAN]
    BY ObserveDelivers
  <1>11. ASSUME NEW k \in 1 .. Len(z), z[k].pc \in HeadFault
         PROVE  z[k].pc = al[1].pc /\ al'[1].exception
    <2>1. al # <<>> /\ Marked(Head(al)).exception /\ z[k].pc = Head(al).pc
      BY <1>11 DEF HeadFault
    <2>2. 1 \in 1 .. Len(al) /\ Head(al) = al[1]
      BY <1>2, <2>1
    <2> QED
      BY <1>8, <2>1, <2>2
  <1> HIDE DEF z
  <1>12. Consistent(prog, al', map, Missing', Values')
    BY <1>5, <1>6, <1>7, <1>9, <1>10, <1>11, ObserveConsistent
  <1>13. /\ AllQueued(prog, al', map, busy, prf, iq)
         /\ AllIssued(prog, al', map, Missing', Values', s1)
         /\ AllIssued(prog, al', map, Missing', Values', s2)
    <2>1. AllQueued(prog, al', map, busy, prf, iq)
      BY <1>5, <1>6, <1>7, <1>9, <1>10, ObserveHeld
    <2>2. AllIssued(prog, al', map, Missing', Values', s1)
      BY <1>5, <1>6, <1>7, <1>9, <1>10, ObserveHeld
    <2>3. AllIssued(prog, al', map, Missing', Values', s2)
      BY <1>5, <1>6, <1>7, <1>9, <1>10, ObserveHeld
    <2> QED
      BY <2>1, <2>2, <2>3
  <1>14. InFlightOK'
    <2>1. AllForwarded(prog, al', map, Missing', Values', <<>>)
      BY DEF AllForwarded
    <2> QED
      BY <1>1, <1>4, <1>12, <1>13, <2>1 DEF InFlightOK
  <1>15. ASSUME NEW i \in 1 .. Len(al) PROVE Dest(al', map, i) = Dest(al, map, i)
    BY <1>2, <1>9, FlagRegisters DEF Observed
  <1>16. ASSUME NEW k \in 1 .. Len(z)
         PROVE  busy[z[k].reg] /\ \E i \in 1 .. Len(al) : z[k].reg = Dest(al, map, i)
    <2>1. PICK i \in 1 .. Len(al) : ForwardedFor(prog, al, map, busy, prf, z[k], i)
      BY <1>5 DEF AllForwarded
    <2>2. ~al[i].done /\ z[k].reg = Dest(al, map, i)
      BY <2>1 DEF ForwardedFor
    <2>3. EntryOK(prog, al, map, busy, prf, i)
      BY <1>5 DEF Consistent
    <2> QED
      BY <2>2, <2>3 DEF EntryOK
  <1>17. ResultsAwaited'
    BY <1>1, <1>2, <1>8, <1>15, <1>16 DEF ResultsAwaited, z
  <1>18. Remaining' = Remaining /\ NextAddress' = NextAddress
    BY <1>1, <1>8 DEF Remaining, NextAddress
  <1>19. FirstInstruction'
    <2>1. ASSUME NextAddress = 0, NEW l \in LogReg
          PROVE  Values'[MapIn(al', map, 1, l)] = 0
      <3> DEFINE x == MapIn(al, map, 1, l)
      <3>1. MapIn(al', map, 1, l) = x
        BY <1>2, <1>9, MapSame DEF Observed
      <3>2. ASSUME NEW k \in 1 .. Len(al) PROVE al[k].ld \in LogReg /\ al[k].old \in PhysReg
        BY <1>2 DEF ActiveListEntry
      <3>3. x \in PhysReg
        <4>1. map \in [LogReg -> PhysReg] /\ 1 \in Nat \ {0}
          BY StateTypes
        <4> QED
          BY <1>2, <3>2, <4>1, MapType
      <3>4. prf[x] = 0
        BY <1>3, <2>1 DEF Normal, FirstInstruction
      <3>5. ASSUME NEW k \in 1 .. Len(z) PROVE z[k].reg # x
        <4>1. PICK i \in 1 .. Len(al) : z[k].reg = Dest(al, map, i)
          BY <1>16
        <4>2. x # Dest(al, map, i)
          BY <1>2, <1>7, <3>2, CommittedApart
        <4> QED
          BY <4>1, <4>2
      <3>6. Same(busy, prf, Missing', Values', x)
        BY <1>10, <3>3, <3>5 DEF DeliveredTo
      <3> QED
        BY <3>1, <3>4, <3>6 DEF Same
    <2> QED
      BY <1>1, <1>18, <2>1 DEF Normal, FirstInstruction
  <1>20. NoException' /\ FrontEnd'
    BY <1>1, <1>2 DEF Normal, NoException, FrontEnd
  <1>21. Order'
    <2>1. \A i \in 1 .. Len(al') : al'[i].pc = al[i].pc
      BY <1>8, <1>9 DEF Observed
    <2> QED
      BY <1>1, <1>8, <1>18, <2>1 DEF Normal, Order
  <1>22. Once'
    <2>1. OneEach(<<>>) /\ Apart(iq, <<>>) /\ Apart(s1, <<>>) /\ Apart(s2, <<>>)
      BY DEF OneEach, Apart
    <2> QED
      BY <1>1, <1>4, <1>6, <2>1 DEF Once
  <1>23. Covered'
    <2> SUFFICES ASSUME NEW i \in 1 .. Len(al), ~al'[i].done
                 PROVE  \/ Present(iq, al'[i].pc) \/ Present(s1, al'[i].pc)
                        \/ Present(s2, al'[i].pc)
      BY <1>1, <1>8 DEF Covered
    <2>1. ~Present(z, al[i].pc)
      BY <1>9 DEF Observed, Present
    <2>2. al'[i] = al[i]
      BY <1>9, <2>1 DEF Observed
    <2> QED
      BY <1>3, <2>1, <2>2 DEF Normal, Covered
  <1> QED
    BY <1>14, <1>17, <1>19, <1>20, <1>21, <1>22, <1>23 DEF Normal

\* What dispatch works with: the next instruction of the DIR, a register nothing uses,
\* and room in both queues.
LEMMA DispatchState ==
    ASSUME IInv, Normal, DispatchNext,
           NEW a, a = curr.dir[n + 1], NEW i, i = prog[a + 1], NEW f, f = Head(fl)
    PROVE  /\ n \in Nat /\ pc \in Nat /\ Len(al) \in Nat /\ Len(dir) \in Nat
           /\ a \in Nat /\ a < Len(prog) /\ a + (Len(dir) - n) = pc
           /\ i \in Instruction /\ f \in PhysReg
           /\ Len(al) < ALCap /\ Len(iq) < IQCap
           /\ Unused(al, map, f)
  <1>1. step = "dispatch" /\ n < Len(curr.dir)
    BY DEF DispatchNext
  <1>2. /\ n \in Nat /\ pc \in Nat /\ Len(al) \in Nat /\ Len(iq) \in Nat
        /\ dir \in Seq(Nat) /\ fl \in Seq(PhysReg)
    <2>1. /\ n \in Nat /\ pc \in Nat
          /\ al \in Seq(ActiveListEntry) /\ iq \in Seq(IntegerQueueEntry)
          /\ dir \in Seq(Nat) /\ fl \in Seq(PhysReg)
      BY StateTypes
    <2>2. Len(al) \in Nat /\ Len(iq) \in Nat
      BY <2>1
    <2> QED
      BY <2>1, <2>2
  <1>3. a \in Nat /\ i \in Instruction /\ f \in PhysReg /\ fl # <<>>
    BY DispatchInputs
  <1>4. curr.dir = dir /\ Len(dir) \in Nat /\ n + 1 \in 1 .. Len(dir) /\ DOMAIN dir = 1 .. Len(dir)
    <2>1. curr.dir = dir /\ n < Len(curr.dir)
      BY <1>1 DEF Normal, FrontEnd
    <2> QED
      BY <1>2, <2>1
  <1>5. a < Len(prog)
    <2>1. \A k \in DOMAIN dir : dir[k] < Len(prog)
      BY DEF IInv, ControlInv, InProgram
    <2> QED
      BY <1>4, <2>1
  <1>6. dir[n + 1] + Len(dir) + 1 = pc + (n + 1)
    BY <1>4 DEF Normal, Order
  <1>7. a + (Len(dir) - n) = pc
    <2> DEFINE d == Len(dir)
    <2>1. a + d + 1 = pc + (n + 1) /\ d \in Nat /\ n \in Nat /\ pc \in Nat /\ a \in Nat
      BY <1>2, <1>3, <1>4, <1>6
    <2> HIDE DEF d
    <2>2. a + (d - n) = pc
      BY <2>1
    <2> QED
      BY <2>2 DEF d
  <1>8. Len(al) < ALCap /\ Len(iq) < IQCap
    <2>1. Len(dir) - n <= ALCap - Len(al) /\ Len(dir) - n <= IQCap - Len(iq)
      BY <1>1, <1>4 DEF IInv, ControlInv
    <2>2. n < Len(dir) /\ ALCap \in Nat /\ IQCap \in Nat
      BY <1>1, <1>4, SizeAssumption
    <2> DEFINE x == Len(al)
               y == Len(iq)
               z == Len(dir)
    <2>3. /\ x \in Nat /\ y \in Nat /\ z \in Nat /\ n \in Nat /\ n < z
          /\ z - n <= ALCap - x /\ z - n <= IQCap - y
      BY <1>2, <1>4, <2>1, <2>2
    <2> HIDE DEF x, y, z
    <2>4. x < ALCap /\ y < IQCap
      BY <2>2, <2>3
    <2> QED
      BY <2>4 DEF x, y
  <1>9. Unused(al, map, f)
    <2>1. Free(f)
      BY <1>2, <1>3 DEF Free
    <2>2. ~Mapped(f) /\ ~Held(f)
      BY <1>3, <2>1 DEF IInv, RegisterPartition
    <2>3. ASSUME NEW j \in 1 .. Len(al) + 1, NEW l \in LogReg, MapIn(al, map, j, l) = f
          PROVE  FALSE
      <3>1. j \in Nat \ {0} /\ DOMAIN al = 1 .. Len(al)
        BY <1>2, StateTypes
      <3>2. \/ \E k \in LogReg : f = map[k]
            \/ \E k \in 1 .. Len(al) : j <= k /\ f = al[k].old
        <4>1. Len(al) \in Nat
          BY <1>2
        <4> QED
          BY <2>3, <3>1, <4>1, MapInUse
      <3> QED
        BY <2>2, <3>1, <3>2 DEF Mapped, Held
    <2> QED
      BY <2>3 DEF Unused
  <1> QED
    BY <1>2, <1>3, <1>4, <1>5, <1>7, <1>8, <1>9

\* What dispatch enters in the Integer Queue is what the new instruction finds.
LEMMA DispatchEntry ==
    ASSUME NEW i \in Instruction, NEW a, NEW f,
           NEW r, NEW l, Typing(prog, al, map, busy, prf), OneYounger(al, map, r, l),
           Unused(al, map, f), f = l[r[Len(al) + 1].ld],
           r[Len(al) + 1].pc = a, prog[a + 1] = i, r[Len(al) + 1].done = FALSE,
           NEW c, MissingToo(busy, prf, c, prf, f)
    PROVE  QueuedFor(prog, r, l, c, prf, QueueEntry(i, a, f), Len(al) + 1)
  <1> DEFINE k == Len(al) + 1
             e == QueueEntry(i, a, f)
  <1>1. Len(al) \in Nat /\ map \in [LogReg -> PhysReg] /\ k \in 1 .. Len(al) + 1
        /\ i.rs1 \in LogReg /\ i.rs2 \in LogReg /\ busy \in [PhysReg -> BOOLEAN]
    BY DEF Typing, Instruction
  <1>2. ASSUME NEW x \in LogReg
        PROVE  MapIn(r, l, k, x) = map[x] /\ map[x] # f /\ map[x] \in PhysReg
    <2>1. MapIn(r, l, k, x) = MapIn(al, map, k, x)
      BY <1>1, MapYounger
    <2>2. FirstWriter(al, k, x) = 0
      BY <1>1, FirstWriterNone
    <2>3. MapIn(al, map, k, x) = map[x]
      BY <2>2 DEF MapIn
    <2>4. map[x] # f
      BY <1>1, <2>3 DEF Unused
    <2> QED
      BY <1>1, <2>1, <2>3, <2>4
  <1>3. InstructionAt(prog, r, k) = i
    BY DEF InstructionAt
  <1>4. Source1(prog, r, l, k) = map[i.rs1] /\ Source2(prog, r, l, k) = map[i.rs2]
    BY <1>1, <1>2, <1>3 DEF Source1, Source2
  <1>5. Dest(r, l, k) = f
    BY <1>1, DispatchDest
  <1>6. Same(busy, prf, c, prf, map[i.rs1]) /\ Same(busy, prf, c, prf, map[i.rs2])
    BY <1>1, <1>2 DEF MissingToo
  <1>7. /\ e.op = i.op /\ e.dst = f /\ e.pc = a
        /\ e.aReady = ~busy[map[i.rs1]] /\ e.aTag = map[i.rs1]
        /\ e.aVal = ReadOperand(map[i.rs1])
        /\ e.bReady = (i.useImm \/ ~busy[map[i.rs2]])
        /\ e.bTag = IF i.useImm THEN 0 ELSE map[i.rs2]
        /\ e.bVal = IF i.useImm THEN i.imm ELSE ReadOperand(map[i.rs2])
    BY DEF QueueEntry
  <1>8. r[k].pc = a /\ r[k].done = FALSE
    OBVIOUS
  <1> HIDE DEF e, k
  <1>9. QueuedFor(prog, r, l, c, prf, e, k)
    BY <1>3, <1>4, <1>5, <1>6, <1>7, <1>8 DEF QueuedFor, Same, ReadOperand
  <1> QED
    BY <1>9 DEF e, k

\* The oldest instruction of the DIR becomes the youngest of the Active List.
LEMMA NormalDispatch ==
    ASSUME IInv, Normal, DispatchNext
    PROVE  Normal'
  <1> DEFINE a == curr.dir[n + 1]
             i == prog[a + 1]
             f == Head(fl)
             e == [done |-> FALSE, exception |-> FALSE, ld |-> i.dst,
                   old |-> map[i.dst], pc |-> a]
             g == QueueEntry(i, a, f)
             h == Len(al) + 1
  <1>a. a = curr.dir[n + 1] /\ i = prog[a + 1] /\ f = Head(fl) /\ g = QueueEntry(i, a, f)
        /\ e = [done |-> FALSE, exception |-> FALSE, ld |-> i.dst,
                old |-> map[i.dst], pc |-> a]
    OBVIOUS
  <1> HIDE DEF a, i, f, e, g
  <1>b. /\ n \in Nat /\ pc \in Nat /\ Len(al) \in Nat /\ Len(dir) \in Nat
        /\ a \in Nat /\ a < Len(prog) /\ a + (Len(dir) - n) = pc
        /\ i \in Instruction /\ f \in PhysReg
        /\ Len(al) < ALCap /\ Len(iq) < IQCap
    BY <1>a, DispatchState
  <1>c. /\ step = "dispatch" /\ step' = "dispatch" /\ n' = n + 1
        /\ UNCHANGED <<prog, curr, pc, dir, exc, excPC, prf, s1, s2, ctx>>
        /\ map' = [map EXCEPT ![i.dst] = f]
        /\ busy' = [busy EXCEPT ![f] = TRUE]
    BY <1>a DEF DispatchNext, frontEnd, excState, alus
  <1>d. al' = Push(al, ALCap, e) /\ iq' = Push(iq, IQCap, g)
    BY <1>a DEF DispatchNext
  <1>e. al' = Append(al, e) /\ iq' = Append(iq, g)
    BY <1>b, <1>d DEF Push
  <1>1. /\ step = "dispatch" /\ step' = "dispatch" /\ n' = n + 1
        /\ UNCHANGED <<prog, curr, pc, dir, exc, excPC, prf, s1, s2, ctx>>
        /\ n \in Nat /\ pc \in Nat /\ Len(al) \in Nat /\ Len(dir) \in Nat
        /\ a \in Nat /\ a < Len(prog) /\ a + (Len(dir) - n) = pc
        /\ i \in Instruction /\ f \in PhysReg
        /\ map' = [map EXCEPT ![i.dst] = f]
        /\ busy' = [busy EXCEPT ![f] = TRUE]
        /\ al' = Append(al, e) /\ iq' = Append(iq, g)
    BY <1>b, <1>c, <1>e
  <1>0. Unused(al, map, f) /\ f \in PhysReg
    BY <1>a, DispatchState
  <1>2. /\ e.done = FALSE /\ e.exception = FALSE /\ e.ld = i.dst /\ e.old = map[i.dst]
        /\ e.pc = a /\ i.dst \in LogReg
    BY <1>a, <1>b DEF Instruction
  <1>3. g.pc = a
    BY <1>a DEF QueueEntry
  <1>4. prog[a + 1] = i
    BY <1>a
  <1>5. /\ Len(al') = h /\ al'[h] = e /\ \A k \in 1 .. Len(al) : al'[k] = al[k]
        /\ h \in Nat /\ h = Len(al) + 1
    <2>1. al \in Seq(ActiveListEntry) /\ al' = Append(al, e)
      BY <1>1, StateTypes
    <2> QED
      BY <2>1
  <1>6. /\ Len(iq) \in Nat /\ Len(iq') = Len(iq) + 1 /\ iq'[Len(iq) + 1] = g
        /\ \A k \in 1 .. Len(iq) : iq'[k] = iq[k]
    <2>1. iq \in Seq(IntegerQueueEntry) /\ iq' = Append(iq, g)
      BY <1>1, StateTypes
    <2> QED
      BY <2>1
  <1>7. /\ Missing = busy /\ Values = prf /\ QueueMissing = busy /\ QueueValues = prf
        /\ Results = <<>> /\ Remaining = Len(dir) - n
    <2>1. Missing = busy /\ Values = prf
      BY <1>1, NotBypassing, StateTypes DEF Bypassing
    <2> QED
      BY <1>1, <2>1 DEF QueueMissing, QueueValues, BeforeWakeUp, Results, Remaining
  <1>8. /\ Missing' = busy' /\ Values' = prf /\ QueueMissing' = busy' /\ QueueValues' = prf
        /\ Results' = <<>> /\ Remaining' = Len(dir) - (n + 1)
    <2>1. busy' \in [PhysReg -> BOOLEAN] /\ prf \in [PhysReg -> Word]
      BY <1>1, StateTypes
    <2>2. Missing' = [r \in PhysReg |-> busy'[r]] /\ Values' = [r \in PhysReg |-> prf'[r]]
      BY <1>1 DEF Missing, Values, Bypassing
    <2>3. Missing' = busy' /\ Values' = prf
      BY <1>1, <2>1, <2>2
    <2> QED
      BY <1>1, <2>3 DEF QueueMissing, QueueValues, BeforeWakeUp, Results, Remaining
  <1>9. /\ Consistent(prog, al, map, busy, prf)
        /\ AllQueued(prog, al, map, busy, prf, iq)
        /\ AllIssued(prog, al, map, busy, prf, s1)
        /\ AllIssued(prog, al, map, busy, prf, s2)
    BY <1>7 DEF Normal, InFlightOK
  <1>10. Typing(prog, al, map, busy, prf) /\ map \in [LogReg -> PhysReg]
         /\ busy \in [PhysReg -> BOOLEAN] /\ al \in Seq(ActiveListEntry)
    BY StateTypes
  <1>11. OneYounger(al, map, al', map')
    <2>1. \A x \in LogReg : x # i.dst => map'[x] = map[x]
      BY <1>1, <1>10
    <2> QED
      BY <1>2, <1>5, <2>1 DEF OneYounger
  <1>12. MissingToo(busy, prf, busy', prf, f)
    BY <1>1, <1>10 DEF MissingToo, Same
  <1>13. f = map'[al'[Len(al) + 1].ld]
    BY <1>1, <1>2, <1>5, <1>10
  <1>14. Consistent(prog, al', map', busy', prf)
    <2>1. Dispatched(prog, al', map', f)
      <3>1. /\ al'[Len(al) + 1].pc < Len(prog)
            /\ al'[Len(al) + 1].ld = prog[al'[Len(al) + 1].pc + 1].dst
            /\ al'[Len(al) + 1].done = FALSE /\ al'[Len(al) + 1].exception = FALSE
        BY <1>1, <1>2, <1>4, <1>5
      <3>2. Len(al') = Len(al) + 1
        BY <1>11 DEF OneYounger
      <3> QED
        BY <1>13, <3>1, <3>2 DEF Dispatched
    <2> QED
      BY <1>0, <1>9, <1>10, <1>11, <1>12, <2>1, DispatchConsistent
  <1>15. \A k \in 1 .. Len(al) : al[k].pc < Len(prog)
    BY <1>9 DEF Consistent, EntryOK
  <1>16. AllIssued(prog, al', map', busy', prf, s1) /\ AllIssued(prog, al', map', busy', prf, s2)
    <2>1. AllIssued(prog, al', map', busy', prf, s1)
      BY <1>0, <1>9, <1>10, <1>11, <1>12, <1>15, DispatchHeld
    <2>2. AllIssued(prog, al', map', busy', prf, s2)
      BY <1>0, <1>9, <1>10, <1>11, <1>12, <1>15, DispatchHeld
    <2> QED
      BY <2>1, <2>2
  <1>17. AllQueued(prog, al', map', busy', prf, iq')
    <2>1. AllQueued(prog, al', map', busy', prf, iq)
      BY <1>0, <1>9, <1>10, <1>11, <1>12, <1>15, DispatchHeld
    <2>2. QueuedFor(prog, al', map', busy', prf, g, Len(al) + 1)
      <3>1. al'[Len(al) + 1].pc = a /\ prog[a + 1] = i /\ al'[Len(al) + 1].done = FALSE
        BY <1>2, <1>4, <1>5
      <3>2. QueuedFor(prog, al', map', busy', prf, QueueEntry(i, a, f), Len(al) + 1)
        BY <1>0, <1>1, <1>10, <1>11, <1>12, <1>13, <3>1, DispatchEntry
      <3> QED
        BY <1>a, <3>2
    <2> SUFFICES ASSUME NEW k \in 1 .. Len(iq')
                 PROVE  \E j \in 1 .. Len(al') : QueuedFor(prog, al', map', busy', prf, iq'[k], j)
      BY DEF AllQueued
    <2>3. CASE k \in 1 .. Len(iq)
      <3>1. iq'[k] = iq[k]
        BY <1>6, <2>3
      <3> QED
        BY <2>1, <2>3, <3>1 DEF AllQueued
    <2>4. CASE k = Len(iq) + 1
      <3>1. iq'[k] = g /\ Len(al) + 1 \in 1 .. Len(al')
        BY <1>1, <1>5, <1>6, <2>4
      <3> QED
        BY <2>2, <3>1
    <2> QED
      BY <1>6, <2>3, <2>4
  <1>18. InFlightOK'
    <2>1. AllForwarded(prog, al', map', busy', prf, <<>>)
      BY DEF AllForwarded
    <2> QED
      BY <1>1, <1>8, <1>14, <1>16, <1>17, <2>1 DEF InFlightOK
  <1>19. NoException' /\ ResultsAwaited'
    BY <1>1 DEF Normal, NoException, ResultsAwaited, Bypassing
  <1>20. FrontEnd'
    BY <1>1, <1>5, SMTT(30) DEF Normal, FrontEnd
  <1>21. ASSUME NEW k \in 1 .. Len(al)
         PROVE  al[k].pc \in Nat /\ al[k].pc < a /\ al[k].pc + Len(al) + (Len(dir) - n) + 1 = pc + k
    <2>1. al[k].pc \in Nat /\ k \in Nat /\ k <= Len(al)
      <3>1. al[k] \in ActiveListEntry
        BY <1>10
      <3>2. al[k].pc \in Nat
        BY <3>1 DEF ActiveListEntry
      <3>3. k \in Nat /\ k <= Len(al)
        BY <1>1
      <3> QED
        BY <3>2, <3>3
    <2>2. al[k].pc + Len(al) + (Len(dir) - n) + 1 = pc + k
      BY <1>7 DEF Normal, Order
    <2> DEFINE x == al[k].pc
               y == Len(al)
               z == Len(dir) - n
    <2>3. x \in Nat /\ k <= y /\ y \in Nat /\ z \in Int /\ x + y + z + 1 = pc + k /\ a + z = pc
          /\ a \in Nat /\ pc \in Nat /\ k \in Nat
      BY <1>1, <2>1, <2>2
    <2> HIDE DEF x, y, z
    <2>4. x < a
      <3>1. (a + z) + k = x + y + z + 1
        BY <2>3
      <3>2. a + k = x + y + 1
        BY <2>3, <3>1
      <3> QED
        BY <2>3, <3>2
    <2> QED
      BY <2>1, <2>2, <2>4 DEF x
  <1>22. Order'
    <2>1. ASSUME NEW k \in 1 .. Len(al')
          PROVE  al'[k].pc + Len(al') + Remaining' + 1 = pc' + k
      <3> DEFINE y == Len(al)
                 z == Len(dir) - n
      <3>1. y \in Nat /\ z \in Int /\ k \in Nat /\ a + z = pc
            /\ Len(al') = y + 1 /\ Remaining' = z - 1
        BY <1>1, <1>5, <1>8
      <3>2. CASE k \in 1 .. Len(al)
        <4> DEFINE x == al[k].pc
        <4>1. x \in Nat /\ x + y + z + 1 = pc + k /\ al'[k].pc = x
          BY <1>5, <1>21, <3>2
        <4> HIDE DEF x, y, z
        <4>2. x + (y + 1) + (z - 1) + 1 = pc + k
          <5>1. y \in Nat /\ z \in Int /\ pc \in Nat /\ k \in Nat /\ x \in Nat
            BY <1>b, <3>1, <4>1
          <5>2. x + y + z + 1 = pc + k
            BY <4>1
          <5> QED
            BY <5>1, <5>2
        <4> QED
          BY <1>1, <3>1, <4>1, <4>2
      <3>3. CASE k = Len(al) + 1
        <4>1. al'[k].pc = a /\ k = y + 1
          BY <1>2, <1>5, <3>3
        <4> HIDE DEF y, z
        <4>2. a + (y + 1) + (z - 1) + 1 = pc + k
          <5>1. y \in Nat /\ z \in Int /\ pc \in Nat /\ a \in Nat /\ a + z = pc /\ k = y + 1
            BY <1>b, <3>1, <4>1
          <5> QED
            BY <5>1
        <4> QED
          BY <1>1, <3>1, <4>1, <4>2
      <3>4. k \in 1 .. Len(al) \/ k = Len(al) + 1
        BY <1>5, <3>1
      <3> QED
        BY <3>2, <3>3, <3>4
    <2>2. Order
      BY DEF Normal
    <2> QED
      BY <1>1, <2>1, <2>2 DEF Order
  <1>23. NextAddress' = NextAddress
    <2> DEFINE y == Len(al)
               z == Len(dir) - n
    <2>1. y \in Nat /\ z \in Int /\ NextAddress = pc - (z + y)
          /\ NextAddress' = pc - ((z - 1) + (y + 1))
      BY <1>1, <1>5, <1>7, <1>8 DEF NextAddress
    <2> HIDE DEF y, z
    <2> QED
      BY <1>1, <2>1
  <1>24. FirstInstruction'
    <2>1. ASSUME NEW l \in LogReg PROVE MapIn(al', map', 1, l) = MapIn(al, map, 1, l)
      <3>1. 1 \in 1 .. Len(al) + 1
        BY <1>1
      <3> QED
        BY <1>1, <1>11, <3>1, MapYounger
    <2> QED
      BY <1>1, <1>7, <1>8, <1>23, <2>1 DEF Normal, FirstInstruction
  <1>25. /\ OneEach(iq) /\ OneEach(s1) /\ OneEach(s2)
         /\ Apart(iq, s1) /\ Apart(iq, s2) /\ Apart(s1, s2)
    BY DEF Normal, Once
  <1>26. /\ \A k \in 1 .. Len(iq) : iq[k].pc # a
         /\ \A k \in 1 .. Len(s1) : s1[k].pc # a
         /\ \A k \in 1 .. Len(s2) : s2[k].pc # a
    <2>1. ASSUME NEW j \in 1 .. Len(al) PROVE al[j].pc # a
      <3>1. al[j].pc \in Nat /\ al[j].pc < a /\ a \in Nat
        BY <1>1, <1>21
      <3> QED
        BY <3>1
    <2>2. \A k \in 1 .. Len(iq) : iq[k].pc # a
      BY <1>9, <2>1 DEF AllQueued, QueuedFor
    <2>3. \A k \in 1 .. Len(s1) : s1[k].pc # a
      BY <1>9, <2>1 DEF AllIssued, IssuedFor
    <2>4. \A k \in 1 .. Len(s2) : s2[k].pc # a
      BY <1>9, <2>1 DEF AllIssued, IssuedFor
    <2> QED
      BY <2>2, <2>3, <2>4
  <1>27. Once'
    <2>1. ASSUME NEW k \in 1 .. Len(iq')
          PROVE  \/ k \in 1 .. Len(iq) /\ iq'[k].pc = iq[k].pc
                 \/ k = Len(iq) + 1 /\ iq'[k].pc = a
      BY <1>3, <1>6
    <2>2. OneEach(iq')
      BY <1>25, <1>26, <2>1 DEF OneEach
    <2>3. Apart(iq', s1) /\ Apart(iq', s2)
      BY <1>25, <1>26, <2>1 DEF Apart
    <2>4. OneEach(<<>>) /\ Apart(iq', <<>>) /\ Apart(s1, <<>>) /\ Apart(s2, <<>>)
      BY DEF OneEach, Apart
    <2> QED
      BY <1>1, <1>8, <1>25, <2>2, <2>3, <2>4 DEF Once
  <1>28. Covered'
    <2> SUFFICES ASSUME NEW k \in 1 .. Len(al'), ~al'[k].done
                 PROVE  \/ Present(iq', al'[k].pc) \/ Present(s1, al'[k].pc)
                        \/ Present(s2, al'[k].pc) \/ Present(<<>>, al'[k].pc)
      BY <1>1, <1>8 DEF Covered
    <2>1. CASE k \in 1 .. Len(al)
      <3>1. al'[k] = al[k]
        BY <1>5, <2>1
      <3>2. \/ Present(iq, al[k].pc) \/ Present(s1, al[k].pc) \/ Present(s2, al[k].pc)
            \/ Present(<<>>, al[k].pc)
        BY <1>7, <2>1, <3>1 DEF Normal, Covered
      <3>3. Present(iq, al[k].pc) => Present(iq', al[k].pc)
        BY <1>6 DEF Present
      <3> QED
        BY <3>1, <3>2, <3>3
    <2>2. CASE k = Len(al) + 1
      <3>1. al'[k].pc = a /\ Len(iq) + 1 \in 1 .. Len(iq') /\ iq'[Len(iq) + 1].pc = a
        BY <1>2, <1>3, <1>5, <1>6, <2>2
      <3> QED
        BY <3>1 DEF Present
    <2> QED
      BY <1>1, <1>5, <2>1, <2>2
  <1> QED
    BY <1>18, <1>19, <1>20, <1>22, <1>24, <1>27, <1>28 DEF Normal

-----------------------------------------------------------------------------
(* Detection of an exception and what follows *)

\* The exception handler lies behind the program.  An exception is over at the cycle
\* that starts with the PC at the vector: the simulator then stops, if it does not
\* find instructions there.
BelowVector == \A p \in Programs : Len(p) <= ExcVector

\* The oldest instruction raised an exception: its operands are those of the program.
LEMMA Detection ==
    ASSUME IInv, Normal, DetectException
    PROVE  Trapped'
  <1>1. /\ step = "commit" /\ step' = "control" /\ MayRetire /\ ~curr.exc
        /\ curr.al[n + 1].exception
        /\ exc' = TRUE /\ excPC' = curr.al[n + 1].pc
        /\ ctx' = [ctx EXCEPT !.req = Request]
        /\ UNCHANGED <<prog, curr, pc, dir, map, prf, busy, fl, al, iq, s1, s2>>
    BY DEF DetectException, frontEnd, regState, queues, alus
  <1>2. ctx'.req = Request
    BY <1>1, StateTypes DEF Signals
  <1>3. /\ al[1] = curr.al[n + 1] /\ al[1] \in ActiveListEntry /\ al[1].done
        /\ Len(al) \in Nat /\ 1 \in 1 .. Len(al)
    BY <1>1, HeadLatched
  <1>4. excPC' = al[1].pc /\ al[1].exception
    BY <1>1, <1>3
  <1>5. Missing = busy /\ Values = prf
    BY <1>1, NotBypassing, StateTypes DEF Bypassing
  <1>6. Consistent(prog, al, map, busy, prf)
    BY <1>5 DEF Normal, InFlightOK
  <1>7. ASSUME NEW i \in 1 .. Len(al) PROVE EntryOK(prog, al, map, busy, prf, i)
    BY <1>6 DEF Consistent
  <1> DEFINE i1 == prog[al[1].pc + 1]
  <1>8. i1 = InstructionAt(prog, al, 1)
    BY DEF InstructionAt
  <1>9. al[1].pc < Len(prog) /\ Faults(i1.op, Operand2(prog, al, map, prf, 1))
    <2>1. EntryOK(prog, al, map, busy, prf, 1)
      BY <1>3, <1>7
    <2> HIDE DEF i1
    <2> QED
      BY <1>3, <1>4, <1>8, <2>1 DEF EntryOK, Faulty
  <1>10. Operand2(prog, al, map, prf, 1) =
            IF i1.useImm THEN i1.imm ELSE prf[MapIn(al, map, 1, i1.rs2)]
    <2> HIDE DEF i1
    <2> QED
      BY <1>8 DEF Operand2, Source2
  <1>11. Faults(prog[excPC' + 1].op,
                IF prog[excPC' + 1].useImm THEN prog[excPC' + 1].imm
                ELSE prf[MapIn(al, map, 1, prog[excPC' + 1].rs2)])
    BY <1>4, <1>9, <1>10
  <1>12. pc \in Nat /\ dir \in Seq(Nat) /\ Len(dir) \in Nat /\ al[1].pc \in Nat /\ Remaining = Len(dir)
    BY <1>1, <1>3, StateTypes, SMTT(30) DEF ActiveListEntry, Remaining
  <1> DEFINE x == al[1].pc
             y == Len(al)
             z == Len(dir)
  <1>13. x \in Nat /\ y \in Nat /\ y >= 1 /\ z \in Nat /\ pc \in Nat /\ x + y + z + 1 = pc + 1
    <2>1. x + y + Remaining + 1 = pc + 1
      BY <1>3 DEF Normal, Order
    <2> QED
      BY <1>3, <1>12, <2>1
  <1>14. ASSUME NEW i \in 1 .. Len(al) PROVE al[i].pc + 1 = excPC' + i /\ al[i].pc < Len(prog)
    <2>1. al[i].pc < Len(prog)
      BY <1>7 DEF EntryOK
    <2>2. al[i].pc \in Nat
      <3>1. al[i] \in ActiveListEntry
        BY StateTypes
      <3> QED
        BY <3>1 DEF ActiveListEntry
    <2> DEFINE w == al[i].pc
    <2>3. w \in Nat /\ i \in Nat /\ w + y + z + 1 = pc + i
      <3>1. w + Len(al) + Remaining + 1 = pc + i
        BY DEF Normal, Order
      <3> QED
        BY <1>12, <2>2, <3>1
    <2> HIDE DEF w, x, y, z
    <2>4. w + 1 = x + i
      BY <1>13, <2>3
    <2> QED
      BY <1>4, <2>1, <2>4 DEF w, x
  <1>15. ASSUME NEW j \in 1 .. Len(dir) PROVE excPC' < dir[j]
    <2> DEFINE w == dir[j]
    <2>1. w \in Nat /\ j \in Nat /\ j >= 1
      BY <1>12
    <2>2. w + z + 1 = pc + j
      BY DEF Normal, Order
    <2> HIDE DEF w, x, y, z
    <2>3. x < w
      BY <1>13, <2>1, <2>2
    <2> QED
      BY <1>4, <2>3 DEF w, x
  <1>16. \A r \in PhysReg : busy[r] => \E i \in 1 .. Len(al) : r = Dest(al, map, i)
    BY <1>6 DEF Consistent
  <1> HIDE DEF i1, x, y, z
  <1> QED
    BY <1>1, <1>2, <1>4, <1>9, <1>11, <1>14, <1>15, <1>16 DEF Trapped

\* The youngest instruction is undone: the others keep their registers and the one it
\* was given is no longer busy.
LEMMA TrappedRollBack ==
    ASSUME IInv, Trapped, RollBackYoungest
    PROVE  Trapped'
  <1> DEFINE u == al[Len(al)]
  <1>1. /\ step = "commit" /\ step' = "commit" /\ curr.exc /\ exc' = TRUE
        /\ ctx' = [ctx EXCEPT !.req = Request] /\ n' = n + 1
        /\ busy' = [busy EXCEPT ![SpeculativeRegister(Undone)] = FALSE]
        /\ UNCHANGED <<prog, curr, pc, dir, excPC, prf, iq, s1, s2>>
    BY DEF RollBackYoungest, frontEnd, alus
  <1>2. /\ al # <<>> /\ al' = Front(al) /\ Undone = u /\ u \in ActiveListEntry
        /\ map' = [map EXCEPT ![u.ld] = u.old]
    BY RollBackLists
  <1>3. /\ busy' = [busy EXCEPT ![map[u.ld]] = FALSE]
        /\ u.ld \in LogReg /\ u.old \in PhysReg
        /\ map \in [LogReg -> PhysReg] /\ busy \in [PhysReg -> BOOLEAN]
    BY <1>1, <1>2, StateTypes DEF SpeculativeRegister, ActiveListEntry
  <1>4. /\ Len(al') \in Nat /\ Len(al) = Len(al') + 1
        /\ \A k \in 1 .. Len(al') : al'[k] = al[k]
        /\ al[Len(al') + 1] = u
    <2>1. al \in Seq(ActiveListEntry) /\ al # <<>>
      BY <1>2, StateTypes
    <2>2. /\ Len(Front(al)) = Len(al) - 1 /\ Len(al) \in Nat /\ Len(al) > 0
          /\ \A k \in 1 .. Len(al) - 1 : Front(al)[k] = al[k]
      BY <2>1, FrontProperties
    <2> QED
      BY <1>2, <2>2
  <1> HIDE DEF u
  <1>5. OneYounger(al', map', al, map)
    <2>1. map'[u.ld] = u.old /\ \A x \in LogReg : x # u.ld => map[x] = map'[x]
      BY <1>2, <1>3
    <2> QED
      BY <1>3, <1>4, <2>1 DEF OneYounger
  <1>6. ASSUME NEW i \in 1 .. Len(al') + 1, NEW l \in LogReg
        PROVE  MapIn(al, map, i, l) = MapIn(al', map', i, l)
    BY <1>4, <1>5, MapYounger
  <1>7. ctx'.req = Request
    BY <1>1, StateTypes DEF Signals
  <1>8. excPC + 1 \in 1 .. Len(prog) /\ prog[excPC + 1] \in Instruction
    <2>1. excPC \in Nat /\ prog \in Seq(Instruction)
      BY StateTypes DEF TypeOK
    <2>2. excPC < Len(prog)
      BY DEF Trapped
    <2> QED
      BY <2>1, <2>2
  <1> DEFINE i1 == prog[excPC + 1]
  <1>9. Faults(i1.op, IF i1.useImm THEN i1.imm ELSE prf[MapIn(al', map', 1, i1.rs2)])
    <2>1. i1.rs2 \in LogReg /\ 1 \in 1 .. Len(al') + 1
      BY <1>4, <1>8 DEF Instruction
    <2>2. MapIn(al, map, 1, i1.rs2) = MapIn(al', map', 1, i1.rs2)
      BY <1>6, <2>1
    <2> QED
      BY <2>2 DEF Trapped
  <1>10. ASSUME NEW i \in 1 .. Len(al') PROVE al'[i].pc + 1 = excPC + i /\ al'[i].pc < Len(prog)
    <2>1. i \in 1 .. Len(al) /\ al'[i] = al[i]
      BY <1>4
    <2> QED
      BY <2>1 DEF Trapped
  <1>11. ASSUME NEW r \in PhysReg, busy'[r] PROVE \E i \in 1 .. Len(al') : r = Dest(al', map', i)
    <2>1. busy[r] /\ r # map[u.ld]
      BY <1>3, <1>11
    <2>2. PICK i \in 1 .. Len(al) : r = Dest(al, map, i)
      BY <2>1 DEF Trapped
    <2>3. Dest(al, map, Len(al') + 1) = map[al[Len(al') + 1].ld]
      BY <1>4, <1>5, DispatchDest
    <2>4. i # Len(al') + 1
      BY <1>4, <2>1, <2>2, <2>3
    <2>5. i \in 1 .. Len(al') /\ i + 1 \in 1 .. Len(al') + 1
      BY <1>4, <2>4
    <2>6. al[i].ld \in LogReg /\ al'[i] = al[i]
      <3>1. al[i] \in ActiveListEntry
        BY StateTypes
      <3> QED
        BY <1>4, <2>5, <3>1 DEF ActiveListEntry
    <2>7. Dest(al', map', i) = Dest(al, map, i)
      BY <1>6, <2>5, <2>6 DEF Dest
    <2> QED
      BY <2>2, <2>5, <2>7
  <1> HIDE DEF i1
  <1>12. /\ excPC < Len(prog) /\ pc = ExcVector /\ s1 = <<>> /\ s2 = <<>> /\ iq = <<>>
         /\ \A j \in 1 .. Len(dir) : excPC < dir[j]
    BY <1>1 DEF Trapped
  <1> QED
    BY <1>1, <1>7, <1>9, <1>10, <1>11, <1>12 DEF Trapped, i1

\* The other steps take the exception through the stages.
LEMMA TrappedStep ==
    ASSUME IInv, Trapped, BelowVector,
           Next \/ UNCHANGED vars
    PROVE  Trapped'
  <1>1. ctx.req = Request => /\ "executionReset" \in ctx.req
                             /\ "integerQueueReset" \in ctx.req
                             /\ "haltRenameDispatch" \in ctx.req
                             /\ "haltFetchDecode" \in ctx.req
    BY DEF Request
  <1>2. ctx \in Signals /\ Len(al) \in Nat /\ Len(curr.al) \in Nat /\ n \in Nat
    <2>1. ctx \in Signals /\ n \in Nat /\ al \in Seq(ActiveListEntry)
          /\ curr.al \in Seq(ActiveListEntry)
      BY StateTypes
    <2> QED
      BY <2>1
  <1>3. CASE Execute
    <2>1. exc
      <3> SUFFICES ASSUME ~exc PROVE FALSE
        OBVIOUS
      <3>1. /\ pc = ExcVector /\ al = <<>> /\ s1 = <<>> /\ s2 = <<>> /\ iq = <<>>
        BY <1>3 DEF Execute, Trapped
      <3>2. Len(prog) <= pc /\ pc \in Nat /\ Len(prog) \in Nat
        BY <3>1, StateTypes DEF BelowVector, TypeOK
      <3>3. SimulationDone
        BY <3>1, <3>2 DEF SimulationDone, NoInflightWork
      <3> QED
        BY <1>3, <3>3 DEF Execute
    <2>2. /\ ctx'.req = ctx.req /\ step = "execution" /\ step' = "commit" /\ n' = 0
          /\ s1' = <<>> /\ s2' = s1
          /\ UNCHANGED <<prog, curr, pc, dir, exc, excPC, map, prf, busy, al, iq>>
      BY <1>2, <1>3 DEF Execute, frontEnd, excState, regState, queues, Signals
    <2>3. curr.exc
      BY <2>1, <2>2 DEF Trapped
    <2> QED
      BY <2>1, <2>2, <2>3 DEF Trapped
  <1>4. CASE RetireFront \/ DetectException \/ ObserveResults
    BY <1>4 DEF Trapped, RetireFront, DetectException, ObserveResults
  <1>5. CASE RollBackYoungest
    BY <1>5, TrappedRollBack
  <1>6. CASE RollBackEnd
    <2>1. /\ step = "commit" /\ step' = "control" /\ curr.exc /\ curr.al # <<>>
          /\ al = <<>> \/ n = Width
          /\ UNCHANGED <<prog, n, curr, pc, dir, exc, excPC, map, prf, busy, al, iq, s1, s2, ctx>>
      BY <1>6 DEF RollBackEnd, frontEnd, excState, regState, queues, alus
    <2>2. n > 0
      <3>1. CASE n = Width
        BY <1>2, <3>1, SizeAssumption
      <3>2. CASE al = <<>>
        <4>1. Len(al) = Len(curr.al) - n /\ Len(al) = 0
          BY <2>1, <3>2 DEF IInv, ControlInv
        <4>2. Len(curr.al) # 0
          BY <2>1, StateTypes
        <4> QED
          BY <1>2, <4>1, <4>2
      <3> QED
        BY <2>1, <3>1, <3>2
    <2> QED
      BY <2>1, <2>2 DEF Trapped
  <1>7. CASE LeaveException
    <2>1. /\ step = "commit" /\ step' = "control" /\ curr.exc /\ curr.al = <<>>
          /\ exc' = FALSE /\ ctx' = [ctx EXCEPT !.req = Request]
          /\ UNCHANGED <<prog, n, curr, pc, dir, excPC, map, prf, busy, al, iq, s1, s2>>
      BY <1>7 DEF LeaveException, frontEnd, regState, queues, alus
    <2>2. al = <<>>
      <3>1. Len(al) = Len(curr.al) - n /\ Len(curr.al) = 0
        BY <2>1 DEF IInv, ControlInv
      <3>2. Len(al) = 0
        BY <1>2, <3>1
      <3> QED
        BY <3>2, StateTypes
    <2>3. ctx'.req = Request
      BY <1>2, <2>1 DEF Signals
    <2> QED
      BY <2>1, <2>2, <2>3 DEF Trapped
  <1>8. CASE ResetExecution
    <2>1. step = "control" /\ ctx.req = Request
      BY <1>8 DEF ResetExecution, Trapped
    <2>2. /\ step' = "issue" /\ s1' = <<>> /\ s2' = <<>>
          /\ UNCHANGED <<prog, curr, pc, dir, exc, excPC, map, prf, busy, al, iq, ctx>>
      BY <1>1, <1>8, <2>1 DEF ResetExecution, frontEnd, excState, regState, queues
    <2> QED
      BY <2>1, <2>2 DEF Trapped
  <1>9. CASE ResetQueue
    <2>1. /\ step = "issue" /\ step' = "rename" /\ iq' = <<>>
          /\ UNCHANGED <<prog, n, curr, pc, dir, exc, excPC, map, prf, busy, al, s1, s2, ctx>>
      BY <1>9 DEF ResetQueue, frontEnd, excState, regState, alus
    <2> QED
      BY <2>1 DEF Trapped
  <1>10. CASE RenameHalted
    <2>1. /\ step = "rename" /\ step' = "fetch"
          /\ UNCHANGED <<prog, n, curr, pc, dir, exc, excPC, map, prf, busy, al, iq, s1, s2, ctx>>
      BY <1>10 DEF RenameHalted, frontEnd, excState, regState, queues, alus
    <2> QED
      BY <2>1 DEF Trapped
  <1>11. CASE FetchHalted
    <2>1. /\ step = "fetch" /\ step' = "latch" /\ pc' = ExcVector
          /\ UNCHANGED <<prog, n, curr, dir, exc, excPC, map, prf, busy, al, iq, s1, s2, ctx>>
      BY <1>11 DEF FetchHalted, excState, regState, queues, alus
    <2> QED
      BY <2>1 DEF Trapped
  <1>12. CASE Latch
    <2>1. /\ step = "latch" /\ step' = "execution" /\ curr'.exc = exc
          /\ UNCHANGED <<prog, n, pc, dir, exc, excPC, map, prf, busy, al, iq, s1, s2>>
      BY <1>12 DEF Latch, frontEnd, excState, regState, queues, alus
    <2> QED
      BY <2>1 DEF Trapped
  <1>13. CASE \/ WakeUp \/ IssueOldestReady \/ IssueEnd
              \/ WriteBack \/ DispatchNext \/ DispatchEnd \/ FetchStalled \/ FetchAndDecode
    BY <1>1, <1>13 DEF Trapped, WakeUp, IssueOldestReady, IssueEnd, WriteBack, DispatchNext,
                       DispatchEnd, FetchStalled, FetchAndDecode
  <1>14. CASE UNCHANGED vars
    BY <1>14 DEF Trapped, vars
  <1> QED
    BY <1>3, <1>4, <1>5, <1>6, <1>7, <1>8, <1>9, <1>10, <1>11, <1>12, <1>13, <1>14
       DEF Next, Commit, Issue, RenameAndDispatch, Fetch, Terminated

-----------------------------------------------------------------------------
(* The invariant *)

\* Each step from normal operation stays there, unless it detects an exception.
LEMMA NormalStep ==
    ASSUME IInv, Normal, Next \/ UNCHANGED vars, ~DetectException
    PROVE  Normal'
  <1>1. ctx.req = {} /\ ~curr.exc
    BY DEF Normal, NoException
  <1>2. CASE Execute
    BY <1>2, NormalExecute
  <1>3. CASE RetireFront
    BY <1>3, NormalRetire
  <1>4. CASE ObserveResults
    BY <1>4, NormalObserve
  <1>5. CASE RollBackYoungest \/ RollBackEnd \/ LeaveException
    BY <1>1, <1>5 DEF RollBackYoungest, RollBackEnd, LeaveException
  <1>6. CASE ResetQueue \/ RenameHalted \/ FetchHalted
    BY <1>1, <1>6 DEF ResetQueue, RenameHalted, FetchHalted
  <1>7. CASE ResetExecution \/ IssueEnd \/ DispatchEnd \/ FetchStalled
    BY <1>7, NormalQuiet
  <1>8. CASE WakeUp
    BY <1>8, NormalWakeUp
  <1>9. CASE IssueOldestReady
    BY <1>9, NormalIssue
  <1>10. CASE WriteBack
    BY <1>10, NormalWriteBack
  <1>11. CASE DispatchNext
    BY <1>11, NormalDispatch
  <1>12. CASE FetchAndDecode
    BY <1>12, NormalFetch
  <1>13. CASE Latch
    BY <1>13, NormalLatch
  <1>14. CASE UNCHANGED vars
    <2>1. UNCHANGED <<prog, step, n, curr, pc, dir, exc, excPC, map, prf, busy,
                      fl, al, iq, s1, s2, ctx>>
      BY <1>14 DEF vars
    <2>2. SameView
      BY <2>1, ViewKept DEF Bypassing
    <2>3. /\ QueueMissing' = QueueMissing /\ QueueValues' = QueueValues /\ Results' = Results
          /\ Remaining' = Remaining /\ NextAddress' = NextAddress
      BY <2>1, <2>2 DEF SameView, QueueMissing, QueueValues, BeforeWakeUp, Results,
                        Remaining, NextAddress
    <2>4. InFlightOK' /\ Once' /\ Covered' /\ FirstInstruction'
      BY <2>1, <2>2, <2>3, QuietStep
    <2>5. NoException' /\ ResultsAwaited' /\ FrontEnd' /\ Order'
      BY <2>1, <2>3 DEF Normal, NoException, ResultsAwaited, FrontEnd, Order, Bypassing
    <2> QED
      BY <2>4, <2>5 DEF Normal
  <1> QED
    BY <1>2, <1>3, <1>4, <1>5, <1>6, <1>7, <1>8, <1>9, <1>10, <1>11, <1>12, <1>13, <1>14
       DEF Next, Commit, Issue, RenameAndDispatch, Fetch, Terminated

\* At the start nothing is in flight.
LEMMA NormalInit ==
    ASSUME IInv, Init
    PROVE  Normal
  <1>1. /\ step = "execution" /\ n = 0 /\ pc = 0 /\ dir = <<>> /\ exc = FALSE /\ excPC = 0
        /\ curr = [pc |-> 0, dir |-> <<>>, exc |-> FALSE, al |-> <<>>]
        /\ prf = [r \in PhysReg |-> 0] /\ busy = [r \in PhysReg |-> FALSE]
        /\ al = <<>> /\ iq = <<>> /\ s1 = <<>> /\ s2 = <<>> /\ ctx = NoSignals
    BY DEF Init
  <1>2. Missing = busy /\ Values = prf
    BY <1>1, NotBypassing, StateTypes DEF Bypassing
  <1>3. QueueMissing = busy /\ QueueValues = prf /\ Results = <<>> /\ Remaining = 0
    BY <1>1, <1>2 DEF QueueMissing, QueueValues, BeforeWakeUp, Results, Remaining
  <1>4. Len(<<>>) = 0 /\ \A i \in 1 .. 0 : FALSE
    OBVIOUS
  <1>5. InFlightOK
    <2>1. Consistent(prog, <<>>, map, busy, prf)
      BY <1>1, <1>4 DEF Consistent
    <2>2. /\ AllQueued(prog, <<>>, map, busy, prf, <<>>)
          /\ AllIssued(prog, <<>>, map, busy, prf, <<>>)
          /\ AllForwarded(prog, <<>>, map, busy, prf, <<>>)
      BY <1>4 DEF AllQueued, AllIssued, AllForwarded
    <2> QED
      BY <1>1, <1>2, <1>3, <2>1, <2>2 DEF InFlightOK
  <1>6. Once /\ Covered
    <2>1. OneEach(<<>>) /\ Apart(<<>>, <<>>)
      BY <1>4 DEF OneEach, Apart
    <2> QED
      BY <1>1, <1>3, <1>4, <2>1 DEF Once, Covered
  <1>7. NoException /\ FrontEnd /\ Order /\ ResultsAwaited
    BY <1>1, <1>3, <1>4 DEF NoException, FrontEnd, Order, ResultsAwaited, Bypassing, NoSignals
  <1>8. FirstInstruction
    <2>1. NextAddress = 0
      <3>1. NextAddress = 0 - (0 + 0)
        BY <1>1, <1>3, <1>4 DEF NextAddress
      <3> QED
        BY <3>1
    <2>2. ASSUME NEW l \in LogReg PROVE Values[MapIn(al, map, 1, l)] = 0
      <3>1. MapIn(al, map, 1, l) \in PhysReg
        <4>1. Len(al) \in Nat /\ 1 \in Nat \ {0} /\ map \in [LogReg -> PhysReg]
          BY StateTypes
        <4>2. \A k \in 1 .. Len(al) : al[k].old \in PhysReg
          BY <1>1, <1>4
        <4> QED
          BY <4>1, <4>2, MapType
      <3> QED
        BY <1>1, <1>2, <3>1
    <2> QED
      BY <2>1, <2>2 DEF FirstInstruction
  <1> QED
    BY <1>5, <1>6, <1>7, <1>8 DEF Normal

\* The invariant of the pipeline, in every state.
LEMMA PipelineInvariant ==
    ASSUME BelowVector
    PROVE  Spec => [](IInv /\ PInv)
  <1>1. IInv /\ Init => PInv
    BY NormalInit DEF PInv
  <1>2. IInv /\ PInv /\ [Next]_vars => PInv'
    <2> SUFFICES ASSUME IInv, PInv, Next \/ UNCHANGED vars
                 PROVE  PInv'
      OBVIOUS
    <2>1. CASE Normal
      <3>1. CASE DetectException
        BY <2>1, <3>1, Detection DEF PInv
      <3> QED
        BY <2>1, <3>1, NormalStep DEF PInv
    <2>2. CASE Trapped
      BY <2>2, TrappedStep DEF PInv
    <2> QED
      BY <2>1, <2>2 DEF PInv
  <1> QED
    BY <1>1, <1>2, Inductive, PTL DEF Spec

-----------------------------------------------------------------------------
(* Instructions on their way at the start of a cycle *)

\* Nothing is being delivered then.
LEMMA StartState ==
    ASSUME IInv, Normal, CycleStart
    PROVE  /\ Consistent(prog, al, map, busy, prf)
           /\ AllQueued(prog, al, map, busy, prf, iq)
           /\ AllIssued(prog, al, map, busy, prf, s1)
           /\ AllIssued(prog, al, map, busy, prf, s2)
           /\ Results = <<>> /\ Remaining = Len(dir)
           /\ OneEach(al)
  <1>1. step = "execution" /\ Order
    BY DEF CycleStart, Normal
  <1>2. Missing = busy /\ Values = prf
    BY <1>1, NotBypassing, StateTypes DEF Bypassing
  <1>3. QueueMissing = busy /\ QueueValues = prf /\ Results = <<>> /\ Remaining = Len(dir)
    BY <1>1, <1>2 DEF QueueMissing, QueueValues, BeforeWakeUp, Results, Remaining
  <1>4. OneEach(al)
    BY <1>1, OrderedOnce
  <1> QED
    BY <1>2, <1>3, <1>4 DEF Normal, InFlightOK

\* The three places, as sequences and as one set.
LEMMA FlightPlaces ==
    ASSUME IInv, NEW e
    PROVE  e \in InFlight <=> \/ \E k \in 1 .. Len(iq) : e = iq[k]
                              \/ \E k \in 1 .. Len(s1) : e = s1[k]
                              \/ \E k \in 1 .. Len(s2) : e = s2[k]
  <1>1. DOMAIN iq = 1 .. Len(iq) /\ DOMAIN s1 = 1 .. Len(s1) /\ DOMAIN s2 = 1 .. Len(s2)
    BY StateTypes
  <1> QED
    BY <1>1 DEF InFlight

\* What is on its way is an instruction that is not done.
LEMMA FlightEntry ==
    ASSUME IInv, Normal, CycleStart, NEW e \in InFlight
    PROVE  \E i \in 1 .. Len(al) :
              ~al[i].done /\ e.pc = al[i].pc /\ e.dst = Dest(al, map, i)
  <1>1. /\ AllQueued(prog, al, map, busy, prf, iq)
        /\ AllIssued(prog, al, map, busy, prf, s1)
        /\ AllIssued(prog, al, map, busy, prf, s2)
    BY StartState
  <1>2. ASSUME NEW k \in 1 .. Len(iq)
        PROVE  \E i \in 1 .. Len(al) :
                  ~al[i].done /\ iq[k].pc = al[i].pc /\ iq[k].dst = Dest(al, map, i)
    BY <1>1 DEF AllQueued, QueuedFor
  <1>3. ASSUME NEW k \in 1 .. Len(s1)
        PROVE  \E i \in 1 .. Len(al) :
                  ~al[i].done /\ s1[k].pc = al[i].pc /\ s1[k].dst = Dest(al, map, i)
    BY <1>1 DEF AllIssued, IssuedFor
  <1>4. ASSUME NEW k \in 1 .. Len(s2)
        PROVE  \E i \in 1 .. Len(al) :
                  ~al[i].done /\ s2[k].pc = al[i].pc /\ s2[k].dst = Dest(al, map, i)
    BY <1>1 DEF AllIssued, IssuedFor
  <1> QED
    BY <1>2, <1>3, <1>4, FlightPlaces

\* And every instruction that is not done is on its way.
LEMMA FlightCovers ==
    ASSUME IInv, Normal, CycleStart, NEW i \in 1 .. Len(al), ~al[i].done
    PROVE  \E e \in InFlight : e.pc = al[i].pc /\ e.dst = Dest(al, map, i)
  <1>1. Results = <<>> /\ OneEach(al)
    BY StartState
  <1>2. \/ Present(iq, al[i].pc) \/ Present(s1, al[i].pc) \/ Present(s2, al[i].pc)
    <2>1. ~Present(<<>>, al[i].pc)
      BY DEF Present
    <2> QED
      BY <1>1, <2>1 DEF Normal, Covered
  <1>3. PICK e \in InFlight : e.pc = al[i].pc
    <2>1. \/ \E k \in 1 .. Len(iq) : iq[k].pc = al[i].pc
          \/ \E k \in 1 .. Len(s1) : s1[k].pc = al[i].pc
          \/ \E k \in 1 .. Len(s2) : s2[k].pc = al[i].pc
      BY <1>2 DEF Present
    <2> QED
      BY <2>1, FlightPlaces
  <1>4. PICK j \in 1 .. Len(al) : e.pc = al[j].pc /\ e.dst = Dest(al, map, j)
    BY FlightEntry
  <1>5. j = i
    BY <1>1, <1>3, <1>4 DEF OneEach
  <1> QED
    BY <1>3, <1>4, <1>5

\* A register without a value is the destination of an instruction on its way, or of a
\* head that faults.
LEMMA BusyRegister ==
    ASSUME IInv, Normal, CycleStart, NEW r \in PhysReg, busy[r]
    PROVE  \E i \in 1 .. Len(al) :
              /\ r = Dest(al, map, i)
              /\ \/ \E e \in InFlight : e.pc = al[i].pc /\ e.dst = r
                 \/ i = 1 /\ al[1].exception
  <1>1. Consistent(prog, al, map, busy, prf)
    BY StartState
  <1>2. PICK i \in 1 .. Len(al) : r = Dest(al, map, i)
    BY <1>1 DEF Consistent
  <1>3. CASE ~al[i].done
    BY <1>2, <1>3, FlightCovers
  <1>4. CASE al[i].done
    <2>1. EntryOK(prog, al, map, busy, prf, i)
      BY <1>1 DEF Consistent
    <2>2. i = 1 /\ al[i].exception
      BY <1>2, <1>4, <2>1 DEF EntryOK
    <2> QED
      BY <1>2, <2>2
  <1> QED
    BY <1>3, <1>4

\* After an exception nothing is on its way.
LEMMA TrappedStart ==
    ASSUME Trapped, CycleStart
    PROVE  /\ iq = <<>> /\ s1 = <<>> /\ s2 = <<>> /\ InFlight = {}
           /\ exc = curr.exc /\ pc = ExcVector
  BY DEF Trapped, CycleStart, InFlight

-----------------------------------------------------------------------------
(* Busy bits, wakeups and operands *)

\* Before the first unit of a cycle runs, busy registers and instructions in flight agree.
LEMMA BusyState ==
    ASSUME IInv, PInv
    PROVE  BusyMeansInFlight
  <1> SUFFICES ASSUME CycleStart
               PROVE  /\ \A e \in InFlight : busy[e.dst]
                      /\ \A r \in PhysReg : busy[r] =>
                            \/ \E e \in InFlight : e.dst = r
                            \/ al # <<>> /\ Head(al).exception /\ r = Destination(1)
                            \/ exc /\ \E i \in DOMAIN al : r = Destination(i)
    BY DEF BusyMeansInFlight
  <1>1. /\ DOMAIN al = 1 .. Len(al)
        /\ \A i \in 1 .. Len(al) : Destination(i) = Dest(al, map, i)
    BY StateTypes, RenamingTerms
  <1>2. CASE Normal
    <2>1. ASSUME NEW e \in InFlight PROVE busy[e.dst]
      <3>1. PICK i \in 1 .. Len(al) : ~al[i].done /\ e.dst = Dest(al, map, i)
        BY <1>2, FlightEntry
      <3>2. EntryOK(prog, al, map, busy, prf, i)
        BY <1>2, StartState DEF Consistent
      <3> QED
        BY <3>1, <3>2 DEF EntryOK
    <2>2. ASSUME NEW r \in PhysReg, busy[r]
          PROVE  \/ \E e \in InFlight : e.dst = r
                 \/ al # <<>> /\ Head(al).exception /\ r = Destination(1)
      <3>1. PICK i \in 1 .. Len(al) :
               /\ r = Dest(al, map, i)
               /\ \/ \E e \in InFlight : e.pc = al[i].pc /\ e.dst = r
                  \/ i = 1 /\ al[1].exception
        BY <1>2, <2>2, BusyRegister
      <3>2. i = 1 => al # <<>> /\ Head(al) = al[1]
        BY StateTypes
      <3> QED
        BY <1>1, <3>1, <3>2
    <2> QED
      BY <2>1, <2>2
  <1>3. CASE Trapped
    <2>1. ASSUME NEW r \in PhysReg, busy[r]
          PROVE  exc /\ \E i \in DOMAIN al : r = Destination(i)
      <3>1. PICK i \in 1 .. Len(al) : r = Dest(al, map, i)
        BY <1>3, <2>1 DEF Trapped
      <3>2. al # <<>>
        BY <3>1
      <3> QED
        BY <1>1, <1>3, <3>1, <3>2 DEF Trapped
    <2> QED
      BY <1>3, <2>1, TrappedStart
  <1> QED
    BY <1>2, <1>3 DEF PInv

\* The producer of a missing operand is older than the instruction that waits for it.
LEMMA Producer ==
    ASSUME IInv, Normal, CycleStart,
           NEW i \in 1 .. Len(al), NEW l \in LogReg,
           NEW t \in PhysReg, t = MapIn(al, map, i, l), busy[t]
    PROVE  \/ \E e \in InFlight : e.dst = t /\ e.pc < al[i].pc
           \/ Head(al).exception /\ t = Destination(1)
  <1>1. PICK j \in 1 .. Len(al) :
           /\ t = Dest(al, map, j)
           /\ \/ \E e \in InFlight : e.pc = al[j].pc /\ e.dst = t
              \/ j = 1 /\ al[1].exception
    BY BusyRegister
  <1>2. /\ al \in Seq(ActiveListEntry) /\ Len(al) \in Nat /\ InUseOnce(al, map)
        /\ al[i] \in ActiveListEntry /\ al[j] \in ActiveListEntry
    <2>1. al \in Seq(ActiveListEntry) /\ InUseOnce(al, map)
      BY StateTypes
    <2> QED
      BY <2>1
  <1>3. j < i
    <2>1. al[j].ld \in LogReg /\ i \in 1 .. Len(al) + 1
      BY <1>2 DEF ActiveListEntry
    <2>2. MapIn(al, map, i, l) = Dest(al, map, j)
      BY <1>1
    <2> QED
      BY <1>2, <2>1, <2>2, SourceOlder
  <1>4. al[j].pc < al[i].pc
    <2> DEFINE x == al[j].pc
               y == al[i].pc
               z == Len(al)
               d == Remaining
    <2>1. Remaining \in Int /\ pc \in Nat
      BY StateTypes DEF Remaining
    <2>2. x \in Nat /\ y \in Nat /\ z \in Nat
      BY <1>2 DEF ActiveListEntry
    <2>3. x + z + d + 1 = pc + j /\ y + z + d + 1 = pc + i /\ d \in Int /\ pc \in Nat
      BY <2>1 DEF Normal, Order
    <2> HIDE DEF x, y, z, d
    <2>4. i \in Int /\ j \in Int
      OBVIOUS
    <2>5. x < y
      BY <1>3, <2>2, <2>3, <2>4
    <2> QED
      BY <2>5 DEF x, y
  <1>5. CASE \E e \in InFlight : e.pc = al[j].pc /\ e.dst = t
    BY <1>4, <1>5
  <1>6. CASE j = 1 /\ al[1].exception
    <2>1. 1 \in DOMAIN al /\ Head(al) = al[1]
      BY <1>2, <1>6
    <2>2. Destination(1) = Dest(al, map, 1)
      BY <2>1, StateTypes, RenamingTerms
    <2> QED
      BY <1>1, <1>6, <2>1, <2>2
  <1> QED
    BY <1>1, <1>5, <1>6

\* Before the first unit of a cycle runs, every missing operand has a producer in flight.
LEMMA WakeupState ==
    ASSUME IInv, PInv
    PROVE  NoLostWakeup
  <1> SUFFICES ASSUME CycleStart, NEW k \in DOMAIN iq,
                      NEW t \in (IF iq[k].aReady THEN {} ELSE {iq[k].aTag})
                                   \cup (IF iq[k].bReady THEN {} ELSE {iq[k].bTag})
               PROVE  \/ \E e \in InFlight : e.dst = t /\ e.pc < iq[k].pc
                      \/ Head(al).exception /\ t = Destination(1)
    BY DEF NoLostWakeup
  <1>1. k \in 1 .. Len(iq)
    BY StateTypes
  <1>2. CASE Normal
    <2>1. PICK i \in 1 .. Len(al) : QueuedFor(prog, al, map, busy, prf, iq[k], i)
      BY <1>1, <1>2, StartState DEF AllQueued
    <2>2. al[i].pc < Len(prog)
      BY <1>2, StartState DEF Consistent, EntryOK
    <2>3. /\ InstructionAt(prog, al, i).rs1 \in LogReg /\ InstructionAt(prog, al, i).rs2 \in LogReg
          /\ Source1(prog, al, map, i) \in PhysReg /\ Source2(prog, al, map, i) \in PhysReg
      <3>1. Typing(prog, al, map, busy, prf)
        BY StateTypes
      <3> QED
        BY <2>2, <3>1, Registers
    <2>4. \/ t = Source1(prog, al, map, i) /\ busy[Source1(prog, al, map, i)]
          \/ t = Source2(prog, al, map, i) /\ busy[Source2(prog, al, map, i)]
      BY <2>1 DEF QueuedFor
    <2>5. PICK l \in LogReg : t = MapIn(al, map, i, l)
      BY <2>3, <2>4 DEF Source1, Source2
    <2>6. t \in PhysReg /\ busy[t]
      BY <2>3, <2>4
    <2>7. iq[k].pc = al[i].pc
      BY <2>1 DEF QueuedFor
    <2> QED
      BY <1>2, <2>5, <2>6, <2>7, Producer
  <1>3. CASE Trapped
    BY <1>1, <1>3, TrappedStart
  <1> QED
    BY <1>2, <1>3 DEF PInv

\* Before the first unit of a cycle runs, the operands in the queue are the registers'.
LEMMA OperandState ==
    ASSUME IInv, PInv
    PROVE  OperandsMatchRegisters
  <1> SUFFICES ASSUME CycleStart, NEW k \in DOMAIN iq
               PROVE  /\ iq[k].aReady => iq[k].aVal = prf[iq[k].aTag]
                      /\ iq[k].bReady /\ ~prog[iq[k].pc + 1].useImm
                            => iq[k].bVal = prf[iq[k].bTag]
    BY DEF OperandsMatchRegisters
  <1>1. k \in 1 .. Len(iq)
    BY StateTypes
  <1>2. CASE Normal
    <2>1. PICK i \in 1 .. Len(al) : QueuedFor(prog, al, map, busy, prf, iq[k], i)
      BY <1>1, <1>2, StartState DEF AllQueued
    <2>2. prog[iq[k].pc + 1] = InstructionAt(prog, al, i)
      BY <2>1 DEF QueuedFor, InstructionAt
    <2> QED
      BY <2>1, <2>2 DEF QueuedFor
  <1>3. CASE Trapped
    BY <1>1, <1>3, TrappedStart
  <1> QED
    BY <1>2, <1>3 DEF PInv

-----------------------------------------------------------------------------
(* Program order and recovery *)

\* The next instruction to retire is the head of the Active List, or the first of the
\* DIR that is still to be dispatched, or the one at the PC.
LEMMA NextAddressIs ==
    ASSUME IInv, Normal
    PROVE  /\ Len(al) \in Nat /\ Remaining \in 0 .. Len(dir) /\ Len(dir) \in Nat
           /\ NextAddress \in Nat
           /\ al # <<>> => NextAddress = al[1].pc
           /\ al = <<>> /\ Remaining # 0 => NextAddress = dir[Len(dir) - Remaining + 1]
           /\ al = <<>> /\ Remaining = 0 => NextAddress = pc
  <1>1. /\ pc \in Nat /\ n \in Nat /\ al \in Seq(ActiveListEntry) /\ dir \in Seq(Nat)
    BY StateTypes
  <1>2. Len(al) \in Nat /\ Len(dir) \in Nat /\ (al = <<>> <=> Len(al) = 0)
    BY <1>1
  <1>3. Remaining \in 0 .. Len(dir)
    <2>1. step = "dispatch" => n <= Len(dir)
      BY DEF IInv, ControlInv, Normal, FrontEnd
    <2> QED
      BY <1>1, <1>2, <2>1 DEF Remaining
  <1> DEFINE y == Len(al)
             z == Remaining
             d == Len(dir)
  <1>4. NextAddress = pc - (z + y) /\ y \in Nat /\ z \in 0 .. d /\ d \in Nat
    BY <1>2, <1>3 DEF NextAddress
  <1>5. CASE al # <<>>
    <2> DEFINE x == al[1].pc
    <2>1. x \in Nat
      <3>1. al[1] \in ActiveListEntry
        BY <1>1, <1>5
      <3> QED
        BY <3>1 DEF ActiveListEntry
    <2>2. x + y + z + 1 = pc + 1
      <3>1. 1 \in 1 .. Len(al)
        BY <1>2, <1>5
      <3> QED
        BY <3>1 DEF Normal, Order
    <2> HIDE DEF x, y, z, d
    <2>3. NextAddress = x
      BY <1>1, <1>4, <2>1, <2>2
    <2> QED
      BY <1>2, <1>3, <1>5, <2>1, <2>3 DEF x
  <1>6. CASE al = <<>> /\ Remaining # 0
    <2> DEFINE k == Len(dir) - Remaining + 1
               x == dir[k]
    <2>1. k \in 1 .. Len(dir)
      BY <1>2, <1>3, <1>6
    <2>2. x \in Nat
      BY <1>1, <2>1
    <2>3. x + d + 1 = pc + k
      BY <2>1 DEF Normal, Order
    <2>4. y = 0 /\ k = d - z + 1
      BY <1>2, <1>6
    <2> HIDE DEF x, y, z, d, k
    <2>5. NextAddress = x
      BY <1>1, <1>4, <2>2, <2>3, <2>4
    <2> QED
      BY <1>2, <1>3, <1>6, <2>2, <2>5 DEF x, k
  <1>7. CASE al = <<>> /\ Remaining = 0
    <2>1. NextAddress = pc - (0 + 0)
      BY <1>2, <1>7 DEF NextAddress
    <2> QED
      BY <1>1, <1>2, <1>3, <1>7, <2>1
  <1> QED
    BY <1>5, <1>6, <1>7

\* An exception PC of 0 is only taken for an exception at the very end of an empty run.
LEMMA RecoveredNormal ==
    ASSUME IInv, Normal, Recovered
    PROVE  /\ al = <<>> /\ Remaining = 0
           /\ iq = <<>> /\ s1 = <<>> /\ s2 = <<>>
           /\ \A r \in PhysReg : ~Missing[r]
  <1>1. /\ NextAddress \in Nat
        /\ Len(al) \in Nat /\ Remaining \in 0 .. Len(dir) /\ Len(dir) \in Nat
        /\ al # <<>> => NextAddress = al[1].pc
        /\ al = <<>> /\ Remaining # 0 => NextAddress = dir[Len(dir) - Remaining + 1]
    BY NextAddressIs
  <1>2. /\ excPC = 0
        /\ \A k \in DOMAIN al : al[k].pc # 0
        /\ \A k \in DOMAIN dir : dir[k] # 0
    BY DEF Recovered, Normal, NoException
  <1>3. prog[1].op \in {"divu", "remu"} /\ (prog[1].useImm => prog[1].imm = 0)
    <2>1. prog[excPC + 1] = prog[1]
      BY <1>2
    <2> DEFINE i1 == prog[1]
    <2>2. Faults(i1.op, IF i1.useImm THEN i1.imm ELSE ArchRegs[i1.rs2])
      BY <2>1 DEF Recovered
    <2> QED
      BY <2>2 DEF Faults
  <1>4. NextAddress = 0
    <2>1. ~(NextAddress > 0)
      BY <1>3 DEF Normal, FirstInstruction
    <2> QED
      BY <1>1, <2>1
  <1>5. al = <<>>
    <2>1. al # <<>> => 1 \in DOMAIN al
      BY StateTypes
    <2> QED
      BY <1>1, <1>2, <1>4, <2>1
  <1>6. Remaining = 0
    <2> SUFFICES ASSUME Remaining # 0 PROVE FALSE
      OBVIOUS
    <2>1. Len(dir) - Remaining + 1 \in 1 .. Len(dir)
      BY <1>1
    <2>2. Len(dir) - Remaining + 1 \in DOMAIN dir
      BY <2>1, StateTypes
    <2> QED
      BY <1>1, <1>2, <1>4, <1>5, <2>2
  <1>7. \A i \in 1 .. Len(al) : FALSE
    BY <1>5
  <1>8. iq = <<>> /\ s1 = <<>> /\ s2 = <<>>
    <2>1. /\ \A k \in 1 .. Len(iq) : FALSE
          /\ \A k \in 1 .. Len(s1) : FALSE
          /\ \A k \in 1 .. Len(s2) : FALSE
      BY <1>7 DEF Normal, InFlightOK, AllQueued, AllIssued
    <2>2. /\ iq \in Seq(IntegerQueueEntry) /\ s1 \in Seq(IssuedInstruction)
          /\ s2 \in Seq(IssuedInstruction)
      BY StateTypes
    <2> QED
      BY <2>1, <2>2
  <1>9. \A r \in PhysReg : ~Missing[r]
    BY <1>7 DEF Normal, InFlightOK, Consistent
  <1> QED
    BY <1>5, <1>6, <1>8, <1>9

\* An exception that was detected and is over has been handled.
LEMMA TrappedRecovered ==
    ASSUME IInv, Trapped, ~exc
    PROVE  Recovered /\ al = <<>> /\ pc = ExcVector
  <1>1. al = <<>>
    BY DEF Trapped
  <1>2. pc = ExcVector
    <2>1. step \in {"execution", "commit", "control", "issue", "select",
                    "rename", "dispatch", "fetch", "latch"}
      BY StateTypes DEF TypeOK
    <2> QED
      BY <2>1 DEF Trapped
  <1>3. \A k \in DOMAIN al : al[k].pc # excPC
    BY <1>1, StateTypes
  <1>4. \A k \in DOMAIN dir : dir[k] # excPC
    <2>1. DOMAIN dir = 1 .. Len(dir) /\ excPC \in Nat /\ \A k \in 1 .. Len(dir) : dir[k] \in Nat
      <3>1. dir \in Seq(Nat) /\ excPC \in Nat
        BY StateTypes DEF TypeOK
      <3> QED
        BY <3>1
    <2>2. \A k \in 1 .. Len(dir) : excPC < dir[k]
      BY DEF Trapped
    <2> QED
      BY <2>1, <2>2
  <1> DEFINE i1 == prog[excPC + 1]
  <1>5. Faults(i1.op, IF i1.useImm THEN i1.imm ELSE ArchRegs[i1.rs2])
    <2>1. i1.rs2 \in LogReg
      <3>1. excPC \in Nat /\ prog \in Seq(Instruction) /\ excPC < Len(prog)
        BY StateTypes DEF TypeOK, Trapped
      <3>2. i1 \in Instruction
        BY <3>1
      <3> QED
        BY <3>2 DEF Instruction
    <2>2. ArchRegs[i1.rs2] = prf[MapIn(al, map, 1, i1.rs2)]
      BY <2>1, StateTypes, RenamingTerms DEF ArchRegs
    <2> QED
      BY <2>2 DEF Trapped
  <1> QED
    BY <1>1, <1>2, <1>3, <1>4, <1>5 DEF Recovered

\* Exception mode holds no instruction outside the Active List, and leaves none behind.
LEMMA RecoveryState ==
    ASSUME IInv, PInv
    PROVE  CleanRecovery
  <1> SUFFICES ASSUME CycleStart, exc \/ Recovered
               PROVE  /\ iq = <<>> /\ s1 = <<>> /\ s2 = <<>>
                      /\ ~exc => al = <<>> /\ Len(fl) = FLCap /\ \A r \in PhysReg : ~busy[r]
    BY DEF CleanRecovery
  <1>1. al = <<>> => Len(fl) = FLCap
    <2>1. fl \in Seq(PhysReg) /\ Len(fl) + Len(al) = FLCap
      BY StateTypes DEF IInv, QueuesFit
    <2> QED
      BY <2>1
  <1>2. CASE Normal
    <2>1. Recovered
      BY <1>2 DEF Normal, NoException
    <2>2. Missing = busy
      BY NotBypassing, StateTypes DEF CycleStart, Bypassing
    <2> QED
      BY <1>1, <1>2, <2>1, <2>2, RecoveredNormal
  <1>3. CASE Trapped
    <2>1. ~exc => al = <<>> /\ \A r \in PhysReg : ~busy[r]
      BY <1>3 DEF Trapped
    <2> QED
      BY <1>1, <1>3, <2>1, TrappedStart
  <1> QED
    BY <1>2, <1>3 DEF PInv

\* The Active List, the DIR and the PC follow the program.
LEMMA OrderState ==
    ASSUME IInv, PInv
    PROVE  ProgramOrder
  <1> DEFINE heads == [i \in DOMAIN al |-> al[i].pc]
             follow == IF exc \/ Recovered THEN <<>> ELSE Append(dir, pc)
             addresses == heads \o follow
  <1> SUFFICES ASSUME CycleStart, NEW i \in 1 .. Len(addresses) - 1
               PROVE  addresses[i + 1] = addresses[i] + 1
    BY DEF ProgramOrder
  <1>1. /\ al \in Seq(ActiveListEntry) /\ Len(al) \in Nat /\ DOMAIN al = 1 .. Len(al)
        /\ dir \in Seq(Nat) /\ Len(dir) \in Nat /\ pc \in Nat
        /\ \A k \in 1 .. Len(al) : al[k].pc \in Nat
    <2>1. al \in Seq(ActiveListEntry) /\ dir \in Seq(Nat) /\ pc \in Nat
      BY StateTypes
    <2>2. ASSUME NEW k \in 1 .. Len(al) PROVE al[k].pc \in Nat
      <3>1. al[k] \in ActiveListEntry
        BY <2>1
      <3> QED
        BY <3>1 DEF ActiveListEntry
    <2> QED
      BY <2>1, <2>2
  <1>2. /\ heads \in Seq(Nat) /\ Len(heads) = Len(al)
        /\ \A k \in 1 .. Len(al) : heads[k] = al[k].pc
    BY <1>1
  <1>3. follow \in Seq(Nat)
    BY <1>1
  <1> HIDE DEF heads, follow
  <1>4. /\ Len(addresses) = Len(al) + Len(follow) /\ Len(follow) \in Nat
        /\ \A k \in 1 .. Len(al) + Len(follow) :
              addresses[k] = IF k <= Len(al) THEN heads[k] ELSE follow[k - Len(al)]
    <2>1. /\ Len(heads \o follow) = Len(heads) + Len(follow)
          /\ \A k \in 1 .. Len(heads) + Len(follow) :
                (heads \o follow)[k] = IF k <= Len(heads) THEN heads[k] ELSE follow[k - Len(heads)]
      BY <1>2, <1>3, ConcatProperties
    <2>2. Len(follow) \in Nat
      BY <1>3
    <2>3. addresses = heads \o follow /\ Len(heads) = Len(al)
      BY <1>2
    <2> HIDE DEF addresses
    <2> QED
      BY <2>1, <2>2, <2>3
  <1> HIDE DEF addresses
  <1>5. i \in Nat /\ i >= 1 /\ i + 1 \in 1 .. Len(al) + Len(follow) /\ i \in 1 .. Len(al) + Len(follow)
    BY <1>1, <1>4
  <1>6. CASE exc \/ Recovered
    <2>1. follow = <<>> /\ Len(follow) = 0
      BY <1>6 DEF follow
    <2>2. i \in 1 .. Len(al) /\ i + 1 \in 1 .. Len(al)
      BY <1>1, <1>5, <2>1
    <2>3. Trapped
      <3>1. CASE Normal
        <4>1. Recovered
          BY <1>6, <3>1 DEF Normal, NoException
        <4>2. al = <<>>
          BY <3>1, <4>1, RecoveredNormal
        <4> QED
          BY <2>2, <4>2
      <3> QED
        BY <3>1 DEF PInv
    <2>4. al[i].pc + 1 = excPC + i /\ al[i + 1].pc + 1 = excPC + (i + 1) /\ excPC \in Nat
      BY <2>2, <2>3, StateTypes DEF Trapped, TypeOK
    <2>5. addresses[i] = al[i].pc /\ addresses[i + 1] = al[i + 1].pc
      <3>1. i <= Len(al) /\ i + 1 <= Len(al)
        BY <1>1, <2>2
      <3>2. addresses[i] = heads[i] /\ addresses[i + 1] = heads[i + 1]
        BY <1>4, <1>5, <3>1
      <3> QED
        BY <1>2, <2>2, <3>2
    <2>6. al[i].pc \in Nat /\ al[i + 1].pc \in Nat
      BY <1>1, <2>2
    <2> QED
      BY <1>5, <2>4, <2>5, <2>6, SMTT(30)
  <1>7. CASE ~exc /\ ~Recovered
    <2>1. Normal
      BY <1>7, TrappedRecovered DEF PInv
    <2>2. follow = Append(dir, pc) /\ Len(follow) = Len(dir) + 1
          /\ \A k \in 1 .. Len(dir) : follow[k] = dir[k]
          /\ follow[Len(dir) + 1] = pc
      <3>1. follow = Append(dir, pc)
        BY <1>7 DEF follow
      <3> QED
        BY <1>1, <3>1
    <2>3. Remaining = Len(dir)
      BY <2>1, StartState
    <2> DEFINE y == Len(al)
               d == Len(dir)
    <2>4. y \in Nat /\ d \in Nat
      BY <1>1
    <2>5. ASSUME NEW k \in 1 .. y + d + 1
          PROVE  addresses[k] \in Nat /\ addresses[k] + y + d + 1 = pc + k
      <3>1. CASE k <= y
        <4>1. k \in 1 .. Len(al) /\ addresses[k] = al[k].pc
          <5>1. k \in 1 .. Len(al) /\ k \in 1 .. Len(al) + Len(follow) /\ k <= Len(al)
            BY <2>2, <2>4, <2>5, <3>1
          <5>2. addresses[k] = heads[k]
            BY <1>4, <5>1
          <5> QED
            BY <1>2, <5>1, <5>2
        <4>2. al[k].pc + y + d + 1 = pc + k
          BY <2>1, <2>3, <4>1 DEF Normal, Order
        <4> QED
          BY <1>1, <4>1, <4>2
      <3>2. CASE y < k /\ k <= y + d
        <4>1. k - y \in 1 .. d /\ ~(k <= y) /\ k \in 1 .. y + (d + 1)
          BY <2>4, <3>2
        <4>2. addresses[k] = dir[k - y]
          BY <1>4, <2>2, <4>1
        <4>3. dir[k - y] + d + 1 = pc + (k - y) /\ dir[k - y] \in Nat
          BY <1>1, <2>1, <4>1 DEF Normal, Order
        <4> DEFINE x == dir[k - y]
        <4>4. x \in Nat /\ x + d + 1 = pc + (k - y) /\ addresses[k] = x
          BY <4>2, <4>3
        <4> HIDE DEF x, y, d
        <4>5. x + y + d + 1 = pc + k
          BY <1>1, <2>4, <4>4
        <4> QED
          BY <4>4, <4>5
      <3>3. CASE k = y + d + 1
        <4>1. k - y = d + 1 /\ ~(k <= y) /\ k \in 1 .. y + (d + 1)
          BY <2>4, <3>3
        <4>2. addresses[k] = pc
          BY <1>4, <2>2, <4>1
        <4> HIDE DEF y, d
        <4> QED
          BY <1>1, <2>4, <3>3, <4>2
      <3> QED
        BY <2>4, <3>1, <3>2, <3>3
    <2>6. i \in 1 .. y + d + 1 /\ i + 1 \in 1 .. y + d + 1
      BY <1>5, <2>2, <2>4
    <2>7. /\ addresses[i] \in Nat /\ addresses[i] + y + d + 1 = pc + i
          /\ addresses[i + 1] \in Nat /\ addresses[i + 1] + y + d + 1 = pc + (i + 1)
      BY <2>5, <2>6
    <2> DEFINE u == addresses[i]
               v == addresses[i + 1]
    <2>8. u \in Nat /\ v \in Nat /\ u + y + d + 1 = pc + i /\ v + y + d + 1 = pc + (i + 1)
      BY <2>7
    <2> HIDE DEF u, v, y, d
    <2>9. v = u + 1
      BY <1>1, <1>5, <2>4, <2>8
    <2> QED
      BY <2>9 DEF u, v
  <1> QED
    BY <1>6, <1>7

-----------------------------------------------------------------------------
(* Each instruction once *)

\* The k-th address of three queues, one after the other.
AddressIn(w, x, y, k) ==
    IF k <= Len(w) THEN w[k].pc
    ELSE IF k <= Len(w) + Len(x) THEN x[k - Len(w)].pc
    ELSE y[k - (Len(w) + Len(x))].pc

\* Where such an address is.
Location(w, x, y, k) ==
    \/ k \in 1 .. Len(w) /\ AddressIn(w, x, y, k) = w[k].pc
    \/ \E j \in 1 .. Len(x) : k = Len(w) + j /\ AddressIn(w, x, y, k) = x[j].pc
    \/ \E j \in 1 .. Len(y) : k = (Len(w) + Len(x)) + j /\ AddressIn(w, x, y, k) = y[j].pc

\* Each position of the three queues in a row is a position of one of them.
LEMMA AddressLocated ==
    ASSUME NEW w, NEW x, NEW y, Len(w) \in Nat, Len(x) \in Nat, Len(y) \in Nat,
           NEW k \in 1 .. Len(w) + Len(x) + Len(y)
    PROVE  Location(w, x, y, k)
  <1>1. CASE k <= Len(w)
    BY <1>1 DEF AddressIn, Location
  <1>2. CASE ~(k <= Len(w)) /\ k <= Len(w) + Len(x)
    <2>1. k - Len(w) \in 1 .. Len(x) /\ k = Len(w) + (k - Len(w))
      BY <1>2
    <2> QED
      BY <1>2, <2>1 DEF AddressIn, Location
  <1>3. CASE ~(k <= Len(w)) /\ ~(k <= Len(w) + Len(x))
    <2>1. /\ k - (Len(w) + Len(x)) \in 1 .. Len(y)
          /\ k = (Len(w) + Len(x)) + (k - (Len(w) + Len(x)))
      BY <1>3
    <2> QED
      BY <1>3, <2>1 DEF AddressIn, Location
  <1> QED
    BY <1>1, <1>2, <1>3

\* Every address of the three queues is one of these.
LEMMA AddressReached ==
    ASSUME NEW w, NEW x, NEW y, Len(w) \in Nat, Len(x) \in Nat, Len(y) \in Nat,
           NEW a, Present(w, a) \/ Present(x, a) \/ Present(y, a)
    PROVE  \E k \in 1 .. Len(w) + Len(x) + Len(y) : AddressIn(w, x, y, k) = a
  <1>1. CASE Present(w, a)
    <2>1. PICK k \in 1 .. Len(w) : w[k].pc = a
      BY <1>1 DEF Present
    <2>2. k \in 1 .. Len(w) + Len(x) + Len(y) /\ k <= Len(w)
      OBVIOUS
    <2> QED
      BY <2>1, <2>2 DEF AddressIn
  <1>2. CASE Present(x, a)
    <2>1. PICK j \in 1 .. Len(x) : x[j].pc = a
      BY <1>2 DEF Present
    <2>2. /\ Len(w) + j \in 1 .. Len(w) + Len(x) + Len(y)
          /\ ~(Len(w) + j <= Len(w)) /\ Len(w) + j <= Len(w) + Len(x)
          /\ (Len(w) + j) - Len(w) = j
      OBVIOUS
    <2> QED
      BY <2>1, <2>2 DEF AddressIn
  <1>3. CASE Present(y, a)
    <2>1. PICK j \in 1 .. Len(y) : y[j].pc = a
      BY <1>3 DEF Present
    <2> DEFINE k == (Len(w) + Len(x)) + j
    <2>2. /\ k \in 1 .. Len(w) + Len(x) + Len(y)
          /\ ~(k <= Len(w)) /\ ~(k <= Len(w) + Len(x))
          /\ k - (Len(w) + Len(x)) = j
      OBVIOUS
    <2> HIDE DEF k
    <2> QED
      BY <2>1, <2>2 DEF AddressIn
  <1> QED
    BY <1>1, <1>2, <1>3

\* All their addresses are addresses of q in S, and all those of S are there.
AllAddressed(w, x, y, q, S) ==
    \A k \in 1 .. Len(w) + Len(x) + Len(y) : \E i \in S : q[i].pc = AddressIn(w, x, y, k)

AllPresent(w, x, y, q, S) ==
    \A i \in S : Present(w, q[i].pc) \/ Present(x, q[i].pc) \/ Present(y, q[i].pc)

\* Two positions with one address are the same position.
LEMMA AddressInjective ==
    ASSUME NEW w, NEW x, NEW y, Len(w) \in Nat, Len(x) \in Nat, Len(y) \in Nat,
           OneEach(w), OneEach(x), OneEach(y), Apart(w, x), Apart(w, y), Apart(x, y),
           NEW k, NEW h, Location(w, x, y, k), Location(w, x, y, h),
           AddressIn(w, x, y, k) = AddressIn(w, x, y, h)
    PROVE  k = h
  <1>1. CASE k \in 1 .. Len(w) /\ AddressIn(w, x, y, k) = w[k].pc
    BY <1>1 DEF Location, OneEach, Apart
  <1>2. CASE \E j \in 1 .. Len(x) : k = Len(w) + j /\ AddressIn(w, x, y, k) = x[j].pc
    <2>1. PICK j \in 1 .. Len(x) : k = Len(w) + j /\ AddressIn(w, x, y, k) = x[j].pc
      BY <1>2
    <2>2. ~(h \in 1 .. Len(w) /\ AddressIn(w, x, y, h) = w[h].pc)
      BY <2>1 DEF Apart
    <2>3. ~ \E i \in 1 .. Len(y) :
              h = (Len(w) + Len(x)) + i /\ AddressIn(w, x, y, h) = y[i].pc
      BY <2>1 DEF Apart
    <2>4. PICK i \in 1 .. Len(x) : h = Len(w) + i /\ AddressIn(w, x, y, h) = x[i].pc
      BY <2>2, <2>3 DEF Location
    <2>5. x[i].pc = x[j].pc
      BY <2>1, <2>4
    <2>6. i = j
      BY <2>5 DEF OneEach
    <2> QED
      BY <2>1, <2>4, <2>6
  <1>3. CASE \E j \in 1 .. Len(y) :
                k = (Len(w) + Len(x)) + j /\ AddressIn(w, x, y, k) = y[j].pc
    <2>1. PICK j \in 1 .. Len(y) :
                k = (Len(w) + Len(x)) + j /\ AddressIn(w, x, y, k) = y[j].pc
      BY <1>3
    <2>2. ~(h \in 1 .. Len(w) /\ AddressIn(w, x, y, h) = w[h].pc)
      BY <2>1 DEF Apart
    <2>3. ~ \E i \in 1 .. Len(x) : h = Len(w) + i /\ AddressIn(w, x, y, h) = x[i].pc
      BY <2>1 DEF Apart
    <2>4. PICK i \in 1 .. Len(y) :
                h = (Len(w) + Len(x)) + i /\ AddressIn(w, x, y, h) = y[i].pc
      BY <2>2, <2>3 DEF Location
    <2>5. y[i].pc = y[j].pc
      BY <2>1, <2>4
    <2>6. i = j
      BY <2>5 DEF OneEach
    <2> QED
      BY <2>1, <2>4, <2>6
  <1> QED
    BY <1>1, <1>2, <1>3 DEF Location

\* Queues with distinct addresses hold as many instructions as have an address there.
LEMMA CountAddresses ==
    ASSUME NEW w, NEW x, NEW y, Len(w) \in Nat, Len(x) \in Nat, Len(y) \in Nat,
           OneEach(w), OneEach(x), OneEach(y), Apart(w, x), Apart(w, y), Apart(x, y),
           NEW q, OneEach(q), NEW S \in SUBSET (1 .. Len(q)),
           AllAddressed(w, x, y, q, S), AllPresent(w, x, y, q, S)
    PROVE  Len(w) + Len(x) + Len(y) = Cardinality(S)
  <1> DEFINE N == Len(w) + Len(x) + Len(y)
             at(k) == CHOOSE i \in S : q[i].pc = AddressIn(w, x, y, k)
             F == [k \in 1 .. N |-> at(k)]
  <1>1. N \in Nat
    OBVIOUS
  <1>2. ASSUME NEW k \in 1 .. N PROVE at(k) \in S /\ q[at(k)].pc = AddressIn(w, x, y, k)
    BY DEF AllAddressed
  <1> HIDE DEF at
  <1>3. F \in [1 .. N -> S]
    BY <1>2
  <1>4. ASSUME NEW k \in 1 .. N, NEW h \in 1 .. N, F[k] = F[h] PROVE k = h
    <2>1. AddressIn(w, x, y, k) = AddressIn(w, x, y, h)
      BY <1>2, <1>4
    <2>2. Location(w, x, y, k) /\ Location(w, x, y, h)
      BY AddressLocated
    <2> QED
      BY <2>1, <2>2, AddressInjective
  <1>5. ASSUME NEW i \in S PROVE \E k \in 1 .. N : F[k] = i
    <2> DEFINE a == q[i].pc
    <2>0. Present(w, a) \/ Present(x, a) \/ Present(y, a)
      BY DEF AllPresent
    <2> HIDE DEF a
    <2>1. PICK k \in 1 .. N : AddressIn(w, x, y, k) = a
      BY <2>0, AddressReached
    <2> USE DEF a
    <2>2. at(k) = i
      BY <1>2, <2>1 DEF OneEach
    <2> QED
      BY <2>2
  <1> HIDE DEF N, F
  <1>6. F \in Bijection(1 .. N, S)
    BY <1>3, <1>4, <1>5 DEF Bijection, Injection, Surjection, IsInjective
  <1>7. Cardinality(S) = N
    BY <1>1, <1>6, FS_CountingElements DEF ExistsBijection
  <1> QED
    BY <1>7 DEF N

\* Before the first unit of a cycle runs, the queues hold the instructions that are not done.
LEMMA OnceState ==
    ASSUME IInv, PInv
    PROVE  EachInstructionOnce
  <1> DEFINE pending == {i \in DOMAIN al : ~al[i].done}
  <1> SUFFICES ASSUME CycleStart, ~exc
               PROVE  /\ Len(iq) + Len(s1) + Len(s2) = Cardinality(pending)
                      /\ \A i \in pending :
                            \E e \in InFlight : e.pc = al[i].pc /\ e.dst = Destination(i)
    BY DEF EachInstructionOnce
  <1>1. /\ DOMAIN al = 1 .. Len(al) /\ Len(iq) \in Nat /\ Len(s1) \in Nat /\ Len(s2) \in Nat
        /\ \A i \in 1 .. Len(al) : Destination(i) = Dest(al, map, i)
    <2>1. /\ al \in Seq(ActiveListEntry) /\ iq \in Seq(IntegerQueueEntry)
          /\ s1 \in Seq(IssuedInstruction) /\ s2 \in Seq(IssuedInstruction) /\ TypeOK
      BY StateTypes
    <2>2. DOMAIN al = 1 .. Len(al) /\ Len(iq) \in Nat /\ Len(s1) \in Nat /\ Len(s2) \in Nat
      BY <2>1
    <2> QED
      BY <2>1, <2>2, RenamingTerms
  <1>2. CASE Normal
    <2>1. /\ OneEach(iq) /\ OneEach(s1) /\ OneEach(s2)
          /\ Apart(iq, s1) /\ Apart(iq, s2) /\ Apart(s1, s2)
      BY <1>2 DEF Normal, Once
    <2>2. OneEach(al) /\ Results = <<>>
      BY <1>2, StartState
    <2>3. pending \in SUBSET (1 .. Len(al))
      BY <1>1
    <2>4. ASSUME NEW k \in 1 .. Len(iq) + Len(s1) + Len(s2)
          PROVE  \E i \in pending : al[i].pc = AddressIn(iq, s1, s2, k)
      <3>1. Location(iq, s1, s2, k)
        BY <1>1, AddressLocated
      <3>2. PICK e \in InFlight : e.pc = AddressIn(iq, s1, s2, k)
        <4>1. \/ \E j \in 1 .. Len(iq) : iq[j].pc = AddressIn(iq, s1, s2, k)
              \/ \E j \in 1 .. Len(s1) : s1[j].pc = AddressIn(iq, s1, s2, k)
              \/ \E j \in 1 .. Len(s2) : s2[j].pc = AddressIn(iq, s1, s2, k)
          BY <3>1 DEF Location
        <4> QED
          BY <4>1, FlightPlaces
      <3>3. PICK i \in 1 .. Len(al) : ~al[i].done /\ e.pc = al[i].pc
        BY <1>2, FlightEntry
      <3> QED
        BY <1>1, <3>2, <3>3
    <2>5. ASSUME NEW i \in pending
          PROVE  Present(iq, al[i].pc) \/ Present(s1, al[i].pc) \/ Present(s2, al[i].pc)
      <3>1. ~Present(<<>>, al[i].pc)
        BY DEF Present
      <3> QED
        BY <1>1, <1>2, <2>2, <3>1 DEF Normal, Covered
    <2>6. ASSUME NEW i \in pending
          PROVE  \E e \in InFlight : e.pc = al[i].pc /\ e.dst = Destination(i)
      BY <1>1, <1>2, FlightCovers
    <2> HIDE DEF pending
    <2>7. Len(iq) + Len(s1) + Len(s2) = Cardinality(pending)
      <3>1. AllAddressed(iq, s1, s2, al, pending) /\ AllPresent(iq, s1, s2, al, pending)
        BY <2>4, <2>5 DEF AllAddressed, AllPresent
      <3> QED
        BY <1>1, <2>1, <2>2, <2>3, <3>1, CountAddresses
    <2> QED
      BY <2>6, <2>7
  <1>3. CASE Trapped
    <2>1. al = <<>> /\ iq = <<>> /\ s1 = <<>> /\ s2 = <<>>
      BY <1>3, TrappedStart DEF Trapped
    <2>2. pending = {}
      BY <1>1, <2>1
    <2>3. Len(iq) + Len(s1) + Len(s2) = 0
      BY <2>1
    <2> QED
      BY <2>2, <2>3, FS_EmptySet
  <1> QED
    BY <1>2, <1>3 DEF PInv

-----------------------------------------------------------------------------
(* The invariants *)

\* A busy register is one whose value is on its way, and the destinations of what is on
\* its way are busy: dispatch sets the bit, write-back, retirement and rollback clear it.
THEOREM BusyBits ==
    ASSUME BelowVector
    PROVE  Spec => []BusyMeansInFlight
  <1>1. IInv /\ PInv => BusyMeansInFlight
    BY BusyState
  <1> QED
    BY <1>1, PipelineInvariant, PTL

\* No instruction waits in the Integer Queue for a value that nobody will deliver, though
\* a result is only forwarded during one cycle.
THEOREM Wakeups ==
    ASSUME BelowVector
    PROVE  Spec => []NoLostWakeup
  <1>1. IInv /\ PInv => NoLostWakeup
    BY WakeupState
  <1> QED
    BY <1>1, PipelineInvariant, PTL

\* The operands that wait in the Integer Queue are those of the register file: no
\* register is given away while an instruction that read it is still queued.
THEOREM Operands ==
    ASSUME BelowVector
    PROVE  Spec => []OperandsMatchRegisters
  <1>1. IInv /\ PInv => OperandsMatchRegisters
    BY OperandState
  <1> QED
    BY <1>1, PipelineInvariant, PTL

\* The Active List, the DIR and the PC follow the program without gap or repeat.
THEOREM Sequential ==
    ASSUME BelowVector
    PROVE  Spec => []ProgramOrder
  <1>1. IInv /\ PInv => ProgramOrder
    BY OrderState
  <1> QED
    BY <1>1, PipelineInvariant, PTL

\* In exception mode nothing is left that could deliver a late result, and when the mode
\* ends the machine is empty and every register free or mapped.
THEOREM Recovery ==
    ASSUME BelowVector
    PROVE  Spec => []CleanRecovery
  <1>1. IInv /\ PInv => CleanRecovery
    BY RecoveryState
  <1> QED
    BY <1>1, PipelineInvariant, PTL

\* Outside exception mode the Integer Queue and the ALUs hold exactly the instructions
\* that are not done.
THEOREM EachOnce ==
    ASSUME BelowVector
    PROVE  Spec => []EachInstructionOnce
  <1>1. IInv /\ PInv => EachInstructionOnce
    BY OnceState
  <1> QED
    BY <1>1, PipelineInvariant, PTL

-----------------------------------------------------------------------------
(* The abstract state *)

\* The value of l as the oldest instruction finds it.
Seen(l) == prf[MapIn(al, map, 1, l)]

\* What the abstract state is in each part of the invariant.
ArchState ==
    /\ \A l \in LogReg : ArchRegs[l] = Seen(l)
    /\ Normal => /\ ArchPC = NextAddress /\ NextAddress \in Nat
                 /\ \A l \in LogReg : Seen(l) = Values[MapIn(al, map, 1, l)]
    /\ Trapped => ArchPC = IF exc THEN excPC ELSE ExcVector

\* A register of the committed map is no destination, so nothing is delivered to it.
LEMMA SeenKnown ==
    ASSUME IInv, Normal, NEW l \in LogReg
    PROVE  Seen(l) = Values[MapIn(al, map, 1, l)]
  <1> DEFINE r == MapIn(al, map, 1, l)
  <1>1. /\ Len(al) \in Nat /\ map \in [LogReg -> PhysReg] /\ InUseOnce(al, map)
        /\ \A k \in 1 .. Len(al) : al[k].ld \in LogReg /\ al[k].old \in PhysReg
    <2>1. al \in Seq(ActiveListEntry) /\ Typing(prog, al, map, busy, prf)
      BY StateTypes
    <2>2. Len(al) \in Nat /\ \A k \in 1 .. Len(al) : al[k] \in ActiveListEntry
      BY <2>1
    <2> QED
      BY <2>2, StateTypes DEF ActiveListEntry
  <1>2. r \in PhysReg
    BY <1>1, MapType
  <1>3. CASE ~Bypassing
    BY <1>2, <1>3, NotBypassing, StateTypes DEF Seen
  <1>4. CASE Bypassing
    <2>1. ASSUME NEW k \in 1 .. Len(ctx.fwd) PROVE ctx.fwd[k].reg # r
      <3>1. PICK i \in 1 .. Len(al) : ctx.fwd[k].reg = Dest(al, map, i)
        BY <1>4 DEF Normal, ResultsAwaited
      <3>2. MapIn(al, map, 1, l) # Dest(al, map, i)
        BY <1>1, CommittedApart
      <3> QED
        BY <3>1, <3>2
    <2>2. DOMAIN ctx.fwd = 1 .. Len(ctx.fwd)
      BY StateTypes DEF Signals
    <2>3. Delivered(r) = {}
      BY <2>1, <2>2 DEF Delivered
    <2> HIDE DEF r
    <2>4. Values[r] = prf[r]
      BY <1>2, <2>3 DEF Values
    <2> QED
      BY <2>4 DEF r, Seen
  <1> QED
    BY <1>3, <1>4

\* The next address is where the processor goes on.
LEMMA ArchPCNormal ==
    ASSUME IInv, Normal
    PROVE  ArchPC = NextAddress
  <1>1. /\ Len(al) \in Nat /\ Remaining \in 0 .. Len(dir) /\ Len(dir) \in Nat
        /\ al # <<>> => NextAddress = al[1].pc
        /\ al = <<>> /\ Remaining # 0 => NextAddress = dir[Len(dir) - Remaining + 1]
        /\ al = <<>> /\ Remaining = 0 => NextAddress = pc
    BY NextAddressIs
  <1>2. ~exc
    BY DEF Normal, NoException
  <1>3. CASE Recovered
    BY <1>1, <1>2, <1>3, RecoveredNormal DEF ArchPC
  <1>4. CASE ~Recovered /\ al # <<>>
    <2>1. Head(al) = al[1]
      BY <1>4, StateTypes
    <2> QED
      BY <1>1, <1>2, <1>4, <2>1 DEF ArchPC
  <1>5. CASE ~Recovered /\ al = <<>>
    <2>1. Remaining = Len(dir)
      <3>1. step = "dispatch" => n = 0
        BY <1>5, StateTypes DEF Normal, FrontEnd
      <3> QED
        BY <1>1, <3>1 DEF Remaining
    <2>2. CASE dir = <<>>
      <3>1. Remaining = 0
        BY <2>1, <2>2
      <3>2. ArchPC = pc
        BY <1>2, <1>5, <2>2 DEF ArchPC
      <3> QED
        BY <1>1, <1>5, <3>1, <3>2
    <2>3. CASE dir # <<>>
      <3>1. Head(dir) = dir[1] /\ Len(dir) # 0 /\ Len(dir) - Len(dir) + 1 = 1
        BY <1>1, <2>3, StateTypes
      <3>2. NextAddress = dir[1]
        BY <1>1, <1>5, <2>1, <3>1
      <3>3. ArchPC = Head(dir)
        BY <1>2, <1>5, <2>3 DEF ArchPC
      <3> QED
        BY <3>1, <3>2, <3>3
    <2> QED
      BY <2>2, <2>3
  <1> QED
    BY <1>3, <1>4, <1>5

\* The abstract state in every state of the invariant.
LEMMA ArchStateHolds ==
    ASSUME IInv, PInv
    PROVE  ArchState
  <1>1. ASSUME NEW l \in LogReg PROVE ArchRegs[l] = Seen(l)
    <2>1. CommittedMap(l) = MapIn(al, map, 1, l)
      BY StateTypes, RenamingTerms
    <2> QED
      BY <2>1 DEF ArchRegs, Seen
  <1>2. ASSUME Normal
        PROVE  /\ ArchPC = NextAddress /\ NextAddress \in Nat
               /\ \A l \in LogReg : Seen(l) = Values[MapIn(al, map, 1, l)]
    BY <1>2, ArchPCNormal, NextAddressIs, SeenKnown
  <1>3. ASSUME Trapped PROVE ArchPC = IF exc THEN excPC ELSE ExcVector
    <2>1. CASE exc
      BY <2>1 DEF ArchPC
    <2>2. CASE ~exc
      BY <1>3, <2>2, TrappedRecovered DEF ArchPC
    <2> QED
      BY <2>1, <2>2
  <1> QED
    BY <1>1, <1>2, <1>3 DEF ArchState

-----------------------------------------------------------------------------
(* Steps that the programmer does not see *)

\* Only retirement moves on to the next address: fetch and dispatch pass instructions
\* on from the PC to the DIR and from there to the Active List.
LEMMA AddressKept ==
    ASSUME IInv, Normal, Next \/ UNCHANGED vars, ~RetireFront, ~DetectException
    PROVE  NextAddress' = NextAddress
  <1>1. ctx.req = {} /\ ~curr.exc
    BY DEF Normal, NoException
  <1>2. /\ pc \in Nat /\ n \in Nat /\ Len(al) \in Nat /\ Len(dir) \in Nat
        /\ al \in Seq(ActiveListEntry) /\ curr.pc \in Nat
    <2>1. /\ pc \in Nat /\ n \in Nat /\ al \in Seq(ActiveListEntry) /\ dir \in Seq(Nat)
          /\ curr.pc \in Nat
      BY StateTypes DEF TypeOK, Latched
    <2> QED
      BY <2>1
  <1>3. /\ step = "dispatch" => curr.dir = dir
        /\ step = "fetch" => (curr.pc = pc /\ (ctx.backpressure \/ dir = <<>>))
    BY DEF Normal, FrontEnd
  <1>4. CASE \/ Execute \/ ResetExecution \/ WakeUp \/ IssueOldestReady \/ IssueEnd
             \/ FetchStalled \/ Latch \/ UNCHANGED vars
    <2>1. UNCHANGED <<pc, dir, al>> /\ (step = "dispatch" <=> step' = "dispatch")
          /\ (step = "dispatch" => n' = n)
      BY <1>4 DEF Execute, ResetExecution, WakeUp, IssueOldestReady, IssueEnd, FetchStalled,
                  Latch, frontEnd, queues, vars
    <2> QED
      BY <2>1 DEF NextAddress, Remaining
  <1>5. CASE ObserveResults
    <2>1. /\ al' = [i \in 1 .. Len(al) |-> Marked(al[i])]
          /\ pc' = pc /\ dir' = dir /\ step = "commit" /\ step' = "control"
      BY <1>5 DEF ObserveResults, frontEnd
    <2>2. Len(al') = Len(al)
      BY <1>2, <2>1
    <2> QED
      BY <2>1, <2>2 DEF NextAddress, Remaining
  <1>6. CASE WriteBack
    <2>1. /\ step = "rename" /\ step' \in {"dispatch", "fetch"} /\ n' = 0
          /\ pc' = pc /\ dir' = dir /\ al' = al
      BY <1>6 DEF WriteBack, frontEnd, queues
    <2> QED
      BY <1>2, <2>1 DEF NextAddress, Remaining
  <1>7. CASE DispatchNext
    <2> DEFINE a == curr.dir[n + 1]
               i == prog[a + 1]
               e == [done |-> FALSE, exception |-> FALSE, ld |-> i.dst,
                     old |-> map[i.dst], pc |-> a]
    <2>1. /\ step = "dispatch" /\ step' = "dispatch" /\ n' = n + 1
          /\ pc' = pc /\ dir' = dir /\ al' = Push(al, ALCap, e)
      BY <1>7 DEF DispatchNext, frontEnd
    <2>2. Len(al) < ALCap
      BY <1>7, DispatchState
    <2> HIDE DEF e
    <2>3. Len(al') = Len(al) + 1
      BY <1>2, <2>1, <2>2 DEF Push
    <2> DEFINE x == Len(al)
               d == Len(dir)
    <2>4. NextAddress = pc - ((d - n) + x) /\ NextAddress' = pc - ((d - (n + 1)) + (x + 1))
      BY <2>1, <2>3 DEF NextAddress, Remaining
    <2>5. pc \in Nat /\ n \in Nat /\ x \in Nat /\ d \in Nat
      BY <1>2
    <2> HIDE DEF x, d
    <2> QED
      BY <2>4, <2>5
  <1>8. CASE DispatchEnd
    <2>1. /\ step = "dispatch" /\ step' = "fetch" /\ n = Len(curr.dir)
          /\ pc' = pc /\ al' = al /\ dir' = <<>>
      BY <1>8 DEF DispatchEnd, queues
    <2>2. Remaining = 0 /\ Remaining' = 0
      BY <1>2, <1>3, <2>1 DEF Remaining
    <2> QED
      BY <2>1, <2>2 DEF NextAddress
  <1>9. CASE FetchAndDecode
    <2>1. /\ step = "fetch" /\ step' = "latch" /\ ~ctx.backpressure
          /\ dir' = FetchBundle(curr.pc) /\ pc' = pc + Len(FetchBundle(curr.pc))
          /\ al' = al
      BY <1>9 DEF FetchAndDecode, queues
    <2>2. dir' \in Seq(Nat)
      BY <1>3, <2>1, StateTypes, BundleType
    <2>3. Remaining = 0 /\ Remaining' = Len(dir') /\ Len(dir') \in Nat
      BY <1>3, <2>1, <2>2 DEF Remaining
    <2> QED
      BY <1>2, <2>1, <2>3 DEF NextAddress
  <1>10. CASE RollBackYoungest \/ RollBackEnd \/ LeaveException
    BY <1>1, <1>10 DEF RollBackYoungest, RollBackEnd, LeaveException
  <1>11. CASE ResetQueue \/ RenameHalted \/ FetchHalted
    BY <1>1, <1>11 DEF ResetQueue, RenameHalted, FetchHalted
  <1> QED
    BY <1>4, <1>5, <1>6, <1>7, <1>8, <1>9, <1>10, <1>11
       DEF Next, Commit, Issue, RenameAndDispatch, Fetch, Terminated

\* What the oldest instruction finds only changes with retirement: observation copies
\* flags, write-back delivers to destinations, dispatch renames for the younger.
LEMMA SeenKept ==
    ASSUME IInv, Normal, Next \/ UNCHANGED vars, ~RetireFront, ~DetectException,
           NEW l \in LogReg
    PROVE  Seen(l)' = Seen(l)
  <1>1. ctx.req = {} /\ ~curr.exc
    BY DEF Normal, NoException
  <1>2. Len(al) \in Nat /\ al \in Seq(ActiveListEntry) /\ 1 \in Nat \ {0}
        /\ 1 \in 1 .. Len(al) + 1
    <2>1. al \in Seq(ActiveListEntry)
      BY StateTypes
    <2> QED
      BY <2>1
  <1>3. CASE \/ Execute \/ ResetExecution \/ WakeUp \/ IssueOldestReady \/ IssueEnd
             \/ DispatchEnd \/ FetchStalled \/ FetchAndDecode \/ Latch \/ UNCHANGED vars
    <2>1. UNCHANGED <<map, prf, al>>
      BY <1>3 DEF Execute, ResetExecution, WakeUp, IssueOldestReady, IssueEnd, DispatchEnd,
                  FetchStalled, FetchAndDecode, Latch, regState, queues, vars
    <2> QED
      BY <2>1 DEF Seen
  <1>4. CASE ObserveResults
    <2>1. /\ al' = [i \in 1 .. Len(al) |-> Marked(al[i])]
          /\ map' = map /\ prf' = prf
      BY <1>4 DEF ObserveResults, regState
    <2>2. ctx \in Signals
      BY StateTypes
    <2>3. Len(al') = Len(al)
          /\ \A k \in 1 .. Len(al) : al'[k].ld = al[k].ld /\ al'[k].old = al[k].old
      <3>1. ASSUME NEW k \in 1 .. Len(al)
            PROVE  Marked(al[k]).ld = al[k].ld /\ Marked(al[k]).old = al[k].old
        <4>1. al[k] \in ActiveListEntry
          BY <1>2
        <4> QED
          BY <2>2, <4>1, MarkedEntry
      <3> QED
        BY <1>2, <2>1, <3>1
    <2>4. ASSUME NEW r, Len(r) = Len(al),
                 \A k \in 1 .. Len(al) : r[k].ld = al[k].ld /\ r[k].old = al[k].old
          PROVE  MapIn(r, map, 1, l) = MapIn(al, map, 1, l)
      BY <1>2, <2>4, MapSame
    <2>5. MapIn(al', map, 1, l) = MapIn(al, map, 1, l)
      BY <2>3, <2>4
    <2> QED
      BY <2>1, <2>5 DEF Seen
  <1>5. CASE WriteBack
    <2> DEFINE r == MapIn(al, map, 1, l)
    <2>1. /\ step = "rename" /\ map' = map /\ al' = al
          /\ prf' = [x \in PhysReg |->
                        IF Delivered(x) # {} THEN ForwardedValue(x) ELSE prf[x]]
      BY <1>5 DEF WriteBack, queues
    <2>2. prf' = Values
      BY <2>1 DEF Values, Bypassing
    <2>3. Seen(l) = Values[r]
      BY SeenKnown
    <2> QED
      BY <2>1, <2>2, <2>3 DEF Seen
  <1>6. CASE DispatchNext
    <2> DEFINE a == curr.dir[n + 1]
               i == prog[a + 1]
               f == Head(fl)
               e == [done |-> FALSE, exception |-> FALSE, ld |-> i.dst,
                     old |-> map[i.dst], pc |-> a]
    <2>1. /\ map' = [map EXCEPT ![i.dst] = f] /\ prf' = prf
          /\ al' = Push(al, ALCap, e)
      BY <1>6 DEF DispatchNext
    <2>2. Len(al) < ALCap /\ i \in Instruction
      BY <1>6, DispatchState
    <2>3. e.ld = i.dst /\ e.old = map[i.dst] /\ i.dst \in LogReg
      BY <2>2 DEF Instruction
    <2> HIDE DEF a, i, f, e
    <2>4. al' = Append(al, e)
      BY <2>1, <2>2 DEF Push
    <2>5. /\ Len(al') = Len(al) + 1 /\ al'[Len(al) + 1] = e
          /\ \A k \in 1 .. Len(al) : al'[k] = al[k]
      BY <1>2, <2>4
    <2>6. \A x \in LogReg : x # i.dst => map'[x] = map[x]
      BY <2>1, <2>3, StateTypes
    <2>7. OneYounger(al, map, al', map')
      BY <2>3, <2>5, <2>6 DEF OneYounger
    <2>8. ASSUME NEW r, NEW w, OneYounger(al, map, r, w)
          PROVE  MapIn(r, w, 1, l) = MapIn(al, map, 1, l)
      BY <1>2, <2>8, MapYounger
    <2>9. MapIn(al', map', 1, l) = MapIn(al, map, 1, l)
      BY <2>7, <2>8
    <2> QED
      BY <2>1, <2>9 DEF Seen
  <1>7. CASE RollBackYoungest \/ RollBackEnd \/ LeaveException
    BY <1>1, <1>7 DEF RollBackYoungest, RollBackEnd, LeaveException
  <1>8. CASE ResetQueue \/ RenameHalted \/ FetchHalted
    BY <1>1, <1>8 DEF ResetQueue, RenameHalted, FetchHalted
  <1> QED
    BY <1>3, <1>4, <1>5, <1>6, <1>7, <1>8
       DEF Next, Commit, Issue, RenameAndDispatch, Fetch, Terminated

-----------------------------------------------------------------------------
(* Steps that the programmer sees *)

\* The next instruction to take effect, and its second operand.
NextInstruction == prog[NextAddress + 1]
SeenOperand2 ==
    IF NextInstruction.useImm THEN NextInstruction.imm ELSE Seen(NextInstruction.rs2)

\* The head that commit finds done is that instruction; it carries an exception if the
\* instruction faults on the registers seen, or else its result is in the register file.
LEMMA HeadOutcome ==
    ASSUME IInv, Normal, step = "commit", MayRetire
    PROVE  /\ NextAddress = al[1].pc /\ NextAddress < Len(prog)
           /\ NextInstruction \in Instruction /\ al[1].ld = NextInstruction.dst
           /\ al[1].exception <=> Faults(NextInstruction.op, SeenOperand2)
           /\ ~al[1].exception =>
                 prf[Dest(al, map, 1)] =
                    Compute(NextInstruction.op, Seen(NextInstruction.rs1), SeenOperand2)
  <1>1. /\ al # <<>> /\ al[1] \in ActiveListEntry /\ al[1].done
        /\ Len(al) \in Nat /\ 1 \in 1 .. Len(al)
    BY HeadLatched
  <1>2. NextAddress = al[1].pc /\ NextAddress \in Nat
    BY <1>1, NextAddressIs
  <1>3. Missing = busy /\ Values = prf
    BY NotBypassing, StateTypes DEF Bypassing
  <1>4. EntryOK(prog, al, map, busy, prf, 1)
    BY <1>1, <1>3 DEF Normal, InFlightOK, Consistent
  <1>5. InstructionAt(prog, al, 1) = NextInstruction
    BY <1>2 DEF InstructionAt, NextInstruction
  <1>6. NextAddress < Len(prog) /\ NextInstruction \in Instruction
    <2>1. al[1].pc < Len(prog) /\ prog \in Seq(Instruction)
      BY <1>4, StateTypes DEF EntryOK, TypeOK
    <2>2. NextAddress + 1 \in 1 .. Len(prog)
      BY <1>2, <2>1
    <2> QED
      BY <1>2, <2>1, <2>2 DEF NextInstruction
  <1>7. /\ prf[Source1(prog, al, map, 1)] = Seen(NextInstruction.rs1)
        /\ Operand2(prog, al, map, prf, 1) = SeenOperand2
    BY <1>5 DEF Source1, Source2, Operand2, Seen, SeenOperand2
  <1>8. /\ Faulty(prog, al, map, prf, 1) = Faults(NextInstruction.op, SeenOperand2)
        /\ Outcome(prog, al, map, prf, 1) =
              Compute(NextInstruction.op, Seen(NextInstruction.rs1), SeenOperand2)
    BY <1>5, <1>7 DEF Faulty, Outcome
  <1> QED
    BY <1>1, <1>2, <1>4, <1>5, <1>6, <1>8 DEF EntryOK

\* Retirement carries out the next instruction on the registers seen.
LEMMA RetireExecutes ==
    ASSUME IInv, Normal, RetireFront
    PROVE  /\ NextAddress' = NextAddress + 1
           /\ \A l \in LogReg :
                 Seen(l)' = IF l = NextInstruction.dst
                            THEN Compute(NextInstruction.op, Seen(NextInstruction.rs1),
                                         SeenOperand2)
                            ELSE Seen(l)
  <1>1. /\ step = "commit" /\ step' = "commit" /\ MayRetire
        /\ ~curr.al[n + 1].exception /\ al' = Tail(al)
        /\ UNCHANGED <<prog, pc, dir, map, prf>>
    BY DEF RetireFront, frontEnd
  <1>2. /\ al # <<>> /\ al[1] = curr.al[n + 1]
        /\ Len(al) \in Nat /\ 1 \in 1 .. Len(al) /\ al \in Seq(ActiveListEntry)
    BY <1>1, HeadLatched, StateTypes
  <1>3. /\ Len(al') \in Nat /\ Len(al) = Len(al') + 1
        /\ \A k \in 1 .. Len(al') : al'[k] = al[k + 1]
    BY <1>1, <1>2
  <1>4. NextAddress' = NextAddress + 1
    <2> DEFINE x == Len(al')
               d == Len(dir)
    <2>1. x \in Nat /\ d \in Nat /\ pc \in Nat
      BY <1>3, StateTypes
    <2>2. NextAddress = pc - (d + (x + 1)) /\ NextAddress' = pc - (d + x)
      BY <1>1, <1>3 DEF NextAddress, Remaining
    <2> HIDE DEF x, d
    <2> QED
      BY <2>1, <2>2
  <1>5. ASSUME NEW l \in LogReg
        PROVE  Seen(l)' = IF l = al[1].ld THEN prf[Dest(al, map, 1)] ELSE Seen(l)
    <2>1. ASSUME NEW r, Len(r) \in Nat, Len(al) = Len(r) + 1,
                 \A k \in 1 .. Len(r) : r[k] = al[k + 1]
          PROVE  MapIn(r, map, 1, l) = MapIn(al, map, 2, l)
      <3>1. 1 \in Nat \ {0} /\ 1 + 1 = 2
        OBVIOUS
      <3>2. MapIn(r, map, 1, l) = MapIn(al, map, 1 + 1, l)
        BY <2>1, <3>1, MapTail
      <3> QED
        BY <3>1, <3>2
    <2>2. MapIn(al', map, 1, l) = MapIn(al, map, 2, l)
      BY <1>3, <2>1
    <2>3. MapIn(al, map, 1, l) = IF al[1].ld = l THEN al[1].old ELSE MapIn(al, map, 2, l)
      <3>1. MapIn(al, map, 1, l) = IF al[1].ld = l THEN al[1].old ELSE MapIn(al, map, 1 + 1, l)
        BY <1>2, MapNext
      <3> QED
        BY <3>1
    <2>4. Dest(al, map, 1) = MapIn(al, map, 2, al[1].ld)
      <3>1. 1 + 1 = 2
        OBVIOUS
      <3> QED
        BY <3>1 DEF Dest
    <2>5. Seen(l)' = prf[MapIn(al, map, 2, l)]
      BY <1>1, <2>2 DEF Seen
    <2> QED
      BY <2>3, <2>4, <2>5 DEF Seen
  <1> QED
    BY <1>1, <1>2, <1>4, <1>5, HeadOutcome

\* Recovery leaves the exception PC, and what the instruction there finds.
LEMMA TrappedSeen ==
    ASSUME IInv, Trapped, Next \/ UNCHANGED vars
    PROVE  /\ excPC' = excPC /\ (exc' => exc)
           /\ \A l \in LogReg : Seen(l)' = Seen(l)
  <1>1. ctx.req = Request => "integerQueueReset" \in ctx.req /\ "haltRenameDispatch" \in ctx.req
                             /\ "haltFetchDecode" \in ctx.req
    BY DEF Request
  <1>2. CASE RollBackYoungest
    <2> DEFINE u == al[Len(al)]
    <2>1. /\ step = "commit" /\ excPC' = excPC /\ prf' = prf
      BY <1>2 DEF RollBackYoungest
    <2>2. exc
      BY <2>1 DEF Trapped
    <2>3. /\ al # <<>> /\ al' = Front(al) /\ u \in ActiveListEntry
          /\ map' = [map EXCEPT ![u.ld] = u.old]
      BY <1>2, RollBackLists DEF RollBackYoungest
    <2>4. /\ Len(al') \in Nat /\ Len(al) = Len(al') + 1
          /\ \A k \in 1 .. Len(al') : al'[k] = al[k]
          /\ al[Len(al') + 1] = u
      <3>1. al \in Seq(ActiveListEntry) /\ al # <<>>
        BY <2>3, StateTypes
      <3>2. /\ Len(Front(al)) = Len(al) - 1 /\ Len(al) \in Nat /\ Len(al) > 0
            /\ \A k \in 1 .. Len(al) - 1 : Front(al)[k] = al[k]
        BY <3>1, FrontProperties
      <3> QED
        BY <2>3, <3>2
    <2>5. u.ld \in LogReg /\ u.old \in PhysReg /\ map \in [LogReg -> PhysReg]
      BY <2>3, StateTypes DEF ActiveListEntry
    <2> HIDE DEF u
    <2>6. OneYounger(al', map', al, map)
      <3>1. map'[u.ld] = u.old /\ \A x \in LogReg : x # u.ld => map[x] = map'[x]
        BY <2>3, <2>5
      <3> QED
        BY <2>4, <2>5, <3>1 DEF OneYounger
    <2>7. ASSUME NEW l \in LogReg PROVE MapIn(al, map, 1, l) = MapIn(al', map', 1, l)
      <3>1. 1 \in 1 .. Len(al') + 1
        BY <2>4
      <3> QED
        BY <2>4, <2>6, <3>1, MapYounger
    <2> QED
      BY <2>1, <2>2, <2>7 DEF Seen
  <1>3. CASE \/ Execute \/ RollBackEnd \/ LeaveException \/ ResetExecution \/ ResetQueue
             \/ RenameHalted \/ FetchHalted \/ Latch \/ UNCHANGED vars
    <2>1. UNCHANGED <<excPC, map, prf, al>> /\ (exc' => exc)
      BY <1>3 DEF Execute, RollBackEnd, LeaveException, ResetExecution, ResetQueue, RenameHalted,
                  FetchHalted, Latch, excState, regState, queues, vars
    <2> QED
      BY <2>1 DEF Seen
  <1>4. CASE RetireFront \/ DetectException \/ ObserveResults
    BY <1>4 DEF Trapped, RetireFront, DetectException, ObserveResults
  <1>5. CASE \/ WakeUp \/ IssueOldestReady \/ IssueEnd
             \/ WriteBack \/ DispatchNext \/ DispatchEnd \/ FetchStalled \/ FetchAndDecode
    BY <1>1, <1>5 DEF Trapped, WakeUp, IssueOldestReady, IssueEnd, WriteBack, DispatchNext,
                      DispatchEnd, FetchStalled, FetchAndDecode
  <1> QED
    BY <1>2, <1>3, <1>4, <1>5 DEF Next, Commit, Issue, RenameAndDispatch, Fetch, Terminated

-----------------------------------------------------------------------------
(* Refinement *)

\* The initial states are those of the in-order machine.
LEMMA InOrderInit ==
    ASSUME IInv, ArchState, Init
    PROVE  InOrder!Init
  <1>1. /\ prog \in Programs /\ pc = 0 /\ dir = <<>> /\ exc = FALSE /\ excPC = 0
        /\ prf = [r \in PhysReg |-> 0] /\ al = <<>>
    BY DEF Init
  <1>2. ArchPC = 0
    BY <1>1 DEF ArchPC
  <1>3. ASSUME NEW l \in LogReg PROVE ArchRegs[l] = 0
    <2>1. MapIn(al, map, 1, l) \in PhysReg
      <3>1. Len(al) \in Nat /\ 1 \in Nat \ {0} /\ map \in [LogReg -> PhysReg]
            /\ \A k \in 1 .. Len(al) : al[k].old \in PhysReg
        BY <1>1, StateTypes
      <3> QED
        BY <3>1, MapType
    <2> QED
      BY <1>1, <2>1 DEF ArchState, Seen
  <1>4. ArchRegs = [l \in LogReg |-> 0]
    BY <1>3 DEF ArchRegs
  <1> QED
    BY <1>1, <1>2, <1>4 DEF InOrder!Init, InOrder!LogReg, LogReg

\* No step changes the program.
LEMMA ProgramKept ==
    ASSUME Next \/ UNCHANGED vars
    PROVE  prog' = prog
  BY DEF Next, Commit, Issue, RenameAndDispatch, Fetch, Terminated, vars,
         Execute, RetireFront, DetectException, ObserveResults, RollBackYoungest, RollBackEnd,
         LeaveException, ResetExecution, ResetQueue, WakeUp, IssueOldestReady, IssueEnd,
         RenameHalted, WriteBack, DispatchNext, DispatchEnd, FetchHalted, FetchStalled,
         FetchAndDecode, Latch

\* The abstract registers are what the oldest instruction finds, before and after.
LEMMA RegistersKept ==
    ASSUME ArchState, ArchState', \A l \in LogReg : Seen(l)' = Seen(l)
    PROVE  ArchRegs' = ArchRegs
  <1>1. ASSUME NEW l \in LogReg PROVE ArchRegs'[l] = ArchRegs[l]
    BY DEF ArchState
  <1> QED
    BY <1>1 DEF ArchRegs

\* Retirement is the execution of the in-order machine.
LEMMA RetireRefines ==
    ASSUME IInv, Normal, ArchState, ArchState', RetireFront
    PROVE  InOrder!Execute
  <1> DEFINE i == NextInstruction
  <1>1. /\ step = "commit" /\ MayRetire /\ ~curr.al[n + 1].exception
        /\ UNCHANGED <<prog, exc, excPC>>
    BY DEF RetireFront, excState
  <1>2. al[1] = curr.al[n + 1]
    BY <1>1, HeadLatched
  <1>3. /\ NextAddress < Len(prog) /\ i \in Instruction
        /\ ~Faults(i.op, SeenOperand2)
    BY <1>1, <1>2, HeadOutcome
  <1>4. /\ NextAddress' = NextAddress + 1
        /\ \A l \in LogReg :
              Seen(l)' = IF l = i.dst THEN Compute(i.op, Seen(i.rs1), SeenOperand2)
                         ELSE Seen(l)
    BY RetireExecutes
  <1>5. Normal'
    BY NormalRetire
  <1>6. ArchPC = NextAddress /\ ArchPC' = NextAddress + 1 /\ ~exc
    BY <1>4, <1>5 DEF ArchState, Normal, NoException
  <1>7. InOrder!Current = i
    BY <1>6 DEF InOrder!Current, NextInstruction
  <1>8. i.dst \in LogReg /\ i.rs1 \in LogReg /\ i.rs2 \in LogReg
    BY <1>3 DEF Instruction
  <1> HIDE DEF i
  <1>9. InOrder!Operand1 = Seen(i.rs1)
    BY <1>7, <1>8 DEF InOrder!Operand1, ArchState
  <1>10. InOrder!Operand2 = SeenOperand2
    BY <1>7, <1>8 DEF InOrder!Operand2, ArchState, SeenOperand2, i
  <1>11. InOrder!Running
    BY <1>3, <1>6 DEF InOrder!Running
  <1>12. ~InOrder!Faults(InOrder!Current.op, InOrder!Operand2)
    BY <1>3, <1>7, <1>10 DEF InOrder!Faults, Faults
  <1>13. InOrder!Compute(i.op, Seen(i.rs1), SeenOperand2)
            = Compute(i.op, Seen(i.rs1), SeenOperand2)
    BY DEF InOrder!Compute, Compute
  <1>14. ArchRegs' = [ArchRegs EXCEPT ![i.dst] =
                         Compute(i.op, Seen(i.rs1), SeenOperand2)]
    <2> DEFINE c == Compute(i.op, Seen(i.rs1), SeenOperand2)
    <2>1. ASSUME NEW l \in LogReg PROVE ArchRegs'[l] = IF l = i.dst THEN c ELSE ArchRegs[l]
      BY <1>4 DEF ArchState
    <2> HIDE DEF c
    <2>2. ArchRegs' = [l \in LogReg |-> IF l = i.dst THEN c ELSE ArchRegs[l]]
      BY <2>1 DEF ArchRegs
    <2>3. ArchRegs' = [ArchRegs EXCEPT ![i.dst] = c]
      BY <1>8, <2>2 DEF ArchRegs
    <2> QED
      BY <2>3 DEF c
  <1> QED
    BY <1>1, <1>6, <1>7, <1>9, <1>10, <1>11, <1>12, <1>13, <1>14 DEF InOrder!Execute

\* The detection of an exception is the trap of the in-order machine.
LEMMA DetectionRefines ==
    ASSUME IInv, Normal, ArchState, ArchState', DetectException
    PROVE  InOrder!Trap
  <1> DEFINE i == NextInstruction
  <1>1. /\ step = "commit" /\ MayRetire /\ curr.al[n + 1].exception
        /\ exc' = TRUE /\ excPC' = curr.al[n + 1].pc
        /\ UNCHANGED <<prog, map, prf, al>>
    BY DEF DetectException, regState, queues
  <1>2. al[1] = curr.al[n + 1]
    BY <1>1, HeadLatched
  <1>3. /\ NextAddress = al[1].pc /\ NextAddress < Len(prog) /\ i \in Instruction
        /\ Faults(i.op, SeenOperand2)
    BY <1>1, <1>2, HeadOutcome
  <1>4. Trapped'
    BY Detection
  <1>5. ArchPC = NextAddress /\ ArchPC' = NextAddress /\ excPC' = NextAddress /\ ~exc
    BY <1>1, <1>2, <1>3, <1>4 DEF ArchState, Normal, NoException
  <1>6. InOrder!Current = i
    BY <1>5 DEF InOrder!Current, NextInstruction
  <1>7. i.rs2 \in LogReg
    BY <1>3 DEF Instruction
  <1> HIDE DEF i
  <1>8. InOrder!Operand2 = SeenOperand2
    BY <1>6, <1>7 DEF InOrder!Operand2, ArchState, SeenOperand2, i
  <1>9. InOrder!Running
    BY <1>3, <1>5 DEF InOrder!Running
  <1>10. InOrder!Faults(InOrder!Current.op, InOrder!Operand2)
    BY <1>3, <1>6, <1>8 DEF InOrder!Faults, Faults
  <1>11. ArchRegs' = ArchRegs
    <2>1. \A l \in LogReg : Seen(l)' = Seen(l)
      BY <1>1 DEF Seen
    <2> QED
      BY <2>1, RegistersKept
  <1> QED
    BY <1>1, <1>5, <1>9, <1>10, <1>11 DEF InOrder!Trap

\* Every step is one of the in-order machine, or none.
LEMMA InOrderStep ==
    ASSUME BelowVector, IInv, IInv', PInv, ArchState, ArchState', Next \/ UNCHANGED vars
    PROVE  InOrder!Next \/ UNCHANGED InOrder!archVars
  <1>1. prog' = prog
    BY ProgramKept
  <1>0. exc \in BOOLEAN /\ exc' \in BOOLEAN
    BY DEF IInv, TypeOK
  <1>2. CASE Normal /\ RetireFront
    BY <1>2, RetireRefines DEF InOrder!Next
  <1>3. CASE Normal /\ DetectException
    BY <1>3, DetectionRefines DEF InOrder!Next
  <1>4. CASE Normal /\ ~RetireFront /\ ~DetectException
    <2>1. Normal'
      BY <1>4, NormalStep
    <2>2. NextAddress' = NextAddress /\ \A l \in LogReg : Seen(l)' = Seen(l)
      BY <1>4, AddressKept, SeenKept
    <2>3. ArchPC' = ArchPC
      BY <1>4, <2>1, <2>2 DEF ArchState
    <2>4. ArchRegs' = ArchRegs
      BY <2>2, RegistersKept
    <2>5. exc = exc' /\ excPC' = excPC
      <3>1. ~exc /\ ~exc' /\ excPC = 0 /\ excPC' = 0
        BY <1>4, <2>1 DEF Normal, NoException
      <3> QED
        BY <1>0, <3>1
    <2> QED
      BY <1>1, <2>3, <2>4, <2>5 DEF InOrder!archVars
  <1>5. CASE Trapped
    <2>1. Trapped'
      BY <1>5, TrappedStep
    <2>2. excPC' = excPC /\ (exc' => exc) /\ \A l \in LogReg : Seen(l)' = Seen(l)
      BY <1>5, TrappedSeen
    <2>3. ArchRegs' = ArchRegs
      BY <2>2, RegistersKept
    <2>4. /\ ArchPC = IF exc THEN excPC ELSE ExcVector
          /\ ArchPC' = IF exc' THEN excPC' ELSE ExcVector
      BY <1>5, <2>1 DEF ArchState
    <2>5. CASE exc' = exc
      BY <1>1, <2>2, <2>3, <2>4, <2>5 DEF InOrder!archVars
    <2>6. CASE exc' # exc
      <3>1. exc /\ exc' = FALSE
        BY <1>0, <2>2, <2>6
      <3> QED
        BY <1>1, <2>2, <2>3, <2>4, <3>1 DEF InOrder!Next, InOrder!EnterHandler
    <2> QED
      BY <2>5, <2>6
  <1> QED
    BY <1>2, <1>3, <1>4, <1>5 DEF PInv

\* The out-of-order processor implements the in-order machine: retirement is execution,
\* an exception is precise, and nothing else that the stages do can be seen.
THEOREM InOrderRefinement ==
    ASSUME BelowVector
    PROVE  Spec => InOrderSpec
  <1>1. IInv /\ PInv => ArchState
    BY ArchStateHolds
  <1>2. IInv /\ ArchState /\ Init => InOrder!Init
    BY InOrderInit
  <1>3. (IInv /\ PInv /\ ArchState) /\ (IInv /\ ArchState)' /\ [Next]_vars => [InOrder!Next]_InOrder!archVars
    BY InOrderStep
  <1> QED
    BY <1>1, <1>2, <1>3, PipelineInvariant, PTL DEF Spec, InOrderSpec, InOrder!Spec

-----------------------------------------------------------------------------
(* The sequential run of a program *)

\* The state before the first instruction, and the one after the k-th.
RunStart == [regs |-> [l \in LogReg |-> 0], fault |-> {}]

SecondOperand(i, regs) == IF i.useImm THEN i.imm ELSE regs[i.rs2]

RunStep(i, address, prev) ==
    IF prev.fault # {} THEN prev
    ELSE IF Faults(i.op, SecondOperand(i, prev.regs))
         THEN [regs |-> prev.regs, fault |-> {address}]
    ELSE [regs |-> [prev.regs EXCEPT ![i.dst] =
                       Compute(i.op, prev.regs[i.rs1], SecondOperand(i, prev.regs))],
          fault |-> {}]

\* What f[k] is after k instructions of p, for the first of them up to the m-th.
IsRun(p, m, f) ==
    f = [k \in 0 .. m |-> IF k = 0 THEN RunStart ELSE RunStep(p[k], k - 1, f[k - 1])]

\* The recursion of SequentialRun has a solution, for every length.
LEMMA RunExists ==
    ASSUME NEW p, NEW m \in Nat
    PROVE  \E f : IsRun(p, m, f)
  <1> DEFINE Bad == {j \in Nat : ~\E f : IsRun(p, j, f)}
  <1> SUFFICES ASSUME Bad # {} PROVE FALSE
    OBVIOUS
  <1>1. PICK j \in Bad : \A i \in Bad : j <= i
    BY LeastNumber
  <1>2. CASE j = 0
    <2> DEFINE g == [k \in 0 .. 0 |-> RunStart]
    <2>1. \A k \in 0 .. 0 : k = 0
      OBVIOUS
    <2>2. g = [k \in 0 .. 0 |-> IF k = 0 THEN RunStart ELSE RunStep(p[k], k - 1, g[k - 1])]
      BY <2>1, Zenon
    <2>3. IsRun(p, 0, g)
      BY <2>2 DEF IsRun
    <2> QED
      BY <1>1, <1>2, <2>3
  <1>3. CASE j # 0
    <2>1. j - 1 \in Nat /\ j \in Nat /\ j - 1 \notin Bad
      BY <1>1, <1>3
    <2>2. PICK f : IsRun(p, j - 1, f)
      BY <2>1
    <2> DEFINE g == [k \in 0 .. j |-> IF k = j THEN RunStep(p[j], j - 1, f[j - 1]) ELSE f[k]]
    <2>3. ASSUME NEW k \in 0 .. j
          PROVE  g[k] = IF k = 0 THEN RunStart ELSE RunStep(p[k], k - 1, g[k - 1])
      <3>1. CASE k = j
        <4>1. j - 1 \in 0 .. j /\ j - 1 # j /\ k # 0
          BY <2>1, <1>3, <3>1
        <4>2. g[j - 1] = f[j - 1] /\ g[k] = RunStep(p[j], j - 1, f[j - 1])
          BY <4>1, <3>1
        <4> QED
          BY <4>1, <4>2, <3>1, Zenon
      <3>2. CASE k # j /\ k # 0
        <4>1. k \in 0 .. j - 1 /\ k - 1 \in 0 .. j /\ k - 1 # j
          BY <2>1, <3>2
        <4>2. g[k] = f[k] /\ g[k - 1] = f[k - 1]
          BY <4>1, <3>2
        <4>3. f[k] = RunStep(p[k], k - 1, f[k - 1])
          BY <2>2, <4>1, <3>2 DEF IsRun
        <4> QED
          BY <4>2, <4>3, <3>2, Zenon
      <3>3. CASE k # j /\ k = 0
        <4>1. 0 \in 0 .. j - 1
          BY <2>1
        <4>2. f[0] = RunStart
          BY <2>2, <4>1 DEF IsRun
        <4> QED
          BY <4>2, <3>3
      <3> QED
        BY <3>1, <3>2, <3>3
    <2> HIDE DEF g
    <2>4. g = [k \in 0 .. j |-> g[k]]
      BY DEF g
    <2>5. IsRun(p, j, g)
      BY <2>3, <2>4 DEF IsRun
    <2> QED
      BY <1>1, <2>5
  <1> QED
    BY <1>2, <1>3

\* Two solutions agree, so that the one chosen is any one.
LEMMA SequentialRunIs ==
    ASSUME NEW p \in Seq(Instruction)
    PROVE  \E f : IsRun(p, Len(p), f) /\ SequentialRun(p) = f[Len(p)]
  <1> DEFINE run == CHOOSE f : IsRun(p, Len(p), f)
  <1>1. Len(p) \in Nat
    OBVIOUS
  <1>2. IsRun(p, Len(p), run)
    BY <1>1, RunExists
  <1>3. SequentialRun(p) = run[Len(p)]
    BY DEF SequentialRun, IsRun, RunStep, RunStart, SecondOperand
  <1> QED
    BY <1>2, <1>3

\* What one more instruction does.
LEMMA RunContinues ==
    ASSUME NEW p \in Seq(Instruction), NEW f, IsRun(p, Len(p), f), NEW k \in Nat, k < Len(p)
    PROVE  f[k + 1] = RunStep(p[k + 1], k, f[k])
  <1>1. k + 1 \in 0 .. Len(p) /\ k + 1 # 0 /\ k + 1 - 1 = k
    OBVIOUS
  <1> QED
    BY <1>1 DEF IsRun

\* A run that has faulted stays as it is.
LEMMA RunStops ==
    ASSUME NEW p \in Seq(Instruction), NEW f, IsRun(p, Len(p), f),
           NEW k \in Nat, k <= Len(p), f[k].fault # {}
    PROVE  f[Len(p)] = f[k]
  <1> DEFINE Bad == {j \in Nat : j <= Len(p) /\ k <= j /\ f[j] # f[k]}
  <1>1. ASSUME Bad # {} PROVE FALSE
    <2>1. PICK j \in Bad : \A i \in Bad : j <= i
      BY <1>1, LeastNumber
    <2>2. j - 1 \in Nat /\ j - 1 < Len(p) /\ k <= j - 1 /\ j - 1 \notin Bad /\ j - 1 + 1 = j
      BY <2>1
    <2>3. f[j - 1] = f[k]
      BY <2>2
    <2>4. f[j] = RunStep(p[j], j - 1, f[j - 1])
      BY <2>2, RunContinues
    <2>5. f[j] = f[k]
      BY <2>3, <2>4 DEF RunStep
    <2> QED
      BY <2>1, <2>5
  <1>2. Len(p) \in Nat
    OBVIOUS
  <1> QED
    BY <1>1, <1>2

-----------------------------------------------------------------------------
(* The registers seen are those of the sequential run *)

\* The instruction that retires next is the next of the run; at an exception the run has
\* come to its end.
AtRun(f) ==
    \/ /\ Normal
       /\ NextAddress <= Len(prog)
       /\ f[NextAddress] = [regs |-> ArchRegs, fault |-> {}]
    \/ /\ Trapped
       /\ f[Len(prog)] = [regs |-> ArchRegs, fault |-> {excPC}]

FollowsRun == \E f : IsRun(prog, Len(prog), f) /\ SequentialRun(prog) = f[Len(prog)] /\ AtRun(f)

LEMMA FollowsRunInit ==
    ASSUME IInv, Init
    PROVE  FollowsRun
  <1>1. prog \in Seq(Instruction) /\ Len(prog) \in Nat
    BY StateTypes
  <1>2. PICK f : IsRun(prog, Len(prog), f) /\ SequentialRun(prog) = f[Len(prog)]
    BY <1>1, SequentialRunIs
  <1>3. Normal
    BY NormalInit
  <1>4. ArchState
    BY <1>3, ArchStateHolds DEF PInv
  <1>5. ArchPC = 0 /\ ArchRegs = [l \in LogReg |-> 0]
    BY <1>4, InOrderInit DEF InOrder!Init, InOrder!LogReg, LogReg
  <1>6. NextAddress = 0
    BY <1>3, <1>4, <1>5 DEF ArchState
  <1>7. f[0] = RunStart
    <2>1. 0 \in 0 .. Len(prog)
      BY <1>1
    <2> QED
      BY <1>2, <2>1 DEF IsRun
  <1> QED
    BY <1>1, <1>2, <1>3, <1>5, <1>6, <1>7 DEF FollowsRun, AtRun, RunStart

\* Retirement is a step of the run.
LEMMA RetireFollows ==
    ASSUME IInv, Normal, ArchState, ArchState', RetireFront,
           NEW f, IsRun(prog, Len(prog), f),
           f[NextAddress] = [regs |-> ArchRegs, fault |-> {}]
    PROVE  AtRun(f)'
  <1> DEFINE i == NextInstruction
             c == Compute(i.op, ArchRegs[i.rs1], SecondOperand(i, ArchRegs))
  <1>0. prog' = prog
    BY DEF RetireFront
  <1>1. Normal'
    BY NormalRetire
  <1>2. step = "commit" /\ MayRetire
    BY DEF RetireFront
  <1>3. NextAddress \in Nat /\ NextAddress < Len(prog) /\ Len(prog) \in Nat
        /\ prog \in Seq(Instruction)
    BY <1>2, HeadOutcome, NextAddressIs, StateTypes
  <1>4. ArchPC = NextAddress /\ NextAddress' = NextAddress + 1
    BY RetireExecutes DEF ArchState
  <1>5. /\ ~Faults(i.op, SecondOperand(i, ArchRegs))
        /\ ArchRegs' = [ArchRegs EXCEPT ![i.dst] = c]
    <2>1. InOrder!Execute
      BY RetireRefines
    <2>2. InOrder!Current = i
      BY <1>4 DEF InOrder!Current, NextInstruction
    <2>3. InOrder!Operand2 = SecondOperand(i, ArchRegs) /\ InOrder!Operand1 = ArchRegs[i.rs1]
      BY <2>2 DEF InOrder!Operand2, InOrder!Operand1, SecondOperand
    <2> HIDE DEF i
    <2> QED
      BY <2>1, <2>2, <2>3 DEF InOrder!Execute, InOrder!Faults, Faults, InOrder!Compute, Compute
  <1>6. f[NextAddress + 1] = RunStep(i, NextAddress, f[NextAddress])
    BY <1>3, RunContinues DEF NextInstruction
  <1> HIDE DEF i
  <1>7. f[NextAddress + 1] = [regs |-> ArchRegs', fault |-> {}]
    BY <1>5, <1>6 DEF RunStep
  <1>8. NextAddress' <= Len(prog)'
    BY <1>0, <1>3, <1>4
  <1>9. f[NextAddress'] = [regs |-> ArchRegs', fault |-> {}]
    BY <1>4, <1>7
  <1> QED
    BY <1>1, <1>8, <1>9 DEF AtRun

\* A detected exception is the end of the run.
LEMMA DetectionFollows ==
    ASSUME IInv, Normal, ArchState, ArchState', DetectException,
           NEW f, IsRun(prog, Len(prog), f),
           f[NextAddress] = [regs |-> ArchRegs, fault |-> {}]
    PROVE  AtRun(f)'
  <1> DEFINE i == NextInstruction
  <1>0. prog' = prog /\ step = "commit" /\ MayRetire
    BY DEF DetectException
  <1>1. Trapped'
    BY Detection
  <1>2. NextAddress \in Nat /\ NextAddress < Len(prog) /\ Len(prog) \in Nat
        /\ prog \in Seq(Instruction)
    BY <1>0, HeadOutcome, NextAddressIs, StateTypes
  <1>3. /\ Faults(i.op, SecondOperand(i, ArchRegs))
        /\ ArchRegs' = ArchRegs /\ excPC' = NextAddress
    <2>1. InOrder!Trap
      BY DetectionRefines
    <2>2. ArchPC = NextAddress
      BY DEF ArchState
    <2>3. InOrder!Current = i
      BY <2>2 DEF InOrder!Current, NextInstruction
    <2>4. InOrder!Operand2 = SecondOperand(i, ArchRegs)
      BY <2>3 DEF InOrder!Operand2, SecondOperand
    <2> HIDE DEF i
    <2> QED
      BY <2>1, <2>2, <2>3, <2>4 DEF InOrder!Trap, InOrder!Faults, Faults
  <1>4. f[NextAddress + 1] = RunStep(i, NextAddress, f[NextAddress])
    BY <1>2, RunContinues DEF NextInstruction
  <1> HIDE DEF i
  <1>5. f[NextAddress + 1] = [regs |-> ArchRegs, fault |-> {NextAddress}]
    BY <1>3, <1>4 DEF RunStep
  <1>6. f[Len(prog)] = f[NextAddress + 1]
    <2>1. NextAddress + 1 \in Nat /\ NextAddress + 1 <= Len(prog)
      BY <1>2
    <2>2. f[NextAddress + 1].fault # {}
      BY <1>5
    <2> QED
      BY <1>2, <2>1, <2>2, RunStops
  <1>7. f[Len(prog)]' = [regs |-> ArchRegs', fault |-> {excPC'}]
    BY <1>0, <1>3, <1>5, <1>6
  <1> QED
    BY <1>1, <1>7 DEF AtRun

\* Every other step leaves the registers seen alone.
LEMMA RunKept ==
    ASSUME BelowVector, IInv, IInv', PInv, ArchState, ArchState', Next \/ UNCHANGED vars,
           FollowsRun
    PROVE  FollowsRun'
  <1>1. prog' = prog
    BY ProgramKept
  <1>2. PICK f : IsRun(prog, Len(prog), f) /\ SequentialRun(prog) = f[Len(prog)] /\ AtRun(f)
    BY DEF FollowsRun
  <1>5. IsRun(prog, Len(prog), f)' /\ SequentialRun(prog)' = f[Len(prog)]'
    BY <1>1, <1>2
  <1> SUFFICES AtRun(f)'
    BY <1>5 DEF FollowsRun
  <1>3. CASE Normal /\ NextAddress <= Len(prog)
                /\ f[NextAddress] = [regs |-> ArchRegs, fault |-> {}]
    <2>1. CASE RetireFront
      BY <1>2, <1>3, <2>1, RetireFollows
    <2>2. CASE DetectException
      BY <1>2, <1>3, <2>2, DetectionFollows
    <2>3. CASE ~RetireFront /\ ~DetectException
      <3>1. Normal' /\ NextAddress' = NextAddress /\ \A l \in LogReg : Seen(l)' = Seen(l)
        BY <1>3, <2>3, NormalStep, AddressKept, SeenKept
      <3>2. ArchRegs' = ArchRegs
        BY <3>1, RegistersKept
      <3> QED
        BY <1>1, <1>3, <3>1, <3>2 DEF AtRun
    <2> QED
      BY <2>1, <2>2, <2>3
  <1>4. CASE Trapped /\ f[Len(prog)] = [regs |-> ArchRegs, fault |-> {excPC}]
    <2>1. Trapped'
      BY <1>4, TrappedStep
    <2>2. excPC' = excPC /\ \A l \in LogReg : Seen(l)' = Seen(l)
      BY <1>4, TrappedSeen
    <2>3. ArchRegs' = ArchRegs
      BY <2>2, RegistersKept
    <2> QED
      BY <1>1, <1>4, <2>1, <2>2, <2>3 DEF AtRun
  <1> QED
    BY <1>2, <1>3, <1>4 DEF AtRun

\* The simulator takes a PC at the vector for the end of the work without looking at the
\* DIR.  With the strict bound that means that an exception was taken, and not that the
\* last bundle still has to be dispatched.
EndsBeforeVector == \A p \in Programs : Len(p) < ExcVector

\* When the simulator is done, nothing is left to retire.
LEMMA DoneIsComplete ==
    ASSUME EndsBeforeVector, IInv, FollowsRun
    PROVE  DoneMeansComplete
  <1> SUFFICES ASSUME CycleStart, SimulationDone
      PROVE  /\ ArchRegs = SequentialRun(prog).regs
             /\ excPC = IF SequentialRun(prog).fault = {} THEN 0
                        ELSE CHOOSE a \in SequentialRun(prog).fault : TRUE
    BY DEF DoneMeansComplete
  <1>1. PICK f : SequentialRun(prog) = f[Len(prog)] /\ AtRun(f)
    BY DEF FollowsRun
  <1>2. CASE Normal /\ NextAddress <= Len(prog)
                /\ f[NextAddress] = [regs |-> ArchRegs, fault |-> {}]
    <2>1. /\ pc \in Nat /\ Len(prog) \in Nat /\ Len(dir) \in Nat /\ dir \in Seq(Nat)
          /\ Len(prog) < ExcVector /\ ExcVector \in Nat
      BY StateTypes, ProgramAssumption DEF EndsBeforeVector, TypeOK
    <2>2. dir = <<>>
      <3> SUFFICES ASSUME dir # <<>> PROVE FALSE
        OBVIOUS
      <3>1. pc = ExcVector
        BY DEF SimulationDone, NoInflightWork
      <3>2. Len(dir) \in 1 .. Len(dir) /\ DOMAIN dir = 1 .. Len(dir)
        BY <2>1
      <3>3. dir[Len(dir)] + Len(dir) + 1 = pc + Len(dir) /\ dir[Len(dir)] \in Nat
        BY <1>2, <2>1, <3>2 DEF Normal, Order
      <3>4. dir[Len(dir)] < Len(prog)
        BY <3>2 DEF IInv, ControlInv, InProgram
      <3> QED
        BY <2>1, <3>1, <3>3, <3>4
    <2>3. al = <<>> /\ Remaining = 0
      <3>1. Remaining = Len(dir)
        BY <1>2, StartState
      <3> QED
        BY <2>2, <3>1 DEF SimulationDone, NoInflightWork
    <2>4. NextAddress = pc
      BY <1>2, <2>3, NextAddressIs
    <2>5. NextAddress = Len(prog)
      BY <1>2, <2>1, <2>4 DEF SimulationDone
    <2>6. excPC = 0
      BY <1>2 DEF Normal, NoException
    <2> QED
      BY <1>1, <1>2, <2>5, <2>6
  <1>3. CASE f[Len(prog)] = [regs |-> ArchRegs, fault |-> {excPC}]
    BY <1>1, <1>3
  <1> QED
    BY <1>1, <1>2, <1>3 DEF AtRun

\* When the simulator stops, the whole program took effect, or the part of it before the
\* first fault, whose address the exception PC is: nothing is lost in the pipeline and
\* nothing beyond the end is executed.
THEOREM Complete ==
    ASSUME EndsBeforeVector
    PROVE  Spec => []DoneMeansComplete
  <1>0. BelowVector
    <2>1. ASSUME NEW p \in Programs PROVE Len(p) <= ExcVector
      <3>1. Len(p) \in Nat /\ ExcVector \in Nat /\ Len(p) < ExcVector
        BY ProgramAssumption DEF EndsBeforeVector
      <3> QED
        BY <3>1
    <2> QED
      BY <2>1 DEF BelowVector
  <1>1. IInv /\ PInv => ArchState
    BY ArchStateHolds
  <1>2. IInv /\ Init => FollowsRun
    BY FollowsRunInit
  <1>3. (IInv /\ PInv /\ ArchState) /\ (IInv /\ ArchState)' /\ [Next]_vars /\ FollowsRun
            => FollowsRun'
    BY <1>0, RunKept
  <1>4. IInv /\ FollowsRun => DoneMeansComplete
    BY DoneIsComplete
  <1> QED
    BY <1>0, <1>1, <1>2, <1>3, <1>4, PipelineInvariant, PTL DEF Spec

=============================================================================
