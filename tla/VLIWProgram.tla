---------------------------- MODULE VLIWProgram ----------------------------
(***************************************************************************)
(* The frontend and the middle end of the VLIW470 compiler of HW2, as      *)
(* functions of a program: nops are dropped, the code is split into the    *)
(* block before the loop (BB0), the loop (BB1) and the block after it      *)
(* (BB2), and every register read is traced back to the instruction that   *)
(* wrote the register.                                                     *)
(*                                                                         *)
(* Addresses count from 1 and 0 is the code's "no instruction" (-1).  An   *)
(* instruction is the unit it needs, the general registers it reads, in    *)
(* the order of its operands, and the one it writes, if any; the text it   *)
(* is parsed from, its immediates and its opcode beyond the unit are left  *)
(* out.  The end of the module holds what both backends use.               *)
(***************************************************************************)
EXTENDS Integers, Sequences, FiniteSets

CONSTANT Reg    \* the general registers x0 .. x95

\* What the parser makes of each kind of instruction.
Add(d, s, t) == [unit |-> "ALU", dst |-> {d}, src |-> <<s, t>>]     \* also sub
Addi(d, s) == [unit |-> "ALU", dst |-> {d}, src |-> <<s>>]          \* also mov x, x
MovImmediate(d) == [unit |-> "ALU", dst |-> {d}, src |-> <<>>]
MovSpecial == [unit |-> "ALU", dst |-> {}, src |-> <<>>]            \* to LC
Mulu(d, s, t) == [unit |-> "Mult", dst |-> {d}, src |-> <<s, t>>]
Ld(d, base) == [unit |-> "Mem", dst |-> {d}, src |-> <<base>>]
St(s, base) == [unit |-> "Mem", dst |-> {}, src |-> <<s, base>>]
Loop == [unit |-> "Branch", dst |-> {}, src |-> <<>>]
Nop == [unit |-> "None", dst |-> {}, src |-> <<>>]

\* A branch has no register: it is the loop instruction.
Instruction ==
    [unit : {"ALU", "Mult", "Mem"}, dst : {{}} \cup {{r} : r \in Reg}, src : Seq(Reg)] \cup {Loop}

\* A program: its code and the address its loop instruction goes back to.
Program == [code : Seq(Instruction), start : Nat]

\* The distinct registers that an instruction reads.
Reads(i) == {i.src[k] : k \in DOMAIN i.src}

Latency(i) == IF i.unit = "Mult" THEN 3 ELSE 1

Largest(S) == CHOOSE x \in S : \A y \in S : y <= x
Smallest(S) == CHOOSE x \in S : \A y \in S : x <= y
Greatest(S, least) == Largest(S \cup {least})

-----------------------------------------------------------------------------
(* Dropping the nops *)

\* Slip: an address is not moved by the nops dropped before it.
UnmovedAddress(raw, a) == a

\* The new address of an instruction; a nop gets that of the next instruction.
NewAddress(raw, a) == 1 + Cardinality({i \in 1 .. a - 1 : raw[i] # Nop})

\* The code without its nops: the a-th instruction is the one that makes it a.
Kept(raw) ==
    LET kept == {i \in DOMAIN raw : raw[i] # Nop}
        at(a) == CHOOSE i \in kept : Cardinality({j \in kept : j <= i}) = a
    IN  [a \in 1 .. Cardinality(kept) |-> raw[at(a)]]

\* The parser's result, and whether it accepts the loop's target.
Parsed(raw, target) == [code |-> Kept(raw), start |-> NewAddress(raw, target)]

TargetAccepted(raw, target) ==
    target \in 1 .. Len(raw) + 1 /\ NewAddress(raw, target) <= Len(Kept(raw))

-----------------------------------------------------------------------------
(* Basic blocks *)

LoopAddresses(p) == {a \in DOMAIN p.code : p.code[a].unit = "Branch"}

LoopAddress(p) == CHOOSE a \in LoopAddresses(p) : TRUE

HasLoop(p) == LoopAddresses(p) # {}

\* What split_basic_blocks takes without an error, and the looppip backend needs.
SplitAccepted(p) ==
    /\ Cardinality(LoopAddresses(p)) = 1
    /\ p.start <= LoopAddress(p)

\* All of a program without a loop is BB0.
Block(p, a) == IF a < p.start \/ ~HasLoop(p) THEN "BB0"
               ELSE IF a <= LoopAddress(p) THEN "BB1" ELSE "BB2"

InBlock(p, b) == {a \in DOMAIN p.code : Block(p, a) = b}

-----------------------------------------------------------------------------
(* Dependency analysis *)

Writers(p, r) == {a \in DOMAIN p.code : r \in p.code[a].dst}

LastOf(S) == IF S = {} THEN 0 ELSE Largest(S)

\* Slip: an instruction counts as written before itself.
LocalOrOwnProducer(p, a, r) ==
    LastOf({w \in Writers(p, r) : w <= a /\ Block(p, w) = Block(p, a)})

\* The last writer before address a in its own block.
LocalProducer(p, a, r) ==
    LastOf({w \in Writers(p, r) : w < a /\ Block(p, w) = Block(p, a)})

\* The last writer in a block.
BlockProducer(p, b, r) == LastOf({w \in Writers(p, r) : Block(p, w) = b})

\* The registers that instruction a reads from outside its block's own prefix.
Incoming(p, a) == {r \in Reads(p.code[a]) : LocalProducer(p, a, r) = 0}

Dependency(r, producer, previous) ==
    [reg |-> r, producer |-> producer, previous |-> previous]

LocalDependencies(p, a) ==
    {Dependency(r, LocalProducer(p, a, r), 0) : r \in Reads(p.code[a]) \ Incoming(p, a)}

\* Read in the loop before the loop writes it: the value of the previous iteration,
\* and of BB0 (if it wrote one) in the first.
InterloopDependencies(p, a) ==
    {Dependency(r, BlockProducer(p, "BB0", r), BlockProducer(p, "BB1", r)) :
        r \in {q \in Incoming(p, a) : Block(p, a) = "BB1"
                                        /\ BlockProducer(p, "BB1", q) # 0}}

\* Read in or after a loop that does not write it.
InvariantDependencies(p, a) ==
    {Dependency(r, BlockProducer(p, "BB0", r), 0) :
        r \in {q \in Incoming(p, a) : /\ Block(p, a) \in {"BB1", "BB2"}
                                      /\ BlockProducer(p, "BB1", q) = 0
                                      /\ BlockProducer(p, "BB0", q) # 0}}

\* Read after a loop that writes it.
PostLoopDependencies(p, a) ==
    {Dependency(r, BlockProducer(p, "BB1", r), 0) :
        r \in {q \in Incoming(p, a) : Block(p, a) = "BB2"
                                        /\ BlockProducer(p, "BB1", q) # 0}}

-----------------------------------------------------------------------------
(* The reference: a run of the program, its loop iterated k times.  An instance  *)
(* <<a, i>> is instruction a in iteration i, which is 0 outside the loop.        *)

Instances(p, k) == ((InBlock(p, "BB0") \cup InBlock(p, "BB2")) \X {0})
                        \cup (InBlock(p, "BB1") \X (0 .. k - 1))

\* When an instance executes, sequentially.
Position(p, k, x) ==
    LET length == Cardinality(InBlock(p, "BB1"))
    IN  x[1] + length * (IF Block(p, x[1]) = "BB2" THEN k - 1 ELSE x[2])

\* The iterations of the loop when a loop count in the program asks for n.
Laps(p, n) == IF \E a \in InBlock(p, "BB0") : p.code[a] = MovSpecial THEN n ELSE 1

\* The instance whose value instance x reads in register r, if the program wrote it.
Reaching(p, k, x, r) ==
    LET before == {y \in Instances(p, k) : /\ r \in p.code[y[1]].dst
                                           /\ Position(p, k, y) < Position(p, k, x)}
    IN  {y \in before : \A z \in before : Position(p, k, z) <= Position(p, k, y)}

\* The instance that the dependency analysis predicts.
Predicted(p, k, x, r) ==
    LET of(deps) == {d \in deps : d.reg = r}
        instance(a, i) == IF a = 0 THEN {} ELSE {<<a, i>>}
        first == UNION {instance(d.producer, x[2]) : d \in of(LocalDependencies(p, x[1]))}
        carried == UNION {IF x[2] = 0 THEN instance(d.producer, 0)
                          ELSE instance(d.previous, x[2] - 1) :
                             d \in of(InterloopDependencies(p, x[1]))}
        invariant == UNION {instance(d.producer, 0) :
                             d \in of(InvariantDependencies(p, x[1]))}
        final == UNION {instance(d.producer, k - 1) :
                             d \in of(PostLoopDependencies(p, x[1]))}
    IN  first \cup carried \cup invariant \cup final

\* The instructions a code executes when its loop at address l goes back to address s
\* k - 1 times, nops left out.
Executed(code, s, l, k) ==
    LET body == l - s + 1
        address(j) == IF j <= l THEN j
                      ELSE IF j <= l + (k - 1) * body THEN s + ((j - l - 1) % body)
                      ELSE j - (k - 1) * body
    IN  SelectSeq([j \in 1 .. Len(code) + (k - 1) * body |-> code[address(j)]],
                  LAMBDA i : i # Nop)

-----------------------------------------------------------------------------
(* What both backends use: errors, slots, and the resource bound of the loop *)

\* A source whose loop the frontend takes.
LoopAccepted(s) == /\ TargetAccepted(s.code, s.target)
                   /\ SplitAccepted(Parsed(s.code, s.target))

None == -1

Slot == {"ALU0", "ALU1", "Mult", "Mem", "Branch"}

\* The slots of a unit, the preferred one first.
PossibleSlots(u) == IF u = "ALU" THEN <<"ALU0", "ALU1">> ELSE <<u>>

\* The first of these cycles, and the first slot in it, that a unit can take; none if
\* all are taken.
Places(u, cycles, taken) ==
    LET slots == PossibleSlots(u)
        free == {at \in cycles \X DOMAIN slots : <<at[1], slots[at[2]]>> \notin taken}
        first == CHOOSE at \in free : \A other \in free :
                    at[1] < other[1] \/ (at[1] = other[1] /\ at[2] <= other[2])
    IN  IF free = {} THEN {} ELSE {[cycle |-> first[1], slot |-> slots[first[2]]]}

CeilDivide(x, y) == (x + y - 1) \div y

UnitCount(p, u) == Cardinality({a \in InBlock(p, "BB1") : p.code[a].unit = u})

\* The smallest interval between two iterations that the units allow.
ResourceInterval(p) ==
    Greatest({CeilDivide(UnitCount(p, "ALU"), 2)} \cup
             {UnitCount(p, u) : u \in {"Mult", "Mem", "Branch"}}, 1)

=============================================================================
