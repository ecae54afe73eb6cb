----------------------------- MODULE InOrder470 -----------------------------
(***************************************************************************)
(* What the OoO470 processor promises to the programmer: instructions take *)
(* effect one at a time, in program order; the first one that divides by   *)
(* zero changes no register, its address goes to the exception PC and      *)
(* control passes to the exception vector.  There is no renaming, no queue *)
(* and no speculation here: OoO470 implements this specification.          *)
(***************************************************************************)
EXTENDS ISA470

CONSTANT ExcVector    \* where control goes after an exception

VARIABLES
    prog,    \* the program, chosen once
    regs,    \* architectural value of each logical register
    apc,     \* address of the next instruction to take effect
    trap,    \* an exception is being taken
    epc      \* address of the last instruction that raised one

archVars == <<prog, regs, apc, trap, epc>>

CONSTANT Programs

Init ==
    /\ prog \in Programs
    /\ regs = [l \in LogReg |-> 0]
    /\ apc = 0
    /\ trap = FALSE
    /\ epc = 0

Current == prog[apc + 1]
Operand1 == regs[Current.rs1]
Operand2 == IF Current.useImm THEN Current.imm ELSE regs[Current.rs2]

Running == ~trap /\ apc < Len(prog)

Execute ==
    /\ Running
    /\ ~Faults(Current.op, Operand2)
    /\ regs' = [regs EXCEPT ![Current.dst] =
                    Compute(Current.op, Operand1, Operand2)]
    /\ apc' = apc + 1
    /\ UNCHANGED <<prog, trap, epc>>

Trap ==
    /\ Running
    /\ Faults(Current.op, Operand2)
    /\ trap' = TRUE
    /\ epc' = apc
    /\ UNCHANGED <<prog, regs, apc>>

EnterHandler ==
    /\ trap
    /\ trap' = FALSE
    /\ apc' = ExcVector
    /\ UNCHANGED <<prog, regs, epc>>

Next == Execute \/ Trap \/ EnterHandler

Spec == Init /\ [][Next]_archVars

=============================================================================
