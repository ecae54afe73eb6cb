------------------------------- MODULE ISA470 -------------------------------
(***************************************************************************)
(* The instruction set of the OoO470 processor of HW1: what the decoder    *)
(* produces for an instruction and what the ALUs compute from two operand  *)
(* values.  A program is a sequence of decoded instructions; the text of   *)
(* an instruction and its parsing are left out, so an immediate is already *)
(* the unsigned word that dispatch casts it to.                            *)
(***************************************************************************)
EXTENDS Integers, Sequences

CONSTANTS
    WordMod,    \* number of values of a machine word (2^64 in the code)
    NLog        \* number of logical registers (32 in the code)

ASSUME WordAssumption == WordMod \in Nat \ {0}
ASSUME LogicalAssumption == NLog \in Nat \ {0}

Word == 0 .. WordMod - 1
LogReg == 0 .. NLog - 1

Opcode == {"add", "addi", "sub", "mulu", "divu", "remu"}

\* useImm is true for addi alone; rs2 is then 0 and never read as a register.
Instruction == [op : Opcode, dst : LogReg, rs1 : LogReg, useImm : BOOLEAN,
                rs2 : LogReg, imm : Word]

-----------------------------------------------------------------------------
\* Division and remainder by zero raise an exception; nothing else does.
Faults(op, b) == op \in {"divu", "remu"} /\ b = 0

\* Slip: sums are not cut to the width of a word.
ComputeUnbounded(op, a, b) ==
    CASE op \in {"add", "addi"} -> a + b
      [] op = "sub"             -> (a - b) % WordMod
      [] op = "mulu"            -> (a * b) % WordMod
      [] op = "divu"            -> IF b = 0 THEN 0 ELSE a \div b
      [] op = "remu"            -> IF b = 0 THEN 0 ELSE a % b

\* The 64-bit unsigned result; a faulting instruction carries the value 0.
Compute(op, a, b) ==
    CASE op \in {"add", "addi"} -> (a + b) % WordMod
      [] op = "sub"             -> (a - b) % WordMod
      [] op = "mulu"            -> (a * b) % WordMod
      [] op = "divu"            -> IF b = 0 THEN 0 ELSE a \div b
      [] op = "remu"            -> IF b = 0 THEN 0 ELSE a % b

=============================================================================
