------------------------------ MODULE MCOoO470 ------------------------------
(***************************************************************************)
(* Small instances of OoO470 for TLC.  The processor is deterministic once *)
(* its program is chosen, so a run explores every program of a set.        *)
(***************************************************************************)
EXTENDS OoO470

Addi(d, a, v) == [op |-> "addi", dst |-> d, rs1 |-> a, useImm |-> TRUE,
                  rs2 |-> 0, imm |-> v]
Alu(o, d, a, b) == [op |-> o, dst |-> d, rs1 |-> a, useImm |-> FALSE,
                    rs2 |-> b, imm |-> 0]

\* Two registers: increments that make dependence chains and overwrite their
\* source or not, and divisions that fault unless the program made their divisor
\* non-zero before, ready with the instruction before them or waiting for it.
Increments == {Addi(0, 0, 3), Addi(1, 0, 3), Addi(1, 1, 3)}
Divisions == {Alu("divu", 0, 0, 1), Alu("divu", 1, 1, 1), Alu("remu", 0, 1, 0)}
Others == {Alu("sub", 1, 0, 1), Alu("mulu", 1, 1, 1)}

\* Every program of four of these eight instructions.
MixedPrograms == [1 .. 4 -> Increments \cup Divisions \cup Others]

\* Longer ones, for queues that fill up and an end that is the exception vector: a
\* chain, an independent instruction and a division that ends the program.
Chain == {Addi(0, 0, 1), Addi(1, 1, 1), Alu("divu", 1, 1, 0)}
LongPrograms == [1 .. 7 -> Chain]

CorePrograms == MixedPrograms \cup LongPrograms

\* given_tests/01: 24 instructions, the 13th divides by zero when the DIR is empty
\* and twelve instructions are to be rolled back; given_tests/05: 32 instructions
\* over chains of products; both at the sizes of the code.
GivenTests == {
    <<Addi(1, 1, 1), Addi(2, 2, 2), Addi(3, 3, 3), Addi(4, 4, 4),
      Addi(0, 0, 1), Addi(0, 0, 10), Addi(0, 0, 100), Addi(0, 0, 1000),
      Addi(2, 0, 1), Alu("add", 3, 2, 1), Alu("add", 0, 3, 3), Alu("sub", 0, 0, 0),
      Alu("divu", 0, 0, 0), Addi(0, 0, 10), Addi(4, 0, 20), Addi(2, 0, 30),
      Alu("sub", 2, 2, 3), Alu("sub", 3, 0, 2), Alu("sub", 1, 2, 0),
      Alu("sub", 3, 3, 1), Addi(0, 0, 1), Addi(0, 0, 1), Addi(0, 0, 1),
      Addi(0, 0, 1)>>,
    <<Addi(0, 0, 10), Addi(1, 1, 20), Addi(2, 2, 30), Addi(3, 3, 40),
      Addi(9, 9, 50), Addi(10, 10, 60), Addi(11, 11, 70), Addi(12, 12, 80),
      Alu("mulu", 4, 0, 9), Alu("mulu", 5, 1, 10), Alu("mulu", 6, 2, 11),
      Alu("mulu", 7, 3, 12), Alu("mulu", 0, 4, 5), Alu("mulu", 1, 5, 7),
      Alu("mulu", 3, 7, 6), Alu("mulu", 2, 6, 4), Addi(9, 9, 40), Addi(10, 10, 30),
      Addi(11, 11, 20), Addi(12, 12, 10), Alu("sub", 4, 1, 3), Alu("sub", 5, 3, 1),
      Alu("sub", 6, 2, 0), Alu("sub", 7, 0, 2), Alu("sub", 1, 1, 1),
      Alu("sub", 2, 2, 2), Alu("sub", 3, 3, 3), Alu("sub", 0, 0, 0),
      Alu("sub", 9, 12, 7), Alu("sub", 10, 11, 6), Alu("sub", 11, 10, 5),
      Alu("sub", 12, 9, 3)>>}

=============================================================================
