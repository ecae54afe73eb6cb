---------------------------- MODULE Dataflow470 ----------------------------
(***************************************************************************)
(* What a compiled program may do, whatever the backend: it executes only  *)
(* instances of instructions that a sequential run of the source executes, *)
(* and each of them when the instances whose values it reads have been     *)
(* executed.  Instances that do not depend on each other execute in any    *)
(* order or together.                                                      *)
(***************************************************************************)
EXTENDS VLIWProgram

CONSTANT Times  \* that a loop runs whose count the program sets

VARIABLES
    program,
    executed    \* the instances executed so far

Meant == Instances(program, Laps(program, Times))

ReadFrom(x) ==
    UNION {Reaching(program, Laps(program, Times), x, r) : r \in Reads(program.code[x[1]])}

\* A program is chosen before anything is executed.
Choose == executed = {} /\ executed' = {}

Execute ==
    /\ executed \subseteq executed'
    /\ executed' \subseteq Meant
    /\ \A x \in executed' \ executed : ReadFrom(x) \subseteq executed
    /\ UNCHANGED program

Next == Choose \/ Execute

Spec == executed = {} /\ [][Next]_<<program, executed>>

=============================================================================
