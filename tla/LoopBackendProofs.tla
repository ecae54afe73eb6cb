-------------------------- MODULE LoopBackendProofs --------------------------
(***************************************************************************)
(* The plain loop path of HW2 on the machine, for every set of programs,   *)
(* any number of registers and of iterations: what is executed, and what   *)
(* the operands hold when it is.                                           *)
(***************************************************************************)
EXTENDS LoopSchedulerProofs

-----------------------------------------------------------------------------
(* The machine's part of the invariant *)

\* The names of values.
Values == (0 .. Len(program.code)) \X Nat

\* The machine has its initial state until the bundles are loaded, and then runs them.
MachineInv ==
    /\ phase # "running" => MachineInit(<<>>)
    /\ phase = "running" =>
          /\ code = Encoded
          /\ pc \in 0 .. size /\ lc \in Nat /\ lap \in Nat
          /\ ec = 0 /\ rrb = 0 /\ predicates = {} /\ rest \in 0 .. 2
          /\ registers \in [Register -> Values]
          /\ multiplier[1] \subseteq Register \X Values
          /\ multiplier[2] \subseteq Register \X Values

\* Where the instructions stand when the bundles are written and run.
LEMMA RunningIs ==
    ASSUME CompilerInv, phase \in {"renamed", "running"}
    PROVE  /\ Compilable(program) /\ size \in Nat /\ begin \in Nat
           /\ DOMAIN row = DOMAIN program.code
           /\ Len(program.code) \in Nat /\ DOMAIN program.code = 1 .. Len(program.code)
           /\ \A a \in DOMAIN program.code : row[a] \in Nat /\ row[a] < size
           /\ HasLoop(program) =>
                 /\ Control \in DOMAIN program.code /\ begin <= row[Control]
                 /\ InBlock(program, "BB0") # {}
                 /\ \A a \in InBlock(program, "BB0") : row[a] < begin
                 /\ \A a \in Body : begin <= row[a] /\ row[a] <= row[Control]
                 /\ \A a \in InBlock(program, "BB2") : row[Control] < row[a]
           /\ \A a \in DOMAIN dst : dst[a] \subseteq Register
           /\ DOMAIN dst = DOMAIN program.code /\ DOMAIN src = DOMAIN program.code
           /\ \A a \in DOMAIN program.code : DOMAIN src[a] = DOMAIN Code(a).src
           /\ \A m \in moves :
                 /\ HasLoop(program) /\ m.row \in Nat /\ m.row < size
                 /\ begin <= m.row /\ m.row <= row[Control]
                 /\ m.slot \in {"ALU0", "ALU1"}
                 /\ m.from \in Register /\ m.to \in Register
  <1>1. ScheduleInv /\ RenamingInv /\ Finished /\ Working /\ Moving /\ Numbered
    BY DEF CompilerInv, Finished, Working, Moving, Numbered
  <1>2. /\ Compilable(program) /\ size \in Nat /\ begin \in Nat
        /\ DOMAIN row = DOMAIN program.code
    BY <1>1, StateIs
  <1>3. Len(program.code) \in Nat /\ DOMAIN program.code = 1 .. Len(program.code)
    BY <1>2 DEF Compilable, Program
  <1>4. \A a \in DOMAIN program.code : row[a] \in Nat
    BY <1>1, PlaceIs
  <1>5. HasLoop(program) =>
           /\ Control \in DOMAIN program.code /\ begin <= row[Control]
           /\ InBlock(program, "BB0") # {}
           /\ \A a \in InBlock(program, "BB0") : row[a] < begin
           /\ \A a \in Body : begin <= row[a] /\ row[a] <= row[Control]
           /\ \A a \in InBlock(program, "BB2") : row[Control] < row[a] /\ row[a] < size
           /\ row[Control] < size
    BY <1>1, <1>2, AddressesAre DEF ScheduleInv, Progress, Layout, LoopPlaced
  <1>6. \A a \in DOMAIN program.code : row[a] < size
    <2>1. CASE HasLoop(program)
      <3>1. \A a \in DOMAIN program.code :
               a \in InBlock(program, "BB0") \/ a \in Body \/ a = Control
                  \/ a \in InBlock(program, "BB2")
        BY <1>2, <2>1, AddressesAre
      <3>2. ASSUME NEW a \in DOMAIN program.code PROVE row[a] < size
        <4>1. row[a] \in Nat /\ row[Control] \in Nat
          BY <1>4, <1>5, <2>1
        <4>2. a \in InBlock(program, "BB0") => row[a] < size
          BY <1>2, <1>5, <2>1, <4>1
        <4>3. a \in Body => row[a] < size
          BY <1>2, <1>5, <2>1, <4>1
        <4> QED
          BY <1>5, <2>1, <3>1, <4>2, <4>3
      <3> QED
        BY <3>2
    <2>2. CASE ~HasLoop(program)
      BY <1>1, <2>2 DEF ScheduleInv, Layout
    <2> QED
      BY <2>1, <2>2
  <1>7. ASSUME NEW m \in moves
        PROVE  /\ HasLoop(program) /\ m.row \in Nat /\ m.row < size
               /\ begin <= m.row /\ m.row <= row[Control]
               /\ m.slot \in {"ALU0", "ALU1"}
               /\ m.from \in Register /\ m.to \in Register
    <2>1. /\ HasLoop(program) /\ m.row \in Nat
          /\ begin <= m.row /\ m.row <= row[Control]
          /\ m.slot \in {"ALU0", "ALU1"}
          /\ m.from \in Register /\ m.to \in Register
      BY <1>1 DEF RenamingInv, RenamingTypes, Moves
    <2>2. row[Control] \in Nat /\ row[Control] < size
      BY <1>4, <1>5, <2>1
    <2>3. m.row < size
      BY <1>2, <2>1, <2>2
    <2> QED
      BY <2>1, <2>3
  <1>8. /\ \A a \in DOMAIN dst : dst[a] \subseteq Register
        /\ DOMAIN dst = DOMAIN program.code /\ DOMAIN src = DOMAIN program.code
        /\ \A a \in DOMAIN program.code : DOMAIN src[a] = DOMAIN Code(a).src
    BY <1>1 DEF RenamingInv, RenamingTypes, Results, Operands
  <1> QED
    BY <1>2, <1>3, <1>4, <1>5, <1>6, <1>7, <1>8

\* With the base at 0, registers bear their own names.
LEMMA PhysicalIs ==
    ASSUME rrb = 0, NEW name \in Register
    PROVE  Physical(name) = name
  <1>1. MaxReg \in Nat /\ Register = 0 .. MaxReg
    BY RegistersAre
  <1>2. name \in Nat /\ name <= MaxReg /\ name - 0 = name
    BY <1>1
  <1>3. Cardinality(Register) = MaxReg + 1
    <2>1. 0 \in Int /\ MaxReg \in Int
      BY <1>1
    <2>2. Cardinality(0 .. MaxReg) = IF 0 > MaxReg THEN 0 ELSE (MaxReg - 0) + 1
      BY <2>1, FS_Interval
    <2> QED
      BY <1>1, <2>2
  <1>4. name % (MaxReg + 1) = name
    BY <1>1, <1>2
  <1>5. CASE name < FirstRotating
    BY <1>5 DEF Physical, RegisterBehind
  <1>6. CASE ~(name < FirstRotating)
    BY <1>2, <1>3, <1>4, <1>6 DEF Physical, RegisterBehind
  <1> QED
    BY <1>5, <1>6

\* The instructions and the moves of a cycle.
AtPc == {a \in DOMAIN program.code : row[a] = pc}
MovesAtPc == {m \in moves : m.row = pc}

\* The bundle that is read holds them, and nothing in it is subject to a predicate.
LEMMA BundleIs ==
    ASSUME CompilerInv, MachineInv, phase = "running"
    PROVE  /\ Len(code) = size
           /\ Bundle = {ProgramOperation(a) : a \in AtPc} \cup {MoveOperation(m) : m \in MovesAtPc}
           /\ Active = Bundle
  <1>1. /\ code = Encoded /\ pc \in 0 .. size /\ size \in Nat
        /\ DOMAIN row = DOMAIN program.code
        /\ \A a \in DOMAIN program.code : row[a] \in Nat /\ row[a] < size
        /\ \A m \in moves : m.row \in Nat /\ m.row < size
    BY RunningIs DEF MachineInv
  <1>2. Len(code) = size
    BY <1>1 DEF Encoded
  <1> DEFINE read == {ProgramOperation(a) : a \in AtPc} \cup {MoveOperation(m) : m \in MovesAtPc}
  <1>3. ASSUME pc < size PROVE Bundle = read
    <2>1. pc + 1 \in 1 .. size /\ (pc + 1) - 1 = pc
      BY <1>1, <1>3
    <2>2. code[pc + 1] = {ProgramOperation(a) : a \in {b \in DOMAIN row : row[b] = (pc + 1) - 1}}
                            \cup {MoveOperation(m) : m \in {n \in moves : n.row = (pc + 1) - 1}}
      BY <1>1, <2>1 DEF Encoded
    <2>3. /\ {b \in DOMAIN row : row[b] = (pc + 1) - 1} = AtPc
          /\ {n \in moves : n.row = (pc + 1) - 1} = MovesAtPc
      BY <1>1, <2>1 DEF AtPc, MovesAtPc
    <2>4. code[pc + 1] = {ProgramOperation(a) : a \in AtPc}
                            \cup {MoveOperation(m) : m \in MovesAtPc}
      BY <2>2, <2>3
    <2>5. Bundle = code[pc + 1]
      BY <1>2, <1>3 DEF Bundle
    <2> QED
      BY <2>4, <2>5
  <1>4. ASSUME ~(pc < size) PROVE Bundle = read
    <2>1. pc = size
      BY <1>1, <1>4
    <2>2. AtPc = {}
      BY <1>1, <2>1 DEF AtPc
    <2>3. MovesAtPc = {}
      BY <1>1, <2>1 DEF MovesAtPc
    <2>4. Bundle = {}
      BY <1>2, <1>4 DEF Bundle
    <2> QED
      BY <2>2, <2>3, <2>4
  <1>5. Bundle = {ProgramOperation(a) : a \in AtPc} \cup {MoveOperation(m) : m \in MovesAtPc}
    BY <1>3, <1>4
  <1>6. \A op \in Bundle : op.guard = {}
    BY <1>5 DEF ProgramOperation, MoveOperation, Operation
  <1>7. Active = Bundle
    BY <1>6 DEF Active
  <1> QED
    BY <1>2, <1>5, <1>7

\* What the special registers and the branch do in a cycle.
LEMMA CycleIs ==
    ASSUME CompilerInv, MachineInv, phase = "running"
    PROVE  /\ LoopCount = IF \E a \in AtPc : Code(a) = MovSpecial THEN Iterations - 1 ELSE lc
           /\ LoopCount \in Nat
           /\ EpilogueCount = 0 /\ Predicated = {} /\ ~Pipelined
           /\ Branches # {} <=> HasLoop(program) /\ pc = row[Control]
           /\ Branches # {} => UNION {op.target : op \in Branches} = {begin}
  <1>1. /\ Bundle = {ProgramOperation(a) : a \in AtPc} \cup {MoveOperation(m) : m \in MovesAtPc}
        /\ Active = Bundle
    BY BundleIs
  <1>2. lc \in Nat /\ ec = 0 /\ predicates = {}
    BY DEF MachineInv
  <1>3. Iterations - 1 \in Nat
    BY LoopBackendAssumption
  <1>4. Compilable(program)
    BY RunningIs
  <1>5. /\ \A a \in AtPc : a \in DOMAIN program.code
        /\ \A a : ProgramOperation(a).pipelined = FALSE
        /\ \A m : /\ MoveOperation(m).pipelined = FALSE
                  /\ MoveOperation(m).target = {} /\ MoveOperation(m).loads = {}
        /\ \A a : ProgramOperation(a).target = IF Code(a).unit = "Branch" THEN {begin} ELSE {}
        /\ \A a : ProgramOperation(a).loads
                     = IF Code(a) = MovSpecial THEN {<<"LC", Iterations - 1>>} ELSE {}
    BY DEF ProgramOperation, MoveOperation, Operation, AtPc
  <1> DEFINE loads == UNION {op.loads : op \in Active}
             counted == \E a \in AtPc : Code(a) = MovSpecial
  <1>6. loads = IF counted THEN {<<"LC", Iterations - 1>>} ELSE {}
    <2>1. \A l \in loads : l = <<"LC", Iterations - 1>> /\ counted
      <3> SUFFICES ASSUME NEW op \in Bundle, NEW l \in op.loads
                   PROVE  l = <<"LC", Iterations - 1>> /\ counted
        BY <1>1
      <3>1. CASE \E a \in AtPc : op = ProgramOperation(a)
        BY <1>5, <3>1
      <3>2. CASE \E m \in MovesAtPc : op = MoveOperation(m)
        BY <1>5, <3>2
      <3> QED
        BY <1>1, <3>1, <3>2
    <2>2. ASSUME counted PROVE <<"LC", Iterations - 1>> \in loads
      <3>1. PICK a \in AtPc : Code(a) = MovSpecial
        BY <2>2
      <3>2. ProgramOperation(a) \in Active
        BY <1>1
      <3>3. <<"LC", Iterations - 1>> \in ProgramOperation(a).loads
        BY <1>5, <3>1
      <3> QED
        BY <3>2, <3>3
    <2> HIDE DEF loads, counted
    <2> QED
      BY <2>1, <2>2
  <1>7. LoopCount = IF counted THEN Iterations - 1 ELSE lc
    <2>1. LoopCount = IF {l \in loads : l[1] = "LC"} = {} THEN lc
                      ELSE (CHOOSE l \in {k \in loads : k[1] = "LC"} : TRUE)[2]
      BY DEF LoopCount, Loaded
    <2> HIDE DEF loads, counted
    <2>2. ASSUME counted PROVE LoopCount = Iterations - 1
      <3>1. {l \in loads : l[1] = "LC"} = {<<"LC", Iterations - 1>>}
        BY <1>6, <2>2
      <3> DEFINE chosen == CHOOSE l \in {<<"LC", Iterations - 1>>} : TRUE
      <3>2. chosen = <<"LC", Iterations - 1>>
        OBVIOUS
      <3>3. LoopCount = chosen[2]
        BY <2>1, <3>1
      <3> HIDE DEF chosen
      <3> QED
        BY <3>2, <3>3
    <2>3. ASSUME ~counted PROVE LoopCount = lc
      <3>1. {l \in loads : l[1] = "LC"} = {}
        BY <1>6, <2>3
      <3> QED
        BY <2>1, <3>1
    <2> QED
      BY <2>2, <2>3
  <1>8. EpilogueCount = 0
    <2>1. EpilogueCount = IF {l \in loads : l[1] = "EC"} = {} THEN ec
                          ELSE (CHOOSE l \in {k \in loads : k[1] = "EC"} : TRUE)[2]
      BY DEF EpilogueCount, Loaded
    <2> HIDE DEF loads, counted
    <2>2. {l \in loads : l[1] = "EC"} = {}
      BY <1>6
    <2> QED
      BY <1>2, <2>1, <2>2
  <1>9. Predicated = {}
    <2>1. Predicated = predicates \cup {Physical(l[2]) : l \in {k \in loads : k[1] = "p"}}
      BY DEF Predicated
    <2> HIDE DEF loads, counted
    <2>2. {k \in loads : k[1] = "p"} = {}
      BY <1>6
    <2> QED
      BY <1>2, <2>1, <2>2
  <1>10. ~Pipelined
    <2> SUFFICES ASSUME NEW op \in Bundle PROVE op.pipelined = FALSE
      BY <1>1 DEF Pipelined, Branches
    <2> QED
      BY <1>1, <1>5
  <1>11. Branches = {ProgramOperation(a) : a \in {b \in AtPc : Code(b).unit = "Branch"}}
    <2>1. ASSUME NEW op \in Branches
          PROVE  \E a \in AtPc : Code(a).unit = "Branch" /\ op = ProgramOperation(a)
      <3>1. op \in Bundle /\ op.target # {}
        BY <1>1 DEF Branches
      <3>2. CASE \E a \in AtPc : op = ProgramOperation(a)
        BY <1>5, <3>1, <3>2
      <3>3. CASE \E m \in MovesAtPc : op = MoveOperation(m)
        BY <1>5, <3>1, <3>3
      <3> QED
        BY <1>1, <3>1, <3>2, <3>3
    <2>2. ASSUME NEW a \in AtPc, Code(a).unit = "Branch" PROVE ProgramOperation(a) \in Branches
      BY <1>1, <1>5, <2>2 DEF Branches
    <2> QED
      BY <2>1, <2>2
  <1>12. \A a \in AtPc : Code(a).unit = "Branch" <=> HasLoop(program) /\ a = Control
    BY <1>4, <1>5, AddressesAre
  <1>13. HasLoop(program) => (Control \in AtPc <=> pc = row[Control])
    BY <1>4, AddressesAre DEF AtPc
  <1>14. Branches # {} <=> HasLoop(program) /\ pc = row[Control]
    BY <1>11, <1>12, <1>13
  <1>15. ASSUME Branches # {} PROVE UNION {op.target : op \in Branches} = {begin}
    <2>1. \A op \in Branches : op.target = {begin}
      BY <1>5, <1>11
    <2> QED
      BY <1>15, <2>1
  <1>16. LoopCount \in Nat
    BY <1>2, <1>3, <1>7
  <1> HIDE DEF loads
  <1> QED
    BY <1>7, <1>8, <1>9, <1>10, <1>14, <1>15, <1>16

\* The loop goes back.
GoesBack == HasLoop(program) /\ pc = row[Control] /\ LoopCount > 0

\* What a cycle does beside writing registers.
LEMMA TickIs ==
    ASSUME CompilerInv, MachineInv, phase = "running", Tick
    PROVE  /\ ec' = 0 /\ rrb' = 0 /\ predicates' = {} /\ code' = code
           /\ multiplier' = <<Writes("Mult"), multiplier[1]>>
           /\ rest' = IF pc < size THEN rest ELSE rest - 1
           /\ GoesBack => /\ pc' = begin /\ lc' = LoopCount - 1
                          /\ lap' = IF lap < MaxLaps THEN lap + 1 ELSE lap
           /\ ~GoesBack => /\ pc' = IF pc < size THEN pc + 1 ELSE pc
                           /\ lc' = LoopCount /\ lap' = lap
           /\ ran' = ran \cup {<<a, lap>> : a \in AtPc}
  <1>1. /\ LoopCount \in Nat /\ EpilogueCount = 0 /\ Predicated = {} /\ ~Pipelined
        /\ Branches # {} <=> HasLoop(program) /\ pc = row[Control]
        /\ Branches # {} => UNION {op.target : op \in Branches} = {begin}
    BY CycleIs
  <1>2. /\ Len(code) = size /\ Active = Bundle
        /\ Bundle = {ProgramOperation(a) : a \in AtPc} \cup {MoveOperation(m) : m \in MovesAtPc}
    BY BundleIs
  <1>3. rrb = 0
    BY DEF MachineInv
  <1>4. Repeat \/ Proceed
    BY <1>1 DEF Tick, Drain
  <1>5. Repeat => GoesBack
    BY <1>1 DEF Repeat, GoesBack
  <1>6. Proceed => ~GoesBack
    BY <1>1 DEF Proceed, GoesBack
  <1>7. ASSUME Repeat
        PROVE  /\ ec' = 0 /\ rrb' = 0 /\ predicates' = {}
               /\ pc' = begin /\ lc' = LoopCount - 1
               /\ lap' = IF lap < MaxLaps THEN lap + 1 ELSE lap
    <2>1. pc' = CHOOSE t \in {begin} : TRUE
      BY <1>1, <1>7 DEF Repeat, Back
    <2>2. pc' = begin
      BY <2>1
    <2> QED
      BY <1>1, <1>3, <1>7, <2>2 DEF Repeat, Back
  <1>8. ASSUME Proceed
        PROVE  /\ ec' = 0 /\ rrb' = 0 /\ predicates' = {}
               /\ pc' = IF pc < size THEN pc + 1 ELSE pc
               /\ lc' = LoopCount /\ lap' = lap
    BY <1>1, <1>2, <1>3, <1>8 DEF Proceed
  <1>9. /\ multiplier' = <<Writes("Mult"), multiplier[1]>> /\ code' = code
        /\ rest' = IF pc < size THEN rest ELSE rest - 1
    BY <1>2 DEF Tick
  <1>10. ran' = ran \cup {<<a, lap>> : a \in AtPc}
    <2>1. ran' = ran \cup {<<op.name, lap>> : op \in {o \in Active : o.name # 0}}
      BY DEF Tick
    <2>2. /\ \A a : ProgramOperation(a).name = a
          /\ \A m : MoveOperation(m).name = 0
      BY DEF ProgramOperation, MoveOperation, Operation
    <2>3. \A a \in AtPc : a # 0
      BY RunningIs DEF AtPc
    <2>4. \A a \in AtPc : ProgramOperation(a) \in {o \in Active : o.name # 0}
      BY <1>2, <2>2, <2>3
    <2>5. \A op \in {o \in Active : o.name # 0} : op.name \in AtPc
      BY <1>2, <2>2
    <2>6. {<<op.name, lap>> : op \in {o \in Active : o.name # 0}} = {<<a, lap>> : a \in AtPc}
      <3>1. ASSUME NEW x \in {<<op.name, lap>> : op \in {o \in Active : o.name # 0}}
            PROVE  x \in {<<a, lap>> : a \in AtPc}
        BY <2>5
      <3>2. ASSUME NEW a \in AtPc
            PROVE  <<a, lap>> \in {<<op.name, lap>> : op \in {o \in Active : o.name # 0}}
        <4>1. <<ProgramOperation(a).name, lap>> \in
                 {<<op.name, lap>> : op \in {o \in Active : o.name # 0}}
          BY <2>4
        <4> QED
          BY <2>2, <4>1
      <3> QED
        BY <3>1, <3>2
    <2> QED
      BY <2>1, <2>6
  <1> QED
    BY <1>4, <1>5, <1>6, <1>7, <1>8, <1>9, <1>10

\* What an operation writes is a value.
LEMMA WritesAre ==
    ASSUME CompilerInv, MachineInv, phase = "running", NEW s
    PROVE  Writes(s) \subseteq Register \X Values
  <1>1. /\ Active = Bundle
        /\ Bundle = {ProgramOperation(a) : a \in AtPc} \cup {MoveOperation(m) : m \in MovesAtPc}
    BY BundleIs
  <1>2. /\ rrb = 0 /\ lap \in Nat /\ registers \in [Register -> Values]
    BY DEF MachineInv
  <1>3. /\ Len(program.code) \in Nat /\ DOMAIN program.code = 1 .. Len(program.code)
        /\ DOMAIN dst = DOMAIN program.code
        /\ \A a \in DOMAIN dst : dst[a] \subseteq Register
        /\ \A m \in moves : m.from \in Register /\ m.to \in Register
    BY RunningIs
  <1>4. ASSUME NEW op \in Bundle
        PROVE  op.dst \subseteq Register /\ Result(op) \in Values
    <2>1. CASE \E a \in AtPc : op = ProgramOperation(a)
      <3>1. PICK a \in AtPc : op = ProgramOperation(a)
        BY <2>1
      <3>2. op.name = a /\ op.dst = dst[a]
        BY <3>1 DEF ProgramOperation, Operation
      <3>3. a \in 1 .. Len(program.code) /\ a # 0 /\ a \in 0 .. Len(program.code)
        BY <1>3 DEF AtPc
      <3>4. Result(op) = <<a, lap>>
        BY <3>2, <3>3 DEF Result
      <3> QED
        BY <1>2, <1>3, <3>2, <3>3, <3>4 DEF Values, AtPc
    <2>2. CASE \E m \in MovesAtPc : op = MoveOperation(m)
      <3>1. PICK m \in MovesAtPc : op = MoveOperation(m)
        BY <2>2
      <3>2. op.name = 0 /\ op.dst = {m.to} /\ op.src[1] = m.from
        BY <3>1 DEF MoveOperation, Operation
      <3>3. m.from \in Register /\ m.to \in Register
        BY <1>3 DEF MovesAtPc
      <3>4. Physical(m.from) = m.from
        BY <1>2, <3>3, PhysicalIs
      <3>5. Result(op) = registers[m.from]
        BY <3>2, <3>4 DEF Result
      <3> QED
        BY <1>2, <3>2, <3>3, <3>5
    <2> QED
      BY <1>1, <2>1, <2>2
  <1>5. ASSUME NEW w \in Writes(s) PROVE w \in Register \X Values
    <2>1. PICK op \in Bundle : \E d \in op.dst : w = <<Physical(d), Result(op)>>
      BY <1>1 DEF Writes
    <2>2. PICK d \in op.dst : w = <<Physical(d), Result(op)>>
      BY <2>1
    <2>3. d \in Register /\ Result(op) \in Values
      BY <1>4, <2>2
    <2>4. Physical(d) = d
      BY <1>2, <2>3, PhysicalIs
    <2> QED
      BY <2>2, <2>3, <2>4
  <1> QED
    BY <1>5

\* A register file with writes is one.
LEMMA AfterIs ==
    ASSUME NEW file \in [Register -> Values], NEW writes \in SUBSET (Register \X Values)
    PROVE  /\ After(file, writes) \in [Register -> Values]
           /\ \A r \in Register :
                 /\ (\A w \in writes : w[1] # r) => After(file, writes)[r] = file[r]
                 /\ \A v : {w \in writes : w[1] = r} = {<<r, v>>} => After(file, writes)[r] = v
  <1>1. After(file, writes) =
           [r \in Register |-> IF \E w \in writes : w[1] = r
                               THEN (CHOOSE w \in writes : w[1] = r)[2] ELSE file[r]]
    BY DEF After
  <1>2. ASSUME NEW r \in Register, \E w \in writes : w[1] = r
        PROVE  (CHOOSE w \in writes : w[1] = r) \in {w \in writes : w[1] = r}
    BY <1>2
  <1>3. ASSUME NEW r \in Register PROVE After(file, writes)[r] \in Values
    <2>1. CASE \E w \in writes : w[1] = r
      <3>1. (CHOOSE w \in writes : w[1] = r) \in Register \X Values
        BY <1>2, <2>1
      <3>2. (CHOOSE w \in writes : w[1] = r)[2] \in Values
        BY <3>1
      <3> QED
        BY <1>1, <2>1, <3>2
    <2>2. CASE ~\E w \in writes : w[1] = r
      BY <1>1, <2>2
    <2> QED
      BY <2>1, <2>2
  <1>4. ASSUME NEW r \in Register, \A w \in writes : w[1] # r
        PROVE  After(file, writes)[r] = file[r]
    BY <1>1, <1>4
  <1>5. ASSUME NEW r \in Register, NEW v, {w \in writes : w[1] = r} = {<<r, v>>}
        PROVE  After(file, writes)[r] = v
    <2>1. <<r, v>> \in writes /\ <<r, v>>[1] = r
      BY <1>5
    <2>2. \E w \in writes : w[1] = r
      BY <2>1
    <2>3. (CHOOSE w \in writes : w[1] = r) = <<r, v>>
      BY <1>2, <1>5, <2>2
    <2> QED
      BY <1>1, <2>2, <2>3
  <1>6. After(file, writes) \in [Register -> Values]
    BY <1>1, <1>3
  <1> QED
    BY <1>4, <1>5, <1>6

-----------------------------------------------------------------------------
(* Every step keeps the machine's part *)

\* The bundles are loaded: the machine starts from its initial state.
LEMMA LoadInv ==
    ASSUME CompilerInv, MachineInv, Load
    PROVE  MachineInv'
  <1>1. /\ phase = "renamed" /\ phase' = "running" /\ code' = Encoded
        /\ UNCHANGED <<source, program, todo, row, slot, size, begin>>
        /\ UNCHANGED <<pc, lc, ec, rrb, registers, predicates, multiplier, rest, lap, ran>>
        /\ UNCHANGED <<dst, src, work, carried, next, moves, resolved>>
    BY DEF Load, renamingVars
  <1>2. MachineInit(<<>>)
    BY <1>1 DEF MachineInv
  <1>3. Encoded' = Encoded
    BY <1>1 DEF Encoded, ProgramOperation, MoveOperation, Code
  <1>4. Len(program.code) \in Nat /\ size \in Nat
    <2>1. size \in Nat /\ program \in Program
      BY DEF CompilerInv, ScheduleInv, ScheduleTypes
    <2> QED
      BY <2>1 DEF Program
  <1>5. Zero \in Values
    BY <1>4 DEF Zero, Values
  <1>6. Values' = Values
    BY <1>1 DEF Values
  <1>7. /\ registers' = [r \in Register |-> Zero] /\ multiplier' = <<{}, {}>>
        /\ pc' = 0 /\ lc' = 0 /\ ec' = 0 /\ rrb' = 0 /\ predicates' = {} /\ rest' = 2
        /\ lap' = 0
    BY <1>1, <1>2 DEF MachineInit
  <1>8. registers' \in [Register -> Values]
    BY <1>5, <1>7
  <1>9. multiplier'[1] = {} /\ multiplier'[2] = {}
    BY <1>7
  <1> QED
    BY <1>1, <1>3, <1>4, <1>6, <1>7, <1>8, <1>9 DEF MachineInv

\* A cycle.
LEMMA RunInv ==
    ASSUME CompilerInv, MachineInv, Run
    PROVE  MachineInv'
  <1>1. /\ phase = "running" /\ phase' = phase /\ Tick
        /\ UNCHANGED <<source, program, todo, row, slot, size, begin>>
        /\ UNCHANGED <<dst, src, work, carried, next, moves, resolved>>
    BY DEF Run, schedulerVars, renamingVars
  <1>2. Encoded' = Encoded /\ Values' = Values
    BY <1>1 DEF Encoded, ProgramOperation, MoveOperation, Code, Values
  <1>3. /\ code = Encoded /\ pc \in 0 .. size /\ lap \in Nat /\ rest \in 0 .. 2
        /\ registers \in [Register -> Values]
        /\ multiplier[1] \subseteq Register \X Values
        /\ multiplier[2] \subseteq Register \X Values
    BY <1>1 DEF MachineInv
  <1>4. /\ ec' = 0 /\ rrb' = 0 /\ predicates' = {} /\ code' = code
        /\ multiplier' = <<Writes("Mult"), multiplier[1]>>
        /\ rest' = IF pc < size THEN rest ELSE rest - 1
        /\ GoesBack => /\ pc' = begin /\ lc' = LoopCount - 1
                       /\ lap' = IF lap < MaxLaps THEN lap + 1 ELSE lap
        /\ ~GoesBack => /\ pc' = IF pc < size THEN pc + 1 ELSE pc
                        /\ lc' = LoopCount /\ lap' = lap
    BY <1>1, TickIs
  <1>5. LoopCount \in Nat
    BY <1>1, CycleIs
  <1>6. size \in Nat /\ begin \in Nat /\ (GoesBack => begin <= size)
    <2>1. size \in Nat /\ begin \in Nat
      BY <1>1, RunningIs
    <2>2. HasLoop(program) => row[Control] \in Nat /\ begin <= row[Control] /\ row[Control] < size
      BY <1>1, RunningIs
    <2> QED
      BY <2>1, <2>2 DEF GoesBack
  <1>7. ASSUME GoesBack PROVE pc' \in 0 .. size /\ lc' \in Nat /\ lap' \in Nat
    <2>1. pc' \in 0 .. size
      BY <1>4, <1>6, <1>7
    <2>2. lc' \in Nat
      BY <1>4, <1>5, <1>7 DEF GoesBack
    <2>3. lap' \in Nat
      BY <1>3, <1>4, <1>7
    <2> QED
      BY <2>1, <2>2, <2>3
  <1>8. ASSUME ~GoesBack PROVE pc' \in 0 .. size /\ lc' \in Nat /\ lap' \in Nat
    BY <1>3, <1>4, <1>5, <1>6, <1>8
  <1>9. rest' \in 0 .. 2
    <2>1. pc < size \/ rest > 0
      BY <1>1, BundleIs DEF Tick, Running
    <2> QED
      BY <1>3, <1>4, <2>1
  <1>10. registers' \in [Register -> Values]
    <2>1. /\ Writes("ALU0") \in SUBSET (Register \X Values)
          /\ Writes("ALU1") \in SUBSET (Register \X Values)
          /\ Writes("Mem") \in SUBSET (Register \X Values)
          /\ multiplier[2] \in SUBSET (Register \X Values)
      BY <1>1, <1>3, WritesAre
    <2> DEFINE r1 == After(registers, Writes("ALU0"))
               r2 == After(r1, Writes("ALU1"))
               r3 == After(r2, Writes("Mem"))
    <2>2. r1 \in [Register -> Values]
      BY <1>3, <2>1, AfterIs
    <2>3. r2 \in [Register -> Values]
      <3> HIDE DEF r1
      <3> QED
        BY <2>1, <2>2, AfterIs
    <2>4. r3 \in [Register -> Values]
      <3> HIDE DEF r2
      <3> QED
        BY <2>1, <2>3, AfterIs
    <2>5. After(r3, multiplier[2]) \in [Register -> Values]
      <3> HIDE DEF r3
      <3> QED
        BY <2>1, <2>4, AfterIs
    <2>6. registers' = After(r3, multiplier[2])
      BY <1>1 DEF Tick
    <2> QED
      BY <2>5, <2>6
  <1>11. multiplier'[1] \subseteq Register \X Values /\ multiplier'[2] \subseteq Register \X Values
    <2>1. Writes("Mult") \subseteq Register \X Values
      BY <1>1, WritesAre
    <2>2. multiplier'[1] = Writes("Mult") /\ multiplier'[2] = multiplier[1]
      BY <1>4
    <2> QED
      BY <1>3, <2>1, <2>2
  <1> QED
    BY <1>1, <1>2, <1>3, <1>4, <1>7, <1>8, <1>9, <1>10, <1>11 DEF MachineInv

\* Before the bundles are loaded, the machine waits.
LEMMA WaitingInv ==
    ASSUME MachineInv, phase # "running", phase' # "running", UNCHANGED machineVars
    PROVE  MachineInv'
  BY DEF MachineInv, MachineInit, machineVars

\* What both parts of the invariant say.
BackendInv == CompilerInv /\ MachineInv

\* It holds in every state.
LEMMA BackendIs == Spec => []BackendInv
  <1>1. Init => BackendInv
    <2>1. Init => phase # "running" /\ MachineInit(<<>>)
      BY DEF Init, SchedulerInit
    <2> QED
      BY <2>1, CompilerStarts DEF BackendInv, MachineInv
  <1>2. BackendInv /\ [Next]_vars => BackendInv'
    <2> SUFFICES ASSUME CompilerInv, MachineInv, [Next]_vars PROVE MachineInv'
      BY CompilerStep DEF BackendInv
    <2>1. CASE Schedule
      <3>1. phase # "running" /\ phase' # "running" /\ UNCHANGED machineVars
        BY <2>1 DEF Schedule, ScheduleNext, Parse, ParseError, PlaceInstruction, FinishBB0,
                    FinishStraightLine, FinishBB1, NothingBeforeLoop, FinishBB2
      <3> QED
        BY <3>1, WaitingInv
    <2>2. CASE Rename
      <3>1. phase # "running" /\ phase' # "running" /\ UNCHANGED machineVars
        BY <2>2 DEF Rename, RenameNext, RenameProduced, TooManyResults, RenameOperand,
                    OperandsDone, RenameStarting, TooManyRegisters, StartingDone, InsertMove,
                    SkipMove, MovesDone, renamingVars
      <3> QED
        BY <3>1, WaitingInv
    <2>3. CASE Load
      BY <2>3, LoadInv
    <2>4. CASE Run
      BY <2>4, RunInv
    <2>5. CASE UNCHANGED vars
      <3>1. /\ UNCHANGED <<source, program, phase, todo, row, slot, size, begin>>
            /\ UNCHANGED <<dst, src, work, carried, next, moves, resolved>>
            /\ UNCHANGED <<code, pc, lc, ec, rrb, registers, predicates, multiplier, rest, lap, ran>>
        BY <2>5 DEF vars, schedulerVars, renamingVars, machineVars
      <3>2. Encoded' = Encoded /\ Values' = Values
        BY <3>1 DEF Encoded, ProgramOperation, MoveOperation, Code, Values
      <3> QED
        BY <3>1, <3>2 DEF MachineInv, MachineInit
    <2> QED
      BY <2>1, <2>2, <2>3, <2>4, <2>5 DEF Next
  <1> QED
    BY <1>1, <1>2, PTL DEF Spec

\* Every state of the compiler and of the machine is of its types.
THEOREM TypesHold == Spec => []TypeOK
  <1>1. BackendInv => TypeOK
    <2> SUFFICES ASSUME CompilerInv, MachineInv PROVE TypeOK
      BY DEF BackendInv
    <2>1. /\ source \in Sources /\ program \in Program
          /\ Working \/ phase \in {"source", "failed"}
          /\ todo \subseteq DOMAIN program.code
          /\ row \in [DOMAIN program.code -> Nat \cup {None}]
          /\ slot \in [DOMAIN program.code -> Slot]
          /\ size \in Nat /\ begin \in Nat
      BY DEF CompilerInv, ScheduleInv, ScheduleTypes
    <2>2. source.code \in Seq(Instruction \cup {Nop}) /\ source.target \in Int
      BY <2>1, SourceAssumption
    <2>3. phase \in {"source", "BB0", "BB1", "BB2", "scheduled", "operands", "starting",
                     "moves", "renamed", "running", "failed"}
      BY <2>1 DEF Working, Placing, Finished
    <2>4. Len(program.code) \in Nat
      BY <2>1 DEF Program
    <2>5. /\ pc \in 0 .. Len(code) /\ lc \in Nat /\ ec = 0 /\ rrb = 0 /\ predicates = {}
          /\ rest \in 0 .. 2 /\ lap \in Nat /\ registers \in [Register -> Values]
      <3>1. CASE phase = "running"
        <4>1. Len(code) = size
          BY <3>1, BundleIs
        <4> QED
          BY <3>1, <4>1 DEF MachineInv
      <3>2. CASE phase # "running"
        <4>1. /\ code = <<>> /\ pc = 0 /\ lc = 0 /\ ec = 0 /\ rrb = 0 /\ predicates = {}
              /\ rest = 2 /\ lap = 0 /\ registers = [r \in Register |-> Zero]
          BY <3>2 DEF MachineInv, MachineInit
        <4>2. Zero \in Values
          BY <2>4 DEF Zero, Values
        <4>3. registers \in [Register -> Values]
          BY <4>1, <4>2
        <4>4. Len(code) = 0
          BY <4>1
        <4> QED
          BY <4>1, <4>3, <4>4
      <3> QED
        BY <3>1, <3>2
    <2>6. /\ next \in 1 .. MaxReg + 1
          /\ \A a \in DOMAIN dst : dst[a] \subseteq Register
          /\ \A a \in DOMAIN src : \A k \in DOMAIN src[a] :
                  src[a][k].reg \in Register /\ src[a][k].renamed \in BOOLEAN
          /\ \A m \in moves :
                m.row \in Nat /\ m.slot \in Slot /\ {m.from, m.to} \subseteq Register
          /\ resolved \subseteq Register
      BY DEF CompilerInv, RenamingInv, RenamingTypes
    <2> QED
      BY <2>1, <2>2, <2>3, <2>5, <2>6 DEF TypeOK, Values
  <1> QED
    BY <1>1, BackendIs, PTL

-----------------------------------------------------------------------------
(* How often the loop has gone back, and what has been executed *)

\* An instruction of the loop that sets the loop count does so again in every
\* iteration, so that the loop never ends.
Endless ==
    /\ HasLoop(program) /\ Iterations > 1
    /\ \E a \in InBlock(program, "BB1") : Code(a) = MovSpecial

\* The loop count has been set before the loop.
CountSet == \E a \in InBlock(program, "BB0") : Code(a) = MovSpecial /\ row[a] < pc

\* Where the machine stands in the program, and what that says of the laps to come.
Lapping ==
    phase = "running" =>
        /\ ~HasLoop(program) => lap = 0
        /\ HasLoop(program) /\ ~Endless =>
              /\ pc < begin => lap = 0 /\ lc = IF CountSet THEN Iterations - 1 ELSE 0
              /\ begin <= pc /\ pc <= row[Control] => lc + lap = Times - 1
              /\ row[Control] < pc => lap = Times - 1
        /\ Endless =>
              /\ pc <= row[Control]
              /\ \E a \in InBlock(program, "BB1") :
                    Code(a) = MovSpecial /\ (row[a] < pc => lc = Iterations - 1)

\* The machine has executed instruction a when the loop had gone back n times.
HasRun(a, n) ==
    \/ row[a] < pc /\ n = IF Block(program, a) = "BB0" THEN 0 ELSE lap
    \/ Block(program, a) = "BB1" /\ n < lap

\* The record of what has been executed is right.
Ran ==
    phase = "running" /\ ~Endless =>
        ran = {x \in (DOMAIN program.code) \X (0 .. lap) : HasRun(x[1], x[2])}

\* The rows of the blocks.
LEMMA RowsAre ==
    ASSUME CompilerInv, phase \in {"renamed", "running"}, HasLoop(program)
    PROVE  /\ begin \in Nat /\ row[Control] \in Nat /\ size \in Nat
           /\ 0 < begin /\ begin <= row[Control] /\ row[Control] < size
           /\ \A a \in DOMAIN program.code :
                 /\ row[a] \in Nat /\ row[a] < size
                 /\ Block(program, a) \in {"BB0", "BB1", "BB2"}
                 /\ Block(program, a) = "BB0" => row[a] < begin
                 /\ Block(program, a) = "BB1" => begin <= row[a] /\ row[a] <= row[Control]
                 /\ Block(program, a) = "BB2" => row[Control] < row[a]
  <1>1. /\ Compilable(program) /\ size \in Nat /\ begin \in Nat
        /\ \A a \in DOMAIN program.code : row[a] \in Nat /\ row[a] < size
        /\ Control \in DOMAIN program.code /\ begin <= row[Control]
        /\ InBlock(program, "BB0") # {}
        /\ \A a \in InBlock(program, "BB0") : row[a] < begin
        /\ \A a \in Body : begin <= row[a] /\ row[a] <= row[Control]
        /\ \A a \in InBlock(program, "BB2") : row[Control] < row[a]
    BY RunningIs
  <1>2. /\ \A a \in DOMAIN program.code : Block(program, a) \in {"BB0", "BB1", "BB2"}
        /\ \A a, b : a \in InBlock(program, b) <=>
                        a \in DOMAIN program.code /\ Block(program, a) = b
        /\ \A a \in InBlock(program, "BB1") : a \in Body \/ a = Control
    BY <1>1, AddressesAre
  <1>3. 0 < begin
    <2>1. PICK a \in InBlock(program, "BB0") : row[a] < begin
      BY <1>1
    <2>2. row[a] \in Nat
      BY <1>1, <1>2
    <2> QED
      BY <1>1, <2>1, <2>2
  <1>4. row[Control] \in Nat /\ row[Control] < size
    BY <1>1
  <1>5. ASSUME NEW a \in DOMAIN program.code, Block(program, a) = "BB1"
        PROVE  begin <= row[a] /\ row[a] <= row[Control]
    <2>1. a \in Body \/ a = Control
      BY <1>2, <1>5
    <2> QED
      BY <1>1, <1>4, <2>1
  <1> QED
    BY <1>1, <1>2, <1>3, <1>4, <1>5

\* How often a loop runs.
LEMMA TimesIs ==
    /\ Times \in Nat \ {0} /\ Times <= MaxLaps
    /\ Times = IF \E a \in InBlock(program, "BB0") : Code(a) = MovSpecial THEN Iterations ELSE 1
  <1>1. Times = IF \E a \in InBlock(program, "BB0") : Code(a) = MovSpecial THEN Iterations ELSE 1
    BY DEF Times, Laps, Code
  <1>2. Iterations \in Nat \ {0} /\ MaxLaps \in Nat /\ MaxLaps >= Iterations
    BY LoopBackendAssumption
  <1> QED
    BY <1>1, <1>2

\* Loading keeps this.
LEMMA LoadLaps ==
    ASSUME CompilerInv, MachineInv, Load
    PROVE  Lapping' /\ Ran'
  <1>1. /\ phase = "renamed" /\ phase' = "running"
        /\ pc' = 0 /\ lc' = 0 /\ lap' = 0 /\ ran' = {}
        /\ UNCHANGED <<program, row, begin, size>>
    BY DEF Load, MachineInv, MachineInit
  <1>2. \A a \in DOMAIN program.code : row[a] \in Nat
    BY <1>1, RunningIs
  <1>3. Ran'
    <2>1. \A x \in (DOMAIN program.code) \X (0 .. lap') : ~HasRun(x[1], x[2])'
      BY <1>1, <1>2 DEF HasRun
    <2> QED
      BY <1>1, <2>1 DEF Ran
  <1>4. /\ HasLoop(program)' = HasLoop(program) /\ Endless' = Endless /\ Control' = Control
        /\ Times' = Times
    BY <1>1, ProgramKept DEF Endless, Times
  <1>5. HasLoop(program) => /\ begin \in Nat /\ 0 < begin
                            /\ row[Control] \in Nat /\ begin <= row[Control]
    BY <1>1, RowsAre
  <1>6. ~CountSet'
    <2>1. \A a \in InBlock(program, "BB0") : a \in DOMAIN program.code
      BY DEF InBlock
    <2> QED
      BY <1>1, <1>2, <2>1 DEF CountSet
  <1>7. ASSUME Endless
        PROVE  \E a \in InBlock(program, "BB1") :
                  Code(a) = MovSpecial /\ (row[a] < pc' => lc' = Iterations - 1)
    <2>1. PICK a \in InBlock(program, "BB1") : Code(a) = MovSpecial
      BY <1>7 DEF Endless
    <2>2. ~(row[a] < pc')
      BY <1>1, <1>2 DEF InBlock
    <2> QED
      BY <2>1, <2>2
  <1>8. /\ row'[Control'] = row[Control] /\ begin' = begin
        /\ \A a : Code(a)' = Code(a) /\ row'[a] = row[a]
    BY <1>1, <1>4 DEF Code
  <1>9. ~HasLoop(program)' => lap' = 0
    BY <1>1
  <1>10. ASSUME HasLoop(program)'
         PROVE  /\ pc' < begin' => lap' = 0 /\ lc' = IF CountSet' THEN Iterations - 1 ELSE 0
                /\ ~(begin' <= pc') /\ ~(row'[Control'] < pc') /\ pc' <= row'[Control']
    BY <1>1, <1>4, <1>5, <1>6, <1>8, <1>10
  <1>11. Endless' => HasLoop(program)'
    BY DEF Endless
  <1>12. Endless' => \E a \in InBlock(program, "BB1")' :
            Code(a)' = MovSpecial /\ (row'[a] < pc' => lc' = Iterations - 1)
    BY <1>1, <1>4, <1>7, <1>8
  <1>13. Lapping'
    BY <1>9, <1>10, <1>11, <1>12 DEF Lapping
  <1> QED
    BY <1>3, <1>13

\* Which instructions are read where.
LEMMA ReadAtPc ==
    ASSUME CompilerInv, MachineInv, phase = "running"
    PROVE  /\ \A a \in AtPc : a \in DOMAIN program.code /\ row[a] = pc
           /\ ~HasLoop(program) => \A a \in AtPc : Block(program, a) = "BB0"
           /\ HasLoop(program) =>
                 /\ pc < begin => \A a \in AtPc : Block(program, a) = "BB0"
                 /\ begin <= pc /\ pc <= row[Control] =>
                       \A a \in AtPc : Block(program, a) = "BB1"
                 /\ row[Control] < pc => \A a \in AtPc : Block(program, a) = "BB2"
  <1>1. \A a \in AtPc : a \in DOMAIN program.code /\ row[a] = pc
    BY DEF AtPc
  <1>2. ~HasLoop(program) => \A a \in AtPc : Block(program, a) = "BB0"
    BY StraightIs
  <1>3. pc \in Nat
    <2>1. pc \in 0 .. size /\ size \in Nat
      BY RunningIs DEF MachineInv
    <2> QED
      BY <2>1
  <1>4. ASSUME HasLoop(program), NEW a \in AtPc
        PROVE  /\ pc < begin => Block(program, a) = "BB0"
               /\ begin <= pc /\ pc <= row[Control] => Block(program, a) = "BB1"
               /\ row[Control] < pc => Block(program, a) = "BB2"
    <2>1. /\ begin \in Nat /\ row[Control] \in Nat /\ begin <= row[Control]
          /\ Block(program, a) \in {"BB0", "BB1", "BB2"}
          /\ Block(program, a) = "BB0" => pc < begin
          /\ Block(program, a) = "BB1" => begin <= pc /\ pc <= row[Control]
          /\ Block(program, a) = "BB2" => row[Control] < pc
      BY <1>1, <1>4, RowsAre
    <2> QED
      BY <1>3, <2>1
  <1> QED
    BY <1>1, <1>2, <1>4

\* What a cycle leaves alone.
LEMMA RunKeeps ==
    ASSUME Run
    PROVE  /\ UNCHANGED <<source, program, phase, todo, row, slot, size, begin>>
           /\ UNCHANGED <<dst, src, work, carried, next, moves, resolved>>
           /\ phase = "running" /\ Tick
           /\ HasLoop(program)' = HasLoop(program) /\ Endless' = Endless /\ Control' = Control
           /\ Times' = Times /\ \A a : Code(a)' = Code(a)
           /\ row'[Control'] = row[Control]
           /\ \A a : Block(program, a)' = Block(program, a)
           /\ \A b : InBlock(program, b)' = InBlock(program, b)
  <1>1. /\ UNCHANGED <<source, program, phase, todo, row, slot, size, begin>>
        /\ UNCHANGED <<dst, src, work, carried, next, moves, resolved>>
        /\ phase = "running" /\ Tick
    BY DEF Run, schedulerVars, renamingVars
  <1>2. /\ HasLoop(program)' = HasLoop(program) /\ Control' = Control
        /\ \A a : Code(a)' = Code(a)
        /\ \A a : Block(program, a)' = Block(program, a)
        /\ \A b : InBlock(program, b)' = InBlock(program, b)
    BY <1>1, ProgramKept
  <1>3. Endless' = Endless /\ Times' = Times
    BY <1>1, <1>2 DEF Endless, Times
  <1>4. row'[Control'] = row[Control]
    BY <1>1, <1>2
  <1> QED
    BY <1>1, <1>2, <1>3, <1>4

\* The count of a loop that does not set it, in a cycle of the loop.
LEMMA CountInLoop ==
    ASSUME CompilerInv, MachineInv, Lapping, phase = "running", HasLoop(program), ~Endless,
           begin <= pc, pc <= row[Control]
    PROVE  LoopCount = lc /\ lc + lap = Times - 1
  <1>1. lc + lap = Times - 1 /\ lc \in Nat /\ lap \in Nat
    BY DEF Lapping, MachineInv
  <1>2. LoopCount = IF \E a \in AtPc : Code(a) = MovSpecial THEN Iterations - 1 ELSE lc
    BY CycleIs
  <1>3. ASSUME \E a \in AtPc : Code(a) = MovSpecial PROVE Iterations - 1 = 0 /\ lc = 0
    <2>1. PICK a \in AtPc : Code(a) = MovSpecial
      BY <1>3
    <2>2. a \in InBlock(program, "BB1")
      BY ReadAtPc DEF InBlock
    <2>3. Iterations = 1
      BY <2>1, <2>2, LoopBackendAssumption DEF Endless
    <2>4. Times = 1
      BY <2>3, TimesIs
    <2> QED
      BY <1>1, <2>3, <2>4
  <1> QED
    BY <1>1, <1>2, <1>3

\* A cycle of a loop that ends.
LEMMA RunLaps ==
    ASSUME CompilerInv, MachineInv, Lapping, Run, HasLoop(program), ~Endless
    PROVE  /\ pc' < begin => lap' = 0 /\ lc' = IF CountSet' THEN Iterations - 1 ELSE 0
           /\ begin <= pc' /\ pc' <= row[Control] => lc' + lap' = Times - 1
           /\ row[Control] < pc' => lap' = Times - 1
           /\ GoesBack => lap' = lap + 1
  <1>1. /\ phase = "running" /\ Tick /\ UNCHANGED row
        /\ InBlock(program, "BB0")' = InBlock(program, "BB0")
        /\ \A a : Code(a)' = Code(a)
    BY RunKeeps
  <1>2. /\ GoesBack => /\ pc' = begin /\ lc' = LoopCount - 1
                       /\ lap' = IF lap < MaxLaps THEN lap + 1 ELSE lap
        /\ ~GoesBack => /\ pc' = IF pc < size THEN pc + 1 ELSE pc
                        /\ lc' = LoopCount /\ lap' = lap
    BY <1>1, TickIs
  <1>3. /\ begin \in Nat /\ row[Control] \in Nat /\ size \in Nat
        /\ 0 < begin /\ begin <= row[Control] /\ row[Control] < size
    BY <1>1, RowsAre
  <1>4. pc \in 0 .. size /\ lc \in Nat /\ lap \in Nat
    BY <1>1 DEF MachineInv
  <1>5. /\ Times \in Nat \ {0} /\ Times <= MaxLaps /\ MaxLaps \in Nat
        /\ Times = IF \E a \in InBlock(program, "BB0") : Code(a) = MovSpecial
                   THEN Iterations ELSE 1
    BY TimesIs, LoopBackendAssumption
  <1>6. LoopCount = IF \E a \in AtPc : Code(a) = MovSpecial THEN Iterations - 1 ELSE lc
    BY <1>1, CycleIs
  <1>7. ASSUME pc < begin
        PROVE  /\ pc' < begin => lap' = 0 /\ lc' = IF CountSet' THEN Iterations - 1 ELSE 0
               /\ begin <= pc' /\ pc' <= row[Control] => lc' + lap' = Times - 1
               /\ row[Control] < pc' => lap' = Times - 1
               /\ GoesBack => lap' = lap + 1
    <2>1. lap = 0 /\ lc = IF CountSet THEN Iterations - 1 ELSE 0
      BY <1>1, <1>7 DEF Lapping
    <2>2. ~GoesBack /\ pc' = pc + 1 /\ lc' = LoopCount /\ lap' = 0
      BY <1>2, <1>3, <1>4, <1>7, <2>1 DEF GoesBack
    <2>3. \A a : a \in AtPc <=> a \in InBlock(program, "BB0") /\ row[a] = pc
      <3>1. \A a \in AtPc : a \in InBlock(program, "BB0")
        BY <1>1, <1>7, ReadAtPc DEF InBlock
      <3> QED
        BY <3>1 DEF AtPc, InBlock
    <2>4. \A a \in InBlock(program, "BB0") : row[a] \in Nat /\ row[a] < begin
      BY <1>1, RowsAre DEF InBlock
    <2>5. CountSet' <=> CountSet \/ \E a \in AtPc : Code(a) = MovSpecial
      <3>1. CountSet' <=> \E a \in InBlock(program, "BB0") : Code(a) = MovSpecial /\ row[a] < pc + 1
        BY <1>1, <2>2 DEF CountSet
      <3>2. \A a \in InBlock(program, "BB0") : row[a] < pc + 1 <=> row[a] < pc \/ row[a] = pc
        BY <1>4, <2>4
      <3> QED
        BY <2>3, <3>1, <3>2 DEF CountSet
    <2>6. lc' = IF CountSet' THEN Iterations - 1 ELSE 0
      BY <1>6, <2>1, <2>2, <2>5
    <2>7. ASSUME begin <= pc' PROVE lc' + lap' = Times - 1
      <3>1. pc + 1 = begin
        BY <1>3, <1>4, <1>7, <2>2, <2>7
      <3>2. CountSet' <=> \E a \in InBlock(program, "BB0") : Code(a) = MovSpecial
        BY <1>1, <2>2, <2>4, <3>1 DEF CountSet
      <3>3. Iterations \in Nat
        BY LoopBackendAssumption
      <3> QED
        BY <1>5, <2>2, <2>6, <3>2, <3>3
    <2>8. ~(row[Control] < pc')
      BY <1>3, <1>4, <1>7, <2>2
    <2> QED
      BY <2>2, <2>6, <2>7, <2>8
  <1>8. ASSUME begin <= pc, pc <= row[Control]
        PROVE  /\ ~(pc' < begin)
               /\ pc' <= row[Control] => lc' + lap' = Times - 1
               /\ row[Control] < pc' => lap' = Times - 1
               /\ GoesBack => lap' = lap + 1
    <2>1. LoopCount = lc /\ lc + lap = Times - 1
      BY <1>1, <1>8, CountInLoop
    <2>2. ASSUME GoesBack
          PROVE  /\ ~(pc' < begin) /\ ~(row[Control] < pc')
                 /\ lc' + lap' = Times - 1 /\ lap' = lap + 1
      <3>1. lc > 0
        BY <2>1, <2>2 DEF GoesBack
      <3>2. lap < MaxLaps
        BY <1>4, <1>5, <2>1, <3>1
      <3> QED
        BY <1>2, <1>3, <1>4, <2>1, <2>2, <3>2
    <2>3. ASSUME ~GoesBack
          PROVE  /\ ~(pc' < begin)
                 /\ pc' <= row[Control] => lc' + lap' = Times - 1
                 /\ row[Control] < pc' => lap' = Times - 1
      <3>1. pc' = pc + 1 /\ lc' = lc /\ lap' = lap
        BY <1>2, <1>3, <1>4, <1>8, <2>1, <2>3
      <3>2. ASSUME row[Control] < pc' PROVE lc = 0
        <4>1. pc = row[Control]
          BY <1>3, <1>4, <1>8, <3>1, <3>2
        <4>2. ~(lc > 0)
          BY <2>1, <2>3, <4>1 DEF GoesBack
        <4> QED
          BY <1>4, <4>2
      <3>3. ~(pc' < begin)
        BY <1>3, <1>4, <1>8, <3>1
      <3>4. row[Control] < pc' => lap' = Times - 1
        BY <1>4, <1>5, <2>1, <3>1, <3>2
      <3> QED
        BY <2>1, <3>1, <3>3, <3>4
    <2> QED
      BY <2>2, <2>3
  <1>9. ASSUME row[Control] < pc
        PROVE  row[Control] < pc' /\ lap' = Times - 1 /\ ~GoesBack
    <2>1. lap = Times - 1
      BY <1>1, <1>9 DEF Lapping
    <2>2. ~GoesBack
      BY <1>3, <1>4, <1>9 DEF GoesBack
    <2> QED
      BY <1>2, <1>3, <1>4, <1>9, <2>1, <2>2
  <1>10. pc' \in Nat
    BY <1>2, <1>3, <1>4
  <1>11. pc < begin \/ (begin <= pc /\ pc <= row[Control]) \/ row[Control] < pc
    BY <1>3, <1>4
  <1>12. row[Control] < pc' => ~(pc' < begin) /\ ~(pc' <= row[Control])
    BY <1>3, <1>10
  <1> QED
    BY <1>7, <1>8, <1>9, <1>11, <1>12

\* A cycle of a loop that does not.
LEMMA RunEndless ==
    ASSUME CompilerInv, MachineInv, Lapping, Run, Endless
    PROVE  /\ pc' <= row[Control]
           /\ \E a \in InBlock(program, "BB1") :
                 Code(a) = MovSpecial /\ (row[a] < pc' => lc' = Iterations - 1)
  <1>1. phase = "running" /\ Tick /\ HasLoop(program)
    BY RunKeeps DEF Endless
  <1>2. /\ GoesBack => pc' = begin
        /\ ~GoesBack => pc' = (IF pc < size THEN pc + 1 ELSE pc) /\ lc' = LoopCount
    BY <1>1, TickIs
  <1>3. /\ begin \in Nat /\ row[Control] \in Nat /\ size \in Nat
        /\ 0 < begin /\ begin <= row[Control] /\ row[Control] < size
    BY <1>1, RowsAre
  <1>4. pc \in Nat /\ pc <= row[Control]
    BY <1>1, <1>3 DEF MachineInv, Lapping
  <1>5. PICK a \in InBlock(program, "BB1") :
           Code(a) = MovSpecial /\ (row[a] < pc => lc = Iterations - 1)
    BY <1>1 DEF Lapping
  <1>6. /\ a \in DOMAIN program.code /\ row[a] \in Nat
        /\ begin <= row[a] /\ row[a] <= row[Control]
    BY <1>1, <1>5, RowsAre DEF InBlock
  <1>7. row[a] <= pc => LoopCount = Iterations - 1
    <2>1. LoopCount = IF \E b \in AtPc : Code(b) = MovSpecial THEN Iterations - 1 ELSE lc
      BY <1>1, CycleIs
    <2>2. row[a] = pc => a \in AtPc
      BY <1>6 DEF AtPc
    <2> QED
      BY <1>4, <1>5, <1>6, <2>1, <2>2
  <1>8. Iterations - 1 > 0
    BY LoopBackendAssumption DEF Endless
  <1>9. ASSUME GoesBack PROVE pc' <= row[Control] /\ ~(row[a] < pc')
    BY <1>2, <1>3, <1>6, <1>9
  <1>10. ASSUME ~GoesBack
         PROVE  pc' <= row[Control] /\ (row[a] < pc' => lc' = Iterations - 1)
    <2>1. pc # row[Control]
      BY <1>1, <1>6, <1>7, <1>8, <1>10 DEF GoesBack
    <2>2. pc' = pc + 1 /\ lc' = LoopCount
      BY <1>2, <1>3, <1>4, <1>10
    <2> QED
      BY <1>3, <1>4, <1>6, <1>7, <2>1, <2>2
  <1> QED
    BY <1>5, <1>9, <1>10

\* A cycle keeps this.
LEMMA LappingInv ==
    ASSUME CompilerInv, MachineInv, Lapping, Run
    PROVE  Lapping'
  <1>1. /\ phase = "running" /\ Tick /\ UNCHANGED <<row, begin>>
        /\ HasLoop(program)' = HasLoop(program) /\ Endless' = Endless /\ Times' = Times
        /\ InBlock(program, "BB1")' = InBlock(program, "BB1")
        /\ row'[Control'] = row[Control] /\ \A a : Code(a)' = Code(a)
    BY RunKeeps
  <1>2. ~HasLoop(program) => lap' = 0
    BY <1>1, TickIs DEF Lapping, GoesBack
  <1>3. HasLoop(program) /\ ~Endless =>
           /\ pc' < begin => lap' = 0 /\ lc' = IF CountSet' THEN Iterations - 1 ELSE 0
           /\ begin <= pc' /\ pc' <= row[Control] => lc' + lap' = Times - 1
           /\ row[Control] < pc' => lap' = Times - 1
    BY RunLaps
  <1>4. Endless => /\ pc' <= row[Control]
                   /\ \E a \in InBlock(program, "BB1") :
                         Code(a) = MovSpecial /\ (row[a] < pc' => lc' = Iterations - 1)
    BY RunEndless
  <1> QED
    BY <1>1, <1>2, <1>3, <1>4 DEF Lapping

\* What the machine reads when the loop goes back, and when it does not.
LEMMA RanInv ==
    ASSUME CompilerInv, MachineInv, Lapping, Ran, Run
    PROVE  Ran'
  <1> SUFFICES ASSUME ~Endless
               PROVE  ran' = {x \in (DOMAIN program.code) \X (0 .. lap') : HasRun(x[1], x[2])'}
    BY RunKeeps DEF Ran
  <1>1. /\ phase = "running" /\ Tick /\ UNCHANGED <<row, begin>>
        /\ \A a : Block(program, a)' = Block(program, a)
    BY RunKeeps
  <1>2. /\ ran' = ran \cup {<<a, lap>> : a \in AtPc}
        /\ ran = {x \in (DOMAIN program.code) \X (0 .. lap) : HasRun(x[1], x[2])}
    BY <1>1, TickIs DEF Ran
  <1>3. /\ lap \in Nat /\ pc \in Nat /\ pc <= size /\ size \in Nat
        /\ \A a \in DOMAIN program.code : row[a] \in Nat /\ row[a] < size
    <2>1. /\ pc \in 0 .. size /\ lap \in Nat /\ size \in Nat
          /\ \A a \in DOMAIN program.code : row[a] \in Nat /\ row[a] < size
      BY <1>1, RunningIs DEF MachineInv
    <2> QED
      BY <2>1
  <1>4. \A a, n : HasRun(a, n)' <=>
           \/ row[a] < pc' /\ n = IF Block(program, a) = "BB0" THEN 0 ELSE lap'
           \/ Block(program, a) = "BB1" /\ n < lap'
    BY <1>1 DEF HasRun
  <1>5. /\ GoesBack => pc' = begin
        /\ ~GoesBack => pc' = (IF pc < size THEN pc + 1 ELSE pc) /\ lap' = lap
    BY <1>1, TickIs
  <1>6. \A x : x \in ran' <=>
           /\ x \in (DOMAIN program.code) \X (0 .. lap)
           /\ HasRun(x[1], x[2]) \/ (row[x[1]] = pc /\ x[2] = lap)
    <2>1. \A x : x \in {<<a, lap>> : a \in AtPc} <=>
             /\ x \in (DOMAIN program.code) \X (0 .. lap)
             /\ row[x[1]] = pc /\ x[2] = lap
      BY <1>3 DEF AtPc
    <2> QED
      BY <1>2, <2>1
  <1>7. ASSUME GoesBack, NEW x
        PROVE  x \in ran' <=> x \in (DOMAIN program.code) \X (0 .. lap') /\ HasRun(x[1], x[2])'
    <2>1. lap' = lap + 1 /\ HasLoop(program)
      BY <1>7, RunLaps DEF GoesBack
    <2>2. pc = row[Control]
      BY <1>7 DEF GoesBack
    <2>3. ASSUME NEW a \in DOMAIN program.code, NEW n \in 0 .. lap'
          PROVE  HasRun(a, n)' <=>
                    n <= lap /\ (HasRun(a, n) \/ (row[a] = pc /\ n = lap))
      <3>1. /\ begin \in Nat /\ row[Control] \in Nat /\ begin <= row[Control]
            /\ row[a] \in Nat /\ Block(program, a) \in {"BB0", "BB1", "BB2"}
            /\ Block(program, a) = "BB0" => row[a] < begin
            /\ Block(program, a) = "BB1" => begin <= row[a] /\ row[a] <= row[Control]
            /\ Block(program, a) = "BB2" => row[Control] < row[a]
        BY <1>1, <2>1, RowsAre
      <3>2. n \in Nat /\ n <= lap + 1
        BY <1>3, <2>1
      <3>3. HasRun(a, n)' <=>
               \/ row[a] < begin /\ n = IF Block(program, a) = "BB0" THEN 0 ELSE lap + 1
               \/ Block(program, a) = "BB1" /\ n < lap + 1
        BY <1>4, <1>5, <1>7, <2>1
      <3>4. CASE Block(program, a) = "BB0"
        BY <1>3, <2>2, <3>1, <3>2, <3>3, <3>4 DEF HasRun
      <3>5. CASE Block(program, a) = "BB1"
        BY <1>3, <2>2, <3>1, <3>2, <3>3, <3>5 DEF HasRun
      <3>6. CASE Block(program, a) = "BB2"
        BY <1>3, <2>2, <3>1, <3>2, <3>3, <3>6 DEF HasRun
      <3> QED
        BY <3>1, <3>4, <3>5, <3>6
    <2>4. ASSUME x \in (DOMAIN program.code) \X (0 .. lap')
          PROVE  x \in ran' <=> HasRun(x[1], x[2])'
      <3>1. x[1] \in DOMAIN program.code /\ x[2] \in 0 .. lap' /\ x = <<x[1], x[2]>>
        BY <2>4
      <3>2. x \in (DOMAIN program.code) \X (0 .. lap) <=> x[2] <= lap
        BY <1>3, <2>1, <3>1
      <3> QED
        BY <1>6, <2>3, <3>1, <3>2
    <2>5. x \in ran' => x \in (DOMAIN program.code) \X (0 .. lap')
      BY <1>3, <1>6, <2>1
    <2> QED
      BY <2>4, <2>5
  <1>8. ASSUME ~GoesBack, NEW x
        PROVE  x \in ran' <=> x \in (DOMAIN program.code) \X (0 .. lap') /\ HasRun(x[1], x[2])'
    <2>1. lap' = lap
      BY <1>5, <1>8
    <2>2. ASSUME NEW a \in DOMAIN program.code, NEW n \in 0 .. lap
          PROVE  HasRun(a, n)' <=> HasRun(a, n) \/ (row[a] = pc /\ n = lap)
      <3>1. row[a] \in Nat /\ row[a] < size /\ n \in Nat
        BY <1>3
      <3>2. row[a] < pc' <=> row[a] < pc \/ row[a] = pc
        BY <1>3, <1>5, <1>8, <3>1
      <3>3. row[a] = pc /\ Block(program, a) = "BB0" => lap = 0
        <4>1. CASE HasLoop(program)
          <5>1. Block(program, a) = "BB0" => row[a] < begin
            BY <1>1, <4>1, RowsAre
          <5> QED
            BY <1>1, <4>1, <5>1 DEF Lapping
        <4>2. CASE ~HasLoop(program)
          BY <1>1, <4>2 DEF Lapping
        <4> QED
          BY <4>1, <4>2
      <3>4. HasRun(a, n)' <=>
               \/ row[a] < pc' /\ n = IF Block(program, a) = "BB0" THEN 0 ELSE lap
               \/ Block(program, a) = "BB1" /\ n < lap
        BY <1>4, <2>1
      <3> QED
        BY <3>2, <3>3, <3>4 DEF HasRun
    <2> QED
      BY <1>6, <2>1, <2>2
  <1>9. \A x : x \in ran' <=>
           x \in (DOMAIN program.code) \X (0 .. lap') /\ HasRun(x[1], x[2])'
    BY <1>7, <1>8
  <1> QED
    BY <1>9

\* What all steps keep, to the end of the run.
RunningInv == CompilerInv /\ MachineInv /\ Lapping /\ Ran

\* It holds in every state.
LEMMA RunningInvIs == Spec => []RunningInv
  <1>1. Init => Lapping /\ Ran
    BY DEF Init, SchedulerInit, Lapping, Ran
  <1>2. ASSUME CompilerInv, MachineInv, Lapping, Ran, [Next]_vars PROVE Lapping' /\ Ran'
    <2>1. CASE Schedule
      <3>1. phase' # "running"
        BY <2>1 DEF Schedule, ScheduleNext, Parse, ParseError, PlaceInstruction, FinishBB0,
                    FinishStraightLine, FinishBB1, NothingBeforeLoop, FinishBB2
      <3> QED
        BY <3>1 DEF Lapping, Ran
    <2>2. CASE Rename
      <3>1. phase' # "running"
        BY <2>2 DEF Rename, RenameNext, RenameProduced, TooManyResults, RenameOperand,
                    OperandsDone, RenameStarting, TooManyRegisters, StartingDone, InsertMove,
                    SkipMove, MovesDone, renamingVars
      <3> QED
        BY <3>1 DEF Lapping, Ran
    <2>3. CASE Load
      BY <1>2, <2>3, LoadLaps
    <2>4. CASE Run
      BY <1>2, <2>4, LappingInv, RanInv
    <2>5. CASE UNCHANGED vars
      <3>1. UNCHANGED <<program, phase, row, begin, pc, lc, lap, ran>>
        BY <2>5 DEF vars, schedulerVars, renamingVars, machineVars
      <3>2. /\ HasLoop(program)' = HasLoop(program) /\ Endless' = Endless /\ Times' = Times
            /\ InBlock(program, "BB1")' = InBlock(program, "BB1")
            /\ row'[Control'] = row[Control] /\ \A a : Code(a)' = Code(a)
            /\ CountSet' = CountSet
        BY <3>1, ProgramKept DEF Endless, Times, CountSet
      <3>3. Lapping'
        BY <1>2, <3>1, <3>2 DEF Lapping
      <3>4. \A a, n : HasRun(a, n)' = HasRun(a, n)
        BY <3>1 DEF HasRun
      <3>5. Ran'
        BY <1>2, <3>1, <3>2, <3>4 DEF Ran
      <3> QED
        BY <3>3, <3>5
    <2> QED
      BY <1>2, <2>1, <2>2, <2>3, <2>4, <2>5 DEF Next
  <1>3. RunningInv <=> BackendInv /\ Lapping /\ Ran
    BY DEF RunningInv, BackendInv
  <1>4. BackendInv /\ Lapping /\ Ran /\ [Next]_vars => Lapping' /\ Ran'
    BY <1>2 DEF BackendInv
  <1> QED
    BY <1>1, <1>3, <1>4, BackendIs, PTL DEF Spec

-----------------------------------------------------------------------------
(* What has been executed *)

\* An instance has been executed when the machine is past its instruction.
LEMMA ExecutedIs ==
    ASSUME RunningInv, phase = "running", ~Endless
    PROVE  /\ \A x \in Executed470 :
                 /\ x = <<x[1], x[2]>> /\ x[1] \in DOMAIN program.code /\ x[2] \in Nat
                 /\ Block(program, x[1]) = "BB1" => x[2] <= lap
                 /\ Block(program, x[1]) # "BB1" => x[2] = 0
           /\ \A a \in DOMAIN program.code : \A n \in Nat :
                 /\ Block(program, a) = "BB1" => n < lap \/ (n = lap /\ row[a] < pc)
                 /\ Block(program, a) # "BB1" => n = 0 /\ row[a] < pc
                 => <<a, n>> \in Executed470
  <1>1. lap \in Nat
    BY DEF RunningInv, MachineInv
  <1>2. ran = {x \in (DOMAIN program.code) \X (0 .. lap) : HasRun(x[1], x[2])}
    BY DEF RunningInv, Ran
  <1>3. ASSUME NEW x \in Executed470
        PROVE  /\ x = <<x[1], x[2]>> /\ x[1] \in DOMAIN program.code /\ x[2] \in Nat
               /\ Block(program, x[1]) = "BB1" => x[2] <= lap
               /\ Block(program, x[1]) # "BB1" => x[2] = 0
    <2>1. PICK e \in ran : x = InstanceAt(e[1], e[2])
      BY <1>3 DEF Executed470
    <2>2. e[1] \in DOMAIN program.code /\ e[2] \in 0 .. lap
      BY <1>2, <2>1
    <2>3. /\ x = <<x[1], x[2]>> /\ x[1] = e[1]
          /\ x[2] = IF Block(program, x[1]) = "BB1" THEN e[2] ELSE 0
      BY <2>1 DEF InstanceAt
    <2> QED
      BY <1>1, <2>2, <2>3
  <1>4. ASSUME NEW a \in DOMAIN program.code, NEW n \in Nat,
               Block(program, a) = "BB1" => n < lap \/ (n = lap /\ row[a] < pc),
               Block(program, a) # "BB1" => n = 0 /\ row[a] < pc
        PROVE  <<a, n>> \in Executed470
    <2> DEFINE m == IF Block(program, a) = "BB2" THEN lap ELSE n
    <2>1. Block(program, a) \in {"BB0", "BB1", "BB2"}
      BY RunningIs, AddressesAre DEF RunningInv
    <2>2. m \in 0 .. lap /\ HasRun(a, m)
      BY <1>1, <1>4, <2>1 DEF HasRun
    <2>3. InstanceAt(a, m) = <<a, n>>
      BY <1>4, <2>1 DEF InstanceAt
    <2> HIDE DEF m
    <2>4. <<a, m>> \in ran
      BY <1>2, <2>2
    <2>5. <<a, m>>[1] = a /\ <<a, m>>[2] = m
      OBVIOUS
    <2> QED
      BY <2>3, <2>4, <2>5 DEF Executed470
  <1> QED
    BY <1>3, <1>4

\* The loop has not gone back more often than in a sequential run.
LEMMA LapIs ==
    ASSUME RunningInv, phase = "running", ~Endless
    PROVE  /\ lap \in Nat /\ lap <= Times - 1
           /\ HasLoop(program) /\ row[Control] < pc => lap = Times - 1
           /\ HasLoop(program) /\ pc < begin => lap = 0
           /\ ~HasLoop(program) => lap = 0
  <1>1. CompilerInv /\ MachineInv /\ Lapping
    BY DEF RunningInv
  <1>2. lap \in Nat /\ lc \in Nat /\ pc \in 0 .. size /\ size \in Nat
    BY <1>1, RunningIs DEF MachineInv
  <1>3. Times \in Nat \ {0}
    BY TimesIs
  <1>4. HasLoop(program) =>
           /\ begin \in Nat /\ row[Control] \in Nat
           /\ pc < begin => lap = 0
           /\ begin <= pc /\ pc <= row[Control] => lc + lap = Times - 1
           /\ row[Control] < pc => lap = Times - 1
    BY <1>1, RowsAre DEF Lapping
  <1>5. ~HasLoop(program) => lap = 0
    BY <1>1 DEF Lapping
  <1>6. CASE HasLoop(program)
    <2>1. pc < begin \/ (begin <= pc /\ pc <= row[Control]) \/ row[Control] < pc
      BY <1>2, <1>4, <1>6
    <2>2. lap <= Times - 1
      BY <1>2, <1>3, <1>4, <1>6, <2>1
    <2> QED
      BY <1>2, <1>4, <1>6, <2>2
  <1>7. CASE ~HasLoop(program)
    BY <1>2, <1>3, <1>5, <1>7
  <1> QED
    BY <1>6, <1>7

\* Only instances of the sequential run are executed.
LEMMA OnlyInstances ==
    ASSUME RunningInv, phase = "running", ~Endless
    PROVE  Executed470 \subseteq Instances(program, Times)
  <1> SUFFICES ASSUME NEW x \in Executed470 PROVE x \in Instances(program, Times)
    OBVIOUS
  <1>1. /\ x = <<x[1], x[2]>> /\ x[1] \in DOMAIN program.code /\ x[2] \in Nat
        /\ Block(program, x[1]) = "BB1" => x[2] <= lap
        /\ Block(program, x[1]) # "BB1" => x[2] = 0
    BY ExecutedIs
  <1>2. lap \in Nat
    BY LapIs
  <1>3. Block(program, x[1]) \in {"BB0", "BB1", "BB2"}
    BY <1>1, RunningIs, AddressesAre DEF RunningInv
  <1>4. x[2] <= Times - 1 /\ Times \in Nat \ {0}
    BY <1>1, <1>2, LapIs, TimesIs
  <1>5. <<x[1], x[2]>> \in Instances(program, Times)
    BY <1>1, <1>3, <1>4, InstanceMade
  <1> QED
    BY <1>1, <1>5

\* When the machine halts, all of them have been.
LEMMA AllInstances ==
    ASSUME RunningInv
    PROVE  EveryInstanceRuns
  <1> SUFFICES ASSUME phase = "running", ~Running
               PROVE  Executed470 = Instances(program, Times)
    BY DEF EveryInstanceRuns, Halted
  <1>1. CompilerInv /\ MachineInv /\ Lapping
    BY DEF RunningInv
  <1>2. /\ Compilable(program)
        /\ size \in Nat /\ \A a \in DOMAIN program.code : row[a] \in Nat /\ row[a] < size
    BY <1>1, RunningIs
  <1>3. pc = size
    <2>1. ~(pc < Len(code)) /\ Len(code) = size
      BY <1>1, BundleIs DEF Running
    <2>2. pc \in 0 .. size
      BY <1>1 DEF MachineInv
    <2> QED
      BY <1>2, <2>1, <2>2
  <1>4. HasLoop(program) => row[Control] \in Nat /\ row[Control] < pc
    BY <1>1, <1>3, RowsAre
  <1>5. ~Endless
    BY <1>1, <1>2, <1>3, <1>4 DEF Lapping, Endless
  <1>6. HasLoop(program) => lap = Times - 1
    BY <1>4, <1>5, LapIs
  <1>7. Times \in Nat \ {0}
    BY TimesIs
  <1>8. ASSUME NEW x \in Instances(program, Times) PROVE x \in Executed470
    <2>1. /\ x = <<x[1], x[2]>> /\ x[1] \in DOMAIN program.code /\ x[2] \in Nat
          /\ Block(program, x[1]) # "BB1" => x[2] = 0
          /\ Block(program, x[1]) = "BB1" => HasLoop(program) /\ x[2] <= Times - 1
      <3>1. CASE x \in (InBlock(program, "BB0") \cup InBlock(program, "BB2")) \X {0}
        BY <3>1 DEF InBlock
      <3>2. CASE x \in InBlock(program, "BB1") \X (0 .. Times - 1)
        <4>1. /\ x = <<x[1], x[2]>> /\ x[2] \in 0 .. Times - 1
              /\ x[1] \in DOMAIN program.code /\ Block(program, x[1]) = "BB1"
          BY <3>2 DEF InBlock
        <4>2. HasLoop(program)
          BY <4>1, StraightIs
        <4> QED
          BY <1>7, <4>1, <4>2
      <3> QED
        BY <3>1, <3>2 DEF Instances
    <2>2. row[x[1]] < pc
      BY <1>2, <1>3, <2>1
    <2>3. <<x[1], x[2]>> \in Executed470
      <3>1. Block(program, x[1]) = "BB1" => x[2] < lap \/ x[2] = lap
        BY <1>6, <1>7, <2>1
      <3> QED
        BY <1>5, <2>1, <2>2, <3>1, ExecutedIs
    <2> QED
      BY <2>1, <2>3
  <1> QED
    BY <1>5, <1>8, OnlyInstances

\* A machine that halts has executed every instance of the sequential run, and no other.
THEOREM AllAreExecuted == Spec => []EveryInstanceRuns
  <1>1. RunningInv => EveryInstanceRuns
    BY AllInstances
  <1> QED
    BY <1>1, RunningInvIs, PTL

\* What an instruction that is read now needs has been executed.
LEMMA NeedsExecuted ==
    ASSUME RunningInv, phase = "running", ~Endless, NEW a \in AtPc,
           NEW r \in Reads(Code(a)),
           InstanceAt(a, lap) \in Instances(program, Times)
    PROVE  Reaching(program, Times, InstanceAt(a, lap), r) \subseteq Executed470
  <1> DEFINE x == InstanceAt(a, lap)
             inner == BlockProducer(program, "BB1", r)
             outer == BlockProducer(program, "BB0", r)
  <1>1. /\ CompilerInv /\ MachineInv /\ Compilable(program) /\ Working /\ Finished
        /\ program \in Program
    <2>1. CompilerInv /\ MachineInv
      BY DEF RunningInv
    <2> QED
      BY <2>1, RunningIs DEF Working, Finished, Compilable
  <1>2. /\ x[1] = a /\ x[2] = IF Block(program, a) = "BB1" THEN lap ELSE 0
        /\ a \in DOMAIN program.code /\ row[a] = pc
        /\ Block(program, a) \in {"BB0", "BB1", "BB2"}
        /\ Block(program, a) # "BB0" => HasLoop(program)
    <2>1. a \in DOMAIN program.code /\ row[a] = pc
      BY DEF AtPc
    <2> QED
      BY <1>1, <2>1, AddressesAre DEF InstanceAt
  <1>3. Reaching(program, Times, x, r) = PredictedCase(program, Times, x, r)
    <2>1. r \in Reads(program.code[x[1]])
      BY <1>2 DEF Code
    <2> QED
      BY <1>1, <2>1, TimesIs, CaseReaches
  <1>4. /\ lap \in Nat /\ lap <= Times - 1 /\ Times \in Nat \ {0}
        /\ HasLoop(program) /\ row[Control] < pc => lap = Times - 1
    BY LapIs, TimesIs
  <1>5. \A b \in DOMAIN program.code : row[b] \in Nat
    BY <1>1, RunningIs
  <1>6. \A b \in DOMAIN program.code : \A n \in Nat :
           /\ Block(program, b) = "BB1" => n < lap \/ (n = lap /\ row[b] < pc)
           /\ Block(program, b) # "BB1" => n = 0 /\ row[b] < pc
           => <<b, n>> \in Executed470
    BY ExecutedIs
  <1>7. HasLoop(program) =>
           /\ begin \in Nat /\ row[Control] \in Nat
           /\ \A b \in DOMAIN program.code :
                 /\ Block(program, b) = "BB0" => row[b] < begin
                 /\ Block(program, b) = "BB1" => begin <= row[b] /\ row[b] <= row[Control]
                 /\ Block(program, b) = "BB2" => row[Control] < row[b]
           /\ begin <= row[Control]
    BY <1>1, RowsAre
  <1>8. /\ inner # 0 => inner \in DOMAIN program.code /\ Block(program, inner) = "BB1"
        /\ outer # 0 => outer \in DOMAIN program.code /\ Block(program, outer) = "BB0"
    BY <1>1, BlockProducerIs DEF InBlock
  <1>9. ASSUME Block(program, a) # "BB0" PROVE Producing(outer, 0) \subseteq Executed470
    <2>1. ASSUME outer # 0 PROVE <<outer, 0>> \in Executed470
      <3>1. row[outer] < begin /\ begin <= pc
        BY <1>2, <1>5, <1>7, <1>8, <1>9, <2>1
      <3>2. row[outer] < pc
        BY <1>2, <1>5, <1>7, <1>8, <1>9, <2>1, <3>1
      <3> QED
        BY <1>6, <1>8, <2>1, <3>2
    <2> QED
      BY <2>1 DEF Producing
  <1>10. CASE r \notin Incoming(program, a)
    <2> DEFINE w == LocalProducer(program, a, r)
               d == Dependency(r, w, 0)
    <2>1. d \in LocalDependencies(program, a) /\ d.producer = w
      BY <1>10 DEF LocalDependencies, Dependency, Code
    <2>2. /\ w \in DOMAIN program.code /\ Block(program, w) = Block(program, a)
      BY <1>1, <1>2, <2>1, ProducersAre
    <2>3. Ready(w) <= row[a]
      <3>1. a \in AllPlaced
        BY <1>1, <1>2 DEF CompilerInv, ScheduleInv, Progress
      <3> QED
        BY <1>1, <2>1, <3>1 DEF CompilerInv, ScheduleInv, OperandsTimed
    <2>4. row[w] < pc
      <3>1. row[w] \in Int /\ Ready(w) \in Int /\ row[w] + 1 <= Ready(w)
        BY <1>5, <2>2, ReadyIs
      <3>2. row[a] \in Nat
        BY <1>2, <1>5
      <3> QED
        BY <1>2, <2>3, <3>1, <3>2
    <2>5. <<w, x[2]>> \in Executed470
      BY <1>2, <1>4, <1>6, <2>2, <2>4
    <2>6. PredictedCase(program, Times, x, r) = {<<w, x[2]>>}
      BY <1>2, <1>10 DEF PredictedCase
    <2> QED
      BY <1>3, <2>5, <2>6
  <1>11. CASE r \in Incoming(program, a) /\ Block(program, a) = "BB1" /\ inner # 0
    <2>1. PredictedCase(program, Times, x, r) =
             IF x[2] = 0 THEN Producing(outer, 0) ELSE {<<inner, x[2] - 1>>}
      BY <1>2, <1>11 DEF PredictedCase
    <2>2. ASSUME x[2] # 0 PROVE <<inner, x[2] - 1>> \in Executed470
      <3>1. x[2] = lap /\ x[2] - 1 \in Nat /\ x[2] - 1 < lap
        BY <1>2, <1>4, <1>11, <2>2
      <3> QED
        BY <1>6, <1>8, <1>11, <3>1
    <2> QED
      BY <1>3, <1>9, <1>11, <2>1, <2>2
  <1>12. CASE r \in Incoming(program, a) /\ Block(program, a) # "BB0" /\ inner = 0
    <2>1. PredictedCase(program, Times, x, r) = Producing(outer, 0)
      BY <1>2, <1>12 DEF PredictedCase
    <2> QED
      BY <1>3, <1>9, <1>12, <2>1
  <1>13. CASE r \in Incoming(program, a) /\ Block(program, a) = "BB2" /\ inner # 0
    <2>1. PredictedCase(program, Times, x, r) = {<<inner, Times - 1>>}
      BY <1>2, <1>13 DEF PredictedCase
    <2>2. row[Control] < pc /\ HasLoop(program)
      BY <1>2, <1>7, <1>13
    <2>3. lap = Times - 1 /\ Times - 1 \in Nat
      BY <1>4, <2>2
    <2>4. row[inner] \in Nat /\ row[inner] < pc
      <3>1. row[inner] \in Nat /\ row[inner] <= row[Control] /\ row[Control] \in Nat /\ pc \in Nat
        BY <1>2, <1>5, <1>7, <1>8, <1>13, <2>2
      <3> QED
        BY <2>2, <3>1
    <2>5. <<inner, Times - 1>> \in Executed470
      BY <1>6, <1>8, <1>13, <2>3, <2>4
    <2> QED
      BY <1>3, <2>1, <2>5
  <1>14. CASE r \in Incoming(program, a) /\ Block(program, a) = "BB0"
    <2>1. PredictedCase(program, Times, x, r) = {}
      BY <1>2, <1>14 DEF PredictedCase
    <2> QED
      BY <1>3, <2>1
  <1> QED
    BY <1>2, <1>10, <1>11, <1>12, <1>13, <1>14

\* The specification of the data flow has the program's analysis.
LEMMA SameAnalysis ==
    /\ \A p, k : DataflowSpec!Instances(p, k) = Instances(p, k)
    /\ \A p, n : DataflowSpec!Laps(p, n) = Laps(p, n)
    /\ \A i : DataflowSpec!Reads(i) = Reads(i)
    /\ \A p, k, x, r : DataflowSpec!Reaching(p, k, x, r) = Reaching(p, k, x, r)
  <1>1. \A p : DataflowSpec!LoopAddresses(p) = LoopAddresses(p)
    BY DEF DataflowSpec!LoopAddresses, LoopAddresses
  <1>2. \A p : DataflowSpec!LoopAddress(p) = LoopAddress(p)
    BY <1>1 DEF DataflowSpec!LoopAddress, LoopAddress
  <1>3. \A p : DataflowSpec!HasLoop(p) <=> HasLoop(p)
    BY <1>1 DEF DataflowSpec!HasLoop, HasLoop
  <1>4. \A p, a : DataflowSpec!Block(p, a) = Block(p, a)
    BY <1>2, <1>3 DEF DataflowSpec!Block, Block
  <1>5. \A p, b : DataflowSpec!InBlock(p, b) = InBlock(p, b)
    BY <1>4 DEF DataflowSpec!InBlock, InBlock
  <1>6. \A p, k : DataflowSpec!Instances(p, k) = Instances(p, k)
    BY <1>5 DEF DataflowSpec!Instances, Instances
  <1>7. \A p, n : DataflowSpec!Laps(p, n) = Laps(p, n)
    BY <1>5 DEF DataflowSpec!Laps, Laps, DataflowSpec!MovSpecial, MovSpecial
  <1>8. \A i : DataflowSpec!Reads(i) = Reads(i)
    BY DEF DataflowSpec!Reads, Reads
  <1>9. \A p, k, x : DataflowSpec!Position(p, k, x) = Position(p, k, x)
    <2>1. \A S : DataflowSpec!Cardinality(S) = Cardinality(S)
      BY DEF DataflowSpec!Cardinality, Cardinality
    <2> QED
      BY <1>4, <1>5, <2>1 DEF DataflowSpec!Position, Position
  <1>10. \A p, k, x, r : DataflowSpec!Reaching(p, k, x, r) = Reaching(p, k, x, r)
    BY <1>6, <1>9 DEF DataflowSpec!Reaching, Reaching
  <1> QED
    BY <1>6, <1>7, <1>8, <1>10

\* A cycle executes what the data flow allows.
LEMMA CycleFlows ==
    ASSUME RunningInv, RunningInv', ~Endless, Run
    PROVE  DataflowSpec!Execute
  <1>1. /\ phase = "running" /\ Tick /\ UNCHANGED program /\ Endless' = Endless
        /\ Times' = Times /\ \A a : Code(a)' = Code(a)
        /\ \A a : Block(program, a)' = Block(program, a)
    BY RunKeeps
  <1>2. ran' = ran \cup {<<a, lap>> : a \in AtPc}
    BY <1>1, TickIs DEF RunningInv
  <1>3. \A a, n : InstanceAt(a, n)' = InstanceAt(a, n)
    BY <1>1 DEF InstanceAt
  <1>4. \A x : x \in Executed470' <=> x \in Executed470 \/ \E a \in AtPc : x = InstanceAt(a, lap)
    <2>1. Executed470' = {InstanceAt(e[1], e[2]) : e \in ran'}
      BY <1>3 DEF Executed470
    <2>2. Executed470 = {InstanceAt(e[1], e[2]) : e \in ran}
      BY DEF Executed470
    <2>3. \A a : <<a, lap>>[1] = a /\ <<a, lap>>[2] = lap
      OBVIOUS
    <2>4. ASSUME NEW x \in Executed470'
          PROVE  x \in Executed470 \/ \E a \in AtPc : x = InstanceAt(a, lap)
      <3>1. PICK e \in ran' : x = InstanceAt(e[1], e[2])
        BY <2>1
      <3>2. e \in ran \/ \E a \in AtPc : e = <<a, lap>>
        BY <1>2
      <3> QED
        BY <2>2, <2>3, <3>1, <3>2
    <2>5. ASSUME NEW a \in AtPc PROVE InstanceAt(a, lap) \in Executed470'
      <3>1. <<a, lap>> \in ran'
        BY <1>2
      <3> QED
        BY <2>1, <2>3, <3>1
    <2>6. Executed470 \subseteq Executed470'
      BY <1>2, <2>1, <2>2
    <2> QED
      BY <2>4, <2>5, <2>6
  <1>5. Executed470 \subseteq Instances(program, Times)
    BY <1>1, OnlyInstances
  <1>6. \A a \in AtPc : InstanceAt(a, lap) \in Instances(program, Times)
    <2> SUFFICES ASSUME NEW a \in AtPc PROVE InstanceAt(a, lap) \in Instances(program, Times)
      OBVIOUS
    <2>1. a \in DOMAIN program.code /\ Block(program, a) \in {"BB0", "BB1", "BB2"}
      BY <1>1, RunningIs, AddressesAre DEF RunningInv, AtPc
    <2>2. lap \in Nat /\ lap <= Times - 1 /\ Times \in Nat \ {0}
      BY <1>1, LapIs, TimesIs
    <2> DEFINE n == IF Block(program, a) = "BB1" THEN lap ELSE 0
    <2>3. n \in Nat /\ n <= Times - 1 /\ (Block(program, a) # "BB1" => n = 0)
      BY <2>2
    <2>4. <<a, n>> \in Instances(program, Times)
      <3> HIDE DEF n
      <3> QED
        BY <2>1, <2>2, <2>3, InstanceMade
    <2> QED
      BY <2>4 DEF InstanceAt
  <1>7. DataflowSpec!Meant = Instances(program, Times)
    BY SameAnalysis DEF DataflowSpec!Meant, Times
  <1>8. ASSUME NEW x \in Executed470' \ Executed470
        PROVE  DataflowSpec!ReadFrom(x) \subseteq Executed470
    <2>1. PICK a \in AtPc : x = InstanceAt(a, lap)
      BY <1>4
    <2>2. x[1] = a
      BY <2>1 DEF InstanceAt
    <2>3. ASSUME NEW r \in Reads(Code(a))
          PROVE  Reaching(program, Times, x, r) \subseteq Executed470
      BY <1>1, <1>6, <2>1, NeedsExecuted
    <2>4. DataflowSpec!ReadFrom(x) = UNION {Reaching(program, Times, x, r) : r \in Reads(Code(a))}
      BY <2>2, SameAnalysis DEF DataflowSpec!ReadFrom, Times, Code
    <2> QED
      BY <2>3, <2>4
  <1>9. Executed470 \subseteq Executed470' /\ Executed470' \subseteq Instances(program, Times)
    BY <1>4, <1>5, <1>6
  <1> QED
    BY <1>1, <1>7, <1>8, <1>9 DEF DataflowSpec!Execute

\* Every step of the compiler and of the machine is one that the data flow allows.
LEMMA DataflowStep ==
    ASSUME RunningInv, RunningInv', ~Endless, [Next]_vars
    PROVE  [DataflowSpec!Next]_<<program, Executed470>>
  <1>1. ASSUME ran = {} PROVE Executed470 = {}
    BY <1>1 DEF Executed470
  <1>2. ASSUME ran' = {} PROVE Executed470' = {}
    BY <1>2 DEF Executed470
  <1>3. ASSUME phase # "running" PROVE ran = {}
    BY <1>3 DEF RunningInv, MachineInv, MachineInit
  <1>4. CASE Schedule
    <2>1. phase # "running" /\ ran' = ran
      BY <1>4 DEF Schedule, ScheduleNext, Parse, ParseError, PlaceInstruction, FinishBB0,
                  FinishStraightLine, FinishBB1, NothingBeforeLoop, FinishBB2, machineVars
    <2> QED
      BY <1>1, <1>2, <1>3, <2>1 DEF DataflowSpec!Next, DataflowSpec!Choose
  <1>5. CASE Rename
    <2>1. phase # "running" /\ ran' = ran
      BY <1>5 DEF Rename, RenameNext, RenameProduced, TooManyResults, RenameOperand,
                  OperandsDone, RenameStarting, TooManyRegisters, StartingDone, InsertMove,
                  SkipMove, MovesDone, renamingVars, machineVars
    <2> QED
      BY <1>1, <1>2, <1>3, <2>1 DEF DataflowSpec!Next, DataflowSpec!Choose
  <1>6. CASE Load
    <2>1. phase # "running" /\ ran' = ran
      BY <1>6 DEF Load
    <2> QED
      BY <1>1, <1>2, <1>3, <2>1 DEF DataflowSpec!Next, DataflowSpec!Choose
  <1>7. CASE Run
    BY <1>7, CycleFlows DEF DataflowSpec!Next
  <1>8. CASE UNCHANGED vars
    <2>1. program' = program /\ ran' = ran
      BY <1>8 DEF vars, schedulerVars, machineVars
    <2>2. \A a, n : InstanceAt(a, n)' = InstanceAt(a, n)
      BY <2>1 DEF InstanceAt
    <2>3. Executed470' = Executed470
      BY <2>1, <2>2 DEF Executed470
    <2> QED
      BY <2>1, <2>3
  <1> QED
    BY <1>4, <1>5, <1>6, <1>7, <1>8 DEF Next

\* The compiled program implements the data flow of its source: whatever it executes, the
\* instances that it reads from have been executed before.  This needs a loop that leaves
\* its own count alone; one that does not goes on for ever.
THEOREM DataflowRefinement == Spec /\ [](~Endless) => FollowsDataflow
  <1>1. Init /\ RunningInv => Executed470 = {}
    BY DEF Init, SchedulerInit, RunningInv, MachineInv, MachineInit, Executed470
  <1>2. RunningInv /\ RunningInv' /\ ~Endless /\ [Next]_vars
           => [DataflowSpec!Next]_<<program, Executed470>>
    BY DataflowStep
  <1> QED
    BY <1>1, <1>2, RunningInvIs, PTL DEF Spec, FollowsDataflow, DataflowSpec!Spec

-----------------------------------------------------------------------------
(* What renaming makes of the operands *)

\* The instruction whose register an operand of this name is to follow, or 0.
Provider(a, r) ==
    IF r \notin Incoming(program, a) THEN LocalProducer(program, a, r)
    ELSE IF Block(program, a) = "BB0" THEN 0
    ELSE IF Block(program, a) = "BB2" /\ BlockProducer(program, "BB1", r) # 0
         THEN BlockProducer(program, "BB1", r)
    ELSE BlockProducer(program, "BB0", r)

\* The dependencies of each kind name it.
LEMMA ProviderOf ==
    ASSUME NEW a, NEW kind \in 1 .. 4, NEW d \in DependenciesOf(a, kind)
    PROVE  d.producer = Provider(a, d.reg)
  <1>1. \A r, p, q : /\ Dependency(r, p, q).reg = r /\ Dependency(r, p, q).producer = p
                     /\ Dependency(r, p, q).previous = q
    BY DEF Dependency
  <1>2. CASE kind = 1
    BY <1>1, <1>2 DEF DependenciesOf, LocalDependencies, Provider
  <1>3. CASE kind = 2
    BY <1>1, <1>3 DEF DependenciesOf, InterloopDependencies, Provider
  <1>4. CASE kind = 3
    BY <1>1, <1>4 DEF DependenciesOf, PostLoopDependencies, Provider
  <1>5. CASE kind = 4
    BY <1>1, <1>5 DEF DependenciesOf, InvariantDependencies, Provider
  <1> QED
    BY <1>2, <1>3, <1>4, <1>5

\* A dependency is among the entries of its instruction.
LEMMA EntryOf ==
    ASSUME NEW a, NEW kind \in 1 .. 4, NEW d \in DependenciesOf(a, kind)
    PROVE  \E e \in AllDependencies(a) : e.dependency = d
  <1> DEFINE e == [at |-> a, kind |-> kind, dependency |-> d,
                   operand |-> Smallest({k \in DOMAIN Code(a).src : Code(a).src[k] = d.reg})]
  <1>1. e \in Entries(a, kind, DependenciesOf(a, kind)) /\ e.dependency = d
    BY DEF Entries
  <1> HIDE DEF e
  <1>2. e \in AllDependencies(a)
    BY <1>1 DEF AllDependencies, DependenciesOf
  <1> QED
    BY <1>1, <1>2

\* An operand with a provider has a dependency that names it.
LEMMA ProviderIs ==
    ASSUME Compilable(program), NEW a \in DOMAIN program.code
    PROVE  /\ \A e \in AllDependencies(a) : e.dependency.producer = Provider(a, e.dependency.reg)
           /\ \A r \in Reads(program.code[a]) : Provider(a, r) # 0 =>
                 /\ \E e \in AllDependencies(a) : e.dependency.reg = r
                 /\ Provider(a, r) \in DOMAIN program.code /\ r \in Code(Provider(a, r)).dst
           /\ \A d \in InterloopDependencies(program, a) :
                 d.producer = Provider(a, d.reg) /\ d.reg \in Reads(program.code[a])
  <1>1. \A e \in AllDependencies(a) : e.dependency.producer = Provider(a, e.dependency.reg)
    BY EntriesAre, ProviderOf
  <1>2. ASSUME NEW r \in Reads(program.code[a]), Provider(a, r) # 0
        PROVE  \E e \in AllDependencies(a) : e.dependency.reg = r
    <2>1. \A s, p, q : Dependency(s, p, q).reg = s
      BY DEF Dependency
    <2>2. CASE r \notin Incoming(program, a)
      <3>1. Dependency(r, LocalProducer(program, a, r), 0) \in DependenciesOf(a, 1)
        BY <2>2 DEF DependenciesOf, LocalDependencies
      <3> QED
        BY <2>1, <3>1, EntryOf
    <2>3. CASE r \in Incoming(program, a) /\ BlockProducer(program, "BB1", r) # 0
      <3>1. Block(program, a) \in {"BB1", "BB2"}
        BY <1>2, <2>3, AddressesAre DEF Provider
      <3>2. CASE Block(program, a) = "BB1"
        <4>1. Dependency(r, BlockProducer(program, "BB0", r), BlockProducer(program, "BB1", r))
                 \in DependenciesOf(a, 2)
          BY <2>3, <3>2 DEF DependenciesOf, InterloopDependencies
        <4> QED
          BY <2>1, <4>1, EntryOf
      <3>3. CASE Block(program, a) = "BB2"
        <4>1. Dependency(r, BlockProducer(program, "BB1", r), 0) \in DependenciesOf(a, 3)
          BY <2>3, <3>3 DEF DependenciesOf, PostLoopDependencies
        <4> QED
          BY <2>1, <4>1, EntryOf
      <3> QED
        BY <3>1, <3>2, <3>3
    <2>4. CASE r \in Incoming(program, a) /\ BlockProducer(program, "BB1", r) = 0
      <3>1. Block(program, a) \in {"BB1", "BB2"} /\ BlockProducer(program, "BB0", r) # 0
        BY <1>2, <2>4, AddressesAre DEF Provider
      <3>2. Dependency(r, BlockProducer(program, "BB0", r), 0) \in DependenciesOf(a, 4)
        BY <2>4, <3>1 DEF DependenciesOf, InvariantDependencies
      <3> QED
        BY <2>1, <3>2, EntryOf
    <2> QED
      BY <2>2, <2>3, <2>4
  <1>3. ASSUME NEW r \in Reads(program.code[a]), Provider(a, r) # 0
        PROVE  Provider(a, r) \in DOMAIN program.code /\ r \in Code(Provider(a, r)).dst
    <2>1. PICK e \in AllDependencies(a) : e.dependency.reg = r
      BY <1>2, <1>3
    <2>2. e.dependency.producer = Provider(a, r)
      BY <1>1, <2>1
    <2> QED
      BY <1>3, <2>1, <2>2, EntryFollows
  <1>4. ASSUME NEW d \in InterloopDependencies(program, a)
        PROVE  d.producer = Provider(a, d.reg) /\ d.reg \in Reads(program.code[a])
    <2>1. d \in DependenciesOf(a, 2)
      BY DEF DependenciesOf
    <2> QED
      BY <2>1, ProviderOf, RegistersRead
  <1> QED
    BY <1>1, <1>2, <1>3, <1>4

\* No register in use bears the name of one of the input program.
Apart ==
    /\ Numbered
    /\ \A a \in DOMAIN program.code :
          /\ dst[a] \cap Reg = {}
          /\ \A k \in DOMAIN Code(a).src : src[a][k].renamed => src[a][k].reg \notin Reg

\* In the pass over the dependencies, operands are given registers of results only.
FollowsAResult ==
    phase = "operands" =>
        \A a \in DOMAIN program.code : \A k \in DOMAIN Code(a).src :
            src[a][k].renamed => \E b \in DOMAIN program.code : src[a][k].reg \in dst[b]

\* An operand that is not renamed yet waits for its turn; one that is, has the register
\* of its provider, or one that no instruction writes.
Waits(a, k) ==
    LET r == Code(a).src[k]
    IN  /\ src[a][k].reg = r
        /\ Provider(a, r) # 0 =>
              phase = "operands" /\ \E e \in work : e.at = a /\ e.dependency.reg = r

Follows(a, k) ==
    LET p == Provider(a, Code(a).src[k])
        n == src[a][k].reg
    IN  /\ p # 0 => dst[p] = {n}
        /\ p = 0 => /\ phase # "operands" /\ n < next
                    /\ \A b \in DOMAIN program.code : n \notin dst[b]

OperandsFollow ==
    \A a \in DOMAIN program.code : \A k \in DOMAIN Code(a).src :
        /\ ~src[a][k].renamed => Waits(a, k)
        /\ src[a][k].renamed => Follows(a, k)
        /\ Moving => src[a][k].renamed

\* The operands of one name are renamed together.
NamesTogether ==
    \A a \in DOMAIN program.code : \A k, j \in DOMAIN Code(a).src :
        Code(a).src[k] = Code(a).src[j] => src[a][k] = src[a][j]

\* An operand without a provider.
Given(a, k) == src[a][k].renamed /\ Provider(a, Code(a).src[k]) = 0

\* It shares its register with the operands of its name in its instruction alone.
OwnRegisters ==
    \A a, b \in DOMAIN program.code :
        \A k \in DOMAIN Code(a).src : \A j \in DOMAIN Code(b).src :
            Given(a, k) /\ Given(b, j) /\ src[a][k].reg = src[b][j].reg =>
                a = b /\ Code(a).src[k] = Code(b).src[j]

\* Where the value of a carried dependency is expected.
CarriedNames ==
    \A c \in carried :
        c.dependency.reg = IF c.dependency.producer # 0 THEN Code(c.at).src[c.operand]
                           ELSE src[c.at][c.operand].reg

\* The registers that have a move are none of those that are still to get one.
MovedApart ==
    /\ resolved \cap Reg = {}
    /\ \A c \in carried : c.dependency.producer = 0 => c.dependency.reg \notin resolved

\* A move that brings dependency d of instruction a to the next iteration.
Brings(m, a, d) ==
    /\ m.to = src[a][FirstOperand(a, d.reg)].reg
    /\ {m.from} = dst[d.previous]
    /\ Ready(d.previous) <= m.row

\* Every carried dependency has its move or waits for it, and no move is for anything
\* else.
AllBrought ==
    /\ \A a \in Body : \A d \in InterloopDependencies(program, a) :
          \/ \E c \in carried : c.at = a /\ CarriedFrom(c, d)
          \/ \E m \in moves : Brings(m, a, d)
    /\ \A m \in moves : \E a \in Body : \E d \in InterloopDependencies(program, a) :
          Brings(m, a, d)
    /\ phase \in {"renamed", "running"} => carried = {}

\* What the passes keep as long as the registers stay apart.
Tables == OperandsFollow /\ NamesTogether /\ OwnRegisters /\ CarriedNames /\ MovedApart /\ AllBrought

RenamedInv == FollowsAResult /\ (Apart => Tables)

\* What is said of the program does not change with the tables.
LEMMA ProviderKept ==
    ASSUME program' = program
    PROVE  /\ \A a, r : Provider(a, r)' = Provider(a, r)
           /\ \A a, r : FirstOperand(a, r)' = FirstOperand(a, r)
           /\ \A c, d : CarriedFrom(c, d)' = CarriedFrom(c, d)
           /\ \A a : AllDependencies(a)' = AllDependencies(a)
  <1>1. \A a : Code(a)' = Code(a)
    BY DEF Code
  <1>2. \A a, r : Provider(a, r)' = Provider(a, r)
    BY DEF Provider
  <1>3. \A a, r : FirstOperand(a, r)' = FirstOperand(a, r)
    BY <1>1 DEF FirstOperand
  <1>4. \A c, d : CarriedFrom(c, d)' = CarriedFrom(c, d)
    BY <1>3 DEF CarriedFrom
  <1>5. \A a : AllDependencies(a)' = AllDependencies(a)
    BY <1>1, ProgramKept DEF AllDependencies, Entries, Code
  <1> QED
    BY <1>2, <1>3, <1>4, <1>5

\* A step that only goes on to another phase.
LEMMA PassRenamed ==
    ASSUME RenamedInv, Numbered, UNCHANGED <<program, row>>, UNCHANGED renamingVars,
           phase' = "operands" => phase = "operands",
           phase = "operands" /\ phase' # "operands" => work = {},
           Moving' /\ ~Moving => phase # "operands" /\ Unrenamed = {}, DOMAIN src = DOMAIN program.code,
           \A a \in DOMAIN program.code : DOMAIN src[a] = DOMAIN Code(a).src,
           phase' \in {"renamed", "running"} => carried = {}
    PROVE  RenamedInv'
  <1>1. /\ UNCHANGED <<program, row, dst, src, work, carried, next, moves, resolved>>
        /\ \A a : Code(a)' = Code(a)
        /\ \A a : Ready(a)' = Ready(a)
        /\ Body' = Body
        /\ \A a : InterloopDependencies(program, a)' = InterloopDependencies(program, a)
        /\ \A a, r : Provider(a, r)' = Provider(a, r)
        /\ \A a, r : FirstOperand(a, r)' = FirstOperand(a, r)
        /\ \A c, d : CarriedFrom(c, d)' = CarriedFrom(c, d)
    BY ProgramKept, ProviderKept DEF renamingVars, Ready
  <1>2. FollowsAResult'
    BY <1>1 DEF RenamedInv, FollowsAResult
  <1>3. ASSUME Apart' PROVE Tables'
    <2>1. Apart
      BY <1>1, <1>3 DEF Apart
    <2>2. Tables
      BY <2>1 DEF RenamedInv
    <2>3. ASSUME NEW a \in DOMAIN program.code, NEW k \in DOMAIN Code(a).src
          PROVE  /\ ~src[a][k].renamed => Waits(a, k)'
                 /\ src[a][k].renamed => Follows(a, k)'
                 /\ Moving' => src[a][k].renamed
      <3>1. /\ ~src[a][k].renamed => Waits(a, k)
            /\ src[a][k].renamed => Follows(a, k)
            /\ Moving => src[a][k].renamed
        BY <2>2 DEF Tables, OperandsFollow
      <3>2. ~src[a][k].renamed => Waits(a, k)'
        BY <1>1, <3>1 DEF Waits
      <3>3. src[a][k].renamed => Follows(a, k)'
        BY <1>1, <3>1 DEF Follows
      <3>4. Unrenamed = {} => src[a][k].renamed
        <4> SUFFICES ASSUME ~src[a][k].renamed PROVE Unrenamed # {}
          OBVIOUS
        <4>1. [at |-> a, kind |-> 0, operand |-> k] \in Unrenamed
          BY DEF Unrenamed
        <4> QED
          BY <4>1
      <3> QED
        BY <3>1, <3>2, <3>3, <3>4
    <2>4. OperandsFollow'
      BY <1>1, <2>3 DEF OperandsFollow
    <2>5. NamesTogether' /\ OwnRegisters'
      BY <1>1, <2>2 DEF Tables, NamesTogether, OwnRegisters, Given
    <2>6. CarriedNames' /\ MovedApart'
      BY <1>1, <2>2 DEF Tables, CarriedNames, MovedApart
    <2>7. \A m, a, d : Brings(m, a, d)' <=> Brings(m, a, d)
      BY <1>1 DEF Brings
    <2>8. AllBrought'
      BY <1>1, <2>2, <2>7 DEF Tables, AllBrought
    <2> QED
      BY <2>4, <2>5, <2>6, <2>8 DEF Tables
  <1> QED
    BY <1>2, <1>3 DEF RenamedInv

\* The results are numbered, and no operand is renamed yet.
LEMMA RenameProducedTables ==
    ASSUME ScheduleInv, RenamingInv, RenameProduced, UNCHANGED <<program, row, slot, begin>>
    PROVE  RenamedInv'
  <1>1. /\ phase = "scheduled" /\ phase' = "operands"
        /\ src' = [a \in DOMAIN row |-> [k \in DOMAIN Code(a).src |->
                                            Operand(Code(a).src[k], FALSE)]]
        /\ work' = {e \in UNION {AllDependencies(a) : a \in DOMAIN row} :
                        e.dependency.producer # 0}
        /\ carried' = UNION {Entries(a, 2, InterloopDependencies(program, a)) : a \in DOMAIN row}
        /\ UNCHANGED <<moves, resolved>>
    BY DEF RenameProduced
  <1>2. /\ Finished /\ Working /\ ~Moving /\ ~Moving' /\ moves' = {} /\ resolved' = {}
    BY <1>1 DEF Finished, Working, Moving, RenamingInv, Moves
  <1>3. Compilable(program) /\ DOMAIN row = DOMAIN program.code
    BY <1>2, StateIs
  <1>4. /\ \A a : Code(a)' = Code(a)
        /\ Body' = Body /\ DOMAIN program'.code = DOMAIN program.code
        /\ \A a : InterloopDependencies(program, a)' = InterloopDependencies(program, a)
        /\ \A a, r : Provider(a, r)' = Provider(a, r)
        /\ \A a, r : FirstOperand(a, r)' = FirstOperand(a, r)
        /\ \A c, d : CarriedFrom(c, d)' = CarriedFrom(c, d)
    BY ProgramKept, ProviderKept
  <1>5. \A a \in DOMAIN program.code : \A k \in DOMAIN Code(a).src :
           src'[a][k].reg = Code(a).src[k] /\ src'[a][k].renamed = FALSE
    BY <1>1, <1>3 DEF Operand
  <1>6. FollowsAResult'
    BY <1>4, <1>5 DEF FollowsAResult
  <1>7. ASSUME NEW a \in DOMAIN program.code, NEW k \in DOMAIN Code(a).src
        PROVE  Waits(a, k)'
    <2> DEFINE r == Code(a).src[k]
    <2>1. ASSUME Provider(a, r) # 0 PROVE \E e \in work' : e.at = a /\ e.dependency.reg = r
      <3>1. r \in Reads(program.code[a])
        BY DEF Reads, Code
      <3>2. PICK e \in AllDependencies(a) : e.dependency.reg = r
        BY <1>3, <2>1, <3>1, ProviderIs
      <3>3. e.at = a /\ e.dependency.producer = Provider(a, r)
        BY <1>3, <3>2, EntriesAre, ProviderIs
      <3>4. e \in work'
        BY <1>1, <1>3, <2>1, <3>2, <3>3
      <3> QED
        BY <3>2, <3>3, <3>4
    <2>2. src'[a][k].reg = r
      BY <1>5
    <2>3. Code(a)'.src[k] = r /\ Provider(a, r)' = Provider(a, r)
      BY <1>4
    <2> HIDE DEF r
    <2> QED
      BY <1>1, <1>4, <2>1, <2>2, <2>3 DEF Waits
  <1>8. OperandsFollow'
    BY <1>2, <1>4, <1>5, <1>7 DEF OperandsFollow
  <1>9. NamesTogether'
    BY <1>1, <1>3, <1>4 DEF NamesTogether
  <1>10. OwnRegisters'
    BY <1>4, <1>5 DEF OwnRegisters, Given
  <1>11. \A c \in carried' : \E a \in DOMAIN program.code : \E d \in InterloopDependencies(program, a) :
            c = [at |-> a, kind |-> 2, dependency |-> d, operand |-> FirstOperand(a, d.reg)]
    <2> SUFFICES ASSUME NEW c \in carried'
                 PROVE  \E a \in DOMAIN program.code : \E d \in InterloopDependencies(program, a) :
                           c = [at |-> a, kind |-> 2, dependency |-> d,
                                operand |-> FirstOperand(a, d.reg)]
      OBVIOUS
    <2>1. PICK a \in DOMAIN program.code : c \in Entries(a, 2, InterloopDependencies(program, a))
      BY <1>1, <1>3
    <2>2. PICK d \in InterloopDependencies(program, a) :
             c = [at |-> a, kind |-> 2, dependency |-> d, operand |-> FirstOperand(a, d.reg)]
      BY <2>1 DEF Entries, FirstOperand
    <2> QED
      BY <2>2
  <1>12. CarriedNames'
    <2> SUFFICES ASSUME NEW c \in carried'
                 PROVE  c.dependency.reg =
                           IF c.dependency.producer # 0 THEN Code(c.at).src[c.operand]
                           ELSE src'[c.at][c.operand].reg
      BY <1>4 DEF CarriedNames
    <2>1. PICK a \in DOMAIN program.code : \E d \in InterloopDependencies(program, a) :
             c = [at |-> a, kind |-> 2, dependency |-> d, operand |-> FirstOperand(a, d.reg)]
      BY <1>11
    <2>2. PICK d \in InterloopDependencies(program, a) :
             c = [at |-> a, kind |-> 2, dependency |-> d, operand |-> FirstOperand(a, d.reg)]
      BY <2>1
    <2>3. /\ FirstOperand(a, d.reg) \in DOMAIN Code(a).src
          /\ Code(a).src[FirstOperand(a, d.reg)] = d.reg
      <3>1. d.reg \in Reads(program.code[a])
        BY <1>3, ProviderIs
      <3> QED
        BY <1>3, <3>1, FirstOperandIs
    <2>4. c.at = a /\ c.dependency = d /\ c.operand = FirstOperand(a, d.reg)
      BY <2>2
    <2> QED
      BY <1>5, <2>3, <2>4
  <1>13. MovedApart'
    BY <1>2 DEF MovedApart
  <1>14. AllBrought'
    <2>1. ASSUME NEW a \in Body, NEW d \in InterloopDependencies(program, a)
          PROVE  \E c \in carried' : c.at = a /\ CarriedFrom(c, d)
      <3> DEFINE c == [at |-> a, kind |-> 2, dependency |-> d, operand |-> FirstOperand(a, d.reg)]
      <3>1. a \in DOMAIN row
        BY <1>3 DEF Body, InBlock
      <3>2. c \in Entries(a, 2, InterloopDependencies(program, a))
        BY DEF Entries, FirstOperand
      <3>3. c \in carried'
        BY <1>1, <3>1, <3>2
      <3>4. c.at = a /\ CarriedFrom(c, d)
        BY DEF CarriedFrom
      <3> HIDE DEF c
      <3> QED
        BY <3>3, <3>4
    <2> QED
      BY <1>1, <1>2, <1>4, <2>1 DEF AllBrought
  <1> QED
    BY <1>6, <1>8, <1>9, <1>10, <1>12, <1>13, <1>14 DEF RenamedInv, Tables

\* The operands of a name follow a dependency to the register of its producer.
LEMMA RenameOperandTables ==
    ASSUME ScheduleInv, RenamingInv, RenamedInv, RenameOperand,
           UNCHANGED <<program, row, slot, begin>>
    PROVE  RenamedInv'
  <1>1. /\ phase = "operands" /\ phase' = phase /\ work # {}
        /\ UNCHANGED <<dst, carried, next, moves, resolved>>
    BY DEF RenameOperand
  <1>2. PICK e \in work :
              /\ e = FirstInSchedule(work) /\ e.at \in DOMAIN program.code
              /\ e \in AllDependencies(e.at)
              /\ e.dependency.producer \in DOMAIN program.code
              /\ \E n \in 1 .. next - 1 : dst[e.dependency.producer] = {n}
    BY <1>1, WorkIs
  <1> DEFINE d == e.dependency
  <1>3. /\ src' = [src EXCEPT ![e.at] = Followed(@, d)]
        /\ work' = work \ {e}
    BY <1>2 DEF RenameOperand
  <1>4. /\ Numbered /\ Numbered' /\ ~Moving /\ ~Moving' /\ Finished /\ Working
    BY <1>1 DEF Numbered, Moving, Finished, Working
  <1>5. /\ DOMAIN src = DOMAIN program.code
        /\ \A a \in DOMAIN program.code : DOMAIN src[a] = DOMAIN Code(a).src
    BY <1>4 DEF RenamingInv, Operands
  <1>6. Compilable(program)
    BY <1>4, StateIs
  <1>7. /\ d.producer = Provider(e.at, d.reg) /\ d.producer # 0
        /\ d.reg \in Reg
    <2>1. d.producer = Provider(e.at, d.reg) /\ d.reg \in Reads(program.code[e.at])
      BY <1>2, <1>6, ProviderIs, EntriesAre
    <2>2. d.producer # 0
      BY <1>2, <1>6, AddressesAre
    <2>3. Code(e.at).src \in Seq(Reg)
      BY <1>2, <1>6, AddressesAre
    <2> QED
      BY <2>1, <2>2, <2>3 DEF Reads, Code
  <1>8. PICK n : dst[d.producer] = {n} /\ TheElement(dst[d.producer]) = n
    BY <1>2 DEF TheElement
  <1>9. /\ \A a : Code(a)' = Code(a)
        /\ Body' = Body /\ DOMAIN program'.code = DOMAIN program.code
        /\ \A a : InterloopDependencies(program, a)' = InterloopDependencies(program, a)
        /\ \A a, r : Provider(a, r)' = Provider(a, r)
        /\ \A c, f : CarriedFrom(c, f)' = CarriedFrom(c, f)
    BY ProgramKept, ProviderKept
  <1> HIDE DEF d
  <1>10. ASSUME NEW a \in DOMAIN program.code, NEW k \in DOMAIN Code(a).src
         PROVE  src'[a][k] = IF a = e.at /\ src[a][k].reg = d.reg THEN Operand(n, TRUE)
                             ELSE src[a][k]
    BY <1>2, <1>3, <1>5, <1>8 DEF Followed
  <1>11. Operand(n, TRUE).reg = n /\ Operand(n, TRUE).renamed = TRUE
    BY DEF Operand
  <1>12. FollowsAResult'
    <2> SUFFICES ASSUME NEW a \in DOMAIN program.code, NEW k \in DOMAIN Code(a).src,
                        src'[a][k].renamed
                 PROVE  \E b \in DOMAIN program.code : src'[a][k].reg \in dst[b]
      BY <1>1, <1>9 DEF FollowsAResult
    <2>1. CASE a = e.at /\ src[a][k].reg = d.reg
      <3>1. src'[a][k].reg = n /\ n \in dst[d.producer]
        BY <1>8, <1>10, <1>11, <2>1
      <3> QED
        BY <1>2, <3>1 DEF d
    <2>2. CASE ~(a = e.at /\ src[a][k].reg = d.reg)
      <3>1. src'[a][k] = src[a][k]
        BY <1>10, <2>2
      <3> QED
        BY <1>1, <3>1 DEF RenamedInv, FollowsAResult
    <2> QED
      BY <2>1, <2>2
  <1>13. ASSUME Apart' PROVE Tables'
    <2>1. Apart
      <3>1. \A a \in DOMAIN program.code : dst[a] \cap Reg = {}
        BY <1>1, <1>9, <1>13 DEF Apart
      <3> QED
        BY <1>1, <1>4, <3>1 DEF RenamedInv, FollowsAResult, Apart
    <2>2. Tables
      BY <2>1 DEF RenamedInv
    <2>3. ASSUME NEW a \in DOMAIN program.code, NEW k \in DOMAIN Code(a).src
          PROVE  src'[a][k] = IF a = e.at /\ ~src[a][k].renamed /\ Code(a).src[k] = d.reg
                              THEN Operand(n, TRUE) ELSE src[a][k]
      <3>1. src[a][k].renamed => src[a][k].reg # d.reg
        BY <1>7, <2>1 DEF Apart
      <3>2. ~src[a][k].renamed => src[a][k].reg = Code(a).src[k]
        BY <2>2 DEF Tables, OperandsFollow, Waits
      <3> QED
        BY <1>10, <3>1, <3>2
    <2>4. ASSUME NEW a \in DOMAIN program.code, NEW k \in DOMAIN Code(a).src
          PROVE  /\ ~src'[a][k].renamed => Waits(a, k)'
                 /\ src'[a][k].renamed => Follows(a, k)'
      <3>1. /\ ~src[a][k].renamed => Waits(a, k)
            /\ src[a][k].renamed => Follows(a, k)
        BY <2>2 DEF Tables, OperandsFollow
      <3> DEFINE r == Code(a).src[k]
      <3>2. /\ Code(a)'.src[k] = r /\ Provider(a, r)' = Provider(a, r)
        BY <1>9
      <3>3. CASE a = e.at /\ ~src[a][k].renamed /\ r = d.reg
        <4>1. src'[a][k].reg = n /\ src'[a][k].renamed
          BY <1>11, <2>3, <3>3
        <4>2. Provider(a, r) = d.producer /\ Provider(a, r) # 0
          BY <1>7, <3>3
        <4> HIDE DEF r
        <4>3. Follows(a, k)'
          BY <1>1, <1>8, <1>9, <3>2, <4>1, <4>2 DEF Follows
        <4> QED
          BY <4>1, <4>3
      <3>4. CASE ~(a = e.at /\ ~src[a][k].renamed /\ r = d.reg)
        <4>1. src'[a][k] = src[a][k]
          BY <2>3, <3>4
        <4> HIDE DEF r
        <4>2. ASSUME ~src[a][k].renamed PROVE Waits(a, k)'
          <5>1. src[a][k].reg = r /\ (Provider(a, r) # 0 =>
                    phase = "operands" /\ \E f \in work : f.at = a /\ f.dependency.reg = r)
            BY <3>1, <4>2 DEF Waits, r
          <5>2. \A f \in work : f.at = a /\ f.dependency.reg = r => f \in work'
            BY <1>3, <3>4, <4>2 DEF d
          <5> QED
            BY <1>1, <1>9, <3>2, <4>1, <5>1, <5>2 DEF Waits
        <4>3. ASSUME src[a][k].renamed PROVE Follows(a, k)'
          <5>1. Follows(a, k)
            BY <3>1, <4>3
          <5> QED
            BY <1>1, <1>9, <4>1, <5>1 DEF Follows
        <4> QED
          BY <4>1, <4>2, <4>3
      <3> QED
        BY <3>3, <3>4
    <2>5. OperandsFollow'
      BY <1>4, <1>9, <2>4 DEF OperandsFollow
    <2>6. NamesTogether'
      <3> SUFFICES ASSUME NEW a \in DOMAIN program.code, NEW k \in DOMAIN Code(a).src,
                          NEW j \in DOMAIN Code(a).src, Code(a).src[k] = Code(a).src[j]
                   PROVE  src'[a][k] = src'[a][j]
        BY <1>9 DEF NamesTogether
      <3>1. src[a][k] = src[a][j]
        BY <2>2 DEF Tables, NamesTogether
      <3> QED
        BY <2>3, <3>1
    <2>7. OwnRegisters'
      <3>1. \A a \in DOMAIN program.code : \A k \in DOMAIN Code(a).src : ~Given(a, k)'
        BY <1>1, <1>9, <2>4 DEF Given, Follows
      <3> QED
        BY <1>9, <3>1 DEF OwnRegisters
    <2>8. CarriedNames'
      <3> SUFFICES ASSUME NEW c \in carried
                   PROVE  c.dependency.reg =
                             IF c.dependency.producer # 0 THEN Code(c.at).src[c.operand]
                             ELSE src'[c.at][c.operand].reg
        BY <1>1, <1>9 DEF CarriedNames
      <3>1. c.dependency.reg = IF c.dependency.producer # 0 THEN Code(c.at).src[c.operand]
                               ELSE src[c.at][c.operand].reg
        BY <2>2 DEF Tables, CarriedNames
      <3>2. ASSUME c.dependency.producer = 0 PROVE src'[c.at][c.operand] = src[c.at][c.operand]
        <4>1. PICK f \in InterloopDependencies(program, c.at) : CarriedFrom(c, f)
          BY <1>4 DEF RenamingInv, Carries
        <4>2. c.at \in DOMAIN program.code
          BY <1>4 DEF RenamingInv, Carries, Body, InBlock
        <4>3. /\ f.producer = 0 /\ f.producer = Provider(c.at, f.reg)
              /\ f.reg \in Reads(program.code[c.at])
          BY <1>6, <3>2, <4>1, <4>2, ProviderIs DEF CarriedFrom
        <4>4. c.operand \in DOMAIN Code(c.at).src /\ Code(c.at).src[c.operand] = f.reg
          BY <1>6, <4>1, <4>2, <4>3, FirstOperandIs DEF CarriedFrom
        <4>5. ~(c.at = e.at /\ Code(c.at).src[c.operand] = d.reg)
          BY <1>7, <4>3, <4>4
        <4> QED
          BY <2>3, <4>2, <4>4, <4>5
      <3> QED
        BY <3>1, <3>2
    <2>9. MovedApart'
      BY <1>1, <2>2 DEF Tables, MovedApart
    <2>10. AllBrought'
      <3>1. moves = {} /\ moves' = {}
        BY <1>1, <1>4 DEF RenamingInv, Moves
      <3> QED
        BY <1>1, <1>9, <2>2, <3>1 DEF Tables, AllBrought
    <2> QED
      BY <2>5, <2>6, <2>7, <2>8, <2>9, <2>10 DEF Tables
  <1> QED
    BY <1>12, <1>13 DEF RenamedInv

\* The operands of a name without a provider are given the next register.
LEMMA RenameStartingTables ==
    ASSUME ScheduleInv, RenamingInv, RenamedInv, RenameStarting,
           UNCHANGED <<program, row, slot, begin>>
    PROVE  RenamedInv'
  <1>1. /\ phase = "starting" /\ phase' = phase /\ Unrenamed # {} /\ next <= MaxReg
        /\ next' = next + 1
        /\ UNCHANGED <<dst, work, moves, resolved>>
    BY DEF RenameStarting
  <1>2. /\ Numbered /\ Numbered' /\ ~Moving /\ ~Moving' /\ Finished /\ Working
    BY <1>1 DEF Numbered, Moving, Finished, Working
  <1>3. PICK e \in Unrenamed :
              /\ e = FirstInSchedule(Unrenamed) /\ e.at \in DOMAIN program.code
              /\ e.operand \in DOMAIN src[e.at] /\ ~src[e.at][e.operand].renamed
              /\ e.operand \in Nat
              /\ \A k \in DOMAIN src[e.at] : ~src[e.at][k].renamed => e.operand <= k
    BY <1>1, <1>2, UnrenamedIs
  <1> DEFINE old == src[e.at][e.operand].reg
             operands == [k \in DOMAIN src[e.at] |->
                             IF k >= e.operand /\ src[e.at][k].reg = old /\ ~src[e.at][k].renamed
                             THEN Operand(next, TRUE) ELSE src[e.at][k]]
             expected(c) == IF c.at = e.at /\ c.dependency.reg = old
                            THEN [c EXCEPT !.dependency.reg = next] ELSE c
  <1>4. /\ src' = [src EXCEPT ![e.at] = operands]
        /\ carried' = {expected(c) : c \in carried}
    BY <1>3 DEF RenameStarting
  <1>5. next \in Int
    BY DEF RenamingInv, RenamingTypes
  <1>6. /\ DOMAIN src = DOMAIN program.code
        /\ \A a \in DOMAIN program.code : DOMAIN src[a] = DOMAIN Code(a).src
    BY <1>2 DEF RenamingInv, Operands
  <1>7. Compilable(program)
    BY <1>2, StateIs
  <1>8. /\ \A a : Code(a)' = Code(a)
        /\ Body' = Body /\ DOMAIN program'.code = DOMAIN program.code
        /\ \A a : InterloopDependencies(program, a)' = InterloopDependencies(program, a)
        /\ \A a, r : Provider(a, r)' = Provider(a, r)
        /\ \A c, f : CarriedFrom(c, f)' = CarriedFrom(c, f)
    BY ProgramKept, ProviderKept
  <1>9. Operand(next, TRUE).reg = next /\ Operand(next, TRUE).renamed = TRUE
    BY DEF Operand
  <1>10. ASSUME NEW a \in DOMAIN program.code, NEW k \in DOMAIN Code(a).src
         PROVE  src'[a][k] = IF a = e.at /\ src[a][k].reg = old /\ ~src[a][k].renamed
                             THEN Operand(next, TRUE) ELSE src[a][k]
    <2>1. CASE a # e.at
      BY <1>3, <1>4, <1>6, <2>1
    <2>2. CASE a = e.at
      <3>1. src'[a] = operands
        BY <1>3, <1>4, <1>6, <2>2
      <3>2. Code(a).src \in Seq(Reg)
        BY <1>7, AddressesAre
      <3>3. k \in Nat
        BY <3>2
      <3>4. ~src[a][k].renamed => k >= e.operand
        BY <1>3, <1>6, <2>2, <3>3
      <3> QED
        BY <1>6, <2>2, <3>1, <3>4
    <2> QED
      BY <2>1, <2>2
  <1>11. FollowsAResult'
    BY <1>1 DEF FollowsAResult
  <1>12. \A c \in carried : /\ c \in CarriedEntry /\ c.at \in Body /\ c.at \in DOMAIN program.code
                            /\ \E f \in InterloopDependencies(program, c.at) : CarriedFrom(c, f)
    BY <1>2 DEF RenamingInv, Carries, Body, InBlock
  <1>13. ASSUME NEW c \in carried
         PROVE  /\ expected(c).at = c.at /\ expected(c).operand = c.operand
                /\ expected(c).dependency.producer = c.dependency.producer
                /\ expected(c).dependency.previous = c.dependency.previous
                /\ expected(c).dependency.reg = IF c.at = e.at /\ c.dependency.reg = old
                                                THEN next ELSE c.dependency.reg
    <2>1. c \in CarriedEntry
      BY <1>12
    <2> HIDE DEF old
    <2> QED
      BY <2>1 DEF CarriedEntry
  <1>14. ASSUME Apart' PROVE Tables'
    <2>1. Apart
      <3>1. \A a \in DOMAIN program.code : dst[a] \cap Reg = {}
        BY <1>1, <1>8, <1>14 DEF Apart
      <3>2. ASSUME NEW a \in DOMAIN program.code, NEW k \in DOMAIN Code(a).src, src[a][k].renamed
            PROVE  src[a][k].reg \notin Reg
        <4>1. src'[a][k] = src[a][k]
          BY <1>10, <3>2
        <4>2. src'[a][k].reg \notin Reg
          BY <1>8, <1>14, <3>2, <4>1 DEF Apart
        <4> QED
          BY <4>1, <4>2
      <3> QED
        BY <1>2, <3>1, <3>2 DEF Apart
    <2>2. Tables
      BY <2>1 DEF RenamedInv
    <2>3. /\ old = Code(e.at).src[e.operand] /\ old \in Reg /\ Provider(e.at, old) = 0
          /\ e.operand \in DOMAIN Code(e.at).src
      <3>1. e.operand \in DOMAIN Code(e.at).src
        BY <1>3, <1>6
      <3>2. Waits(e.at, e.operand)
        BY <1>3, <2>2, <3>1 DEF Tables, OperandsFollow
      <3>3. old = Code(e.at).src[e.operand] /\ Provider(e.at, old) = 0
        BY <1>1, <3>2 DEF Waits
      <3>4. Code(e.at).src \in Seq(Reg)
        BY <1>3, <1>7, AddressesAre
      <3> QED
        BY <3>1, <3>3, <3>4
    <2>4. ASSUME NEW a \in DOMAIN program.code, NEW k \in DOMAIN Code(a).src
          PROVE  /\ src'[a][k] = IF a = e.at /\ Code(a).src[k] = old
                                 THEN Operand(next, TRUE) ELSE src[a][k]
                 /\ a = e.at /\ Code(a).src[k] = old => ~src[a][k].renamed
      <3>1. ~src[a][k].renamed => src[a][k].reg = Code(a).src[k]
        BY <2>2 DEF Tables, OperandsFollow, Waits
      <3>2. a = e.at /\ Code(a).src[k] = old => src[a][k] = src[e.at][e.operand]
        BY <2>2, <2>3 DEF Tables, NamesTogether
      <3>3. a = e.at /\ Code(a).src[k] = old => ~src[a][k].renamed
        BY <1>3, <3>2
      <3>4. src[a][k].renamed => src[a][k].reg # old
        BY <2>1, <2>3 DEF Apart
      <3> HIDE DEF old
      <3>5. a = e.at /\ src[a][k].reg = old /\ ~src[a][k].renamed
               <=> a = e.at /\ Code(a).src[k] = old
        BY <3>1, <3>3
      <3> QED
        BY <1>10, <3>3, <3>5
    <2> HIDE DEF old
    <2>5. ASSUME NEW a \in DOMAIN program.code, NEW k \in DOMAIN Code(a).src
          PROVE  /\ ~src'[a][k].renamed => Waits(a, k)'
                 /\ src'[a][k].renamed => Follows(a, k)'
      <3>1. CASE a = e.at /\ Code(a).src[k] = old
        <4>1. src'[a][k].reg = next /\ src'[a][k].renamed
          BY <1>9, <2>4, <3>1
        <4>2. \A b \in DOMAIN program.code : next \notin dst[b]
          <5> SUFFICES ASSUME NEW b \in DOMAIN program.code, next \in dst[b] PROVE FALSE
            OBVIOUS
          <5>1. \E n \in 1 .. next - 1 : dst[b] = {n}
            BY <1>2 DEF RenamingInv, Results
          <5> QED
            BY <1>5, <5>1
        <4>3. next < next'
          BY <1>1, <1>5
        <4>4. Provider(a, Code(a).src[k])' = 0
          BY <1>8, <2>3, <3>1
        <4>5. Follows(a, k)'
          BY <1>1, <1>8, <4>1, <4>2, <4>3, <4>4 DEF Follows
        <4> QED
          BY <4>1, <4>5
      <3>2. CASE ~(a = e.at /\ Code(a).src[k] = old)
        <4>1. src'[a][k] = src[a][k]
          BY <2>4, <3>2
        <4>2. ASSUME ~src[a][k].renamed PROVE Waits(a, k)'
          <5>1. Waits(a, k)
            BY <2>2, <4>2 DEF Tables, OperandsFollow
          <5> QED
            BY <1>1, <1>8, <4>1, <5>1 DEF Waits
        <4>3. ASSUME src[a][k].renamed PROVE Follows(a, k)'
          <5>1. Follows(a, k)
            BY <2>2, <4>3 DEF Tables, OperandsFollow
          <5>2. src[a][k].reg \in Int
            <6>1. src[a][k].reg \in Register
              BY <1>6 DEF RenamingInv, RenamingTypes
            <6> QED
              BY <6>1, RegistersAre
          <5>3. src[a][k].reg < next => src[a][k].reg < next'
            BY <1>1, <1>5, <5>2
          <5> QED
            BY <1>1, <1>8, <4>1, <5>1, <5>3 DEF Follows
        <4> QED
          BY <4>1, <4>2, <4>3
      <3> QED
        BY <3>1, <3>2
    <2>6. OperandsFollow'
      BY <1>2, <1>8, <2>5 DEF OperandsFollow
    <2>7. NamesTogether'
      <3> SUFFICES ASSUME NEW a \in DOMAIN program.code, NEW k \in DOMAIN Code(a).src,
                          NEW j \in DOMAIN Code(a).src, Code(a).src[k] = Code(a).src[j]
                   PROVE  src'[a][k] = src'[a][j]
        BY <1>8 DEF NamesTogether
      <3>1. src[a][k] = src[a][j]
        BY <2>2 DEF Tables, NamesTogether
      <3> QED
        BY <2>4, <3>1
    <2>8. ASSUME NEW a \in DOMAIN program.code, NEW k \in DOMAIN Code(a).src, Given(a, k)'
          PROVE  \/ a = e.at /\ Code(a).src[k] = old /\ src'[a][k].reg = next
                 \/ Given(a, k) /\ src'[a][k] = src[a][k] /\ src[a][k].reg # next
      <3>1. src'[a][k].renamed /\ Provider(a, Code(a).src[k]) = 0
        BY <1>8, <2>8 DEF Given
      <3>2. CASE a = e.at /\ Code(a).src[k] = old
        BY <1>9, <2>4, <3>2
      <3>3. CASE ~(a = e.at /\ Code(a).src[k] = old)
        <4>1. src'[a][k] = src[a][k]
          BY <2>4, <3>3
        <4>2. Given(a, k)
          BY <3>1, <4>1 DEF Given
        <4>3. src[a][k].reg < next
          BY <2>2, <4>2 DEF Tables, OperandsFollow, Follows, Given
        <4> QED
          BY <1>5, <4>1, <4>2, <4>3
      <3> QED
        BY <3>2, <3>3
    <2>9. OwnRegisters'
      <3> SUFFICES ASSUME NEW a \in DOMAIN program.code, NEW b \in DOMAIN program.code,
                          NEW k \in DOMAIN Code(a).src, NEW j \in DOMAIN Code(b).src,
                          Given(a, k)', Given(b, j)', src'[a][k].reg = src'[b][j].reg
                   PROVE  a = b /\ Code(a).src[k] = Code(b).src[j]
        BY <1>8 DEF OwnRegisters
      <3>1. /\ \/ a = e.at /\ Code(a).src[k] = old /\ src'[a][k].reg = next
               \/ Given(a, k) /\ src'[a][k] = src[a][k] /\ src[a][k].reg # next
            /\ \/ b = e.at /\ Code(b).src[j] = old /\ src'[b][j].reg = next
               \/ Given(b, j) /\ src'[b][j] = src[b][j] /\ src[b][j].reg # next
        BY <2>8
      <3> QED
        BY <2>2, <3>1 DEF Tables, OwnRegisters
    <2>10. CarriedNames'
      <3> SUFFICES ASSUME NEW f \in carried'
                   PROVE  f.dependency.reg =
                             IF f.dependency.producer # 0 THEN Code(f.at).src[f.operand]
                             ELSE src'[f.at][f.operand].reg
        BY <1>8 DEF CarriedNames
      <3>1. PICK c \in carried : f = expected(c)
        BY <1>4
      <3>2. /\ f.at = c.at /\ f.operand = c.operand
            /\ f.dependency.producer = c.dependency.producer
            /\ f.dependency.reg = IF c.at = e.at /\ c.dependency.reg = old
                                  THEN next ELSE c.dependency.reg
        BY <1>13, <3>1
      <3>3. c.dependency.reg = IF c.dependency.producer # 0 THEN Code(c.at).src[c.operand]
                               ELSE src[c.at][c.operand].reg
        BY <2>2 DEF Tables, CarriedNames
      <3>4. PICK d \in InterloopDependencies(program, c.at) : CarriedFrom(c, d)
        BY <1>12
      <3>5. /\ c.at \in DOMAIN program.code
            /\ c.operand \in DOMAIN Code(c.at).src /\ Code(c.at).src[c.operand] = d.reg
            /\ c.dependency.producer = Provider(c.at, d.reg)
        <4>1. c.at \in DOMAIN program.code
          BY <1>12
        <4>2. d.producer = Provider(c.at, d.reg) /\ d.reg \in Reads(program.code[c.at])
          BY <1>7, <3>4, <4>1, ProviderIs
        <4> QED
          BY <1>7, <3>4, <4>1, <4>2, FirstOperandIs DEF CarriedFrom
      <3>6. CASE c.dependency.producer # 0
        <4>1. ~(c.at = e.at /\ c.dependency.reg = old)
          BY <2>3, <3>3, <3>5, <3>6
        <4> QED
          BY <3>2, <3>3, <3>6, <4>1
      <3>7. CASE c.dependency.producer = 0
        <4>1. c.dependency.reg = src[c.at][c.operand].reg
          BY <3>3, <3>7
        <4>2. c.at = e.at => (c.dependency.reg = old <=> Code(c.at).src[c.operand] = old)
          <5>1. ~src[c.at][c.operand].renamed => src[c.at][c.operand].reg = Code(c.at).src[c.operand]
            BY <2>2, <3>5 DEF Tables, OperandsFollow, Waits
          <5>2. src[c.at][c.operand].renamed => src[c.at][c.operand].reg # old
            BY <2>1, <2>3, <3>5 DEF Apart
          <5>3. c.at = e.at /\ Code(c.at).src[c.operand] = old => ~src[c.at][c.operand].renamed
            BY <2>4, <3>5
          <5> QED
            BY <4>1, <5>1, <5>2, <5>3
        <4>3. src'[c.at][c.operand] = IF c.at = e.at /\ Code(c.at).src[c.operand] = old
                                      THEN Operand(next, TRUE) ELSE src[c.at][c.operand]
          BY <2>4, <3>5
        <4> QED
          BY <1>9, <3>2, <3>7, <4>1, <4>2, <4>3
      <3> QED
        BY <3>6, <3>7
    <2>11. moves = {} /\ resolved = {}
      BY <1>2 DEF RenamingInv, Moves
    <2>12. MovedApart'
      BY <1>1, <2>11 DEF MovedApart
    <2>13. AllBrought'
      <3>1. ASSUME NEW a \in Body, NEW d \in InterloopDependencies(program, a)
            PROVE  \E f \in carried' : f.at = a /\ CarriedFrom(f, d)
        <4>1. PICK c \in carried : c.at = a /\ CarriedFrom(c, d)
          BY <2>2, <2>11 DEF Tables, AllBrought
        <4>2. expected(c) \in carried' /\ expected(c).at = a
          BY <1>4, <1>13, <4>1
        <4>3. CarriedFrom(expected(c), d)
          BY <1>13, <4>1 DEF CarriedFrom
        <4> QED
          BY <4>2, <4>3
      <3> QED
        BY <1>1, <1>8, <2>11, <3>1 DEF AllBrought
    <2> QED
      BY <2>6, <2>7, <2>9, <2>10, <2>12, <2>13 DEF Tables
  <1> QED
    BY <1>11, <1>14 DEF RenamedInv

\* The value of a carried dependency gets its move.
LEMMA InsertMoveTables ==
    ASSUME ScheduleInv, RenamingInv, RenamedInv, InsertMove,
           UNCHANGED <<source, program, todo, slot, begin>>
    PROVE  RenamedInv'
  <1> DEFINE added == MoveRow - row[Control]
             free == IF added > 0 THEN {"ALU0", "ALU1"} ELSE FreeALUs(MoveRow)
             move == [row |-> MoveRow, slot |-> IF "ALU0" \in free THEN "ALU0" ELSE "ALU1",
                      from |-> TheElement(dst[Carry.previous]), to |-> Expected]
  <1>1. /\ phase = "moves" /\ phase' = phase /\ carried # {}
        /\ moves' = moves \cup {move}
        /\ row' = [a \in DOMAIN row |-> IF Block(program, a) = "BB2" \/ a = Control
                                        THEN row[a] + added ELSE row[a]]
        /\ resolved' = resolved \cup {Expected}
        /\ carried' = carried \ {FirstInTable(carried)}
        /\ UNCHANGED <<dst, src, work, next>>
    BY DEF InsertMove
  <1>2. /\ Numbered /\ Numbered' /\ Moving /\ Moving' /\ Finished /\ Working
    BY <1>1 DEF Numbered, Moving, Finished, Working
  <1>3. PICK c \in carried :
              /\ c = FirstInTable(carried) /\ Carry = c.dependency
              /\ c.at \in Body /\ c.at \in DOMAIN program.code /\ HasLoop(program)
              /\ \E n \in Register : dst[c.dependency.previous] = {n}
              /\ c.dependency.producer # 0 =>
                    /\ c.dependency.producer \in DOMAIN program.code
                    /\ \E n \in Register : dst[c.dependency.producer] = {n}
    BY <1>1, CarryIs
  <1>4. Ready(Carry.previous) <= MoveRow
    BY <1>1, MoveRowIs
  <1>5. /\ move.row = MoveRow /\ move.to = Expected
        /\ dst[c.dependency.previous] = {move.from}
    BY <1>3 DEF TheElement
  <1> HIDE DEF move, added
  <1>6. Compilable(program) /\ DOMAIN row = DOMAIN program.code
    BY <1>2, StateIs
  <1>7. /\ \A a : Code(a)' = Code(a)
        /\ Body' = Body /\ DOMAIN program'.code = DOMAIN program.code
        /\ \A a : InterloopDependencies(program, a)' = InterloopDependencies(program, a)
        /\ \A a, r : Provider(a, r)' = Provider(a, r)
        /\ \A a, r : FirstOperand(a, r)' = FirstOperand(a, r)
        /\ \A d, f : CarriedFrom(d, f)' = CarriedFrom(d, f)
    BY ProgramKept, ProviderKept
  <1>8. \A a \in Body : Ready(a)' = Ready(a)
    <2>1. \A a \in Body : a \in DOMAIN row /\ a # Control /\ Block(program, a) = "BB1"
      BY <1>3, <1>6, AddressesAre
    <2> QED
      BY <1>1, <1>7, <2>1 DEF Ready
  <1>9. FollowsAResult'
    BY <1>1 DEF FollowsAResult
  <1>10. ASSUME Apart' PROVE Tables'
    <2>1. Apart /\ Tables
      BY <1>1, <1>2, <1>7, <1>10 DEF Apart, RenamedInv
    <2>2. ASSUME NEW f \in carried
          PROVE  \E d \in InterloopDependencies(program, f.at) :
                    /\ CarriedFrom(f, d) /\ f.at \in DOMAIN program.code
                    /\ f.operand = FirstOperand(f.at, d.reg)
                    /\ f.operand \in DOMAIN Code(f.at).src
                    /\ Code(f.at).src[f.operand] = d.reg
                    /\ f.dependency.producer = Provider(f.at, d.reg)
                    /\ src[f.at][f.operand].renamed /\ Follows(f.at, f.operand)
      <3>1. PICK d \in InterloopDependencies(program, f.at) : CarriedFrom(f, d)
        BY <1>2 DEF RenamingInv, Carries
      <3>2. f.at \in DOMAIN program.code
        BY <1>2 DEF RenamingInv, Carries, Body, InBlock
      <3>3. d.producer = Provider(f.at, d.reg) /\ d.reg \in Reads(program.code[f.at])
        BY <1>6, <3>1, <3>2, ProviderIs
      <3>4. /\ f.operand = FirstOperand(f.at, d.reg)
            /\ f.operand \in DOMAIN Code(f.at).src /\ Code(f.at).src[f.operand] = d.reg
            /\ f.dependency.producer = Provider(f.at, d.reg)
        BY <1>6, <3>1, <3>2, <3>3, FirstOperandIs DEF CarriedFrom
      <3>5. src[f.at][f.operand].renamed /\ Follows(f.at, f.operand)
        BY <1>2, <2>1, <3>2, <3>4 DEF Tables, OperandsFollow
      <3> QED
        BY <3>1, <3>2, <3>4, <3>5
    <2>3. Expected = src[c.at][c.operand].reg /\ Expected \notin Reg
      <3>1. PICK d \in InterloopDependencies(program, c.at) :
                    /\ c.operand \in DOMAIN Code(c.at).src
                    /\ Code(c.at).src[c.operand] = d.reg
                    /\ c.dependency.producer = Provider(c.at, d.reg)
                    /\ src[c.at][c.operand].renamed /\ Follows(c.at, c.operand)
        BY <2>2
      <3>2. ASSUME c.dependency.producer # 0 PROVE Expected = src[c.at][c.operand].reg
        <4>1. dst[c.dependency.producer] = {src[c.at][c.operand].reg}
          BY <3>1, <3>2 DEF Follows
        <4> QED
          BY <1>3, <3>2, <4>1 DEF Expected, TheElement
      <3>3. ASSUME c.dependency.producer = 0 PROVE Expected = src[c.at][c.operand].reg
        BY <1>3, <2>1, <3>3 DEF Expected, Tables, CarriedNames
      <3>4. src[c.at][c.operand].reg \notin Reg
        BY <1>3, <2>1, <3>1 DEF Apart
      <3> QED
        BY <3>2, <3>3, <3>4
    <2>4. \A f \in carried' : f \in carried /\ f # c
      BY <1>1, <1>3
    <2>5. OperandsFollow' /\ NamesTogether' /\ OwnRegisters'
      <3>1. /\ \A a, k : Waits(a, k)' <=> Waits(a, k)
            /\ \A a, k : Follows(a, k)' <=> Follows(a, k)
            /\ \A a, k : Given(a, k)' <=> Given(a, k)
        BY <1>1, <1>7 DEF Waits, Follows, Given
      <3> QED
        BY <1>1, <1>2, <1>7, <2>1, <3>1 DEF Tables, OperandsFollow, NamesTogether, OwnRegisters
    <2>6. CarriedNames'
      BY <1>1, <1>7, <2>1, <2>4 DEF Tables, CarriedNames
    <2>7. ASSUME NEW f \in carried', f.dependency.producer = 0
          PROVE  f.dependency.reg # Expected
      <3>1. f \in carried /\ f # c
        BY <2>4
      <3>2. PICK d \in InterloopDependencies(program, f.at) :
                    /\ f.at \in DOMAIN program.code /\ f.operand = FirstOperand(f.at, d.reg)
                    /\ f.operand \in DOMAIN Code(f.at).src
                    /\ Code(f.at).src[f.operand] = d.reg
                    /\ f.dependency.producer = Provider(f.at, d.reg)
                    /\ src[f.at][f.operand].renamed /\ Follows(f.at, f.operand)
        BY <2>2, <3>1
      <3>3. PICK b \in InterloopDependencies(program, c.at) :
                    /\ c.at \in DOMAIN program.code /\ c.operand = FirstOperand(c.at, b.reg)
                    /\ c.operand \in DOMAIN Code(c.at).src
                    /\ Code(c.at).src[c.operand] = b.reg
                    /\ c.dependency.producer = Provider(c.at, b.reg)
                    /\ src[c.at][c.operand].renamed /\ Follows(c.at, c.operand)
        BY <2>2
      <3>4. f.dependency.reg = src[f.at][f.operand].reg
        BY <2>1, <2>7, <3>1 DEF Tables, CarriedNames
      <3>5. Provider(f.at, Code(f.at).src[f.operand]) = 0 /\ Given(f.at, f.operand)
        BY <2>7, <3>2 DEF Given
      <3>6. \A x \in DOMAIN program.code : f.dependency.reg \notin dst[x]
        BY <3>2, <3>4, <3>5 DEF Follows
      <3>7. CASE c.dependency.producer # 0
        <4>1. dst[c.dependency.producer] = {Expected}
          BY <2>3, <3>3, <3>7 DEF Follows
        <4> QED
          BY <1>3, <3>6, <3>7, <4>1
      <3>8. CASE c.dependency.producer = 0
        <4>1. Given(c.at, c.operand)
          BY <3>3, <3>8 DEF Given
        <4>2. ASSUME f.dependency.reg = Expected PROVE FALSE
          <5>1. src[f.at][f.operand].reg = src[c.at][c.operand].reg
            BY <2>3, <3>4, <4>2
          <5>2. f.at = c.at /\ d.reg = b.reg
            BY <2>1, <3>2, <3>3, <3>5, <4>1, <5>1 DEF Tables, OwnRegisters
          <5>3. f.operand = c.operand
            BY <3>2, <3>3, <5>2
          <5> QED
            BY <1>2, <3>1, <5>2, <5>3 DEF RenamingInv, Carries
        <4> QED
          BY <4>2
      <3> QED
        BY <3>7, <3>8
    <2>8. MovedApart'
      BY <1>1, <2>1, <2>3, <2>4, <2>7 DEF Tables, MovedApart
    <2>9. ASSUME NEW a \in Body, NEW d \in InterloopDependencies(program, a), NEW m
          PROVE  Brings(m, a, d)' <=> Brings(m, a, d)
      <3>1. d.previous \in Body
        BY <1>6, ProducersAre DEF Body, InBlock
      <3>2. Ready(d.previous)' = Ready(d.previous)
        BY <1>8, <3>1
      <3> QED
        BY <1>1, <1>7, <3>2 DEF Brings
    <2>10. ASSUME NEW d \in InterloopDependencies(program, c.at), CarriedFrom(c, d)
           PROVE  Brings(move, c.at, d)
      <3>1. d.previous = c.dependency.previous /\ c.operand = FirstOperand(c.at, d.reg)
        BY <2>10 DEF CarriedFrom
      <3> QED
        BY <1>3, <1>4, <1>5, <2>3, <3>1 DEF Brings
    <2>11. ASSUME NEW a \in Body, NEW d \in InterloopDependencies(program, a)
           PROVE  \/ \E f \in carried' : f.at = a /\ CarriedFrom(f, d)
                  \/ \E m \in moves' : Brings(m, a, d)
      <3>1. CASE \E m \in moves : Brings(m, a, d)
        BY <1>1, <3>1
      <3>2. CASE \E f \in carried : f.at = a /\ CarriedFrom(f, d)
        <4>1. PICK f \in carried : f.at = a /\ CarriedFrom(f, d)
          BY <3>2
        <4>2. CASE f = c
          BY <1>1, <2>10, <4>1, <4>2
        <4>3. CASE f # c
          <5>1. f \in carried'
            BY <1>1, <1>3, <4>1, <4>3
          <5> QED
            BY <4>1, <5>1
        <4> QED
          BY <4>2, <4>3
      <3> QED
        BY <2>1, <3>1, <3>2 DEF Tables, AllBrought
    <2>12. ASSUME NEW m \in moves'
           PROVE  \E a \in Body : \E d \in InterloopDependencies(program, a) : Brings(m, a, d)
      <3>1. CASE m \in moves
        BY <2>1, <3>1 DEF Tables, AllBrought
      <3>2. CASE m = move
        <4>1. PICK d \in InterloopDependencies(program, c.at) : CarriedFrom(c, d)
          BY <2>2
        <4> QED
          BY <1>3, <2>10, <3>2, <4>1
      <3> QED
        BY <1>1, <3>1, <3>2
    <2>13. AllBrought'
      BY <1>1, <1>7, <2>9, <2>11, <2>12 DEF AllBrought
    <2> QED
      BY <2>5, <2>6, <2>8, <2>13 DEF Tables
  <1> QED
    BY <1>9, <1>10 DEF RenamedInv

\* No carried dependency is passed over.
LEMMA SkipMoveTables ==
    ASSUME ScheduleInv, RenamingInv, RenamedInv, SkipMove, UNCHANGED program
    PROVE  RenamedInv'
  <1>1. /\ phase = "moves" /\ phase' = phase /\ carried # {} /\ Carry.reg \in resolved
        /\ UNCHANGED <<dst, src>>
    BY DEF SkipMove
  <1>2. Numbered /\ Numbered' /\ Finished /\ Working /\ Compilable(program)
    BY <1>1, StateIs DEF Numbered, Finished, Working
  <1>3. FollowsAResult'
    BY <1>1 DEF FollowsAResult
  <1>4. ASSUME Apart PROVE FALSE
    <2>1. Tables
      BY <1>4 DEF RenamedInv
    <2>2. PICK c \in carried : Carry = c.dependency /\ c.at \in DOMAIN program.code
      BY <1>1, CarryIs
    <2>3. c.dependency.producer # 0 /\ c.dependency.reg = Code(c.at).src[c.operand]
      BY <1>1, <2>1, <2>2 DEF Tables, MovedApart, CarriedNames
    <2>4. c.dependency.reg \in Reg
      <3>1. PICK d \in InterloopDependencies(program, c.at) : CarriedFrom(c, d)
        BY <1>2 DEF RenamingInv, Carries
      <3>2. d.reg \in Reads(program.code[c.at])
        BY <1>2, <2>2, <3>1, ProviderIs
      <3>3. c.operand \in DOMAIN Code(c.at).src
        BY <1>2, <2>2, <3>1, <3>2, FirstOperandIs DEF CarriedFrom
      <3>4. Code(c.at).src \in Seq(Reg)
        BY <1>2, <2>2, AddressesAre
      <3> QED
        BY <2>3, <3>3, <3>4
    <2> QED
      BY <1>1, <2>1, <2>2, <2>4 DEF Tables, MovedApart
  <1>5. Apart' => Apart
    <2>1. \A a : Code(a)' = Code(a)
      BY ProgramKept
    <2> QED
      BY <1>1, <1>2, <2>1 DEF Apart
  <1> QED
    BY <1>3, <1>4, <1>5 DEF RenamedInv

\* Every step keeps the tables.
LEMMA RenamedStep ==
    ASSUME CompilerInv, RenamedInv, [Next]_vars
    PROVE  RenamedInv'
  <1>1. ScheduleInv /\ RenamingInv
    BY DEF CompilerInv
  <1>2. ASSUME ~Numbered' PROVE RenamedInv'
    BY <1>2 DEF RenamedInv, FollowsAResult, Apart, Numbered
  <1>3. Numbered => /\ DOMAIN src = DOMAIN program.code
                    /\ \A a \in DOMAIN program.code : DOMAIN src[a] = DOMAIN Code(a).src
    BY <1>1 DEF RenamingInv, Operands
  <1>4. CASE Schedule
    <2>1. ~Numbered'
      BY <1>4 DEF Schedule, ScheduleNext, Parse, ParseError, PlaceInstruction, FinishBB0,
                  FinishStraightLine, FinishBB1, NothingBeforeLoop, FinishBB2, Numbered
    <2> QED
      BY <1>2, <2>1
  <1>5. CASE Rename
    <2>1. RenameNext /\ UNCHANGED <<source, program, todo, slot, begin>>
      BY <1>5 DEF Rename, RenameNext
    <2>2. CASE InsertMove
      BY <1>1, <2>1, <2>2, InsertMoveTables
    <2>3. CASE SkipMove
      BY <1>1, <2>1, <2>3, SkipMoveTables
    <2>4. ASSUME ~InsertMove, ~SkipMove PROVE RenamedInv'
      <3>1. /\ UNCHANGED <<row, size>>
            /\ \/ RenameProduced \/ TooManyResults \/ RenameOperand \/ OperandsDone
               \/ RenameStarting \/ TooManyRegisters \/ StartingDone \/ MovesDone
        BY <2>1, <2>4 DEF RenameNext
      <3>2. CASE RenameProduced
        BY <1>1, <2>1, <3>1, <3>2, RenameProducedTables
      <3>3. CASE TooManyResults \/ TooManyRegisters
        <4>1. ~Numbered'
          BY <3>3 DEF TooManyResults, TooManyRegisters, Numbered
        <4> QED
          BY <1>2, <4>1
      <3>4. CASE RenameOperand
        BY <1>1, <2>1, <3>1, <3>4, RenameOperandTables
      <3>5. CASE RenameStarting
        BY <1>1, <2>1, <3>1, <3>5, RenameStartingTables
      <3>6. CASE OperandsDone \/ StartingDone \/ MovesDone
        <4>1. /\ UNCHANGED renamingVars
              /\ \/ phase = "operands" /\ phase' = "starting" /\ work = {}
                 \/ phase = "starting" /\ phase' = "moves" /\ Unrenamed = {}
                 \/ phase = "moves" /\ phase' = "renamed" /\ carried = {}
          BY <3>6 DEF OperandsDone, StartingDone, MovesDone
        <4>2. /\ Numbered
              /\ phase' = "operands" => phase = "operands"
              /\ phase = "operands" /\ phase' # "operands" => work = {}
              /\ Moving' /\ ~Moving => phase # "operands" /\ Unrenamed = {}
              /\ phase' \in {"renamed", "running"} => carried = {}
          BY <4>1 DEF Numbered, Moving
        <4> QED
          BY <1>3, <2>1, <3>1, <4>1, <4>2, PassRenamed
      <3> QED
        BY <3>1, <3>2, <3>3, <3>4, <3>5, <3>6
    <2> QED
      BY <2>2, <2>3, <2>4
  <1>6. CASE Load \/ Run
    <2>1. /\ UNCHANGED renamingVars /\ UNCHANGED <<program, row>>
          /\ phase \in {"renamed", "running"} /\ phase' = "running"
      BY <1>6 DEF Load, Run, schedulerVars
    <2>2. Numbered /\ Moving
      BY <2>1 DEF Numbered, Moving
    <2>3. carried = {} \/ ~Apart
      BY <2>1 DEF RenamedInv, Tables, AllBrought
    <2>4. CASE carried = {}
      BY <1>3, <2>1, <2>2, <2>4, PassRenamed
    <2>5. CASE ~Apart
      <3>1. /\ UNCHANGED <<dst, src>> /\ Numbered'
            /\ \A a : Code(a)' = Code(a)
        BY <2>1, ProgramKept DEF renamingVars, Numbered
      <3>2. ~Apart'
        BY <2>1, <2>2, <2>5, <3>1 DEF Apart
      <3>3. FollowsAResult'
        BY <2>1 DEF FollowsAResult
      <3> QED
        BY <3>2, <3>3 DEF RenamedInv
    <2> QED
      BY <2>3, <2>4, <2>5
  <1>7. CASE UNCHANGED vars
    <2>1. ~Numbered' => RenamedInv'
      BY <1>2
    <2>2. /\ UNCHANGED renamingVars /\ UNCHANGED <<program, row, phase>>
      BY <1>7 DEF vars, schedulerVars
    <2>3. ASSUME Numbered, phase \in {"renamed", "running"} => carried = {} PROVE RenamedInv'
      <3>1. /\ phase' = "operands" => phase = "operands"
            /\ ~(phase = "operands" /\ phase' # "operands")
            /\ ~(Moving' /\ ~Moving)
            /\ phase' \in {"renamed", "running"} => carried = {}
        BY <2>2, <2>3 DEF Moving
      <3> QED
        BY <1>3, <2>2, <2>3, <3>1, PassRenamed
    <2>4. ASSUME ~Apart PROVE RenamedInv'
      <3>1. UNCHANGED <<dst, src, program, phase>> /\ \A a : Code(a)' = Code(a)
        BY <2>2, ProgramKept DEF renamingVars
      <3>2. ~Apart'
        BY <2>4, <3>1 DEF Apart, Numbered
      <3>3. FollowsAResult'
        BY <3>1 DEF RenamedInv, FollowsAResult
      <3> QED
        BY <3>2, <3>3 DEF RenamedInv
    <2>5. ~Numbered => ~Numbered'
      BY <2>2 DEF Numbered
    <2>6. Apart => (phase \in {"renamed", "running"} => carried = {})
      BY DEF RenamedInv, Tables, AllBrought
    <2> QED
      BY <2>1, <2>3, <2>4, <2>5, <2>6
  <1> QED
    BY <1>4, <1>5, <1>6, <1>7 DEF Next

\* The tables are right in every state.
LEMMA RenamedIs == Spec => []RenamedInv
  <1>1. Init => RenamedInv
    BY DEF Init, SchedulerInit, RenamedInv, FollowsAResult, Apart, Numbered
  <1>2. CompilerInv /\ RenamedInv /\ [Next]_vars => RenamedInv'
    BY RenamedStep
  <1> QED
    BY <1>1, <1>2, Compiles, PTL DEF Spec

\* As long as no register bears a name of the input program, every operand follows its
\* dependency, in every program: only names that clash lead one astray.
THEOREM OperandsAreRight == Spec => [](Apart => OperandsFollowDependencies)
  <1>1. CompilerInv /\ RenamedInv => (Apart => OperandsFollowDependencies)
    <2> SUFFICES ASSUME CompilerInv, Tables, phase = "starting", NEW a \in DOMAIN src,
                        NEW k \in DOMAIN src[a],
                        NEW d \in LocalDependencies(program, a)
                                    \cup PostLoopDependencies(program, a)
                                    \cup InvariantDependencies(program, a),
                        d.reg = Code(a).src[k]
                 PROVE  src[a][k].reg \in dst[d.producer]
      BY DEF RenamedInv, OperandsFollowDependencies
    <2>1. /\ ScheduleInv /\ RenamingInv /\ Working /\ Numbered
      BY DEF CompilerInv, Working, Finished, Numbered
    <2>2. /\ Compilable(program) /\ a \in DOMAIN program.code
          /\ k \in DOMAIN Code(a).src
      BY <2>1, StateIs DEF RenamingInv, Operands
    <2>3. d.producer # 0
      BY <2>2, ProducersAre, AddressesAre
    <2>4. d.producer = Provider(a, Code(a).src[k])
      <3>1. \E kind \in 1 .. 4 : d \in DependenciesOf(a, kind)
        BY DEF DependenciesOf
      <3> QED
        BY <3>1, ProviderOf
    <2>5. src[a][k].renamed
      BY <2>2, <2>3, <2>4 DEF Tables, OperandsFollow, Waits
    <2>6. Follows(a, k)
      BY <2>2, <2>5 DEF Tables, OperandsFollow
    <2> QED
      BY <2>3, <2>4, <2>6 DEF Follows
  <1> QED
    BY <1>1, Compiles, RenamedIs, PTL

\* Nor is a move left out then: every value carried into the next iteration is brought to
\* the register of each of its readers, in every program.
THEOREM MovesAreRight == Spec => [](Apart => CarriedValuesMoved)
  <1>1. CompilerInv /\ RenamedInv => (Apart => CarriedValuesMoved)
    <2> SUFFICES ASSUME CompilerInv, Tables, phase = "renamed", NEW a \in DOMAIN src,
                        NEW k \in DOMAIN src[a], NEW d \in InterloopDependencies(program, a),
                        d.reg = Code(a).src[k]
                 PROVE  \E m \in moves : m.from \in dst[d.previous] /\ m.to = src[a][k].reg
      BY DEF RenamedInv, CarriedValuesMoved
    <2>1. ScheduleInv /\ RenamingInv /\ Working /\ Numbered
      BY DEF CompilerInv, Working, Finished, Numbered
    <2>2. /\ Compilable(program) /\ a \in DOMAIN program.code
          /\ k \in DOMAIN Code(a).src
      BY <2>1, StateIs DEF RenamingInv, Operands
    <2>3. a \in Body
      BY <2>2, ProducersAre
    <2>4. PICK m \in moves : Brings(m, a, d)
      BY <2>3 DEF Tables, AllBrought
    <2>5. /\ FirstOperand(a, d.reg) \in DOMAIN Code(a).src
          /\ Code(a).src[FirstOperand(a, d.reg)] = d.reg
      BY <2>2, FirstOperandIs DEF Reads, Code
    <2>6. src[a][FirstOperand(a, d.reg)] = src[a][k]
      BY <2>2, <2>5 DEF Tables, NamesTogether
    <2> QED
      BY <2>4, <2>6 DEF Brings
  <1> QED
    BY <1>1, Compiles, RenamedIs, PTL

-----------------------------------------------------------------------------
(* What a cycle writes *)

\* The results that one slot's operation writes.
LEMMA WritesIs ==
    ASSUME CompilerInv, MachineInv, phase = "running", NEW s
    PROVE  /\ \A w \in Writes(s) :
                 \/ \E a \in AtPc : slot[a] = s /\ \E x \in dst[a] : w = <<x, <<a, lap>>>>
                 \/ \E m \in MovesAtPc : m.slot = s /\ w = <<m.to, registers[m.from]>>
           /\ \A a \in AtPc : slot[a] = s => \A x \in dst[a] : <<x, <<a, lap>>>> \in Writes(s)
           /\ \A m \in MovesAtPc : m.slot = s => <<m.to, registers[m.from]>> \in Writes(s)
  <1>1. /\ Active = Bundle
        /\ Bundle = {ProgramOperation(a) : a \in AtPc} \cup {MoveOperation(m) : m \in MovesAtPc}
    BY BundleIs
  <1>2. rrb = 0
    BY DEF MachineInv
  <1>3. /\ Len(program.code) \in Nat /\ DOMAIN program.code = 1 .. Len(program.code)
        /\ DOMAIN dst = DOMAIN program.code
        /\ \A a \in DOMAIN dst : dst[a] \subseteq Register
        /\ \A m \in moves : m.from \in Register /\ m.to \in Register
    BY RunningIs
  <1>4. ASSUME NEW a \in AtPc
        PROVE  /\ ProgramOperation(a).slot = slot[a] /\ ProgramOperation(a).dst = dst[a]
               /\ Result(ProgramOperation(a)) = <<a, lap>>
               /\ \A x \in dst[a] : Physical(x) = x
    <2>1. a \in DOMAIN program.code /\ a # 0
      BY <1>3 DEF AtPc
    <2>2. /\ ProgramOperation(a).slot = slot[a] /\ ProgramOperation(a).dst = dst[a]
          /\ ProgramOperation(a).name = a
      BY DEF ProgramOperation, Operation
    <2>3. Result(ProgramOperation(a)) = <<a, lap>>
      BY <2>1, <2>2 DEF Result
    <2>4. \A x \in dst[a] : Physical(x) = x
      BY <1>2, <1>3, <2>1, PhysicalIs
    <2> QED
      BY <2>2, <2>3, <2>4
  <1>5. ASSUME NEW m \in MovesAtPc
        PROVE  /\ MoveOperation(m).slot = m.slot /\ MoveOperation(m).dst = {m.to}
               /\ Result(MoveOperation(m)) = registers[m.from]
               /\ Physical(m.to) = m.to
    <2>1. m.from \in Register /\ m.to \in Register
      BY <1>3 DEF MovesAtPc
    <2>2. /\ MoveOperation(m).slot = m.slot /\ MoveOperation(m).dst = {m.to}
          /\ MoveOperation(m).name = 0 /\ MoveOperation(m).src[1] = m.from
      BY DEF MoveOperation, Operation
    <2>3. Physical(m.from) = m.from /\ Physical(m.to) = m.to
      BY <1>2, <2>1, PhysicalIs
    <2> QED
      BY <2>2, <2>3 DEF Result
  <1>6. Writes(s) = UNION {{<<Physical(d), Result(op)>> : d \in op.dst} :
                              op \in {o \in Bundle : o.slot = s}}
    BY <1>1 DEF Writes
  <1>7. ASSUME NEW w \in Writes(s)
        PROVE  \/ \E a \in AtPc : slot[a] = s /\ \E x \in dst[a] : w = <<x, <<a, lap>>>>
               \/ \E m \in MovesAtPc : m.slot = s /\ w = <<m.to, registers[m.from]>>
    <2>1. PICK op \in Bundle : op.slot = s /\ \E d \in op.dst : w = <<Physical(d), Result(op)>>
      BY <1>6
    <2>2. CASE \E a \in AtPc : op = ProgramOperation(a)
      BY <1>4, <2>1, <2>2
    <2>3. CASE \E m \in MovesAtPc : op = MoveOperation(m)
      BY <1>5, <2>1, <2>3
    <2> QED
      BY <1>1, <2>2, <2>3
  <1>8. ASSUME NEW a \in AtPc, slot[a] = s, NEW x \in dst[a] PROVE <<x, <<a, lap>>>> \in Writes(s)
    <2>1. ProgramOperation(a) \in {o \in Bundle : o.slot = s} /\ x \in ProgramOperation(a).dst
      BY <1>1, <1>4, <1>8
    <2>2. <<Physical(x), Result(ProgramOperation(a))>> \in Writes(s)
      BY <1>6, <2>1
    <2> QED
      BY <1>4, <2>2
  <1>9. ASSUME NEW m \in MovesAtPc, m.slot = s PROVE <<m.to, registers[m.from]>> \in Writes(s)
    <2>1. MoveOperation(m) \in {o \in Bundle : o.slot = s} /\ m.to \in MoveOperation(m).dst
      BY <1>1, <1>5, <1>9
    <2>2. <<Physical(m.to), Result(MoveOperation(m))>> \in Writes(s)
      BY <1>6, <2>1
    <2> QED
      BY <1>5, <2>2
  <1> QED
    BY <1>7, <1>8, <1>9

\* The values among these writes to a register.
Into(writes, x) == {w[2] : w \in {u \in writes : u[1] = x}}

\* One more set of writes.
LEMMA AfterOne ==
    ASSUME NEW file \in [Register -> Values], NEW writes \in SUBSET (Register \X Values),
           NEW x \in Register
    PROVE  /\ After(file, writes) \in [Register -> Values]
           /\ Into(writes, x) = {} => After(file, writes)[x] = file[x]
           /\ \A v : Into(writes, x) = {v} => After(file, writes)[x] = v
  <1>1. /\ After(file, writes) \in [Register -> Values]
        /\ \A r \in Register :
              /\ (\A w \in writes : w[1] # r) => After(file, writes)[r] = file[r]
              /\ \A v : {w \in writes : w[1] = r} = {<<r, v>>} => After(file, writes)[r] = v
    BY AfterIs
  <1>2. (\A w \in writes : w[1] # x) => After(file, writes)[x] = file[x]
    BY <1>1
  <1>3. \A v : {w \in writes : w[1] = x} = {<<x, v>>} => After(file, writes)[x] = v
    BY <1>1
  <1>4. ASSUME Into(writes, x) = {} PROVE \A w \in writes : w[1] # x
    BY <1>4 DEF Into
  <1>5. ASSUME NEW v, Into(writes, x) = {v} PROVE {w \in writes : w[1] = x} = {<<x, v>>}
    <2>1. ASSUME NEW w \in writes, w[1] = x PROVE w = <<x, v>>
      <3>1. w[2] \in Into(writes, x)
        BY <2>1 DEF Into
      <3>2. w = <<w[1], w[2]>>
        BY <2>1
      <3> QED
        BY <1>5, <2>1, <3>1, <3>2
    <2>2. \E w \in writes : w[1] = x
      BY <1>5 DEF Into
    <2> QED
      BY <2>1, <2>2
  <1> QED
    BY <1>1, <1>4, <1>5, <1>2, <1>3

\* All of a cycle's writes: whatever the order, a register that is given one value only
\* holds it afterwards.
LEMMA AfterAll ==
    ASSUME NEW file \in [Register -> Values],
           NEW w1 \in SUBSET (Register \X Values), NEW w2 \in SUBSET (Register \X Values),
           NEW w3 \in SUBSET (Register \X Values), NEW w4 \in SUBSET (Register \X Values),
           NEW x \in Register
    PROVE  LET all == After(After(After(After(file, w1), w2), w3), w4)
               given == Into(w1, x) \cup Into(w2, x) \cup Into(w3, x) \cup Into(w4, x)
           IN  /\ given = {} => all[x] = file[x]
               /\ \A v : given = {v} => all[x] = v
  <1> DEFINE f1 == After(file, w1)
             f2 == After(f1, w2)
             f3 == After(f2, w3)
             f4 == After(f3, w4)
  <1>1. /\ f1 \in [Register -> Values]
        /\ Into(w1, x) = {} => f1[x] = file[x]
        /\ \A v : Into(w1, x) = {v} => f1[x] = v
    BY AfterOne
  <1> HIDE DEF f1
  <1>2. /\ f2 \in [Register -> Values]
        /\ Into(w2, x) = {} => f2[x] = f1[x]
        /\ \A v : Into(w2, x) = {v} => f2[x] = v
    BY <1>1, AfterOne
  <1> HIDE DEF f2
  <1>3. /\ f3 \in [Register -> Values]
        /\ Into(w3, x) = {} => f3[x] = f2[x]
        /\ \A v : Into(w3, x) = {v} => f3[x] = v
    BY <1>2, AfterOne
  <1> HIDE DEF f3
  <1>4. /\ Into(w4, x) = {} => f4[x] = f3[x]
        /\ \A v : Into(w4, x) = {v} => f4[x] = v
    BY <1>3, AfterOne
  <1> HIDE DEF f4
  <1> DEFINE given == Into(w1, x) \cup Into(w2, x) \cup Into(w3, x) \cup Into(w4, x)
  <1>5. given = {} => f4[x] = file[x]
    BY <1>1, <1>2, <1>3, <1>4
  <1>6. ASSUME NEW v, given = {v} PROVE f4[x] = v
    <2>1. \A S \in {Into(w1, x), Into(w2, x), Into(w3, x), Into(w4, x)} : S = {} \/ S = {v}
      BY <1>6
    <2>2. \/ Into(w1, x) = {v} \/ Into(w2, x) = {v} \/ Into(w3, x) = {v} \/ Into(w4, x) = {v}
      BY <1>6, <2>1
    <2> HIDE DEF given
    <2> QED
      BY <1>1, <1>2, <1>3, <1>4, <2>1, <2>2
  <1> QED
    BY <1>5, <1>6 DEF f1, f2, f3, f4

\* What a cycle stores in a register.
Stored(x) ==
    {<<a, lap>> : a \in {b \in AtPc : x \in dst[b] /\ Code(b).unit # "Mult"}}
    \cup {registers[m.from] : m \in {n \in MovesAtPc : n.to = x}}
    \cup Into(multiplier[2], x)

\* A register is given that; products go to the multiplier.
LEMMA StoredIs ==
    ASSUME CompilerInv, MachineInv, phase = "running", Tick, NEW x \in Register
    PROVE  /\ Stored(x) = {} => registers'[x] = registers[x]
           /\ \A v : Stored(x) = {v} => registers'[x] = v
           /\ \A w \in Writes("Mult") :
                 \E a \in AtPc : Code(a).unit = "Mult" /\ w[1] \in dst[a] /\ w[2] = <<a, lap>>
           /\ \A a \in AtPc : Code(a).unit = "Mult" =>
                 \A y \in dst[a] : <<y, <<a, lap>>>> \in Writes("Mult")
  <1>1. /\ registers \in [Register -> Values] /\ multiplier[2] \in SUBSET (Register \X Values)
        /\ \A s \in {"ALU0", "ALU1", "Mem"} : Writes(s) \in SUBSET (Register \X Values)
    BY WritesAre DEF MachineInv
  <1>2. registers' = After(After(After(After(registers, Writes("ALU0")), Writes("ALU1")),
                                 Writes("Mem")), multiplier[2])
    BY DEF Tick
  <1> DEFINE given == Into(Writes("ALU0"), x) \cup Into(Writes("ALU1"), x)
                         \cup Into(Writes("Mem"), x) \cup Into(multiplier[2], x)
  <1>3. /\ given = {} => registers'[x] = registers[x]
        /\ \A v : given = {v} => registers'[x] = v
    BY <1>1, <1>2, AfterAll
  <1>4. \A a \in AtPc : /\ a \in DOMAIN program.code
                        /\ SlotFits(Code(a).unit, slot[a])
                        /\ Code(a).unit \in {"ALU", "Mult", "Mem", "Branch"}
                        /\ Code(a).unit = "Branch" => dst[a] = {}
    <2>1. /\ ScheduleInv /\ RenamingInv /\ Finished /\ Working /\ Numbered
          /\ Compilable(program)
      BY RunningIs DEF CompilerInv, Finished, Working, Numbered
    <2>2. \A a \in DOMAIN program.code : SlotFits(Code(a).unit, slot[a])
      BY <2>1 DEF ScheduleInv, Progress, SlotsApart
    <2>3. ASSUME NEW a \in DOMAIN program.code, Code(a).unit = "Branch" PROVE dst[a] = {}
      <3>1. Code(a).dst = {}
        BY <2>1, <2>3, AddressesAre
      <3> QED
        BY <2>1, <3>1 DEF RenamingInv, Results
    <2>4. \A a \in DOMAIN program.code : Code(a).unit \in {"ALU", "Mult", "Mem", "Branch"}
      BY <2>1, AddressesAre
    <2> QED
      BY <2>2, <2>3, <2>4 DEF AtPc
  <1>5. \A m \in MovesAtPc : m.slot \in {"ALU0", "ALU1"}
    BY RunningIs DEF MovesAtPc
  <1>6. ASSUME NEW v \in given PROVE v \in Stored(x)
    <2>1. CASE v \in Into(multiplier[2], x)
      BY <2>1 DEF Stored
    <2>2. ASSUME NEW s \in {"ALU0", "ALU1", "Mem"}, v \in Into(Writes(s), x)
          PROVE  v \in Stored(x)
      <3>1. PICK w \in Writes(s) : w[1] = x /\ w[2] = v
        BY <2>2 DEF Into
      <3>2. CASE \E a \in AtPc : slot[a] = s /\ \E y \in dst[a] : w = <<y, <<a, lap>>>>
        <4>1. PICK a \in AtPc : slot[a] = s /\ x \in dst[a] /\ v = <<a, lap>>
          BY <3>1, <3>2
        <4>2. Code(a).unit # "Mult"
          BY <1>4, <4>1 DEF SlotFits
        <4> QED
          BY <4>1, <4>2 DEF Stored
      <3>3. CASE \E m \in MovesAtPc : m.slot = s /\ w = <<m.to, registers[m.from]>>
        BY <3>1, <3>3 DEF Stored
      <3> QED
        BY <3>2, <3>3, WritesIs
    <2> QED
      BY <2>1, <2>2
  <1>7. ASSUME NEW v \in Stored(x) PROVE v \in given
    <2>1. CASE v \in Into(multiplier[2], x)
      BY <2>1
    <2>2. ASSUME NEW a \in AtPc, x \in dst[a], Code(a).unit # "Mult", v = <<a, lap>>
          PROVE  v \in given
      <3>1. slot[a] \in {"ALU0", "ALU1", "Mem"}
        BY <1>4, <2>2 DEF SlotFits
      <3>2. <<x, v>> \in Writes(slot[a])
        BY <2>2, WritesIs
      <3>3. v \in Into(Writes(slot[a]), x)
        BY <3>2 DEF Into
      <3> QED
        BY <3>1, <3>3
    <2>3. ASSUME NEW m \in MovesAtPc, m.to = x, v = registers[m.from] PROVE v \in given
      <3>1. <<x, v>> \in Writes(m.slot)
        BY <2>3, WritesIs
      <3>2. v \in Into(Writes(m.slot), x)
        BY <3>1 DEF Into
      <3> QED
        BY <1>5, <3>2
    <2> QED
      BY <2>1, <2>2, <2>3 DEF Stored
  <1>8. given = Stored(x)
    BY <1>6, <1>7
  <1>9. ASSUME NEW w \in Writes("Mult")
        PROVE  \E a \in AtPc : Code(a).unit = "Mult" /\ w[1] \in dst[a] /\ w[2] = <<a, lap>>
    <2>1. PICK a \in AtPc : slot[a] = "Mult" /\ \E y \in dst[a] : w = <<y, <<a, lap>>>>
      BY <1>5, WritesIs
    <2>2. Code(a).unit = "Mult"
      BY <1>4, <2>1 DEF SlotFits
    <2> QED
      BY <2>1, <2>2
  <1>10. ASSUME NEW a \in AtPc, Code(a).unit = "Mult", NEW y \in dst[a]
         PROVE  <<y, <<a, lap>>>> \in Writes("Mult")
    <2>1. slot[a] = "Mult"
      BY <1>4, <1>10 DEF SlotFits
    <2> QED
      BY <2>1, WritesIs
  <1> HIDE DEF given
  <1> QED
    BY <1>3, <1>8, <1>9, <1>10

-----------------------------------------------------------------------------
(* What the moves copy, and when the loop instruction goes back *)

\* Names apart on the machine are apart for the passes, and all moves are in place.
LEMMA TablesAre ==
    ASSUME CompilerInv, RenamedInv, phase = "running", NamesApart
    PROVE  Numbered /\ Moving /\ Tables /\ carried = {}
  <1>1. Numbered /\ Moving
    BY DEF Numbered, Moving
  <1>2. /\ DOMAIN src = DOMAIN program.code
        /\ \A a \in DOMAIN program.code : DOMAIN src[a] = DOMAIN Code(a).src
    BY RunningIs
  <1>3. Apart
    BY <1>1, <1>2 DEF Apart, NamesApart
  <1> QED
    BY <1>1, <1>3 DEF RenamedInv, Tables, AllBrought

\* Operands share a register only if they had the same name.
LEMMA SharedName ==
    ASSUME CompilerInv, RenamedInv, phase = "running", NamesApart,
           NEW a \in DOMAIN program.code, NEW k \in DOMAIN Code(a).src,
           NEW b \in DOMAIN program.code, NEW j \in DOMAIN Code(b).src,
           src[a][k].reg = src[b][j].reg
    PROVE  Code(a).src[k] = Code(b).src[j]
  <1> DEFINE r == Code(a).src[k]
             s == Code(b).src[j]
             p == Provider(a, r)
             q == Provider(b, s)
  <1>1. /\ Compilable(program) /\ Tables /\ Numbered /\ Moving
        /\ r \in Reads(program.code[a]) /\ s \in Reads(program.code[b])
    BY RunningIs, TablesAre DEF Reads, Code
  <1>2. /\ src[a][k].renamed /\ src[b][j].renamed
        /\ Follows(a, k) /\ Follows(b, j)
    BY <1>1 DEF Tables, OperandsFollow
  <1>3. /\ p # 0 => p \in DOMAIN program.code /\ r \in Code(p).dst /\ dst[p] = {src[a][k].reg}
        /\ q # 0 => q \in DOMAIN program.code /\ s \in Code(q).dst /\ dst[q] = {src[b][j].reg}
        /\ p = 0 => \A c \in DOMAIN program.code : src[a][k].reg \notin dst[c]
        /\ q = 0 => \A c \in DOMAIN program.code : src[b][j].reg \notin dst[c]
    BY <1>1, <1>2, ProviderIs DEF Follows
  <1>4. CASE p # 0 /\ q # 0
    <2>1. p = q
      <3>1. \A c, d \in DOMAIN program.code : c # d => dst[c] \cap dst[d] = {}
        BY <1>1 DEF CompilerInv, RenamingInv, Results
      <3> QED
        BY <1>3, <1>4, <3>1
    <2>2. Code(p).dst = {} \/ \E x \in Reg : Code(p).dst = {x}
      BY <1>1, <1>3, <1>4, AddressesAre
    <2> QED
      BY <1>3, <1>4, <2>1, <2>2
  <1>5. CASE p = 0 /\ q = 0
    <2>1. Given(a, k) /\ Given(b, j)
      BY <1>2, <1>5 DEF Given
    <2> QED
      BY <1>1, <2>1 DEF Tables, OwnRegisters
  <1>6. p = 0 <=> q = 0
    BY <1>3
  <1> QED
    BY <1>4, <1>5, <1>6

\* A move copies a result of the loop that is there, to a register that the loop does
\* not write, for operands of a name that it does.
LEMMA MovesAre ==
    ASSUME CompilerInv, RenamedInv, phase = "running", NamesApart
    PROVE  /\ \A m \in moves : \E p \in Body :
                 p \in DOMAIN program.code /\ dst[p] = {m.from} /\ Ready(p) <= m.row
           /\ \A m \in moves : \A b \in DOMAIN program.code :
                 m.to \in dst[b] => Block(program, b) = "BB0" /\ Ready(b) <= begin
           /\ \A m, n \in moves : m.to = n.to => m.from = n.from
           /\ \A m \in moves : \A a \in DOMAIN program.code : \A k \in DOMAIN Code(a).src :
                 src[a][k].reg = m.to => BlockProducer(program, "BB1", Code(a).src[k]) # 0
  <1>1. Compilable(program) /\ Tables /\ Numbered /\ Moving /\ ScheduleInv /\ RenamingInv
    BY RunningIs, TablesAre DEF CompilerInv
  <1>2. \A m \in moves : \E a \in Body : \E d \in InterloopDependencies(program, a) :
           Brings(m, a, d)
    BY <1>1 DEF Tables, AllBrought
  <1>3. ASSUME NEW a \in Body, NEW d \in InterloopDependencies(program, a)
        PROVE  /\ a \in DOMAIN program.code /\ HasLoop(program)
               /\ d.previous \in Body /\ d.previous \in DOMAIN program.code
               /\ d.previous = BlockProducer(program, "BB1", d.reg)
               /\ d.previous # 0
               /\ FirstOperand(a, d.reg) \in DOMAIN Code(a).src
               /\ Code(a).src[FirstOperand(a, d.reg)] = d.reg
               /\ d.producer = Provider(a, d.reg)
               /\ d.producer # 0 => d.producer \in EnteringLoop /\ Block(program, d.producer) = "BB0"
    <2>1. a \in DOMAIN program.code
      BY DEF Body, InBlock
    <2>2. /\ HasLoop(program) /\ d.previous \in Body
          /\ d.producer # 0 => d.producer \in InBlock(program, "BB0")
      BY <1>1, <2>1, ProducersAre
    <2>3. d.previous \in DOMAIN program.code
      BY <2>2 DEF Body, InBlock
    <2>4. d.previous = BlockProducer(program, "BB1", d.reg) /\ d.reg \in Reads(program.code[a])
      BY RegistersRead DEF Dependency
    <2>5. d.previous # 0
      BY <1>1, <2>3, AddressesAre
    <2>6. d.producer = Provider(a, d.reg)
      BY <1>1, <2>1, ProviderIs
    <2>7. d.producer # 0 => d.producer \in EnteringLoop /\ Block(program, d.producer) = "BB0"
      BY <1>1, <2>2, EnteringAre DEF InBlock
    <2> QED
      BY <1>1, <2>1, <2>2, <2>3, <2>4, <2>5, <2>6, <2>7, FirstOperandIs
  <1>4. \A m \in moves : \E p \in Body :
           p \in DOMAIN program.code /\ dst[p] = {m.from} /\ Ready(p) <= m.row
    BY <1>2, <1>3 DEF Brings
  <1>5. ASSUME NEW m \in moves, NEW b \in DOMAIN program.code, m.to \in dst[b]
        PROVE  Block(program, b) = "BB0" /\ Ready(b) <= begin
    <2>1. PICK a \in Body : \E d \in InterloopDependencies(program, a) : Brings(m, a, d)
      BY <1>2
    <2>2. PICK d \in InterloopDependencies(program, a) : Brings(m, a, d)
      BY <2>1
    <2> DEFINE k == FirstOperand(a, d.reg)
    <2>3. /\ a \in DOMAIN program.code /\ k \in DOMAIN Code(a).src /\ Code(a).src[k] = d.reg
          /\ src[a][k].reg = m.to
      BY <1>3, <2>2 DEF Brings
    <2>4. Follows(a, k)
      BY <1>1, <2>3 DEF Tables, OperandsFollow
    <2>5. d.producer # 0 /\ dst[d.producer] = {m.to}
      BY <1>3, <1>5, <2>3, <2>4 DEF Follows
    <2>6. d.producer \in EnteringLoop /\ Block(program, d.producer) = "BB0"
      BY <1>3, <2>5
    <2>7. d.producer = b
      <3>1. d.producer \in DOMAIN program.code
        BY <1>1, <2>6, EnteringAre
      <3> QED
        BY <1>1, <1>5, <2>5, <3>1 DEF RenamingInv, Results
    <2>8. LoopPlaced
      BY <1>3 DEF LoopPlaced, Finished
    <2> QED
      BY <1>1, <2>6, <2>7, <2>8 DEF ScheduleInv, OperandsTimed
  <1>6. ASSUME NEW m \in moves, NEW a \in DOMAIN program.code, NEW k \in DOMAIN Code(a).src,
               src[a][k].reg = m.to
        PROVE  /\ BlockProducer(program, "BB1", Code(a).src[k]) # 0
               /\ dst[BlockProducer(program, "BB1", Code(a).src[k])] = {m.from}
    <2>1. PICK b \in Body : \E d \in InterloopDependencies(program, b) : Brings(m, b, d)
      BY <1>2
    <2>2. PICK d \in InterloopDependencies(program, b) : Brings(m, b, d)
      BY <2>1
    <2> DEFINE j == FirstOperand(b, d.reg)
    <2>3. /\ b \in DOMAIN program.code /\ j \in DOMAIN Code(b).src /\ Code(b).src[j] = d.reg
          /\ src[b][j].reg = m.to /\ dst[d.previous] = {m.from}
      BY <1>3, <2>2 DEF Brings
    <2> HIDE DEF j
    <2>4. Code(a).src[k] = d.reg
      BY <1>6, <2>3, SharedName
    <2> QED
      BY <1>3, <2>3, <2>4
  <1>7. ASSUME NEW m \in moves, NEW n \in moves, m.to = n.to PROVE m.from = n.from
    <2>1. PICK b \in Body : \E d \in InterloopDependencies(program, b) : Brings(m, b, d)
      BY <1>2
    <2>2. PICK d \in InterloopDependencies(program, b) : Brings(m, b, d)
      BY <2>1
    <2> DEFINE j == FirstOperand(b, d.reg)
    <2>3. b \in DOMAIN program.code /\ j \in DOMAIN Code(b).src /\ src[b][j].reg = m.to
      BY <1>3, <2>2 DEF Brings
    <2> HIDE DEF j
    <2>4. /\ dst[BlockProducer(program, "BB1", Code(b).src[j])] = {m.from}
          /\ dst[BlockProducer(program, "BB1", Code(b).src[j])] = {n.from}
      BY <1>6, <1>7, <2>3
    <2> QED
      BY <2>4
  <1> QED
    BY <1>4, <1>5, <1>6, <1>7

\* The instance that an instruction has executed last.
Own(a) == <<a, IF Block(program, a) = "BB0" THEN 0 ELSE lap>>

\* The cycles since then; 0 or less when it has not executed in this iteration.
Elapsed(a) ==
    IF Block(program, a) = "BB0" /\ lap > 0
    THEN (pc - row[a]) + (lap * ((row[Control] + 1) - begin))
    ELSE pc - row[a]

\* A register that a move has written, ever or in this iteration.
Overwritten(x) == \E m \in moves : m.to = x /\ (lap > 0 \/ m.row < pc)
Copied(x) == \E m \in moves : m.to = x /\ m.row < pc

\* An instruction that is read now starts to count.
LEMMA ElapsedIs ==
    ASSUME RunningInv, phase = "running", ~Endless, NEW a \in DOMAIN program.code
    PROVE  /\ Elapsed(a) \in Int /\ pc \in Nat /\ lap \in Nat /\ row[a] \in Nat
           /\ pc - row[a] <= Elapsed(a)
           /\ Elapsed(a) = 0 <=> a \in AtPc
           /\ a \in AtPc => Own(a) = <<a, lap>>
  <1>1. CompilerInv /\ MachineInv
    BY DEF RunningInv
  <1>2. /\ pc \in Nat /\ lap \in Nat /\ row[a] \in Nat /\ Compilable(program)
        /\ Block(program, a) \in {"BB0", "BB1", "BB2"}
    <2>1. pc \in 0 .. size /\ size \in Nat /\ row[a] \in Nat /\ lap \in Nat /\ Compilable(program)
      BY <1>1, RunningIs DEF MachineInv
    <2> QED
      BY <2>1, AddressesAre
  <1>3. lap > 0 => HasLoop(program) /\ begin <= pc
    <2>1. /\ HasLoop(program) /\ pc < begin => lap = 0
          /\ ~HasLoop(program) => lap = 0
      BY LapIs
    <2>2. HasLoop(program) => begin \in Nat
      BY <1>1, RowsAre
    <2> QED
      BY <1>2, <2>1, <2>2
  <1>4. CASE Block(program, a) = "BB0" /\ lap > 0
    <2>1. /\ begin \in Nat /\ row[Control] \in Nat /\ begin <= row[Control]
          /\ row[a] < begin /\ begin <= pc
      BY <1>1, <1>3, <1>4, RowsAre
    <2> DEFINE length == (row[Control] + 1) - begin
    <2>2. length \in Nat
      BY <2>1
    <2>3. lap * length \in Nat
      <3> HIDE DEF length
      <3> QED
        BY <1>2, <2>2
    <2>4. Elapsed(a) = (pc - row[a]) + (lap * length)
      BY <1>4 DEF Elapsed
    <2>5. a \notin AtPc
      BY <1>2, <2>1 DEF AtPc
    <2> HIDE DEF length
    <2> QED
      BY <1>2, <2>1, <2>3, <2>4, <2>5
  <1>5. CASE ~(Block(program, a) = "BB0" /\ lap > 0)
    <2>1. Elapsed(a) = pc - row[a]
      BY <1>5 DEF Elapsed
    <2>2. Own(a) = <<a, lap>>
      BY <1>2, <1>5 DEF Own
    <2> QED
      BY <1>2, <2>1, <2>2 DEF AtPc
  <1> QED
    BY <1>4, <1>5

\* In the next cycle it has gone one further; what has not been overwritten then is not
\* now.
LEMMA ElapsedStep ==
    ASSUME RunningInv, Run, ~Endless, pc < size, NEW a \in DOMAIN program.code
    PROVE  Elapsed(a)' >= 1 => Elapsed(a) = Elapsed(a)' - 1 /\ Own(a)' = Own(a)
  <1>1. CompilerInv /\ MachineInv /\ Lapping
    BY DEF RunningInv
  <1>2. /\ phase = "running" /\ Tick /\ UNCHANGED <<row, begin>>
        /\ row'[Control'] = row[Control]
        /\ \A b : Block(program, b)' = Block(program, b)
    BY RunKeeps
  <1>3. /\ pc \in Nat /\ lap \in Nat /\ row[a] \in Nat
        /\ Block(program, a) \in {"BB0", "BB1", "BB2"}
    <2>1. Compilable(program)
      BY <1>1, <1>2, RunningIs
    <2> QED
      BY <1>2, <2>1, ElapsedIs, AddressesAre
  <1>4. Elapsed(a)' = IF Block(program, a) = "BB0" /\ lap' > 0
                      THEN (pc' - row[a]) + (lap' * ((row[Control] + 1) - begin))
                      ELSE pc' - row[a]
    BY <1>2 DEF Elapsed
  <1>5. Own(a)' = <<a, IF Block(program, a) = "BB0" THEN 0 ELSE lap'>>
    BY <1>2 DEF Own
  <1>6. CASE GoesBack
    <2>1. HasLoop(program) /\ pc = row[Control] /\ pc' = begin /\ lap' = lap + 1
      BY <1>1, <1>2, <1>6, TickIs, RunLaps DEF GoesBack
    <2>2. /\ begin \in Nat /\ row[Control] \in Nat /\ begin <= row[Control]
          /\ Block(program, a) # "BB0" => begin <= row[a]
      BY <1>1, <1>2, <1>3, <2>1, RowsAre
    <2>3. CASE Block(program, a) = "BB0"
      <3> DEFINE length == (row[Control] + 1) - begin
      <3>1. length \in Nat
        BY <2>2
      <3>2. (lap + 1) * length = (lap * length) + length /\ lap * length \in Nat
        <4> HIDE DEF length
        <4> QED
          BY <1>3, <3>1
      <3>3. Elapsed(a)' = (begin - row[a]) + ((lap + 1) * length)
        BY <1>3, <1>4, <2>1, <2>3
      <3>4. Elapsed(a) = (pc - row[a]) + (lap * length)
        <4>1. CASE lap > 0
          BY <2>3, <4>1 DEF Elapsed
        <4>2. CASE lap = 0
          <5>1. lap * length = 0
            <6> HIDE DEF length
            <6> QED
              BY <3>1, <4>2
          <5>2. Elapsed(a) = pc - row[a]
            BY <4>2 DEF Elapsed
          <5> HIDE DEF length
          <5> QED
            BY <1>3, <5>1, <5>2
        <4> QED
          BY <1>3, <4>1, <4>2
      <3> DEFINE product == lap * length
      <3>5. Elapsed(a)' = (begin - row[a]) + (product + length)
        BY <3>2, <3>3
      <3>6. product \in Nat /\ Elapsed(a) = (pc - row[a]) + product
        BY <3>2, <3>4
      <3> HIDE DEF product
      <3>7. Elapsed(a) = Elapsed(a)' - 1
        BY <1>3, <2>1, <2>2, <3>5, <3>6
      <3> QED
        BY <1>5, <2>3, <3>7 DEF Own
    <2>4. CASE Block(program, a) # "BB0"
      BY <1>3, <1>4, <2>1, <2>2, <2>4
    <2> QED
      BY <2>3, <2>4
  <1>7. CASE ~GoesBack
    <2>1. pc' = pc + 1 /\ lap' = lap
      BY <1>1, <1>2, <1>7, TickIs
    <2>2. Own(a)' = Own(a)
      BY <1>5, <2>1 DEF Own
    <2>3. CASE Block(program, a) = "BB0" /\ lap > 0
      <3> DEFINE product == lap * ((row[Control] + 1) - begin)
      <3>1. Elapsed(a)' = ((pc + 1) - row[a]) + product /\ Elapsed(a) = (pc - row[a]) + product
        BY <1>4, <2>1, <2>3 DEF Elapsed
      <3>2. product \in Int
        <4>1. HasLoop(program)
          BY <1>1, <1>2, <1>3, <2>3, LapIs
        <4>2. begin \in Nat /\ row[Control] \in Nat
          BY <1>1, <1>2, <4>1, RowsAre
        <4> QED
          BY <1>3, <4>2
      <3> HIDE DEF product
      <3> QED
        BY <1>3, <2>2, <3>1, <3>2
    <2>4. CASE ~(Block(program, a) = "BB0" /\ lap > 0)
      <3>1. Elapsed(a)' = (pc + 1) - row[a] /\ Elapsed(a) = pc - row[a]
        BY <1>4, <2>1, <2>4 DEF Elapsed
      <3> QED
        BY <1>3, <2>2, <3>1
    <2> QED
      BY <2>3, <2>4
  <1> QED
    BY <1>6, <1>7

\* What has not been overwritten after a cycle was not before, and is not in it.
LEMMA OverwrittenStep ==
    ASSUME RunningInv, Run, ~Endless, pc < size, NEW x, ~Overwritten(x)'
    PROVE  ~Overwritten(x) /\ \A m \in MovesAtPc : m.to # x
  <1>1. CompilerInv /\ MachineInv /\ Lapping
    BY DEF RunningInv
  <1>2. /\ phase = "running" /\ Tick /\ UNCHANGED <<row, begin, moves>>
    BY RunKeeps
  <1>3. /\ pc \in Nat /\ lap \in Nat
        /\ \A m \in moves : HasLoop(program) /\ m.row \in Nat /\ m.row <= row[Control]
    <2>1. pc \in 0 .. size /\ lap \in Nat /\ size \in Nat
      BY <1>1, <1>2, RunningIs DEF MachineInv
    <2> QED
      BY <1>1, <1>2, <2>1, RunningIs
  <1>4. \A m \in moves : m.to = x => ~(lap' > 0 \/ m.row < pc')
    BY <1>2 DEF Overwritten
  <1>5. ASSUME NEW m \in moves, m.to = x PROVE ~(lap > 0 \/ m.row < pc \/ m.row = pc)
    <2>1. CASE GoesBack
      <3>1. lap' = lap + 1
        BY <1>1, <1>2, <2>1, RunLaps DEF GoesBack
      <3> QED
        BY <1>3, <1>4, <1>5, <3>1
    <2>2. CASE ~GoesBack
      <3>1. pc' = pc + 1 /\ lap' = lap
        BY <1>1, <1>2, <2>2, TickIs
      <3> QED
        BY <1>3, <1>4, <1>5, <3>1
    <2> QED
      BY <2>1, <2>2
  <1> QED
    BY <1>5 DEF Overwritten, MovesAtPc

-----------------------------------------------------------------------------
(* What the registers hold *)

\* Only products are in the multiplier, each where it should be by now.
Products ==
    /\ \A w \in multiplier[1] \cup multiplier[2] :
          \E a \in DOMAIN program.code : Code(a).unit = "Mult" /\ w[1] \in dst[a]
    /\ \A a \in DOMAIN program.code : \A x \in dst[a] :
          Code(a).unit = "Mult" =>
             /\ Elapsed(a) = 1 => Into(multiplier[1], x) = {Own(a)}
             /\ Elapsed(a) >= 2 => Into(multiplier[1], x) = {}
             /\ Elapsed(a) = 2 => Into(multiplier[2], x) = {Own(a)}
             /\ Elapsed(a) >= 3 => Into(multiplier[2], x) = {}

\* A result is in its register as soon as its latency is over, until it is moved over.
Settled ==
    \A a \in DOMAIN program.code : \A x \in dst[a] :
        Elapsed(a) >= Latency(Code(a)) /\ ~Overwritten(x) => registers[x] = Own(a)

\* What is carried over is of the iteration before until its move, and then of this one.
Brought ==
    \A m \in moves : \A p \in DOMAIN program.code :
        m.from \in dst[p] =>
            /\ Copied(m.to) => registers[m.to] = <<p, lap>>
            /\ ~Copied(m.to) /\ lap > 0 => registers[m.to] = <<p, lap - 1>>

\* A register that nothing has written holds what it held at first.
Untouched ==
    \A x \in Register :
        (\A a \in DOMAIN program.code : x \notin dst[a]) /\ ~Overwritten(x) =>
            registers[x] = Zero

\* All of this holds as long as there are bundles to read.
Contents == Products /\ Settled /\ Brought /\ Untouched

ValueInv == phase = "running" /\ pc < size /\ NamesApart /\ ~Endless => Contents

\* What the steps keep that the values depend on.
Grounds == RunningInv /\ RenamedInv

\* The count stays a number.
LEMMA ElapsedNext ==
    ASSUME RunningInv, Run, ~Endless, pc < size, NEW a \in DOMAIN program.code
    PROVE  Elapsed(a)' \in Int
  <1>1. CompilerInv /\ MachineInv /\ Lapping
    BY DEF RunningInv
  <1>2. /\ phase = "running" /\ Tick
        /\ \A b : Block(program, b)' = Block(program, b)
        /\ row' = row /\ begin' = begin /\ row'[Control'] = row[Control]
    BY RunKeeps
  <1>3. row[a] \in Nat /\ pc \in Nat /\ lap \in Nat
    BY <1>2, ElapsedIs
  <1>4. HasLoop(program) => begin \in Nat /\ row[Control] \in Nat
    BY <1>1, <1>2, RowsAre
  <1>5. ~HasLoop(program) => lap = 0
    BY <1>2, LapIs
  <1>6. GoesBack => HasLoop(program) /\ pc' = begin /\ lap' = lap + 1
    BY <1>1, <1>2, TickIs, RunLaps DEF GoesBack
  <1>7. ~GoesBack => pc' = pc + 1 /\ lap' = lap
    BY <1>1, <1>2, TickIs
  <1>8. pc' \in Int /\ lap' \in Nat /\ (lap' > 0 => begin \in Nat /\ row[Control] \in Nat)
    BY <1>3, <1>4, <1>5, <1>6, <1>7
  <1> QED
    BY <1>2, <1>3, <1>8 DEF Elapsed

\* Results have registers of their own.
LEMMA OneWriter ==
    ASSUME CompilerInv, phase = "running", NEW a \in DOMAIN program.code, NEW x \in dst[a],
           NEW b \in DOMAIN program.code, x \in dst[b]
    PROVE  a = b
  <1>1. Numbered
    BY DEF Numbered
  <1> QED
    BY <1>1 DEF CompilerInv, RenamingInv, Results

\* Of a result, nothing but the result itself is written to its register, when it has
\* not been moved over.
LEMMA StoredResult ==
    ASSUME Grounds, Contents, Run, NamesApart, ~Endless, pc < size,
           NEW a \in DOMAIN program.code, NEW x \in dst[a], \A m \in MovesAtPc : m.to # x
    PROVE  /\ Code(a).unit # "Mult" => Stored(x) = IF a \in AtPc THEN {<<a, lap>>} ELSE {}
           /\ Code(a).unit = "Mult" => Stored(x) = Into(multiplier[2], x)
  <1>1. CompilerInv /\ MachineInv /\ phase = "running"
    BY DEF Grounds, RunningInv, Run
  <1>2. {registers[m.from] : m \in {n \in MovesAtPc : n.to = x}} = {}
    OBVIOUS
  <1>3. \A b \in DOMAIN program.code : x \in dst[b] => b = a
    BY <1>1, OneWriter
  <1>4. {b \in AtPc : x \in dst[b] /\ Code(b).unit # "Mult"}
           = IF a \in AtPc /\ Code(a).unit # "Mult" THEN {a} ELSE {}
    BY <1>3 DEF AtPc
  <1>5. Code(a).unit # "Mult" => Into(multiplier[2], x) = {}
    BY <1>3 DEF Contents, Products, Into
  <1>6. Stored(x) = {<<b, lap>> : b \in {b \in AtPc : x \in dst[b] /\ Code(b).unit # "Mult"}}
                       \cup Into(multiplier[2], x)
    BY <1>2 DEF Stored
  <1> QED
    BY <1>4, <1>5, <1>6

\* Behind the first bundle of the loop, only moves write the registers that they write.
LEMMA StoredMove ==
    ASSUME Grounds, Contents, Run, NamesApart, ~Endless, pc < size, NEW m \in moves, begin <= pc
    PROVE  Stored(m.to) = {registers[n.from] : n \in {o \in MovesAtPc : o.to = m.to}}
  <1>1. CompilerInv /\ MachineInv /\ phase = "running" /\ RunningInv /\ RenamedInv
    BY DEF Grounds, RunningInv, Run
  <1>2. /\ HasLoop(program) /\ begin \in Nat
        /\ \A b \in DOMAIN program.code : Block(program, b) = "BB0" => row[b] < begin
    BY <1>1, RunningIs, RowsAre
  <1>3. \A b \in DOMAIN program.code : m.to \in dst[b] =>
           Block(program, b) = "BB0" /\ Ready(b) <= begin
    BY <1>1, MovesAre
  <1>4. ASSUME NEW b \in AtPc PROVE m.to \notin dst[b]
    <2>1. b \in DOMAIN program.code /\ row[b] = pc /\ row[b] \in Nat
      BY <1>1, RunningIs DEF AtPc
    <2> QED
      BY <1>2, <1>3, <2>1
  <1>5. Into(multiplier[2], m.to) = {}
    <2> SUFFICES ASSUME Into(multiplier[2], m.to) # {} PROVE FALSE
      OBVIOUS
    <2>1. PICK w \in multiplier[2] : w[1] = m.to
      BY DEF Into
    <2>2. PICK b \in DOMAIN program.code : Code(b).unit = "Mult" /\ m.to \in dst[b]
      BY <2>1 DEF Contents, Products
    <2>3. Ready(b) = row[b] + 3 /\ row[b] \in Nat
      BY <1>1, <2>2, RunningIs DEF Ready, Latency
    <2>4. pc - row[b] <= Elapsed(b) /\ Elapsed(b) \in Int /\ pc \in Nat
      BY <1>1, ElapsedIs
    <2>5. Ready(b) <= begin
      BY <1>3, <2>2
    <2>6. Elapsed(b) >= 3
      BY <1>2, <2>3, <2>4, <2>5
    <2> QED
      BY <2>2, <2>6 DEF Contents, Products
  <1> QED
    BY <1>4, <1>5 DEF Stored

\* What a cycle of these changes.
LEMMA RunGrounds ==
    ASSUME Grounds, Run, ~Endless, pc < size
    PROVE  /\ CompilerInv /\ MachineInv /\ Lapping /\ RunningInv /\ RenamedInv
           /\ phase = "running" /\ Tick /\ UNCHANGED <<program, row, begin, dst, src, moves>>
           /\ \A a : Code(a)' = Code(a)
           /\ multiplier' = <<Writes("Mult"), multiplier[1]>>
           /\ multiplier'[1] = Writes("Mult") /\ multiplier'[2] = multiplier[1]
           /\ GoesBack => HasLoop(program) /\ pc = row[Control] /\ pc' = begin /\ lap' = lap + 1
           /\ ~GoesBack => pc' = pc + 1 /\ lap' = lap
           /\ pc \in Nat /\ lap \in Nat
           /\ \A a \in DOMAIN program.code : dst[a] \subseteq Register
  <1>1. CompilerInv /\ MachineInv /\ Lapping /\ RunningInv /\ RenamedInv
    BY DEF Grounds, RunningInv
  <1>2. /\ phase = "running" /\ Tick /\ UNCHANGED <<program, row, begin, dst, src, moves>>
        /\ \A a : Code(a)' = Code(a)
    BY RunKeeps
  <1>3. multiplier' = <<Writes("Mult"), multiplier[1]>>
    BY <1>1, <1>2, TickIs
  <1>4. GoesBack => HasLoop(program) /\ pc = row[Control] /\ pc' = begin /\ lap' = lap + 1
    BY <1>1, <1>2, TickIs, RunLaps DEF GoesBack
  <1>5. ~GoesBack => pc' = pc + 1 /\ lap' = lap
    BY <1>1, <1>2, TickIs
  <1>6. /\ pc \in 0 .. size /\ size \in Nat /\ lap \in Nat
        /\ \A a \in DOMAIN program.code : dst[a] \subseteq Register
    BY <1>1, <1>2, RunningIs DEF MachineInv
  <1> QED
    BY <1>1, <1>2, <1>3, <1>4, <1>5, <1>6

\* Products go through the multiplier.
LEMMA ProductsStep ==
    ASSUME Grounds, Contents, Run, NamesApart, ~Endless, pc < size
    PROVE  Products'
  <1>1. /\ CompilerInv /\ MachineInv /\ RunningInv /\ phase = "running" /\ Tick
        /\ UNCHANGED <<program, dst>> /\ \A a : Code(a)' = Code(a)
        /\ multiplier'[1] = Writes("Mult") /\ multiplier'[2] = multiplier[1]
        /\ \A a \in DOMAIN program.code : dst[a] \subseteq Register
    BY RunGrounds
  <1>2. ASSUME NEW w \in Writes("Mult")
        PROVE  \E a \in AtPc : Code(a).unit = "Mult" /\ w[1] \in dst[a] /\ w[2] = <<a, lap>>
    <2>1. PICK x \in Register : TRUE
      BY RegistersAre
    <2> QED
      BY <1>1, StoredIs
  <1>3. ASSUME NEW a \in AtPc, Code(a).unit = "Mult", NEW x \in dst[a]
        PROVE  <<x, <<a, lap>>>> \in Writes("Mult")
    <2>1. x \in Register
      BY <1>1 DEF AtPc
    <2> QED
      BY <1>1, <1>3, <2>1, StoredIs
  <1>4. ASSUME NEW w \in Writes("Mult") \cup multiplier[1]
        PROVE  \E a \in DOMAIN program.code : Code(a).unit = "Mult" /\ w[1] \in dst[a]
    BY <1>2 DEF Contents, Products, AtPc
  <1>5. ASSUME NEW a \in DOMAIN program.code, NEW x \in dst[a], Code(a).unit = "Mult"
        PROVE  /\ Elapsed(a)' = 1 => Into(Writes("Mult"), x) = {Own(a)'}
               /\ Elapsed(a)' >= 2 => Into(Writes("Mult"), x) = {}
               /\ Elapsed(a)' = 2 => Into(multiplier[1], x) = {Own(a)'}
               /\ Elapsed(a)' >= 3 => Into(multiplier[1], x) = {}
    <2>1. /\ Elapsed(a) \in Int
          /\ Elapsed(a) = 0 <=> a \in AtPc
          /\ a \in AtPc => Own(a) = <<a, lap>>
      BY <1>1, ElapsedIs
    <2>2. /\ Elapsed(a)' >= 1 => Elapsed(a) = Elapsed(a)' - 1 /\ Own(a)' = Own(a)
          /\ Elapsed(a)' \in Int
      <3>1. Elapsed(a)' >= 1 => Elapsed(a) = Elapsed(a)' - 1 /\ Own(a)' = Own(a)
        BY <1>1, ElapsedStep
      <3>2. Elapsed(a)' \in Int
        BY <1>1, ElapsedNext
      <3> QED
        BY <3>1, <3>2
    <2>3. ASSUME NEW v \in Into(Writes("Mult"), x) PROVE a \in AtPc /\ v = <<a, lap>>
      <3>1. PICK w \in Writes("Mult") : w[1] = x /\ w[2] = v
        BY DEF Into
      <3>2. PICK b \in AtPc : x \in dst[b] /\ v = <<b, lap>>
        BY <1>2, <3>1
      <3>3. b \in DOMAIN program.code
        BY <3>2 DEF AtPc
      <3> QED
        BY <1>1, <3>2, <3>3, OneWriter
    <2>4. ASSUME a \in AtPc PROVE <<a, lap>> \in Into(Writes("Mult"), x)
      <3>1. <<x, <<a, lap>>>> \in Writes("Mult")
        BY <1>3, <1>5, <2>4
      <3> DEFINE w == <<x, <<a, lap>>>>
      <3>2. w \in Writes("Mult") /\ w[1] = x /\ w[2] = <<a, lap>>
        BY <3>1
      <3> HIDE DEF w
      <3> QED
        BY <3>2 DEF Into
    <2>5. Elapsed(a)' = 1 => Into(Writes("Mult"), x) = {Own(a)'}
      <3> SUFFICES ASSUME Elapsed(a)' = 1 PROVE Into(Writes("Mult"), x) = {Own(a)'}
        OBVIOUS
      <3>1. Elapsed(a) = 0
        BY <2>2
      <3>2. a \in AtPc /\ Own(a)' = <<a, lap>>
        BY <2>1, <2>2, <3>1
      <3> QED
        BY <2>3, <2>4, <3>2
    <2>6. Elapsed(a)' >= 2 => Into(Writes("Mult"), x) = {}
      <3> SUFFICES ASSUME Elapsed(a)' >= 2 PROVE Into(Writes("Mult"), x) = {}
        OBVIOUS
      <3>1. a \notin AtPc
        BY <2>1, <2>2
      <3> QED
        BY <2>3, <3>1
    <2>7. /\ Elapsed(a) = 1 => Into(multiplier[1], x) = {Own(a)}
          /\ Elapsed(a) >= 2 => Into(multiplier[1], x) = {}
      BY <1>5 DEF Contents, Products
    <2>8. Elapsed(a)' = 2 => Into(multiplier[1], x) = {Own(a)'}
      BY <2>2, <2>7
    <2>9. Elapsed(a)' >= 3 => Into(multiplier[1], x) = {}
      BY <2>1, <2>2, <2>7
    <2> QED
      BY <2>5, <2>6, <2>8, <2>9
  <1>6. \A x : /\ Into(multiplier[1], x)' = Into(multiplier'[1], x)
               /\ Into(multiplier[2], x)' = Into(multiplier'[2], x)
    BY DEF Into
  <1> QED
    BY <1>1, <1>4, <1>5, <1>6 DEF Products

\* Results reach their registers when their latency is over, and stay there.
LEMMA SettledStep ==
    ASSUME Grounds, Contents, Run, NamesApart, ~Endless, pc < size
    PROVE  Settled'
  <1>1. /\ CompilerInv /\ MachineInv /\ RunningInv /\ phase = "running" /\ Tick
        /\ UNCHANGED <<program, dst>> /\ \A a : Code(a)' = Code(a)
        /\ \A a \in DOMAIN program.code : dst[a] \subseteq Register
    BY RunGrounds
  <1>2. ASSUME NEW a \in DOMAIN program.code, NEW x \in dst[a],
               Elapsed(a)' >= Latency(Code(a)), ~Overwritten(x)'
        PROVE  registers'[x] = Own(a)'
    <2>1. /\ Elapsed(a) \in Int
          /\ Elapsed(a) = 0 <=> a \in AtPc
          /\ a \in AtPc => Own(a) = <<a, lap>>
      BY <1>1, ElapsedIs
    <2>2. ~Overwritten(x) /\ \A m \in MovesAtPc : m.to # x
      BY <1>1, <1>2, OverwrittenStep
    <2>3. /\ x \in Register
          /\ Stored(x) = {} => registers'[x] = registers[x]
          /\ \A v : Stored(x) = {v} => registers'[x] = v
      BY <1>1, StoredIs
    <2>4. Latency(Code(a)) = IF Code(a).unit = "Mult" THEN 3 ELSE 1
      BY DEF Latency
    <2>5. Elapsed(a)' >= 1 => Elapsed(a) = Elapsed(a)' - 1 /\ Own(a)' = Own(a)
      BY <1>1, ElapsedStep
    <2>6. Elapsed(a)' >= 1 /\ Elapsed(a) >= Latency(Code(a)) - 1 /\ Own(a)' = Own(a)
      <3>1. Elapsed(a)' \in Int
        BY <1>1, ElapsedNext
      <3> QED
        BY <1>2, <2>4, <2>5, <3>1
    <2>7. Elapsed(a) >= Latency(Code(a)) => registers[x] = Own(a)
      BY <2>2 DEF Contents, Settled
    <2>8. CASE Code(a).unit # "Mult"
      <3>1. Stored(x) = IF a \in AtPc THEN {<<a, lap>>} ELSE {}
        BY <2>2, <2>8, StoredResult
      <3>2. CASE a \in AtPc
        BY <2>1, <2>3, <2>6, <3>1, <3>2
      <3>3. CASE a \notin AtPc
        <4>1. Elapsed(a) >= Latency(Code(a))
          BY <2>1, <2>4, <2>6, <2>8, <3>3
        <4> QED
          BY <2>3, <2>6, <2>7, <3>1, <3>3, <4>1
      <3> QED
        BY <3>2, <3>3
    <2>9. CASE Code(a).unit = "Mult"
      <3>1. Stored(x) = Into(multiplier[2], x)
        BY <2>2, <2>9, StoredResult
      <3>2. /\ Elapsed(a) = 2 => Into(multiplier[2], x) = {Own(a)}
            /\ Elapsed(a) >= 3 => Into(multiplier[2], x) = {}
        BY <2>9 DEF Contents, Products
      <3>3. CASE Elapsed(a) = 2
        BY <2>3, <2>6, <3>1, <3>2, <3>3
      <3>4. CASE Elapsed(a) >= 3
        BY <2>3, <2>4, <2>6, <2>7, <2>9, <3>1, <3>2, <3>4
      <3> QED
        BY <2>1, <2>4, <2>6, <2>9, <3>3, <3>4
    <2> QED
      BY <2>8, <2>9
  <1>3. \A a : Latency(Code(a))' = Latency(Code(a))
    BY <1>1 DEF Latency
  <1> QED
    BY <1>1, <1>2, <1>3 DEF Settled

\* A move brings its value in time, and it stays until the next iteration has read it.
LEMMA BroughtStep ==
    ASSUME Grounds, Contents, Run, NamesApart, ~Endless, pc < size
    PROVE  Brought'
  <1>1. /\ CompilerInv /\ MachineInv /\ RunningInv /\ RenamedInv /\ phase = "running" /\ Tick
        /\ UNCHANGED <<program, dst, moves>>
        /\ GoesBack => HasLoop(program) /\ pc = row[Control] /\ pc' = begin /\ lap' = lap + 1
        /\ ~GoesBack => pc' = pc + 1 /\ lap' = lap
        /\ pc \in Nat /\ lap \in Nat
    BY RunGrounds
  <1>2. ASSUME NEW m \in moves, NEW p \in DOMAIN program.code, m.from \in dst[p]
        PROVE  /\ Copied(m.to)' => registers'[m.to] = <<p, lap'>>
               /\ ~Copied(m.to)' /\ lap' > 0 => registers'[m.to] = <<p, lap' - 1>>
    <2>1. /\ HasLoop(program) /\ m.to \in Register /\ begin \in Nat /\ row[Control] \in Nat
          /\ \A n \in moves : n.row \in Nat /\ begin <= n.row /\ n.row <= row[Control]
      BY <1>1, RunningIs, RowsAre
    <2>2. /\ Stored(m.to) = {} => registers'[m.to] = registers[m.to]
          /\ \A v : Stored(m.to) = {v} => registers'[m.to] = v
      BY <1>1, <2>1, StoredIs
    <2>3. begin <= pc => Stored(m.to) = {registers[n.from] : n \in {o \in MovesAtPc : o.to = m.to}}
      BY StoredMove
    <2>4. /\ Copied(m.to) => registers[m.to] = <<p, lap>>
          /\ ~Copied(m.to) /\ lap > 0 => registers[m.to] = <<p, lap - 1>>
      BY <1>2 DEF Contents, Brought
    <2>5. Copied(m.to)' <=> \E n \in moves : n.to = m.to /\ n.row < pc'
      BY <1>1 DEF Copied
    <2>6. ASSUME NEW n \in MovesAtPc, n.to = m.to
          PROVE  registers'[m.to] = <<p, lap>> /\ begin <= pc
      <3>1. n \in moves /\ n.row = pc /\ begin <= pc
        BY <2>1 DEF MovesAtPc
      <3>2. \A o \in moves : o.to = m.to => o.from = m.from
        BY <1>1, MovesAre
      <3>3. PICK q \in Body : q \in DOMAIN program.code /\ dst[q] = {n.from} /\ Ready(q) <= n.row
        BY <1>1, <3>1, MovesAre
      <3>4. n.from = m.from
        BY <2>6, <3>1, <3>2
      <3>5. q = p
        BY <1>1, <1>2, <3>3, <3>4, OneWriter
      <3>6. Block(program, p) = "BB1"
        BY <3>3, <3>5 DEF Body, InBlock
      <3>7. ~Overwritten(m.from)
        <4>1. \A o \in moves : o.to \in dst[p] => Block(program, p) = "BB0"
          BY <1>1, <1>2, MovesAre
        <4> QED
          BY <1>2, <3>6, <4>1 DEF Overwritten
      <3>8. Elapsed(p) >= Latency(Code(p))
        <4>1. row[p] + Latency(Code(p)) <= pc
          BY <3>1, <3>3, <3>5 DEF Ready
        <4>2. /\ Elapsed(p) \in Int /\ row[p] \in Nat /\ pc - row[p] <= Elapsed(p)
          BY <1>1, ElapsedIs
        <4>3. Latency(Code(p)) \in Nat
          BY DEF Latency
        <4> QED
          BY <1>1, <4>1, <4>2, <4>3
      <3>9. registers[m.from] = <<p, lap>>
        <4>1. registers[m.from] = Own(p)
          BY <1>2, <3>7, <3>8 DEF Contents, Settled
        <4> QED
          BY <3>6, <4>1 DEF Own
      <3>10. Stored(m.to) = {<<p, lap>>}
        <4>1. \A o \in {o \in MovesAtPc : o.to = m.to} : o.from = m.from
          BY <3>2 DEF MovesAtPc
        <4>2. n \in {o \in MovesAtPc : o.to = m.to}
          BY <2>6
        <4>3. Stored(m.to) = {registers[o.from] : o \in {o \in MovesAtPc : o.to = m.to}}
          BY <2>3, <3>1
        <4> QED
          BY <3>9, <4>1, <4>2, <4>3
      <3> QED
        BY <2>2, <3>1, <3>10
    <2>7. ASSUME \A n \in MovesAtPc : n.to # m.to, begin <= pc
          PROVE  registers'[m.to] = registers[m.to]
      <3>1. Stored(m.to) = {}
        BY <2>3, <2>7
      <3> QED
        BY <2>2, <3>1
    <2>8. CASE GoesBack
      <3>1. pc = row[Control] /\ pc' = begin /\ lap' = lap + 1 /\ begin <= pc
        BY <1>1, <2>1, <2>8
      <3>2. ~Copied(m.to)'
        BY <2>1, <2>5, <3>1
      <3>3. registers'[m.to] = <<p, lap>>
        <4>1. CASE \E n \in MovesAtPc : n.to = m.to
          BY <2>6, <4>1
        <4>2. CASE \A n \in MovesAtPc : n.to # m.to
          <5>1. m.row # pc
            BY <4>2 DEF MovesAtPc
          <5>2. m.row < pc
            BY <1>1, <2>1, <3>1, <5>1
          <5>3. Copied(m.to)
            BY <5>2 DEF Copied
          <5> QED
            BY <2>4, <2>7, <3>1, <4>2, <5>3
        <4> QED
          BY <4>1, <4>2
      <3>4. lap' - 1 = lap
        BY <1>1, <3>1
      <3> QED
        BY <3>2, <3>3, <3>4
    <2>9. CASE ~GoesBack
      <3>1. pc' = pc + 1 /\ lap' = lap
        BY <1>1, <2>9
      <3>2. CASE \E n \in MovesAtPc : n.to = m.to
        <4>1. Copied(m.to)'
          BY <1>1, <2>5, <3>1, <3>2 DEF MovesAtPc
        <4> QED
          BY <2>6, <3>1, <3>2, <4>1
      <3>3. CASE \A n \in MovesAtPc : n.to # m.to
        <4>1. Copied(m.to)' <=> Copied(m.to)
          <5>1. \A n \in moves : n.to = m.to => n.row # pc /\ n.row \in Nat
            BY <2>1, <3>3 DEF MovesAtPc
          <5>2. \A n \in moves : n.to = m.to => (n.row < pc + 1 <=> n.row < pc)
            BY <1>1, <5>1
          <5> QED
            BY <2>5, <3>1, <5>2 DEF Copied
        <4>2. Copied(m.to) \/ lap > 0 => begin <= pc
          <5>1. Copied(m.to) => begin <= pc
            BY <1>1, <2>1 DEF Copied
          <5>2. lap > 0 => ~(pc < begin)
            BY <1>1, <2>1, LapIs
          <5> QED
            BY <1>1, <2>1, <5>1, <5>2
        <4> QED
          BY <2>4, <2>7, <3>1, <3>3, <4>1, <4>2
      <3> QED
        BY <3>2, <3>3
    <2> QED
      BY <2>8, <2>9
  <1> QED
    BY <1>1, <1>2 DEF Brought

\* Nothing writes the registers of starting values.
LEMMA UntouchedStep ==
    ASSUME Grounds, Contents, Run, NamesApart, ~Endless, pc < size
    PROVE  Untouched'
  <1>1. /\ CompilerInv /\ MachineInv /\ RunningInv /\ phase = "running" /\ Tick
        /\ UNCHANGED <<program, dst>>
    BY RunGrounds
  <1>2. ASSUME NEW x \in Register, \A a \in DOMAIN program.code : x \notin dst[a],
               ~Overwritten(x)'
        PROVE  registers'[x] = Zero
    <2>1. ~Overwritten(x) /\ \A m \in MovesAtPc : m.to # x
      BY <1>1, <1>2, OverwrittenStep
    <2>2. Into(multiplier[2], x) = {}
      BY <1>2 DEF Contents, Products, Into
    <2>3. Stored(x) = {}
      BY <1>2, <2>1, <2>2 DEF Stored, AtPc
    <2>4. Stored(x) = {} => registers'[x] = registers[x]
      BY <1>1, StoredIs
    <2> QED
      BY <1>2, <2>1, <2>3, <2>4 DEF Contents, Untouched
  <1> QED
    BY <1>1, <1>2 DEF Untouched

\* When the bundles are loaded, there are no values yet.
LEMMA LoadValues ==
    ASSUME CompilerInv, MachineInv, Load
    PROVE  Contents'
  <1>1. /\ phase = "renamed" /\ UNCHANGED <<program, row, moves, dst>>
        /\ MachineInit(<<>>) /\ UNCHANGED <<pc, lap, registers, multiplier>>
    BY DEF Load, MachineInv, renamingVars
  <1>2. /\ pc' = 0 /\ lap' = 0 /\ multiplier'[1] = {} /\ multiplier'[2] = {}
        /\ registers' = [r \in Register |-> Zero]
    BY <1>1 DEF MachineInit
  <1>3. /\ \A a \in DOMAIN program.code : row[a] \in Nat /\ dst[a] \subseteq Register
        /\ \A m \in moves : m.row \in Nat
    BY <1>1, RunningIs
  <1>4. \A a : Code(a)' = Code(a)
    BY <1>1, ProgramKept
  <1>5. \A a \in DOMAIN program.code : Elapsed(a)' = 0 - row[a]
    BY <1>1, <1>2, <1>3 DEF Elapsed
  <1>6. \A x : Into(multiplier[1], x)' = {} /\ Into(multiplier[2], x)' = {}
    BY <1>2 DEF Into
  <1>7. Products'
    <2>1. \A a \in DOMAIN program.code : ~(Elapsed(a)' = 1) /\ ~(Elapsed(a)' = 2)
      BY <1>3, <1>5
    <2> QED
      BY <1>1, <1>2, <1>6, <2>1 DEF Products
  <1>8. Settled'
    <2>1. \A a \in DOMAIN program.code : ~(Elapsed(a)' >= Latency(Code(a))')
      BY <1>3, <1>4, <1>5 DEF Latency
    <2> QED
      BY <1>1, <2>1 DEF Settled
  <1>9. Brought'
    <2>1. \A x : ~Copied(x)'
      BY <1>1, <1>2, <1>3 DEF Copied
    <2> QED
      BY <1>1, <1>2, <2>1 DEF Brought
  <1>10. Untouched'
    BY <1>2 DEF Untouched
  <1> QED
    BY <1>7, <1>8, <1>9, <1>10 DEF Contents

\* Every step keeps what the registers hold.
LEMMA ValueStep ==
    ASSUME Grounds, ValueInv, [Next]_vars
    PROVE  ValueInv'
  <1>1. CompilerInv /\ MachineInv
    BY DEF Grounds, RunningInv
  <1>2. CASE Schedule
    <2>1. phase' # "running"
      BY <1>2 DEF Schedule, ScheduleNext, Parse, ParseError, PlaceInstruction, FinishBB0,
                  FinishStraightLine, FinishBB1, NothingBeforeLoop, FinishBB2
    <2> QED
      BY <2>1 DEF ValueInv
  <1>3. CASE Rename
    <2>1. phase' # "running"
      BY <1>3 DEF Rename, RenameNext, RenameProduced, TooManyResults, RenameOperand,
                  OperandsDone, RenameStarting, TooManyRegisters, StartingDone, InsertMove,
                  SkipMove, MovesDone, renamingVars
    <2> QED
      BY <2>1 DEF ValueInv
  <1>4. CASE Load
    BY <1>1, <1>4, LoadValues DEF ValueInv
  <1>5. CASE Run
    <2> SUFFICES ASSUME pc' < size', NamesApart', ~Endless' PROVE Contents'
      BY DEF ValueInv
    <2>1. /\ phase = "running" /\ Tick /\ UNCHANGED <<size, row, dst, src>> /\ Endless' = Endless
      BY <1>5, RunKeeps
    <2>2. NamesApart /\ ~Endless
      BY <2>1 DEF NamesApart
    <2>3. pc < size
      <3>1. pc \in 0 .. size /\ size \in Nat
        BY <1>1, <2>1, RunningIs DEF MachineInv
      <3>2. GoesBack => pc < size
        <4>1. HasLoop(program) => row[Control] < size
          BY <1>1, <2>1, RowsAre
        <4> QED
          BY <4>1 DEF GoesBack
      <3>3. ~GoesBack => pc' = IF pc < size THEN pc + 1 ELSE pc
        BY <1>1, <2>1, TickIs
      <3> QED
        BY <2>1, <3>1, <3>2, <3>3
    <2>4. Contents
      BY <2>1, <2>2, <2>3 DEF ValueInv
    <2> QED
      BY <1>5, <2>2, <2>3, <2>4, ProductsStep, SettledStep, BroughtStep, UntouchedStep DEF Contents
  <1>6. CASE UNCHANGED vars
    <2>1. /\ UNCHANGED <<program, row, begin, dst, src, moves, size, phase>>
          /\ UNCHANGED <<pc, lap, registers, multiplier>>
          /\ \A a : Code(a)' = Code(a)
          /\ \A a : Block(program, a)' = Block(program, a)
          /\ \A b : InBlock(program, b)' = InBlock(program, b)
          /\ Control' = Control /\ HasLoop(program)' = HasLoop(program)
      BY <1>6, ProgramKept DEF vars, schedulerVars, renamingVars, machineVars
    <2>2. Endless' = Endless /\ NamesApart' = NamesApart
      BY <2>1 DEF Endless, NamesApart
    <2>3. /\ \A a : Elapsed(a)' = Elapsed(a) /\ Own(a)' = Own(a)
          /\ \A x : Overwritten(x)' = Overwritten(x) /\ Copied(x)' = Copied(x)
          /\ \A x : /\ Into(multiplier[1], x)' = Into(multiplier[1], x)
                    /\ Into(multiplier[2], x)' = Into(multiplier[2], x)
          /\ \A a : Latency(Code(a))' = Latency(Code(a))
      BY <2>1 DEF Elapsed, Own, Overwritten, Copied, Into, Latency
    <2>4. Products => Products'
      BY <2>1, <2>3 DEF Products
    <2>5. Settled => Settled'
      BY <2>1, <2>3 DEF Settled
    <2>6. Brought => Brought'
      BY <2>1, <2>3 DEF Brought
    <2>7. Untouched => Untouched'
      BY <2>1, <2>3 DEF Untouched
    <2> QED
      BY <2>1, <2>2, <2>4, <2>5, <2>6, <2>7 DEF ValueInv, Contents
  <1> QED
    BY <1>2, <1>3, <1>4, <1>5, <1>6 DEF Next

\* The registers are right in every state.
LEMMA ValueIs == Spec => []ValueInv
  <1>1. Init => ValueInv
    BY DEF Init, SchedulerInit, ValueInv
  <1>2. RunningInv /\ RenamedInv /\ ValueInv /\ [Next]_vars => ValueInv'
    BY ValueStep DEF Grounds
  <1> QED
    BY <1>1, <1>2, RunningInvIs, RenamedIs, PTL DEF Spec

\* What BB2 reads of BB0 is there.  The schedule does not see to it: a loop that runs
\* once may be shorter than a product takes.
InvariantsInTime ==
    phase = "running" =>
        \A a \in InBlock(program, "BB2") : \A d \in InvariantDependencies(program, a) :
            Ready(d.producer) <= row[a] \/ Times >= 2

\* An operand holds what its instance should read.
LEMMA OperandHolds ==
    ASSUME Grounds, Contents, phase = "running", NamesApart, ~Endless, InvariantsInTime,
           NEW a \in AtPc, NEW k \in DOMAIN Code(a).src
    PROVE  registers[src[a][k].reg] = Meant(a, k)
  <1> DEFINE x == InstanceAt(a, lap)
             r == Code(a).src[k]
             n == src[a][k].reg
             inner == BlockProducer(program, "BB1", r)
             outer == BlockProducer(program, "BB0", r)
             from == Reaching(program, Times, x, r)
  <1>1. /\ CompilerInv /\ MachineInv /\ RunningInv /\ RenamedInv /\ ScheduleInv /\ RenamingInv
        /\ Compilable(program) /\ Working /\ Finished
        /\ program \in Program /\ Tables /\ Numbered /\ Moving /\ carried = {}
    <2>1. CompilerInv /\ MachineInv /\ RunningInv /\ RenamedInv /\ ScheduleInv /\ RenamingInv
      BY DEF Grounds, RunningInv, CompilerInv
    <2>2. Compilable(program) /\ Working /\ Finished
      BY <2>1, RunningIs DEF Working, Finished
    <2>3. program \in Program
      BY <2>2 DEF Compilable
    <2> QED
      BY <2>1, <2>2, <2>3, TablesAre
  <1>2. /\ x[1] = a /\ x[2] = IF Block(program, a) = "BB1" THEN lap ELSE 0
        /\ a \in DOMAIN program.code /\ row[a] = pc /\ row[a] \in Nat
        /\ Block(program, a) \in {"BB0", "BB1", "BB2"}
        /\ Block(program, a) # "BB0" => HasLoop(program)
    <2>1. a \in DOMAIN program.code /\ row[a] = pc
      BY DEF AtPc
    <2> QED
      BY <1>1, <2>1, AddressesAre, RunningIs DEF InstanceAt
  <1>3. r \in Reads(program.code[a]) /\ DOMAIN src[a] = DOMAIN Code(a).src
    BY <1>1, <1>2, RunningIs DEF Reads, Code
  <1>4. /\ lap \in Nat /\ lap <= Times - 1 /\ Times \in Nat \ {0}
        /\ HasLoop(program) /\ row[Control] < pc => lap = Times - 1
        /\ HasLoop(program) /\ pc < begin => lap = 0
        /\ ~HasLoop(program) => lap = 0
    BY <1>1, LapIs, TimesIs
  <1>5. x \in Instances(program, Times)
    <2> DEFINE i == IF Block(program, a) = "BB1" THEN lap ELSE 0
    <2>1. i \in Nat /\ i <= Times - 1 /\ (Block(program, a) # "BB1" => i = 0)
      BY <1>4
    <2> HIDE DEF i
    <2>2. <<a, i>> \in Instances(program, Times)
      BY <1>2, <1>4, <2>1, InstanceMade
    <2> QED
      BY <2>2 DEF i, InstanceAt
  <1>6. from = PredictedCase(program, Times, x, r)
    BY <1>1, <1>2, <1>3, <1>4, <1>5, CaseReaches
  <1>7. /\ from = {} => Meant(a, k) = Zero
        /\ \A y : from = {y} => Meant(a, k) = Value(y)
    <2>1. \A y : TheElement({y}) = y
      BY DEF TheElement
    <2> QED
      BY <2>1 DEF Meant
  <1>8. \A b \in DOMAIN program.code :
           /\ row[b] \in Nat /\ Elapsed(b) \in Int /\ pc - row[b] <= Elapsed(b)
           /\ Latency(Code(b)) \in Nat /\ Ready(b) = row[b] + Latency(Code(b))
    BY <1>1, <1>2, ElapsedIs DEF Ready, Latency
  <1>9. HasLoop(program) =>
           /\ begin \in Nat /\ row[Control] \in Nat /\ begin <= row[Control]
           /\ \A b \in DOMAIN program.code :
                 /\ Block(program, b) = "BB0" => row[b] < begin
                 /\ Block(program, b) = "BB1" => begin <= row[b] /\ row[b] <= row[Control]
                 /\ Block(program, b) = "BB2" => row[Control] < row[b]
    BY <1>1, RowsAre
  <1>10. /\ inner # 0 => inner \in DOMAIN program.code /\ Block(program, inner) = "BB1"
         /\ outer # 0 => outer \in DOMAIN program.code /\ Block(program, outer) = "BB0"
    BY <1>1, BlockProducerIs DEF InBlock
  <1>11. /\ Follows(a, k) /\ n \in Register
         /\ \A m \in moves : HasLoop(program) /\ begin <= m.row /\ m.row \in Nat
    <2>1. Follows(a, k) /\ n \in Register
      BY <1>1, <1>2, <1>3 DEF Tables, OperandsFollow, RenamingInv, RenamingTypes, Operands
    <2> QED
      BY <1>1, <2>1, RunningIs
  <1>12. ASSUME NEW p \in DOMAIN program.code, dst[p] = {n}, ~Overwritten(n),
                Ready(p) <= pc \/ Elapsed(p) >= 3
         PROVE  registers[n] = Own(p)
    <2>1. Latency(Code(p)) <= 3
      BY DEF Latency
    <2>2. Elapsed(p) >= Latency(Code(p))
      BY <1>2, <1>8, <1>12, <2>1
    <2> QED
      BY <1>12, <2>2 DEF Contents, Settled
  <1>13. ASSUME \A b \in DOMAIN program.code : n \notin dst[b], ~Overwritten(n)
         PROVE  registers[n] = Zero
    BY <1>11, <1>13 DEF Contents, Untouched
  <1>14. CASE r \notin Incoming(program, a)
    <2> DEFINE w == LocalProducer(program, a, r)
               d == Dependency(r, w, 0)
    <2>1. d \in LocalDependencies(program, a) /\ d.producer = w
      BY <1>3, <1>14 DEF LocalDependencies, Dependency
    <2>2. w \in DOMAIN program.code /\ Block(program, w) = Block(program, a)
      BY <1>1, <1>2, <2>1, ProducersAre
    <2>3. Ready(w) <= pc
      <3>1. a \in AllPlaced
        BY <1>1, <1>2 DEF ScheduleInv, Progress
      <3> QED
        BY <1>1, <1>2, <2>1, <3>1 DEF ScheduleInv, OperandsTimed
    <2>4. dst[w] = {n}
      <3>1. Provider(a, r) = w /\ w # 0
        <4>1. w # 0
          BY <1>3, <1>14 DEF Incoming
        <4> QED
          BY <1>14, <4>1 DEF Provider
      <3> QED
        BY <1>11, <3>1 DEF Follows
    <2>5. ~Overwritten(n)
      <3> SUFFICES ASSUME NEW m \in moves, m.to = n, lap > 0 \/ m.row < pc PROVE FALSE
        BY DEF Overwritten
      <3>1. Block(program, w) = "BB0"
        BY <1>1, <2>2, <2>4, MovesAre
      <3>2. pc < begin
        BY <1>2, <1>9, <1>11, <2>2, <3>1
      <3> QED
        BY <1>2, <1>4, <1>9, <1>11, <3>2
    <2>6. registers[n] = Own(w)
      BY <1>12, <2>2, <2>3, <2>4, <2>5
    <2>7. from = {<<w, x[2]>>}
      BY <1>2, <1>6, <1>14 DEF PredictedCase
    <2>8. Value(<<w, x[2]>>) = Own(w)
      BY <1>2, <2>2 DEF Value, Own
    <2> HIDE DEF w, from
    <2> QED
      BY <1>7, <2>6, <2>7, <2>8
  <1>15. CASE r \in Incoming(program, a) /\ Block(program, a) = "BB1" /\ inner # 0
    <2> DEFINE d == Dependency(r, outer, inner)
    <2>1. /\ d \in InterloopDependencies(program, a)
          /\ d.reg = r /\ d.producer = outer /\ d.previous = inner
      BY <1>15 DEF InterloopDependencies, Dependency
    <2>2. a \in Body
      BY <1>1, <1>2, <2>1, ProducersAre
    <2>3. PICK m \in moves : Brings(m, a, d)
      BY <1>1, <2>1, <2>2 DEF Tables, AllBrought
    <2>4. m.to = n /\ m.from \in dst[inner]
      <3>1. /\ FirstOperand(a, r) \in DOMAIN Code(a).src
            /\ Code(a).src[FirstOperand(a, r)] = r
        BY <1>1, <1>2, <1>3, FirstOperandIs
      <3>2. src[a][FirstOperand(a, r)] = src[a][k]
        BY <1>1, <1>2, <3>1 DEF Tables, NamesTogether
      <3> QED
        BY <2>1, <2>3, <3>2 DEF Brings
    <2>5. ~Copied(n)
      <3> SUFFICES ASSUME NEW o \in moves, o.row < pc PROVE FALSE
        BY DEF Copied
      <3>1. row[a] <= o.row
        BY <1>1, <2>2 DEF RenamingInv, Moves
      <3> QED
        BY <1>2, <1>11, <3>1
    <2>6. CASE lap = 0
      <3>1. ~Overwritten(n)
        BY <2>5, <2>6 DEF Overwritten, Copied
      <3>2. from = Producing(outer, 0)
        BY <1>2, <1>6, <1>15, <2>6 DEF PredictedCase
      <3>3. Provider(a, r) = outer
        BY <1>15 DEF Provider
      <3>4. CASE outer = 0
        <4>1. registers[n] = Zero
          BY <1>11, <1>13, <3>1, <3>3, <3>4 DEF Follows
        <4> HIDE DEF from, outer
        <4> QED
          BY <1>7, <3>2, <3>4, <4>1 DEF Producing
      <3>5. CASE outer # 0
        <4>1. outer \in EnteringLoop
          BY <1>1, <2>1, <2>2, <3>5, EnteringAre
        <4>2. Ready(outer) <= begin
          <5>1. LoopPlaced
            BY <1>1, <1>2, <1>15 DEF LoopPlaced
          <5> QED
            BY <1>1, <4>1, <5>1 DEF ScheduleInv, OperandsTimed
        <4>3. Ready(outer) <= pc
          BY <1>2, <1>8, <1>9, <1>10, <1>15, <3>5, <4>2
        <4>4. registers[n] = Own(outer)
          BY <1>10, <1>11, <1>12, <3>1, <3>3, <3>5, <4>3 DEF Follows
        <4>5. Value(<<outer, 0>>) = Own(outer)
          BY <1>10, <3>5 DEF Value, Own
        <4> HIDE DEF from, outer
        <4> QED
          BY <1>7, <3>2, <3>5, <4>4, <4>5 DEF Producing
      <3> QED
        BY <3>4, <3>5
    <2>7. CASE lap > 0
      <3>1. registers[n] = <<inner, lap - 1>>
        BY <1>10, <1>15, <2>4, <2>5, <2>7 DEF Contents, Brought
      <3>2. from = {<<inner, lap - 1>>}
        BY <1>2, <1>4, <1>6, <1>15, <2>7 DEF PredictedCase
      <3>3. Value(<<inner, lap - 1>>) = <<inner, lap - 1>>
        BY <1>10, <1>15 DEF Value
      <3> HIDE DEF from, inner
      <3> QED
        BY <1>7, <3>1, <3>2, <3>3
    <2> QED
      BY <1>4, <2>6, <2>7
  <1>16. CASE r \in Incoming(program, a) /\ Block(program, a) # "BB0" /\ inner = 0
    <2>1. ~Overwritten(n)
      BY <1>1, <1>2, <1>3, <1>16, MovesAre DEF Overwritten
    <2>2. from = Producing(outer, 0)
      BY <1>2, <1>6, <1>16 DEF PredictedCase
    <2>3. Provider(a, r) = outer
      BY <1>16 DEF Provider
    <2>4. CASE outer = 0
      <3>1. registers[n] = Zero
        BY <1>11, <1>13, <2>1, <2>3, <2>4 DEF Follows
      <3> HIDE DEF from, outer
      <3> QED
        BY <1>7, <2>2, <2>4, <3>1 DEF Producing
    <2>5. CASE outer # 0
      <3> DEFINE d == Dependency(r, outer, 0)
      <3>1. d \in InvariantDependencies(program, a) /\ d.producer = outer
        BY <1>2, <1>16, <2>5 DEF InvariantDependencies, Dependency
      <3>2. Ready(outer) <= pc \/ Elapsed(outer) >= 3
        <4>1. CASE Block(program, a) = "BB1"
          <5>1. a \in Body
            BY <1>1, <1>2, <3>1, <4>1, ProducersAre
          <5>2. outer \in EnteringLoop
            BY <1>1, <2>5, <3>1, <5>1, EnteringAre
          <5>3. LoopPlaced
            BY <1>1, <1>2, <4>1 DEF LoopPlaced
          <5>4. Ready(outer) <= begin
            BY <1>1, <5>2, <5>3 DEF ScheduleInv, OperandsTimed
          <5> QED
            BY <1>2, <1>8, <1>9, <1>10, <2>5, <4>1, <5>4
        <4>2. CASE Block(program, a) = "BB2"
          <5>1. Ready(outer) <= row[a] \/ Times >= 2
            BY <1>2, <3>1, <4>2 DEF InvariantsInTime, InBlock
          <5>2. ASSUME Times >= 2 PROVE Elapsed(outer) >= 3
            <6> DEFINE length == (row[Control] + 1) - begin
            <6>1. /\ HasLoop(program) /\ row[Control] < pc /\ row[outer] < begin
                  /\ begin \in Nat /\ row[Control] \in Nat /\ begin <= row[Control]
                  /\ row[outer] \in Nat /\ pc \in Nat
              BY <1>2, <1>8, <1>9, <1>10, <2>5, <4>2
            <6>2. lap \in Nat /\ lap >= 1
              BY <1>4, <5>2, <6>1
            <6>3. length \in Nat /\ length >= 1
              BY <6>1
            <6>4. lap * length \in Int /\ lap * length >= 1
              <7>1. length <= lap * length /\ lap * length \in Nat
                <8> HIDE DEF length
                <8>1. PICK j \in Nat : lap = j + 1
                  BY <6>2
                <8>2. lap * length = (j * length) + length /\ j * length \in Nat
                  BY <6>3, <8>1
                <8> QED
                  BY <6>3, <8>2
              <7> HIDE DEF length
              <7> QED
                BY <6>3, <7>1
            <6>5. Elapsed(outer) = (pc - row[outer]) + (lap * length)
              BY <1>10, <2>5, <6>2 DEF Elapsed
            <6> DEFINE product == lap * length
            <6>6. product \in Int /\ product >= 1 /\ Elapsed(outer) = (pc - row[outer]) + product
              BY <6>4, <6>5
            <6> HIDE DEF product
            <6> QED
              BY <6>1, <6>6
          <5> QED
            BY <1>2, <5>1, <5>2
        <4> QED
          BY <1>2, <1>16, <4>1, <4>2
      <3>3. registers[n] = Own(outer)
        BY <1>10, <1>11, <1>12, <2>1, <2>3, <2>5, <3>2 DEF Follows
      <3>4. Value(<<outer, 0>>) = Own(outer)
        BY <1>10, <2>5 DEF Value, Own
      <3> HIDE DEF from, outer
      <3> QED
        BY <1>7, <2>2, <2>5, <3>3, <3>4 DEF Producing
    <2> QED
      BY <2>4, <2>5
  <1>17. CASE r \in Incoming(program, a) /\ Block(program, a) = "BB2" /\ inner # 0
    <2> DEFINE d == Dependency(r, inner, 0)
    <2>1. d \in PostLoopDependencies(program, a) /\ d.producer = inner
      BY <1>17 DEF PostLoopDependencies, Dependency
    <2>2. Ready(inner) <= pc
      BY <1>1, <1>2, <1>17, <2>1 DEF ScheduleInv, OperandsTimed, InBlock
    <2>3. dst[inner] = {n}
      BY <1>11, <1>17 DEF Follows, Provider
    <2>4. ~Overwritten(n)
      BY <1>1, <1>10, <1>17, <2>3, MovesAre DEF Overwritten
    <2>5. registers[n] = Own(inner)
      BY <1>10, <1>12, <1>17, <2>2, <2>3, <2>4
    <2>6. lap = Times - 1
      BY <1>2, <1>4, <1>9, <1>17
    <2>7. from = {<<inner, Times - 1>>}
      BY <1>2, <1>6, <1>17 DEF PredictedCase
    <2>8. Value(<<inner, Times - 1>>) = Own(inner)
      BY <1>10, <1>17, <2>6 DEF Value, Own
    <2> HIDE DEF from, inner
    <2> QED
      BY <1>7, <2>5, <2>7, <2>8
  <1>18. CASE r \in Incoming(program, a) /\ Block(program, a) = "BB0"
    <2>1. from = {}
      BY <1>2, <1>6, <1>18 DEF PredictedCase
    <2>2. Provider(a, r) = 0
      BY <1>18 DEF Provider
    <2>3. ~Overwritten(n)
      <3> SUFFICES ASSUME NEW m \in moves, lap > 0 \/ m.row < pc PROVE FALSE
        BY DEF Overwritten
      <3>1. HasLoop(program) /\ pc < begin
        BY <1>2, <1>9, <1>11, <1>18
      <3> QED
        BY <1>2, <1>4, <1>9, <1>11, <3>1
    <2>4. registers[n] = Zero
      BY <1>11, <1>13, <2>2, <2>3 DEF Follows
    <2> HIDE DEF from
    <2> QED
      BY <1>7, <2>1, <2>4
  <1> QED
    BY <1>2, <1>14, <1>15, <1>16, <1>17, <1>18

\* What the machine reads is what a sequential run would read: of every program whose
\* names stay apart, in every cycle of a loop that ends, through latencies, empty cycles,
\* new registers and moves.
THEOREM ValuesAreRight == Spec => [](~Endless /\ InvariantsInTime => ValuesArrive)
  <1>1. RunningInv /\ RenamedInv /\ ValueInv => (~Endless /\ InvariantsInTime => ValuesArrive)
    <2> SUFFICES ASSUME RunningInv, RenamedInv, ValueInv, ~Endless, InvariantsInTime,
                        NamesApart, phase = "running",
                        NEW op \in Bundle, op.name # 0, NEW k \in DOMAIN op.src
                 PROVE  registers[op.src[k]] = Meant(op.name, k)
      BY DEF ValuesArrive, OperandsHoldTheirValues
    <2>1. CompilerInv /\ MachineInv /\ Grounds
      BY DEF RunningInv, Grounds
    <2>2. /\ Len(code) = size
          /\ Bundle = {ProgramOperation(a) : a \in AtPc} \cup {MoveOperation(m) : m \in MovesAtPc}
      BY <2>1, BundleIs
    <2>3. pc < size
      BY <2>2 DEF Bundle
    <2>4. Contents
      BY <2>3 DEF ValueInv
    <2>5. \A m \in MovesAtPc : MoveOperation(m).name = 0
      BY DEF MoveOperation, Operation
    <2>6. PICK a \in AtPc : op = ProgramOperation(a)
      BY <2>2, <2>5
    <2>7. op.name = a /\ op.src = [j \in DOMAIN src[a] |-> src[a][j].reg]
      BY <2>6 DEF ProgramOperation, Operation
    <2>8. k \in DOMAIN Code(a).src /\ op.src[k] = src[a][k].reg
      BY <2>1, <2>7, RunningIs DEF AtPc
    <2> QED
      BY <2>1, <2>4, <2>7, <2>8, OperandHolds
  <1> QED
    BY <1>1, RunningInvIs, RenamedIs, ValueIs, PTL

=============================================================================
