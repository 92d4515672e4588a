----------------------------- MODULE MCDatapath -----------------------------
(* The instructions of Encoding, but for those on which the code and the architecture are   *)
(* known to differ: a load, multiplication or division has a destination other than x0, and *)
(* the sum a jalr goes to is even.                                                          *)
EXTENDS Datapath

\* Zero, one, the ends of the signed and unsigned ranges and values between them.
Operands == {0, 1, 2, 7, 85, 127, 128, 129, 200, 255}
Few == {0, 127, 128, 255}

\* The register file with the values a and b in x1 and x2.
File(a, b) == [n \in 1 .. 31 |-> IF n = 1 THEN a ELSE IF n = 2 THEN b ELSE 0]

WithSources(names, values) ==
  {Task(name, 3, 1, 2, 0, File(a, b), 16) : name \in names, a \in values, b \in values}
WithImmediate(names, values, imms) ==
  {Task(name, 3, 1, 0, imm, File(a, 0), 16) : name \in names, a \in values, imm \in imms}

Arithmetic ==
  WithSources(DOMAIN RegisterCodes, Operands)
    \cup WithImmediate(DOMAIN ImmediateCodes, Few, {-2048, -129, -1, 0, 1, 100, 127, 128, 2047})
    \cup WithImmediate(DOMAIN ShiftCodes, Few, 0 .. 7)
    \cup {Task("add", 0, 1, 2, 0, File(5, 6), 16), Task("addi", 31, 0, 0, -1, File(0, 0), 16)}

Memory ==
  {Task(name, 3, 1, 0, imm, File(4, 0), 16) : name \in DOMAIN LoadCodes, imm \in -4 .. 3}
    \cup {Task(name, 0, 1, 2, imm, File(4, data), 16) :
            name \in DOMAIN StoreCodes, imm \in -4 .. 3, data \in {228}}
    \cup {Task("lb", 3, 1, 0, -2048, File(255, 0), 16), Task("sw", 0, 1, 2, 2047, File(1, 85), 16),
          Task("sb", 0, 0, 0, -1, File(0, 0), 16), Task("sb", 0, 0, 0, -2, File(0, 0), 16)}

\* Offsets at every bit of their fields; a jalr target is even.
Control ==
  {Task(name, 0, 1, 2, imm, File(a, b), pc) : name \in DOMAIN BranchCodes,
     imm \in {-4096, -2, 8, 16, 1024, 2046}, a \in Few, b \in Few, pc \in {8, 252}}
    \cup {Task("jal", rd, 0, 0, imm, File(0, 0), pc) : rd \in {0, 1}, pc \in {0, 252},
            imm \in {-1048576, -2, 4, 2048, 4096, 524288, 1048574}}
    \cup {Task("jalr", rd, 1, 0, imm, File(a, 0), 252) : rd \in {0, 1}, a \in {6, 254},
            imm \in {-2048, -2, 0, 2046}}
    \cup {Task(name, 3, 0, 0, imm, File(0, 0), pc) : name \in DOMAIN UpperCodes,
            imm \in {0, 1, 524288, 1048575}, pc \in {0, 252}}
    \cup {Task("ebreak", 0, 0, 0, 1, File(0, 0), 16)}

MCTasks == Arithmetic \cup Memory \cup Control

\* Two segments, the first of them not a whole number of words.
MCDump ==
  <<<<"byte", 3>>, <<"byte", 1>>, <<"byte", 2>>, <<"at", 4>>, <<"byte", 1>>, <<"byte", 3>>,
    <<"byte", 0>>, <<"byte", 2>>>>

ProgramMemory == InitialLanes(MCDump, Depth)
LoadTasks == {t \in MCTasks : IsLoad(t)}

\* A behaviour repeats one instruction, from the program's memory; after a store it loads.
NextTasks == IF lanes = ProgramMemory THEN {task} ELSE LoadTasks

MCNext == (\E t \in NextTasks : Issue(t)) \/ Steps

MCSpec == Init /\ [][MCNext]_vars
=============================================================================
