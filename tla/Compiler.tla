------------------------------ MODULE Compiler ------------------------------
(***************************************************************************)
(* The compilation of one function (compiler/src), and a machine that      *)
(* executes what the assembler makes of it.  All values are int.           *)
(***************************************************************************)
EXTENDS Emission

CONSTANTS
  Programs,  \* the functions that are compiled, as [kind, parameters, body, fills]
  Slack,     \* what a frame has beyond the declarations it counts
  Fuel,      \* iterations after which a program counts as endless
  Lanes      \* the lanes of the machine that are looked at

Assembler == INSTANCE Encoding

ASSUME BoundAssumption == Slack \in Nat /\ Slack % 4 = 0 /\ Fuel \in Nat /\ Lanes \subseteq 0 .. 15

block_size == 16

VARIABLES
  program,     \* one of Programs
  phase,       \* compiling, running, done, or rejected
  at,          \* the part of the function's body that is compiled next
  context,
  words,       \* what the assembler makes of the code
  kernel,      \* where a kernel's body and the switch behind it are
  slots,       \* the function's own variables
  fill,        \* what memory holds where nobody has written
  winner,      \* the lane whose store to a word is the last one of several
  pc, reg, lanes, mem

vars == <<program, phase, at, context, words, kernel, slots, fill, winner, pc, reg, lanes, mem>>
compilerVars == <<program, at, context, words, kernel, slots, fill, winner>>
machineVars == <<pc, reg, lanes, mem>>

body == program.body
parameters == program.parameters

-----------------------------------------------------------------------------
(***************************************************************************)
(* The function.  Its frame counts the declarations of the outermost block *)
(* that are arrays or have a value, and parameters beyond the eighth;      *)
(* others have to fit into the slack.                                      *)
(***************************************************************************)
get_offset(declarations) ==
  FoldLeft(LAMBDA n, d : IF d.array \/ d.initial # <<>> THEN n + 4 * d.size ELSE n,
           0, declarations)

FrameSize ==
  LET n == 8 + get_offset(body.declarations) + Slack
      more == IF Len(parameters) > 8 THEN 4 * (Len(parameters) - 8) ELSE 0
  IN n + 4 - (n % 4) + more

ContextAt(offset) ==
  [files |-> [f \in {main} |-> ScalarRegisterFile], manager |-> main, mode |-> "s",
   warps |-> <<>>, thread_regs |-> {}, kept |-> {}, offsets |-> <<>>, code |-> <<>>,
   variableMap |-> <<<<>>>>,
   current_stack_offset |-> <<offset>>, total_offset |-> FrameSize, out_offset |-> 2500,
   label_counter |-> 0, start_labels |-> <<>>, end_labels |-> <<>>, kernel |-> <<>>,
   thrown |-> FALSE]

\* Mutant: the two words of the caller are not kept free.
NewContextWithoutHeader == ContextAt(0)
NewContext == ContextAt(8)

(***************************************************************************)
(* Parameters are stored from registers 10 to 17, and by way of another    *)
(* register from the caller's frame.  The body has a scope of its own      *)
(* inside theirs.                                                          *)
(***************************************************************************)
EmitParameter(c, k) ==
  LET r == IF k <= 8 THEN 9 + k ELSE Lowest(c)
      fetched == IF k <= 8 THEN c
                 ELSE EmitAs(Taken(c), "none", "lw", r,
                             4 * (k - 8) + 4 - get_stack_offset(NewContext), sp)
      stored == EmitAs(fetched, "none", "sw", r, get_stack_offset(c), s0)
      defined == increase_stack_offset(
        define_variable(stored, parameters[k], NewVariable(get_stack_offset(c), 1, 0)), 4)
  IN IF k <= 8 THEN defined ELSE Released(defined, r)

Prologue(c) ==
  LET c1 == Emit(Emit(c, "li", s0, FrameSize + StackBase, 0), "li", sp, FrameSize + StackBase, 0)
      c2 == Emit(c1, "addi", sp, sp, -FrameSize)
      c3 == Emit(Emit(c2, "sw", ra, FrameSize - 4, sp), "sw", s0, FrameSize - 8, sp)
      c4 == Emit(c3, "addi", s0, sp, FrameSize)
  IN create_scope(FoldLeft(EmitParameter, c4, [k \in DOMAIN parameters |-> k]))

Epilogue(c) ==
  LET c1 == Emit(EmitLabel(c, FunctionEnd), "lw", s0, FrameSize - 8, sp)
      c2 == Emit(Emit(c1, "lw", ra, FrameSize - 4, sp), "addi", sp, sp, FrameSize)
  IN Emit(c2, "exit", 0, 0, 0)

-----------------------------------------------------------------------------
(***************************************************************************)
(* Assembling.  Names of registers that a line's kind of instruction does  *)
(* not know: arithmetic takes them for x0, and so does every later line    *)
(* that mentions them; a load, a store or a branch that is the first to    *)
(* mention one is reported.                                                *)
(***************************************************************************)
ThreeRegisters == DOMAIN Assembler!rTypeFunctMap
TwoRegisters == DOMAIN Assembler!iTypeFunctMap

Names(line) ==
  CASE line.op \in ThreeRegisters -> {line.rd, line.a, line.b}
    [] line.op \in TwoRegisters -> {line.rd, line.a}
    [] line.op = "li" -> {line.rd}
    [] line.op \in DOMAIN Assembler!mTypeFunctMap -> {line.rd, line.b}
    [] line.op = "beqz" -> {line.a}
    [] OTHER -> {}

\* instructions from vectors to scalars have a scalar destination
Known(line, r) == IF line.mode = "v" \/ (line.mode = "x" /\ r # line.rd)
                  THEN r <= 4 \/ Vector(r) ELSE r <= 63
Unknown(line) == {r \in Names(line) : ~Known(line, r)}
TakesAnyName(line) == line.op \in ThreeRegisters \cup TwoRegisters \cup {"li"}

\* Lines with neither prefix are control flow.
Encodes(code, k) ==
  LET line == code[k]
  IN \/ line.op \in {"label", "sync", "exit", "j"}
     \/ line.mode = "x" /\ line.op = "slt" /\ Unknown(line) = {}
     \/ /\ line.mode \in {"s", "v"}
        /\ TakesAnyName(line) \/ line.op \in DOMAIN Assembler!mTypeFunctMap \cup {"beqz"}
        /\ TakesAnyName(line) \/
             \A r \in Unknown(line) : \E i \in 1 .. k - 1 :
               code[i].mode = line.mode /\ TakesAnyName(code[i]) /\ r \in Names(code[i])

(***************************************************************************)
(* Jumps are by distances between the addresses of lines, as far as the    *)
(* encoding keeps them; j is the same word with and without its prefix.    *)
(* sync leaves the address behind its label in s25.                        *)
(***************************************************************************)
Address(code, k) == Cardinality({i \in 1 .. k - 1 : code[i].op # "label"})
LabelledBy(code, label) == CHOOSE i \in DOMAIN code : code[i].op = "label" /\ code[i].b = label

Assembled(code) ==
  LET AddressOf(label) == Address(code, LabelledBy(code, label))
      Distance(op, d) ==
        Assembler!Decoded(Assembler!encodeControl([op |-> op, rs1 |-> 0, imm |-> d])).imm
      Resolved(line, r) == CASE r \in Unknown(line) -> zero
                             [] Vector(r) -> r - 100
                             [] OTHER -> r
      Word(k) ==
        LET line == code[k]
        IN CASE line.op = "j" ->
                  [line EXCEPT !.mode = "s", !.b = Distance("j", AddressOf(@) - Address(code, k))]
             [] line.op = "beqz" -> [line EXCEPT !.a = Resolved(line, @),
                  !.b = Distance("beqz", AddressOf(@) - Address(code, k))]
             [] line.op = "sync" -> Line("s", "li", s25, Wrapped(4 * (AddressOf(line.b) + 1)), 0)
             [] line.op = "li" -> [line EXCEPT !.rd = Resolved(line, @), !.a = Wrapped(@)]
             [] line.op \in TwoRegisters \/ line.mode = "x" \/ line.op \in ThreeRegisters ->
                  [line EXCEPT !.rd = Resolved(line, @), !.a = Resolved(line, @),
                               !.b = IF line.op \in TwoRegisters THEN @ ELSE Resolved(line, @)]
             [] line.op \in DOMAIN Assembler!mTypeFunctMap ->
                  [line EXCEPT !.rd = Resolved(line, @), !.b = Resolved(line, @)]
             [] OTHER -> line
  IN SelectSeq([k \in DOMAIN code |-> Word(k)], LAMBDA line : line.op # "label")

-----------------------------------------------------------------------------
Init ==
  /\ program \in Range(Programs)
  /\ phase = "compiling" /\ at = 1
  /\ context = Prologue(NewContext)
  /\ words = <<>> /\ kernel = <<>> /\ slots = <<>> /\ pc = 1
  /\ fill \in program.fills
  /\ winner \in IF program.kind = "kernel" THEN Lanes ELSE {0}
  /\ reg = [r \in 0 .. 63 |-> CASE r = ra -> 4 [] r \in {31, 63} -> -1 [] OTHER -> 0]
  /\ lanes = [l \in Lanes |-> [r \in 0 .. 63 |-> CASE r % 32 = 29 -> l
                                                   [] r % 32 = 31 -> block_size [] OTHER -> 0]]
  /\ mem = <<>>

parts == body.declarations \o body.statements

\* the next declaration or statement of the function; an exception ends the compilation
Compile(c) ==
  /\ phase = "compiling" /\ at <= Len(parts)
  /\ IF c.thrown THEN phase' = "rejected" /\ UNCHANGED context
                 ELSE context' = c /\ UNCHANGED phase
  /\ at' = at + 1
  /\ UNCHANGED <<program, words, kernel, slots, fill, winner, machineVars>>

CompileDeclaration == /\ at <= Len(body.declarations)
                      /\ Compile(EmitElsonV(context, parts[at], zero))
CompileStatement == /\ at > Len(body.declarations)
                    /\ Compile(EmitElsonV(context, parts[at], zero))

\* The assembler reports the lines that it cannot encode; what is left is not run here.
FinishFunction ==
  /\ phase = "compiling" /\ at > Len(parts)
  /\ LET code == Epilogue(context).code
         encodes == \A k \in DOMAIN code : Encodes(code, k)
     IN /\ phase' = IF encodes THEN "running" ELSE "rejected"
        /\ words' = IF encodes THEN Assembled(code) ELSE <<>>
        /\ kernel' = [k \in DOMAIN context.kernel |->
                       Address(code, LabelledBy(code, context.kernel[k])) + 1]
  /\ context' = [pop_scope(pop_scope(context)) EXCEPT !.code = <<>>]
  /\ slots' = Last(context.variableMap)
  /\ UNCHANGED <<program, at, fill, winner, machineVars>>

-----------------------------------------------------------------------------
(***************************************************************************)
(* The machine.  Vector instructions are executed by the lanes whose bit   *)
(* of the mask in s26 is set; lanes cannot write their three last          *)
(* registers.                                                              *)
(***************************************************************************)
word == words[pc]
Running(mode, ops) == /\ phase = "running" /\ word.op \in ops /\ word.mode = mode
                      /\ UNCHANGED compilerVars
Active == {l \in Lanes : (reg[s26] \div 2^l) % 2 = 1}
Loaded(address) == IF address \in DOMAIN mem THEN mem[address] ELSE fill

Execute(v) == /\ reg' = [reg EXCEPT ![word.rd] = IF word.rd % 32 = zero THEN 0 ELSE v]
              /\ pc' = pc + 1
              /\ UNCHANGED <<phase, lanes, mem>>

\* v is each lane's value
ExecuteLanes(v) ==
  /\ lanes' = [l \in Lanes |-> IF l \in Active /\ word.rd % 32 \in 1 .. 28
                               THEN [lanes[l] EXCEPT ![word.rd] = v[l]] ELSE lanes[l]]
  /\ pc' = pc + 1
  /\ UNCHANGED <<phase, reg, mem>>

\* the machine compares words as unsigned numbers
Below(p, q) == IF (p < 0) = (q < 0) THEN p < q ELSE q < 0

Operations == {"li", "addi", "slli", "seqi", "add", "sub", "mul", "slt", "seq", "sll"}

Calculated(f) ==
  CASE word.op = "li" -> word.a
    [] word.op = "addi" -> f[word.a] + word.b
    [] word.op = "slli" -> f[word.a] * 2^word.b
    [] word.op = "seqi" -> Truth(f[word.a] = word.b)
    [] word.op = "add" -> f[word.a] + f[word.b]
    [] word.op = "sub" -> f[word.a] - f[word.b]
    [] word.op = "mul" -> f[word.a] * f[word.b]
    [] word.op = "slt" -> Truth(Below(f[word.a], f[word.b]))
    [] word.op = "seq" -> Truth(f[word.a] = f[word.b])
    [] word.op = "sll" -> f[word.a] * 2^f[word.b]

Calculate == \/ Running("s", Operations) /\ Execute(Calculated(reg))
             \/ Running("v", Operations) /\ ExecuteLanes([l \in Active |-> Calculated(lanes[l])])

Location(f) == f[word.b] + word.a

Load == \/ Running("s", {"lw", "flw"}) /\ Execute(Loaded(Location(reg)))
        \/ /\ Running("v", {"lw", "flw"})
           /\ ExecuteLanes([l \in Active |-> Loaded(Location(lanes[l]))])

\* values[x] is what is written at x
Put(values) == /\ mem' = [x \in DOMAIN mem \cup DOMAIN values |->
                            IF x \in DOMAIN values THEN values[x] ELSE mem[x]]
               /\ pc' = pc + 1
               /\ UNCHANGED <<phase, reg, lanes>>

(***************************************************************************)
(* Lanes store in any order.  Where several write one word the last is, in *)
(* one execution, always the same of them: any one that is chosen first.   *)
(***************************************************************************)
LastOf(writers) == IF winner \in writers THEN winner ELSE CHOOSE l \in writers : TRUE

Store ==
  \/ Running("s", {"sw", "fsw"}) /\ Put([x \in {Location(reg)} |-> reg[word.rd]])
  \/ /\ Running("v", {"sw", "fsw"})
     /\ LET Writers(x) == {l \in Active : Location(lanes[l]) = x}
        IN Put([x \in {Location(lanes[l]) : l \in Active} |-> lanes[LastOf(Writers(x))][word.rd]])

(***************************************************************************)
(* Each lane's result becomes a bit.  Those of lanes that are not active   *)
(* are left over from earlier instructions: any of them may be set.        *)
(***************************************************************************)
CompareLanes ==
  /\ Running("x", {"slt"})
  /\ \E others \in SUBSET (Lanes \ Active) :
       Execute(MapThenSumSet(LAMBDA l : 2^l, others \cup
         {l \in Active : Below(lanes[l][word.a], lanes[l][word.b])}))

Jump == /\ Running("s", {"j", "beqz"})
        /\ pc' = pc + IF word.op = "j" \/ reg[word.a] = 0 THEN word.b ELSE 1
        /\ UNCHANGED <<phase, reg, lanes, mem>>

Exit == /\ Running("s", {"exit"})
        /\ phase' = "done"
        /\ UNCHANGED machineVars

Instruction == Calculate \/ Load \/ Store \/ CompareLanes \/ Jump \/ Exit

Next == CompileDeclaration \/ CompileStatement \/ FinishFunction \/ Instruction

\* A warp that has been started executes one instruction after the other.
Spec == Init /\ [][Next]_vars /\ WF_vars(Instruction)

-----------------------------------------------------------------------------
(***************************************************************************)
(* Properties.                                                             *)
(***************************************************************************)
kind == program.kind
outcome == Outcome(body, Fuel)

\* Registers are registers, and the stacks of a context are of one height:
\* a part of a function leaves no scope, no loop and no call open.
TypeOK ==
  /\ phase \in {"compiling", "running", "done", "rejected"}
  /\ at \in 1 .. Len(parts) + 1
  /\ \A x \in DOMAIN slots : slots[x].offset \in Nat /\ slots[x].size \in Nat
  /\ pc \in Nat /\ reg \in [0 .. 63 -> Int] /\ mem \in [DOMAIN mem -> Int]
  /\ lanes \in [Lanes -> [0 .. 63 -> Int]]
  /\ \A f \in DOMAIN context.files :
       context.files[f] \subseteq IF IsVector(f) THEN VectorRegisters ELSE AvailableRegisters
  /\ context.manager \in DOMAIN context.files /\ context.mode = "s"
  /\ context.kept = {} /\ context.offsets = <<>>
  /\ Len(context.variableMap) = Len(context.current_stack_offset)
  /\ phase = "compiling" => Len(context.variableMap) = 2
  /\ phase \in {"running", "done"} => context.variableMap = <<>>
  /\ context.start_labels = <<>> /\ context.end_labels = <<>>

InMemory(x, k) == Loaded(StackBase + slots[x].offset - 4 * k)

(***************************************************************************)
(* A function is compiled, and its code computes what C says: at its exit  *)
(* its variables have the values of the program, in the places that the    *)
(* compiler gave them, and a returned value is in s1.                      *)
(***************************************************************************)
Computes ==
  /\ kind # "open" => phase # "rejected"
  /\ phase = "done" /\ kind = "function" =>
       /\ outcome.fuel > 0
       /\ \A x \in DOMAIN slots : \A k \in 1 .. slots[x].size :
            InMemory(x, k) = outcome.scopes[1][x][k]
       /\ outcome.how = "return" => reg[s1] = outcome.value

\* A kernel's code: the jump from its beginning to its body, the body, the switch.
AtEntry == kind = "kernel" /\ phase = "running" /\ pc = kernel[2] - 1
AtBody == kind = "kernel" /\ phase = "running" /\ pc = kernel[1]
AtSwitch == kind = "kernel" /\ phase = "running" /\ pc = kernel[2]

(***************************************************************************)
(* Variables, those of nested blocks included, stay out of the place where *)
(* the frame keeps the caller's registers (ast_function_definition.cpp     *)
(* 60-61, 68-70), and so does what the threads of a kernel write.          *)
(***************************************************************************)
FrameHolds ==
  /\ phase = "done" /\ kind = "function" =>
       /\ reg[ra] = 4
       /\ reg[sp] = StackBase + FrameSize /\ reg[s0] = StackBase + FrameSize
  /\ AtSwitch => /\ Loaded(StackBase + FrameSize - 4) = 4
                 /\ Loaded(StackBase + FrameSize - 8) = StackBase + FrameSize

(***************************************************************************)
(* Before a kernel's body runs first the areas of all warps and threads    *)
(* are filled, none by another one's values: they hold their own addresses *)
(* and numbers, the stack, and a warp's its mask (ast_kernel.cpp 385-504). *)
(***************************************************************************)
AreasInitialised ==
  AtEntry =>
    LET warps == context.warps
        InArea(f, i) == Loaded(Wrapped(Slot(warps, f, i)))
    IN \A f \in Files(warps) :
         /\ InArea(f, gp) = Wrapped(Place(warps, f)) /\ InArea(f, sp) = StackBase
         /\ IF IsVector(f) THEN InArea(f, ThreadIdSlot) = f[2] - 1
            ELSE /\ InArea(f, MaskSlot) = 2^warps[f[1]].size - 1
                 /\ InArea(f, IdSlot) = f[1] - 1 /\ InArea(f, ra) = 4

(***************************************************************************)
(* Every lane that executes a kernel's body has been given the stack       *)
(* (ast_kernel.cpp 321-350 for the first time, 245-275 for the others).    *)
(***************************************************************************)
LanesHaveStack == AtBody => \A l \in Active : lanes[l][sp] = StackBase

(***************************************************************************)
(* The registers that compiling x loses: one for each == and !=, one for   *)
(* each increment whose value nobody uses, and in a switch one for its     *)
(* condition and one for each case.  What a kernel loses are registers of  *)
(* its threads, but for those of the scalar code of its loops.             *)
(***************************************************************************)
RECURSIVE Losses(_), Unused(_), LoopLosses(_)

LossesOf(xs) == FoldLeft(LAMBDA n, x : n + Losses(x), 0, xs)
Unused(e) ==
  CASE e.kind = "unary" -> 1 + Losses(e.operand)
    [] e.kind = "conditional" -> Losses(e.condition) + Unused(e.then) + Unused(e.else)
    [] OTHER -> Losses(e)

LoopLosses(x) ==
  LET Sum(xs) == FoldLeft(LAMBDA n, y : n + LoopLosses(y), 0, xs)
  IN CASE x.kind = "compound" -> Sum(x.statements)
       [] x.kind = "if" -> Sum(<<x.then>> \o x.else)
       [] x.kind \in {"while", "do"} -> LoopLosses(x.body)
       [] x.kind = "for" -> Unused(x.init) + Unused(x.update) + Losses(x.condition)
                              + LoopLosses(x.body)
       [] OTHER -> 0

Losses(x) ==
  CASE x.kind \in {"constant", "identifier", "index", "builtin", "break", "continue", "out", "sync"} -> 0
    [] x.kind = "unary" -> Losses(x.operand)
    [] x.kind = "call" -> LossesOf(x.arguments)
    [] x.kind = "kernel" -> LoopLosses(x.body)
    [] x.kind = "binary" -> Losses(x.left) + Losses(x.right)
                              + IF x.op \in {"==", "!="} THEN 1 ELSE 0
    [] x.kind = "conditional" -> LossesOf(<<x.condition, x.then, x.else>>)
    [] x.kind = "assign" -> Losses(x.value)
    [] x.kind = "expression" -> Unused(x.expression)
    [] x.kind = "return" -> Losses(x.expression)
    [] x.kind = "if" -> LossesOf(<<x.condition, x.then>> \o x.else)
    [] x.kind \in {"while", "do"} -> LossesOf(<<x.condition, x.body>>)
    [] x.kind = "for" -> Unused(x.init) + Unused(x.update) + LossesOf(<<x.condition, x.body>>)
    [] x.kind = "compound" -> LossesOf(x.statements)
                                + FoldLeft(LAMBDA n, d : n + LossesOf(d.initial), 0, x.declarations)
    [] x.kind = "switch" -> 1 + Losses(x.condition)
          + FoldLeft(LAMBDA n, k : n + Len(k.values) + LossesOf(k.values) + LossesOf(k.statements),
                     0, x.cases)

(***************************************************************************)
(* Every other register that a statement takes is given back, on every     *)
(* path through its emission: a function runs out of registers by these    *)
(* losses and by the depth of its expressions only.                        *)
(***************************************************************************)
LosesOnlyThese ==
  [][ CompileStatement /\ phase' # "rejected" =>
        Cardinality(Free(context)) = Cardinality(Free(context')) + Losses(parts[at]) ]_vars

(***************************************************************************)
(* The code of a function that ends in C ends.                             *)
(***************************************************************************)
Finishes == kind = "function" /\ phase = "running" ~> phase = "done"

(***************************************************************************)
(* The code of a kernel comes to compute what C says, for all the values   *)
(* that memory may start with: at the end of its body the arrays have the  *)
(* values of the program, and from then on they have them whenever the     *)
(* body has been run again (ast_kernel.cpp 40-112, 212-278).               *)
(***************************************************************************)
ArraysMeant == \A x \in {y \in DOMAIN slots : slots[y].size > 1} : \A k \in 1 .. slots[x].size :
                 InMemory(x, k) = outcome.scopes[1][x][k]

KernelComputes ==
  /\ kind = "kernel" /\ phase = "running" ~> AtSwitch /\ ArraysMeant
  /\ kind = "kernel" /\ phase = "running" ~> [](AtSwitch => ArraysMeant)

(***************************************************************************)
(* A kernel ends: its switch finds that all warps are complete and goes on *)
(* behind the kernel (ast_kernel.cpp 75-112).                              *)
(***************************************************************************)
KernelsEnd == kind = "kernel" /\ phase = "running" ~> phase = "done"
=============================================================================
