------------------------------ MODULE Emission ------------------------------
(***************************************************************************)
(* What the nodes of the AST emit (EmitElsonV of the classes under         *)
(* compiler/src), with the context that they leave behind.  In the body of *)
(* a kernel the mode is v: code for all threads of a warp, whose branches  *)
(* are made with the execution mask in s26.                                *)
(***************************************************************************)
EXTENDS KernelCode

FunctionEnd == -1  \* its label; the others are numbers from 0

\* A node emits its code by way of its children's.
RECURSIVE EmitElsonV(_, _, _)

-----------------------------------------------------------------------------
(***************************************************************************)
(* Expressions: the value is left in dest.                                 *)
(***************************************************************************)

EmitConstant(c, e, dest) == Emit(c, "li", dest, e.value, 0)
EmitIdentifier(c, e, dest) == Emit(c, "lw", dest, get_variable(c, e.id).offset - 4, sp)

(***************************************************************************)
(* Both operands in registers of their own, the left one first.  A call    *)
(* inside the right one saves the left one's register.                     *)
(***************************************************************************)
Operands(c, e) ==
  LET l == Lowest(c)
      cl == EmitElsonV(Taken(c), e.left, l)
      kept == [cl EXCEPT !.kept = @ \cup {l}]
      r == Lowest(kept)
  IN [c |-> EmitElsonV(Taken(kept), e.right, r), left |-> l, right |-> r]

BothReleased(c, o) ==
  [Released(Released(c, o.right), o.left) EXCEPT !.kept = @ \ {o.left}]

\* the instruction between both operands
EmitOperation(c, e, operation, dest) ==
  LET o == Operands(c, e)
  IN BothReleased(Emit(o.c, operation, dest, o.left, o.right), o)

ArithmeticOperation(op) == CASE op = "+" -> "add" [] op = "-" -> "sub" [] op = "*" -> "mul"
EmitArithmetic(c, e, dest) == EmitOperation(c, e, ArithmeticOperation(e.op), dest)

\* The assembler knows sll of these.
BitwiseOperation(op) ==
  CASE op = "<<" -> "sll" [] op = ">>" -> "sra" [] op = "&" -> "and" [] op = "|" -> "or"
    [] op = "^" -> "xor"
EmitBitwise(c, e, dest) == EmitOperation(c, e, BitwiseOperation(e.op), dest)

RelationOperation(op) == IF op \in {"<", ">="} THEN "slt" ELSE "sgt"

\* Mutant: the left operand's register is given back before the right one is evaluated.
EmitRelationEarly(c, e, dest) ==
  LET l == Lowest(c)
      cl == Released(EmitElsonV(Taken(c), e.left, l), l)
      r == Lowest(cl)
      cr == EmitElsonV(Taken(cl), e.right, r)
  IN Released(Emit(cr, "slt", dest, l, r), r)

\* In a kernel the results of < and > become the execution mask, whatever dest is.
EmitRelation(c, e, dest) ==
  LET o == Operands(c, e)
      op == RelationOperation(e.op)
      strict == e.op \in {"<", ">"}
      compared == CASE c.mode = "s" -> Emit(o.c, op, dest, o.left, o.right)
                    [] c.mode = "v" /\ strict -> EmitAs(o.c, "x", op, s26, o.left, o.right)
                    [] OTHER -> EmitAs(o.c, "x", op, dest, o.left, o.right)
      inverted == IF c.mode = "s" THEN Emit(compared, "xori", dest, dest, 1)
                                  ELSE EmitAs(compared, "none", "xori", s26, dest, 1)
  IN BothReleased(IF strict THEN compared ELSE inverted, o)

\* The third register is never given back, and != is compiled like ==.
EmitEquality(c, e, dest) ==
  LET o == Operands(c, e)
  IN BothReleased(Emit(Taken(o.c), "seq", dest, o.left, o.right), o)

\* Both operands are evaluated; what tests them has no prefix.
EmitLogical(c, e, dest) ==
  LET o == Operands(c, e)
      Bare(op, rd, a) == Line("none", op, rd, a, 0)
  IN BothReleased(EmitLines(o.c,
       IF e.op = "&&"
       THEN <<Bare("beqz", 0, o.left), Bare("snez", dest, o.right), Bare("j", 0, 0),
              Bare("li", dest, 0)>>
       ELSE <<Bare("snez", dest, o.left), Bare("bnez", 0, dest), Bare("snez", dest, o.right)>>), o)

(***************************************************************************)
(* Numbers of built-in operands are those of registers s or v; there are   *)
(* no such registers above 26.                                             *)
(***************************************************************************)
EmitBuiltIn(c, e, dest) ==
  LET r == IF e.number > 26 THEN unnamed ELSE (IF c.mode = "v" THEN v0 ELSE s0) + e.number
  IN IF dest = r THEN c ELSE Emit(c, "addi", dest, r, 0)

(***************************************************************************)
(* An index is a constant, a built-in operand, a variable that a kernel    *)
(* keeps in a register (whose register is left out of the second line), or *)
(* the value that a variable was declared with.                            *)
(***************************************************************************)
LinearIndex(c, e) ==
  IF e.kind = "constant" THEN e.value ELSE get_variable(c, e.id).value

EmitPosition(c, e, index) ==
  LET r == Lowest(c)
      kept == e.kind = "identifier" /\ get_variable(c, e.id).reg # zero
      c1 == CASE e.kind = "builtin" ->
                   Emit(Emit(EmitBuiltIn(Taken(c), e, r), "addi", r, r, 1), "slli", index, r, 2)
              [] kept -> Emit(Emit(Emit(Taken(c), "add", r, get_variable(c, e.id).reg, zero),
                                   "incomplete", r, 0, 1), "slli", index, r, 2)
              [] OTHER -> Emit(Emit(Taken(c), "li", index, LinearIndex(c, e) + 1, 0),
                               "slli", index, index, 2)
  IN Released(c1, r)

(***************************************************************************)
(* The address of an array's element is left in index; it takes two more   *)
(* registers, one after the other.                                         *)
(***************************************************************************)
EmitAddress(c, e, index) ==
  LET c1 == EmitPosition(c, e.position, index)
      temp == Lowest(c1)
      c2 == Emit(Taken(c1), "li", temp, get_variable(c, e.id).offset, 0)
      c3 == Emit(c2, "sub", index, temp, index)
  IN Released(Emit(c3, "add", index, index, sp), temp)

EmitIndexAccess(c, e, dest) ==
  LET index == Lowest(c)
  IN Released(Emit(EmitAddress(Taken(c), e, index), "lw", dest, 0, index), index)

\* neg has an operand too few for the assembler
UnaryOperation(op) ==
  CASE op \in {"++", "--"} -> "addi" [] op = "+" -> "mv" [] op = "-" -> "incomplete"
    [] op = "~" -> "not" [] op = "!" -> "seqz"
UnaryAddend(op) == CASE op = "++" -> 1 [] op = "--" -> -1 [] OTHER -> 0

(***************************************************************************)
(* Every unary operation on a variable writes it.  Where the result is     *)
(* thrown away it still gets a register, which is never given back.        *)
(***************************************************************************)
EmitUnary(c, e, dest) ==
  LET operand == Lowest(c)
      c1 == EmitElsonV(Taken(c), e.operand, operand)
      target == IF dest = zero THEN Lowest(c1) ELSE dest
      c2 == IF dest = zero THEN Taken(c1) ELSE c1
      c3 == Emit(c2, UnaryOperation(e.op), target, operand, UnaryAddend(e.op))
      c4 == IF e.operand.kind = "identifier"
            THEN Emit(c3, "sw", target, get_variable(c, e.operand.id).offset - 4, sp) ELSE c3
  IN Released(c4, operand)

(***************************************************************************)
(* The right side is evaluated into a register, which goes to the target's *)
(* place.  In a kernel a variable's place is a register that it keeps,     *)
(* though its value is always read from memory.                            *)
(***************************************************************************)
EmitAssignment(c, e) ==
  LET r == Lowest(c)
      c1 == EmitElsonV(Taken(c), e.value, r)
      x == e.target.id
      index == Lowest(c1)
      first == get_variable(c1, x).reg = zero
      own == IF first THEN Lowest(c1) ELSE get_variable(c1, x).reg
      c2 == IF first THEN [Taken(c1) EXCEPT !.variableMap[Scope(c1, x)][x].reg = own,
                                            !.thread_regs = @ \cup {own}] ELSE c1
      assigned == CASE e.target.kind = "index" ->
                         Released(Emit(EmitAddress(Taken(c1), e.target, index),
                                       "sw", r, 0, index), index)
                    [] e.target.kind = "identifier" /\ c.mode = "s" ->
                         Emit(c1, "sw", r, get_variable(c1, x).offset - 4, sp)
                    [] OTHER -> Emit(c2, "addi", own, r, 0)
  IN Released(assigned, r)

(***************************************************************************)
(* The branches of a conditional expression or statement, in scalar code.  *)
(* The condition keeps its register until both have been emitted.          *)
(***************************************************************************)
EmitCondition(c, e) ==
  LET r == Lowest(c)
      tested == EmitElsonV(Taken(c), e, r)
      otherwise == tested.label_counter
  IN [c |-> EmitBeqz(Labelled(tested, 2), r, otherwise),
      register |-> r, otherwise |-> otherwise, end |-> otherwise + 1]

ElseBranch(c, b) == EmitLabel(EmitJump(c, b.end), b.otherwise)
EndBranches(c, b) == Released(EmitLabel(c, b.end), b.register)

(***************************************************************************)
(* In a kernel: the condition has become the mask.  The mask for the other *)
(* branch takes an operand that it does not get, and behind both branches  *)
(* all threads of the warp are active.                                     *)
(***************************************************************************)
EmitMask(c, e) ==
  LET r == Lowest(c)
      tested == EmitElsonV(Taken(c), e, r)
  IN [c |-> SafelyTaken(tested), register |-> r, mask |-> get_divergence_safe_register(tested)]

InvertMask(c) == EmitAs(c, "s", "incomplete", s26, s26, 0)
RestoreMask(c, b) ==
  LET restored == EmitAs(c, "s", "li", s26, execution_mask(c.warps[ActiveWarp(c)]), 0)
  IN Released(deallocate_from_all_threads(restored, b.mask), b.register)

EmitConditional(c, e, dest) ==
  IF c.mode = "s"
  THEN LET b == EmitCondition(c, e.condition)
           taken == EmitElsonV(b.c, e.then, dest)
       IN EndBranches(EmitElsonV(ElseBranch(taken, b), e.else, dest), b)
  ELSE LET b == EmitMask(c, e.condition)
           taken == EmitElsonV(b.c, e.then, dest)
       IN RestoreMask(EmitElsonV(InvertMask(taken), e.else, dest), b)

(***************************************************************************)
(* A call of the function that is compiled.  The registers that operations *)
(* around it hold are saved in the frame, the arguments go to registers    *)
(* from 10 on, and the result stays where the callee leaves it.  A call    *)
(* among the arguments that saves the same register forgets its offset.    *)
(***************************************************************************)
SaveRegister(c, r) ==
  LET offset == get_stack_offset(c)
      saved == Released(EmitAs(c, "none", "sw", r, offset, s0), r)
  IN increase_stack_offset([saved EXCEPT !.offsets = (r :> offset) @@ @], 4)

RestoreRegister(c, r) ==
  LET offset == IF r \in DOMAIN c.offsets THEN c.offsets[r] ELSE 0
      restored == increase_stack_offset(EmitAs(c, "none", "lw", r, offset, s0), -4)
  IN [restored EXCEPT !.files[c.manager] = @ \ {r}, !.offsets = Restrict(@, DOMAIN @ \ {r})]

EmitCall(c, e) ==
  LET held == SelectSeq([r \in 1 .. v26 |-> r], LAMBDA r : r \in c.kept)
      saved == [FoldLeft(SaveRegister, c, held) EXCEPT !.kept = {}]
      Argument(t, k) == EmitElsonV(t, e.arguments[k], Name(t.manager, 9 + k))
      called == EmitAs(FoldLeftDomain(Argument, saved, e.arguments), "none", "call", 0, 0, 0)
  IN FoldLeft(RestoreRegister, [called EXCEPT !.kept = c.kept], held)

EmitExpression(c, e, dest) ==
  CASE e.kind = "constant" -> EmitConstant(c, e, dest)
    [] e.kind = "identifier" -> EmitIdentifier(c, e, dest)
    [] e.kind = "binary" /\ e.op \in {"<", ">", "<=", ">="} -> EmitRelation(c, e, dest)
    [] e.kind = "binary" /\ e.op \in {"==", "!="} -> EmitEquality(c, e, dest)
    [] e.kind = "binary" /\ e.op \in {"&&", "||"} -> EmitLogical(c, e, dest)
    [] e.kind = "binary" /\ e.op \in {"+", "-", "*"} -> EmitArithmetic(c, e, dest)
    [] e.kind = "binary" /\ e.op \in {"<<", ">>", "&", "|", "^"} -> EmitBitwise(c, e, dest)
    [] e.kind = "index" -> EmitIndexAccess(c, e, dest)
    [] e.kind = "unary" -> EmitUnary(c, e, dest)
    [] e.kind = "builtin" -> EmitBuiltIn(c, e, dest)
    [] e.kind = "conditional" -> EmitConditional(c, e, dest)
    [] e.kind = "assign" -> EmitAssignment(c, e)
    [] e.kind = "call" -> EmitCall(c, e)

-----------------------------------------------------------------------------
(***************************************************************************)
(* Declarations: a variable gets the next place of the frame, an array     *)
(* fills its places downwards.                                             *)
(***************************************************************************)
NewVariable(offset, size, value) ==
  [offset |-> offset, size |-> size, value |-> value, reg |-> zero, out_offset |-> 0]

Filled(c, d, offset) ==
  LET dest == Lowest(Taken(c))
      filled == FoldLeftDomain(
        LAMBDA t, k : Emit(EmitElsonV(t, d.initial[k], dest), "sw", dest, offset - 4 * k, sp),
        Taken(Taken(c)), d.initial)
  IN Released(Released(filled, dest), Lowest(c))

EmitDeclaration(c, d) ==
  LET offset == get_stack_offset(c)
      value == IF ~d.array /\ d.initial # <<>> /\ d.initial[1].kind = "constant"
               THEN d.initial[1].value ELSE 0
      defined == define_variable(increase_stack_offset(c, 4 * d.size), d.id,
                   NewVariable(offset, d.size, value))
  IN CASE d.initial = <<>> -> defined
       [] d.initial # <<>> /\ d.array -> Filled(defined, d, offset)
       [] OTHER -> EmitAssignment(defined, Assign(Identifier(d.id), d.initial[1]))

-----------------------------------------------------------------------------
(***************************************************************************)
(* Statements.                                                             *)
(***************************************************************************)
EmitAll(c, nodes) == FoldLeft(LAMBDA t, node : EmitElsonV(t, node, zero), c, nodes)

EmitCompound(c, s) ==
  pop_scope(EmitAll(create_scope(c), s.declarations \o s.statements))

EmitIf(c, s) ==
  IF c.mode = "s"
  THEN LET b == EmitCondition(c, s.condition)
       IN EndBranches(EmitAll(ElseBranch(EmitElsonV(b.c, s.then, zero), b), s.else), b)
  ELSE LET b == EmitMask(c, s.condition)
           taken == EmitElsonV(b.c, s.then, zero)
       IN RestoreMask(IF s.else = <<>> THEN taken ELSE EmitAll(InvertMask(taken), s.else), b)

\* Mutant: the register of the condition is not given back.
EmitWhileHolding(c, s) ==
  LET start == c.label_counter
      end == start + 1
      c1 == EmitLabel(EnterLoop(Labelled(c, 2), start, end), start)
      r == Lowest(c1)
      c2 == EmitBeqz(EmitElsonV(Taken(c1), s.condition, r), r, end)
      c3 == EmitJump(EmitElsonV(c2, s.body, zero), start)
  IN LeaveLoop(EmitLabel(c3, end))

EmitWhile(c, s) ==
  LET start == c.label_counter
      end == start + 1
      c1 == EmitLabel(EnterLoop(Labelled(c, 2), start, end), start)
      r == Lowest(c1)
      c2 == EmitBeqz(EmitElsonV(Taken(c1), s.condition, r), r, end)
      c3 == EmitJump(EmitElsonV(c2, s.body, zero), start)
  IN LeaveLoop(Released(EmitLabel(c3, end), r))

\* Mutant: continue goes to the test of the condition.
EmitForContinuingAtStart(c, s) ==
  LET start == c.label_counter
      end == start + 1
      c1 == EmitLabel(EmitElsonV(EnterLoop(Labelled(c, 3), start, end), s.init, zero), start)
      r == Lowest(c1)
      c2 == EmitBeqz(EmitElsonV(Taken(c1), s.condition, r), r, end)
      c3 == EmitElsonV(Released(c2, r), s.body, zero)
      c4 == EmitJump(EmitElsonV(c3, s.update, zero), start)
  IN LeaveLoop(EmitLabel(c4, end))

(***************************************************************************)
(* In a kernel the loop itself is scalar code of the active warp.          *)
(***************************************************************************)
EmitFor(c, s) ==
  LET start == c.label_counter
      end == start + 1
      update == start + 2
      Header(t) == IF c.mode = "v" THEN Using(t, "s", Own(ActiveWarp(c))) ELSE t
      Inside(t) == IF c.mode = "v" THEN Using(t, "v", <<ActiveWarp(c), 1>>) ELSE t
      c1 == EnterLoop(Labelled(Header(c), 3), update, end)
      c2 == EmitLabel(EmitElsonV(c1, s.init, zero), start)
      r == Lowest(c2)
      c3 == EmitBeqz(EmitElsonV(Taken(c2), s.condition, r), r, end)
      c4 == EmitLabel(Header(EmitElsonV(Inside(Released(c3, r)), s.body, zero)), update)
      c5 == EmitJump(EmitElsonV(c4, s.update, zero), start)
  IN LeaveLoop(Inside(EmitLabel(c5, end)))

\* continue goes to the start of the body.
EmitDoWhile(c, s) ==
  LET start == c.label_counter
      end == start + 1
      c1 == EmitElsonV(EmitLabel(EnterLoop(Labelled(c, 2), start, end), start), s.body, zero)
      r == Lowest(c1)
      c2 == Emit(EmitElsonV(Taken(c1), s.condition, r), "bnez", 0, r, start)
  IN LeaveLoop(Released(EmitLabel(c2, end), r))

(***************************************************************************)
(* First a comparison for each case, then the statements of each.  The     *)
(* registers of the condition and of the cases are not given back.         *)
(***************************************************************************)
EmitSwitch(c, s) ==
  LET condition == Lowest(c)
      tested == EmitElsonV(Taken(c), s.condition, condition)
      endcases == tested.label_counter
      label(k) == endcases + k
      Compare(t, k) ==
        IF s.cases[k].values = <<>> THEN EmitJump(t, label(k))
        ELSE Emit(EmitElsonV(Taken(t), s.cases[k].values[1], Lowest(t)),
                  "beq", condition, Lowest(t), label(k))
      c1 == Labelled(tested, Len(s.cases) + 1)
      c2 == FoldLeftDomain(Compare, [c1 EXCEPT !.end_labels = Append(@, endcases)], s.cases)
      c3 == FoldLeftDomain(LAMBDA t, k : EmitAll(EmitLabel(t, label(k)), s.cases[k].statements),
                           EmitJump(c2, endcases), s.cases)
  IN [EmitLabel(c3, endcases) EXCEPT !.end_labels = Front(@)]

EmitBreak(c) == EmitJump(c, Last(c.end_labels))
EmitContinue(c) == EmitAs(c, "none", "j", 0, 0, Last(c.start_labels))
EmitReturn(c, s) == EmitJump(EmitElsonV(c, s.expression, s1), FunctionEnd)

(***************************************************************************)
(* Every element of an array goes to a region of its own.  Its address is  *)
(* taken as an absolute one.  The first OUT of an array leaves growing     *)
(* gaps, later ones do not.                                                *)
(***************************************************************************)
EmitOut(c, s) ==
  LET variable == get_variable(c, s.id)
      first == variable.out_offset = 0
      address == Lowest(c)
      tmp == Lowest(Taken(c))
      End(k) == IF first THEN c.out_offset - 2 * k * (k + 1) ELSE variable.out_offset - 4 * k
      Copied(t, k) == EmitLines(t, <<Line("s", "li", address, variable.offset - 4 * k, 0),
        Line("s", "lw", tmp, 0, address), Line("s", "li", address, End(k), 0),
        Line("s", "sw", tmp, 0, address)>>)
      c1 == FoldLeft(Copied, Taken(Taken(c)), [k \in 1 .. variable.size |-> k])
      c2 == IF first THEN [c1 EXCEPT !.variableMap[Scope(c, s.id)][s.id].out_offset = c.out_offset,
                                     !.out_offset = End(variable.size)] ELSE c1
  IN Released(Released(c2, address), tmp)

EmitSync(c) ==
  EmitLabel(EmitAs(Labelled(c, 1), "none", "sync", 0, 0, c.label_counter), c.label_counter)

EmitKernel(c, s) == KernelEnded(EmitElsonV(KernelBegun(c, s.threads), s.body, zero))

EmitStatement(c, s) ==
  CASE s.kind = "compound" -> EmitCompound(c, s)
    [] s.kind = "expression" -> EmitElsonV(c, s.expression, zero)
    [] s.kind = "if" -> EmitIf(c, s)
    [] s.kind = "while" -> EmitWhile(c, s)
    [] s.kind = "for" -> EmitFor(c, s)
    [] s.kind = "do" -> EmitDoWhile(c, s)
    [] s.kind = "switch" -> EmitSwitch(c, s)
    [] s.kind = "break" -> EmitBreak(c)
    [] s.kind = "continue" -> EmitContinue(c)
    [] s.kind = "kernel" -> EmitKernel(c, s)
    [] s.kind = "out" -> EmitOut(c, s)
    [] s.kind = "sync" -> EmitSync(c)
    [] s.kind = "return" -> EmitReturn(c, s)

Statements == {"compound", "expression", "if", "while", "for", "do", "switch", "break", "continue",
               "kernel", "out", "sync", "return"}

EmitElsonV(c, node, dest) ==
  CASE node.kind = "declaration" -> EmitDeclaration(c, node)
    [] node.kind \in Statements -> EmitStatement(c, node)
    [] OTHER -> EmitExpression(c, node, dest)
=============================================================================
