-------------------------- MODULE CompilerContext --------------------------
(***************************************************************************)
(* The context that the compiler hands through the AST                     *)
(* (compiler/src/context):                                                 *)
(*   files          by register file: the registers that are available     *)
(*   manager        the register file in use                               *)
(*   mode           s or v: the prefix of scalar or of vector instructions *)
(*   warps          the kernels' warps, as [id, size, active]              *)
(*   thread_regs    registers given back at the end of a kernel            *)
(*   code           the lines that have been emitted                       *)
(*   variableMap    by scope, the innermost last: name -> variable         *)
(*   current_stack_offset  by scope                                        *)
(*   total_offset   the size of the function's frame                       *)
(*   out_offset     the next place of the region that OUT fills            *)
(*   label_counter, start_labels, end_labels                               *)
(*   kept           registers that a call has to save                      *)
(*   offsets        where those that have been saved are in the frame      *)
(*   kernel         the labels of its body and of the switch behind it     *)
(*   thrown         TRUE once an exception has ended the compilation       *)
(* A register file is <<>>, the processor's own, <<w, 0>>, that of warp w, *)
(* or <<w, t>>, that of its thread t; the latter are vector files.  Scalar *)
(* registers are their numbers, floating-point ones from 32; the vector    *)
(* registers' numbers are 100 higher, except for zero, ra, sp, gp and tp,  *)
(* whose names both kinds have.                                            *)
(***************************************************************************)
EXTENDS CPrograms

CONSTANTS
  AvailableRegisters,  \* the scalar registers that expressions may use
  VectorRegisters      \* the vector registers that they may use

ASSUME RegisterAssumption == /\ AvailableRegisters \subseteq 7 .. 29
                             /\ VectorRegisters \subseteq 106 .. 130

zero == 0
ra == 1
sp == 2
gp == 3
s0 == 5
s1 == 6
s24 == 29
s25 == 30
s26 == 31
v0 == 105
v26 == 131
unnamed == 99  \* a name that no register has

main == <<>>
Vector(r) == r >= 100
IsVector(file) == file # main /\ file[2] > 0

-----------------------------------------------------------------------------
(***************************************************************************)
(* Lines of code.  mode is s, v, x for the instructions from vectors to    *)
(* scalars, or none.                                                       *)
(***************************************************************************)
Line(mode, op, rd, a, b) == [op |-> op, mode |-> mode, rd |-> rd, a |-> a, b |-> b]
EmitLines(c, lines) == [c EXCEPT !.code = @ \o lines]
EmitAs(c, mode, op, rd, a, b) == EmitLines(c, <<Line(mode, op, rd, a, b)>>)
Emit(c, op, rd, a, b) == EmitAs(c, c.mode, op, rd, a, b)
EmitLabel(c, label) == EmitAs(c, "s", "label", 0, 0, label)
EmitJump(c, label) == EmitAs(c, "s", "j", 0, 0, label)
EmitBeqz(c, r, label) == EmitAs(c, "s", "beqz", 0, r, label)

-----------------------------------------------------------------------------
(***************************************************************************)
(* Register files.                                                         *)
(***************************************************************************)
\* what is available in a new file, and which registers of a file of the
\* scalar kind are in use
ScalarRegisterFile == AvailableRegisters
VectorRegisterFile == VectorRegisters
InUse(file) == ({0, 1, 2, 3, 4, 5, 6, 30, 31, 63} \cup AvailableRegisters) \ file

\* the register that get_register returns, and the context behind it
Free(c) == c.files[c.manager]
Lowest(c) == IF Free(c) = {} THEN zero ELSE CHOOSE r \in Free(c) : \A q \in Free(c) : r <= q
Taken(c) == [c EXCEPT !.files[c.manager] = @ \ {Lowest(c)}, !.thrown = @ \/ Free(c) = {}]

\* a file gives back only registers whose names it has
Released(c, r) ==
  IF Vector(r) = IsVector(c.manager) THEN [c EXCEPT !.files[c.manager] = @ \cup {r}] ELSE c

Using(c, mode, file) == [c EXCEPT !.mode = mode, !.manager = file]

(***************************************************************************)
(* A register for all threads of the active warp: the lowest one of its    *)
(* first thread, whatever the others use it for.                           *)
(***************************************************************************)
ActiveWarp(c) == SelectInSeq(c.warps, LAMBDA warp : warp.active)
ThreadFiles(c, w) == {<<w, t>> : t \in 1 .. c.warps[w].size}

get_divergence_safe_register(c) == Lowest(Using(c, c.mode, <<ActiveWarp(c), 1>>))
SafelyTaken(c) ==
  LET r == get_divergence_safe_register(c)
      threads == ThreadFiles(c, ActiveWarp(c))
  IN [c EXCEPT !.files = [f \in DOMAIN @ |-> IF f \in threads THEN @[f] \ {r} ELSE @[f]],
               !.thrown = @ \/ c.files[<<ActiveWarp(c), 1>>] = {}]
deallocate_from_all_threads(c, r) ==
  LET threads == ThreadFiles(c, ActiveWarp(c))
  IN [c EXCEPT !.files = [f \in DOMAIN @ |-> IF f \in threads THEN @[f] \cup {r} ELSE @[f]]]

-----------------------------------------------------------------------------
(***************************************************************************)
(* Scopes, variables, labels.                                              *)
(***************************************************************************)
get_stack_offset(c) == LET d == Last(c.current_stack_offset) - c.total_offset
                       IN IF d < 0 THEN -d ELSE d
increase_stack_offset(c, bytes) ==
  [c EXCEPT !.current_stack_offset = Append(Front(@), Last(@) + bytes)]

create_scope(c) ==
  [c EXCEPT !.variableMap = Append(@, <<>>),
            !.current_stack_offset = Append(@, Last(@))]
pop_scope(c) ==
  [c EXCEPT !.variableMap = Front(@), !.current_stack_offset = Front(@)]

define_variable(c, x, variable) ==
  LET inner == Last(c.variableMap)
  IN [c EXCEPT !.variableMap = Append(Front(@),
        [y \in DOMAIN inner \cup {x} |-> IF y = x THEN variable ELSE inner[y]])]
Scope(c, x) == SelectLastInSeq(c.variableMap, LAMBDA scope : x \in DOMAIN scope)
get_variable(c, x) == c.variableMap[Scope(c, x)][x]

\* n labels are created, and a loop's are entered or left
Labelled(c, n) == [c EXCEPT !.label_counter = @ + n]
EnterLoop(c, start, end) == [c EXCEPT !.start_labels = Append(@, start),
                                      !.end_labels = Append(@, end)]
\* Mutant: the end label is left on its stack.
LeaveLoopOnce(c) == [c EXCEPT !.start_labels = Front(@)]
LeaveLoop(c) == [c EXCEPT !.start_labels = Front(@), !.end_labels = Front(@)]
=============================================================================
