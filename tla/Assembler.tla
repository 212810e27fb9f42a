----------------------------- MODULE Assembler -----------------------------
(***************************************************************************)
(* The two passes of the assembler (assembler/assembler.cpp).  The first   *)
(* gives every instruction and data word an address and every label the    *)
(* address that follows it; the second encodes the instructions.  The two  *)
(* output files hold words without addresses: the k-th word is loaded to   *)
(* the k-th place of its memory.                                           *)
(***************************************************************************)
EXTENDS Encoding, FiniteSetsExt, Sequences

CONSTANT Sources  \* the programs that are assembled, sequences of lines

(***************************************************************************)
(* A line as the assembler splits it.  An operand is a number or, by its   *)
(* part, what is taken of a symbol's address.                              *)
(***************************************************************************)
Sections == {".text", ".data", ".rodata"}
Register == 0 .. 31
Jumps == {"j"} \cup Branches

Line ==
  [kind : {"section"}, name : Sections] \cup [kind : {"align"}, bits : Nat]
    \cup [kind : {"label"}, name : STRING] \cup [kind : {"word"}, value : Int]
    \cup [kind : {"zero"}, size : Nat]
    \cup [kind : {"instruction"}, op : STRING, scalar : BOOLEAN,
          rd : Register, rs1 : Register, rs2 : Register, imm : Int,
          part : {"number", "%hi", "%lo", "distance", "endsync"}, symbol : STRING]

\* The operand of a jump or branch is always the distance to its label.
ASSUME SourcesAssumption ==
  /\ Sources \subseteq Seq(Line)
  /\ \A s \in Sources : \A l \in DOMAIN s :
       s[l].kind = "instruction" /\ s[l].op \in Jumps => s[l].part = "distance"

VARIABLES
  source, pass,
  at,               \* the line, or the instruction in the second pass
  current_section, instr_pc, data_pc,
  labelMap,         \* label -> address
  instructions,     \* the addresses and lines of .text
  data,             \* the addresses and values of data words
  instrOut, dataOut \* the files

vars == <<source, pass, at, current_section, instr_pc, data_pc, labelMap,
          instructions, data, instrOut, dataOut>>
firstVars == <<current_section, instr_pc, data_pc, labelMap, instructions, data>>
outVars == <<instrOut, dataOut>>

Init ==
  /\ source \in Sources
  /\ pass = "first" /\ at = 1
  /\ current_section = ".text" /\ instr_pc = 0 /\ data_pc = 0
  /\ labelMap = <<>> /\ instructions = <<>> /\ data = <<>>
  /\ instrOut = <<>> /\ dataOut = <<>>

-----------------------------------------------------------------------------
(***************************************************************************)
(* The first pass, by the kind of the line.                                *)
(***************************************************************************)
Reading(kinds) == /\ pass = "first" /\ at <= Len(source)
                  /\ source[at].kind \in kinds
                  /\ at' = at + 1
                  /\ UNCHANGED <<source, pass, outVars>>
InText == current_section = ".text"

SectionLine ==
  /\ Reading({"section"})
  /\ current_section' = source[at].name
  /\ UNCHANGED <<instr_pc, data_pc, labelMap, instructions, data>>

Align(pc) == LET bytes == 2^source[at].bits
             IN ((pc + bytes - 1) \div bytes) * bytes

AlignLine ==
  /\ Reading({"align"})
  /\ IF InText THEN instr_pc' = Align(instr_pc) /\ UNCHANGED data_pc
               ELSE data_pc' = Align(data_pc) /\ UNCHANGED instr_pc
  /\ UNCHANGED <<current_section, labelMap, instructions, data>>

\* Mutant: the section of a label is not looked at.
LabelLineOfData ==
  /\ Reading({"label"})
  /\ labelMap' = [label \in DOMAIN labelMap \cup {source[at].name} |->
                    IF label # source[at].name THEN labelMap[label] ELSE data_pc]
  /\ UNCHANGED <<current_section, instr_pc, data_pc, instructions, data>>

LabelLine ==
  /\ Reading({"label"})
  /\ labelMap' = [label \in DOMAIN labelMap \cup {source[at].name} |->
                    IF label # source[at].name THEN labelMap[label]
                    ELSE IF InText THEN instr_pc ELSE data_pc]
  /\ UNCHANGED <<current_section, instr_pc, data_pc, instructions, data>>

\* Mutant: a word takes one address instead of four.
WordLineByWords ==
  /\ Reading({"word"}) /\ ~InText
  /\ data' = Append(data, [address |-> data_pc, value |-> source[at].value])
  /\ data_pc' = data_pc + 1
  /\ UNCHANGED <<current_section, instr_pc, labelMap, instructions>>

WordLine ==
  /\ Reading({"word"}) /\ ~InText
  /\ data' = Append(data, [address |-> data_pc, value |-> source[at].value])
  /\ data_pc' = data_pc + 4
  /\ UNCHANGED <<current_section, instr_pc, labelMap, instructions>>

(***************************************************************************)
(* .zero only advances the address.                                        *)
(***************************************************************************)
ZeroLine ==
  /\ Reading({"zero"}) /\ ~InText
  /\ data_pc' = data_pc + source[at].size
  /\ UNCHANGED <<current_section, instr_pc, labelMap, instructions, data>>

(***************************************************************************)
(* Whatever else is in .text is an instruction, a data directive included; *)
(* an instruction elsewhere is passed over.                                *)
(***************************************************************************)
InstructionLine ==
  /\ Reading({"instruction", "word", "zero"}) /\ InText
  /\ instructions' = Append(instructions, [address |-> instr_pc, line |-> source[at]])
  /\ instr_pc' = instr_pc + 4
  /\ UNCHANGED <<current_section, data_pc, labelMap, data>>

PassedOver ==
  /\ Reading({"instruction"}) /\ ~InText
  /\ UNCHANGED firstVars

FirstPassEnds == /\ pass = "first" /\ at > Len(source)
                 /\ pass' = "second" /\ at' = 1
                 /\ UNCHANGED <<source, firstVars, outVars>>

-----------------------------------------------------------------------------
(***************************************************************************)
(* The second pass.  An operand is a number, a part of a label's address   *)
(* or, in control flow, the distance to a label.  Unknown labels are 0, as *)
(* is the whole word of a jump to one.                                     *)
(***************************************************************************)
Target(i) == IF i.symbol \in DOMAIN labelMap THEN labelMap[i.symbol] ELSE 0

\* Mutant: the distance is taken from the instruction behind the jump.
resolveFromNext(i, pc) ==
  CASE i.part = "number" -> i.imm
    [] i.part = "%hi" -> (Target(i) + 2^11) \div 2^12
    [] i.part = "%lo" -> Target(i) % 2^12
    [] i.part = "distance" -> (Target(i) - pc - 4) \div 4
    [] i.part = "endsync" -> Target(i) + 4

resolveSymbol(i, pc) ==
  CASE i.part = "number" -> i.imm
    [] i.part = "%hi" -> (Target(i) + 2^11) \div 2^12
    [] i.part = "%lo" -> Target(i) % 2^12
    [] i.part = "distance" -> (Target(i) - pc) \div 4
    [] i.part = "endsync" -> Target(i) + 4

(***************************************************************************)
(* sync is an addi that loads the address behind its label into s25.       *)
(***************************************************************************)
s25 == 30

Resolved(i, pc) ==
  CASE i.op = "sync" -> [i EXCEPT !.op = "addi", !.scalar = TRUE, !.rd = s25,
                                  !.rs1 = 0, !.imm = resolveSymbol(i, pc)]
    [] i.op = "li" -> [i EXCEPT !.op = "addi", !.rs1 = 0, !.imm = resolveSymbol(i, pc)]
    [] OTHER -> [i EXCEPT !.imm = resolveSymbol(i, pc)]

Encoders == DOMAIN rTypeFunctMap \cup DOMAIN iTypeFunctMap \cup DOMAIN fTypeFunctMap
              \cup DOMAIN mTypeFunctMap \cup DOMAIN cTypeFunctMap
              \cup {"lui", "li", "sx_slt"}

Assembles(line) == line.kind = "instruction" /\ line.op \in Encoders

Encoded(line, pc) ==
  LET i == Resolved(line, pc)
  IN CASE line.op \in DOMAIN cTypeFunctMap /\ line.op \notin {"ret", "exit"}
            /\ line.symbol \notin DOMAIN labelMap -> {}
       [] i.op \in DOMAIN rTypeFunctMap -> encodeRType(i)
       [] i.op \in DOMAIN iTypeFunctMap -> encodeIType(i)
       [] i.op \in DOMAIN fTypeFunctMap -> encodeFType(i)
       [] i.op \in {"lw", "flw"} -> encodeLoad(i)
       [] i.op \in {"sw", "fsw"} -> encodeStore(i)
       [] i.op = "lui" -> encodeLUI(i)
       [] i.op = "sx_slt" -> encodeXType(i)
       [] OTHER -> encodeControl(i)

Next2nd == pass = "second" /\ at <= Len(instructions) /\ at' = at + 1
             /\ UNCHANGED <<source, pass, firstVars, dataOut>>

Assemble ==
  /\ Next2nd /\ Assembles(instructions[at].line)
  /\ instrOut' = Append(instrOut, Encoded(instructions[at].line,
                                          instructions[at].address))

(***************************************************************************)
(* A line that cannot be encoded is reported and leaves no word.           *)
(***************************************************************************)
Skip == /\ Next2nd /\ ~Assembles(instructions[at].line)
        /\ UNCHANGED instrOut

OutputData ==
  /\ pass = "second" /\ at > Len(instructions)
  /\ dataOut' = [k \in DOMAIN data |-> data[k].value]
  /\ pass' = "done"
  /\ UNCHANGED <<source, at, firstVars, instrOut>>

Next == \/ SectionLine \/ AlignLine \/ LabelLine \/ WordLine \/ ZeroLine
        \/ InstructionLine \/ PassedOver \/ FirstPassEnds
        \/ Assemble \/ Skip \/ OutputData

Spec == Init /\ [][Next]_vars

-----------------------------------------------------------------------------
(***************************************************************************)
(* Addresses are words, words are bits, and no file is longer than what    *)
(* was read.                                                               *)
(***************************************************************************)
TypeOK ==
  /\ source \in Sources /\ pass \in {"first", "second", "done"}
  /\ at \in 1 .. Len(source) + 1
  /\ current_section \in Sections
  /\ instr_pc \in Nat /\ data_pc \in Nat
  /\ \A l \in DOMAIN labelMap : labelMap[l] \in Nat
  /\ Len(instrOut) <= Len(instructions) /\ Len(dataOut) <= Len(data)
  /\ \A k \in DOMAIN instrOut : instrOut[k] \subseteq 0 .. 31

(***************************************************************************)
(* What a reader of the source expects.  The section of a line is that of  *)
(* the last section line before it, and a line in .text that assembles     *)
(* goes to the place behind those before it.                               *)
(***************************************************************************)
Section(l) ==
  LET before == {k \in 1 .. l - 1 : source[k].kind = "section"}
  IN IF before = {} THEN ".text" ELSE source[Max(before)].name

TextLines == {l \in DOMAIN source : Section(l) = ".text" /\ Assembles(source[l])}
WordLines == {l \in DOMAIN source : Section(l) # ".text" /\ source[l].kind = "word"}
Place(lines, l) == 1 + Cardinality({k \in lines : k < l})
Defines(l, label) == source[l].kind = "label" /\ source[l].name = label

(***************************************************************************)
(* A jump or branch of the program in memory, as the decoder reads it,     *)
(* lands on the instruction that follows its label in the source.          *)
(***************************************************************************)
Distance(l, target) == Place(TextLines, target) - Place(TextLines, l)

Goes(ops) == {lt \in TextLines \X DOMAIN source :
                /\ source[lt[1]].op \in ops
                /\ Defines(lt[2], source[lt[1]].symbol)
                /\ Section(lt[2]) = ".text"}

Lands(l, target) ==
  Decoded(instrOut[Place(TextLines, l)]).imm = Distance(l, target)

(***************************************************************************)
(* The word of a jump or branch is the one for its distance in the         *)
(* program, though the first pass knows addresses and the second places    *)
(* (assembler.cpp:349-437, 684-736).                                       *)
(***************************************************************************)
DistancesEncoded ==
  pass = "done" =>
    \A lt \in Goes(Jumps) :
      instrOut[Place(TextLines, lt[1])] =
        encodeControl([source[lt[1]] EXCEPT !.imm = Distance(lt[1], lt[2])])

(***************************************************************************)
(* Every jump lands on its label, forwards and backwards, and so does a    *)
(* branch forwards over fewer than 32 instructions                         *)
(* (assembler.cpp:349-437, 649-725).                                       *)
(***************************************************************************)
JumpsLand ==
  pass = "done" =>
    /\ \A lt \in Goes({"j"}) : Lands(lt[1], lt[2])
    /\ \A lt \in Goes(Branches) :
         Distance(lt[1], lt[2]) \in 0 .. 31 => Lands(lt[1], lt[2])

(***************************************************************************)
(* Every branch lands on its label, as the instruction set says of branch  *)
(* labels (docs/ISA.md:103).                                               *)
(***************************************************************************)
BranchesLand ==
  pass = "done" => \A lt \in Goes(Branches) : Lands(lt[1], lt[2])

(***************************************************************************)
(* The decoder reads every instruction as it was written: operation,       *)
(* registers, scalar bit and operand (assembler.cpp:137-347, 521-616,      *)
(* decoder.sv:82-262).                                                     *)
(***************************************************************************)
Written(line, pc) ==
  LET i == Resolved(line, pc)
      second == IF i.op \in OneOperand THEN 0 ELSE i.rs2
  IN CASE i.op \in DOMAIN rTypeFunctMap \cup DOMAIN fTypeFunctMap ->
            Operation(i.op, i.scalar, i.rd, i.rs1, second, 0)
       [] i.op \in DOMAIN iTypeFunctMap \cup {"lw", "flw"} ->
            Operation(i.op, i.scalar, i.rd, i.rs1, 0, i.imm)
       [] i.op \in {"sw", "fsw"} -> Operation(i.op, i.scalar, 0, i.rs1, i.rs2, i.imm)
       [] i.op = "lui" ->
            Operation(i.op, i.scalar, i.rd, 0, 0, Signed(At(Bits(i.imm, 20), 12)))
       [] i.op = "sx_slt" -> Operation(i.op, FALSE, i.rd, i.rs1, i.rs2, 0)
       [] OTHER -> Operation(i.op, i.scalar, 0, 0, 0, 0)

DecodesAsWritten ==
  pass = "done" =>
    \A l \in TextLines :
      source[l].op \notin DOMAIN cTypeFunctMap \ {"sync", "exit"} =>
        Decoded(instrOut[Place(TextLines, l)]) = Written(source[l], 0)

(***************************************************************************)
(* A label in front of a data word is the address the word is loaded to    *)
(* (assembler.cpp:685-719, 826-834).                                       *)
(***************************************************************************)
DataLands ==
  pass = "done" =>
    \A l \in WordLines :
      l > 1 /\ source[l - 1].kind = "label" =>
        LET k == Place(WordLines, l)
        IN dataOut[k] = source[l].value /\ labelMap[source[l - 1].name] = 4 * (k - 1)

=============================================================================
