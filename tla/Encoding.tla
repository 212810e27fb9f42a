------------------------------ MODULE Encoding ------------------------------
(***************************************************************************)
(* Instructions as 32-bit words: the assembler (assembler/assembler.cpp)   *)
(* builds them, the decoder (hardware/rtl/lock_in/decoder.sv) takes them   *)
(* apart.  A word is the set of its bits that are 1.  Registers are their  *)
(* numbers; which of the four files a number belongs to is left out.       *)
(***************************************************************************)
EXTENDS Integers

Bits(v, n) == {i \in 0 .. n - 1 : (v \div 2^i) % 2 = 1}
At(bits, lo) == {i + lo : i \in bits}
Field(word, hi, lo) == {i - lo : i \in word \cap lo .. hi}

\* At most 31 bits.
Number(bits) ==
  LET sum[i \in 0 .. 30] == (IF i \in bits THEN 2^i ELSE 0)
                               + (IF i = 0 THEN 0 ELSE sum[i - 1])
  IN sum[30]

\* n bits, extended to width
Extended(bits, n, width) == bits \cup (IF n - 1 \in bits THEN n .. width - 1 ELSE {})
Signed(bits) == IF 31 \in bits THEN -Number((0 .. 30) \ bits) - 1 ELSE Number(bits)

-----------------------------------------------------------------------------
(***************************************************************************)
(* The assembler's tables.                                                 *)
(***************************************************************************)
rTypeFunctMap == [add |-> 0, sub |-> 1, mul |-> 2, div |-> 3, slt |-> 4,
                  sll |-> 5, seq |-> 6, snez |-> 7, min |-> 8, abs |-> 9,
                  neg |-> 11]
iTypeFunctMap == [addi |-> 0, muli |-> 2, slli |-> 10, divi |-> 3, seqi |-> 11]
fTypeFunctMap == [fadd |-> 0, fsub |-> 1, fmul |-> 2, fdiv |-> 3, flt |-> 4,
                  fneg |-> 5, feq |-> 6, fmin |-> 7, fabs |-> 8,
                  fcvt_w_s |-> 9, fcvt_s_w |-> 10]
mTypeFunctMap == [lw |-> 0, sw |-> 1, flw |-> 2, fsw |-> 3]
cTypeFunctMap == [j |-> 0, beqz |-> 1, beqo |-> 2, ret |-> 3, sync |-> 6, exit |-> 7]

OneOperand == {"abs", "snez", "fneg", "fabs", "fcvt_w_s", "fcvt_s_w"}
Branches == {"beqz", "beqo"}

Arithmetic(opcode, funct, i, rs2) ==
  At(Bits(opcode, 3), 29) \cup (IF i.scalar THEN {28} ELSE {})
    \cup At(Bits(rs2, 5), 14) \cup At(Bits(funct, 4), 10)
    \cup At(Bits(i.rs1, 5), 5) \cup Bits(i.rd, 5)

encodeRType(i) == Arithmetic(0, rTypeFunctMap[i.op], i,
                             IF i.op \in OneOperand THEN 0 ELSE i.rs2)

encodeFType(i) == Arithmetic(2, fTypeFunctMap[i.op], i,
                             IF i.op \in OneOperand THEN 0 ELSE i.rs2)

encodeIType(i) ==
  Arithmetic(1, iTypeFunctMap[i.op], i, 0)
    \cup At(Bits(i.imm, IF i.op = "slli" THEN 5 ELSE 14), 14)

Access(i) ==
  At(Bits(4, 3), 29) \cup (IF i.scalar THEN {13} ELSE {})
    \cup At(Bits(mTypeFunctMap[i.op], 3), 10) \cup At(Bits(i.rs1, 5), 5)

encodeLoad(i) == Access(i) \cup At(Bits(i.imm, 15), 14) \cup Bits(i.rd, 5)

\* Mutant: the upper part of a store's offset is one bit lower.
encodeStoreShifted(i) == Access(i) \cup At(Bits(i.imm \div 32, 10), 18)
                           \cup At(Bits(i.rs2, 5), 14) \cup Bits(i.imm, 5)

encodeStore(i) == Access(i) \cup At(Bits(i.imm \div 32, 10), 19)
                    \cup At(Bits(i.rs2, 5), 14) \cup Bits(i.imm, 5)

\* Mutant: the immediate is not cut to its field.
encodeLUIUnmasked(i) == At(Bits(3, 3), 29) \cup At(Bits(i.imm, 30), 9)
                          \cup (IF i.scalar THEN {5} ELSE {}) \cup Bits(i.rd, 5)

encodeLUI(i) == At(Bits(3, 3), 29) \cup At(Bits(i.imm, 20), 9)
                  \cup (IF i.scalar THEN {5} ELSE {}) \cup Bits(i.rd, 5)

encodeXType(i) == At(Bits(5, 3), 29) \cup At(Bits(i.rs2, 5), 14)
                    \cup At(Bits(i.rs1, 5), 5) \cup Bits(i.rd, 5)

(***************************************************************************)
(* Control flow.  imm is the distance to the target in words.  A branch    *)
(* takes bits 8 to 17 and 7 of it for its upper fields and 0 to 4 for the  *)
(* lowest one: bits 5 and 6 are not encoded.                               *)
(***************************************************************************)
Control(i) == At(Bits(7, 3), 29) \cup At(Bits(cTypeFunctMap[i.op], 3), 10)

encodeJump(i) == Control(i) \cup At(Bits(i.imm \div 2^10, 16), 13) \cup Bits(i.imm, 10)

encodeBranch(i) ==
  Control(i) \cup At(Bits(i.imm \div 2^8, 10), 19)
    \cup At(Bits(i.imm \div 2^7, 1), 13) \cup At(Bits(i.rs1, 5), 5) \cup Bits(i.imm, 5)

encodeControl(i) ==
  CASE i.op = "j" -> encodeJump(i)
    [] i.op \in Branches -> encodeBranch(i)
    [] i.op = "ret" -> Control(i) \cup {5}
    [] i.op = "exit" -> Control(i)

-----------------------------------------------------------------------------
(***************************************************************************)
(* The decoder.  Its operations bear the assembler's names; an instruction *)
(* it does not know is reported as invalid.                                *)
(***************************************************************************)
rOperation == [add |-> 0, sub |-> 1, mul |-> 2, neg |-> 11, slt |-> 4, sll |-> 5,
               seq |-> 6, snez |-> 7, min |-> 8, abs |-> 9]
iOperation == [addi |-> 0, muli |-> 2, slli |-> 10, seqi |-> 11]
fOperation == [fadd |-> 0, fsub |-> 1, fmul |-> 2, flt |-> 4, fneg |-> 5, feq |-> 6,
               fmin |-> 7, fabs |-> 8, fcvt_w_s |-> 9, fcvt_s_w |-> 10]
mOperation == [lw |-> 0, sw |-> 1, flw |-> 2, fsw |-> 3]
cOperation == [j |-> 0, beqz |-> 1, beqo |-> 2, exit |-> 7]

Named(table, funct) ==
  LET known == {op \in DOMAIN table : table[op] = funct}
  IN IF known = {} THEN "invalid" ELSE CHOOSE op \in known : TRUE

imm_s(word) == At(Field(word, 28, 19), 5) \cup Field(word, 4, 0)
imm_b(word) == At(Field(word, 28, 19), 6) \cup At(Field(word, 13, 13), 5)
                 \cup Field(word, 4, 0)
imm_j(word) == At(Field(word, 28, 13), 10) \cup Field(word, 9, 0)
imm_u(word) == At(Field(word, 28, 9), 12)

(***************************************************************************)
(* sign_extend_16 fills 30 bits, the others 32.                            *)
(***************************************************************************)
sign_extend_14(bits) == Signed(Extended(bits, 14, 32))
sign_extend_15(bits) == Signed(Extended(bits, 15, 32))
sign_extend_16(bits) == Signed(Extended(bits, 16, 30))
sign_extend_26(bits) == Signed(Extended(bits, 26, 32))

Operation(op, scalar, rd, rs1, rs2, imm) ==
  [op |-> op, scalar |-> scalar, rd |-> rd, rs1 |-> rs1, rs2 |-> rs2, imm |-> imm]

Decoded(word) ==
  LET opcode == Number(Field(word, 31, 29))
      funct3 == Number(Field(word, 12, 10))
      funct4 == Number(Field(word, 13, 10))
      rd == Number(Field(word, 4, 0))
      rs1 == Number(Field(word, 9, 5))
      rs2 == Number(Field(word, 18, 14))
      arithmetic(table, second, imm) ==
        Operation(Named(table, funct4), 28 \in word, rd, rs1, second, imm)
      access(destination, second, imm) ==
        Operation(Named(mOperation, funct3), 13 \in word, destination, rs1, second, imm)
      control(first, second, imm) ==
        Operation(Named(cOperation, funct3), TRUE, 0, first, second, imm)
  IN CASE opcode = 0 -> arithmetic(rOperation, rs2, 0)
       [] opcode = 1 -> arithmetic(iOperation, 0, sign_extend_14(Field(word, 27, 14)))
       [] opcode = 2 -> arithmetic(fOperation, rs2, 0)
       [] opcode = 3 -> Operation("lui", 5 \in word, rd, 0, 0, Signed(imm_u(word)))
       [] opcode = 4 /\ funct3 \in {0, 2} ->
            access(rd, 0, sign_extend_15(Field(word, 28, 14)))
       [] opcode = 4 /\ funct3 \in {1, 3} -> access(0, rs2, sign_extend_15(imm_s(word)))
       [] opcode = 5 /\ funct4 = 0 -> Operation("sx_slt", FALSE, rd, rs1, rs2, 0)
       [] opcode = 7 /\ funct3 = 0 -> control(0, 0, sign_extend_26(imm_j(word)))
       [] opcode = 7 /\ funct3 \in {1, 2} ->
            control(rs1, rs2, sign_extend_16(imm_b(word)))
       [] opcode = 7 /\ funct3 = 7 -> control(0, 0, 0)
       [] OTHER -> Operation("invalid", FALSE, 0, 0, 0, 0)

=============================================================================
