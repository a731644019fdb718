-------------------------------- MODULE Dasm --------------------------------
(***************************************************************************)
(* CDasm of HookLib: how long an instruction of the processor is, by two    *)
(* tables of flags and the form of its operand, compared with how the       *)
(* processor's manual has it put together.  A code is a sequence of bytes;  *)
(* what comes after an instruction may be anything.                         *)
(***************************************************************************)
EXTENDS Integers, Sequences

Field(b, low, n) == (b \div 2 ^ low) % 2 ^ n

-----------------------------------------------------------------------------
(* The tables: which entries have a flag.                                   *)

Column(op, columns) == op < \h40 /\ op % 8 \in columns

OpcodeFlags(op) ==
  {f \in {"MODRM"} :
     \/ Column(op, 0 .. 3)
     \/ op \in {\h62, \h63, \h69, \h6B, \hC0, \hC1, \hC4, \hC5, \hC6, \hC7, \hF6, \hF7, \hFE, \hFF}
     \/ op \in \h80 .. \h8F \/ op \in \hD0 .. \hD3}
  \cup {f \in {"DATA_I8"} :
     \/ Column(op, {4})
     \/ op \in {\h6A, \h6B, \h80, \h82, \h83, \hA8, \hC0, \hC1, \hC6, \hC8, \hCD, \hD4, \hD5, \hEB}
     \/ op \in \h70 .. \h7F \/ op \in \hB0 .. \hB7 \/ op \in \hE0 .. \hE7}
  \cup {f \in {"DATA_I16"} : op \in {\h9A, \hC2, \hC8, \hCA, \hEA}}
  \cup {f \in {"DATA_PRE66_67"} :
     \/ Column(op, {5})
     \/ op \in {\h68, \h69, \h81, \h9A, \hA9, \hC7, \hE8, \hE9, \hEA}
     \/ op \in \hA0 .. \hA3 \/ op \in \hB8 .. \hBF}
  \cup {f \in {"WORD"} : op \in \hD8 .. \hDF}

OpcodeFlagsExt(op) ==
  {f \in {"MODRM"} :
     \/ op \in {\h0D, \h0F, \h26, \hA3, \hA4, \hA5}
     \/ op \in \h00 .. \h03 \/ op \in \h10 .. \h18 \/ op \in \h20 .. \h24 \/ op \in \h28 .. \h2F
     \/ op \in \h40 .. \h76 \/ op \in \h7C .. \h7F \/ op \in \h90 .. \h9F \/ op \in \hAB .. \hB7
     \/ op \in \hBA .. \hC7 \/ op \in \hD0 .. \hFE}
  \cup {f \in {"DATA_I8"} : op \in {\h0F, \h70, \h71, \h72, \h73, \hA4, \hAC, \hBA, \hC2, \hC4, \hC5, \hC6}}
  \cup {f \in {"DATA_PRE66_67"} : op \in \h80 .. \h8F}

-----------------------------------------------------------------------------
Prefixes == {\h26, \h2E, \h36, \h3E, \h64, \h65, \h66, \h67, \hF0, \hF2, \hF3}

\* How many bytes at the start are prefixes.
Prefixed(code) ==
  CHOOSE n \in 0 .. Len(code) - 1 :
    code[n + 1] \notin Prefixes /\ \A i \in 1 .. n : code[i] \in Prefixes

\* Mutated form of ModRMSize: a base register that stands for none is forgotten.
ModRMSizeAnyBase(modrm, sib, PFX67) ==
  LET iMod == Field(modrm, 6, 2)
      iRM == Field(modrm, 0, 3)
  IN  1 + (IF ~PFX67 /\ iRM = 4 /\ iMod # 3 THEN 1 ELSE 0)
      + CASE iMod = 0 /\ PFX67 /\ iRM = 6 -> 2
          [] iMod = 0 /\ ~PFX67 /\ iRM = 5 -> 4
          [] iMod = 1 -> 1
          [] iMod = 2 -> IF PFX67 THEN 2 ELSE 4
          [] OTHER -> 0

\* The bytes that a ModRM byte asks for, itself included.
ModRMSize(modrm, sib, PFX67) ==
  LET iMod == Field(modrm, 6, 2)
      iRM == Field(modrm, 0, 3)
      SibPresent == ~PFX67 /\ iRM = 4 /\ iMod # 3
      OffsetSize ==
        CASE iMod = 0 /\ PFX67 /\ iRM = 6 -> 2
          [] iMod = 0 /\ ~PFX67 /\ iRM = 5 -> 4
          [] iMod = 1 -> 1
          [] iMod = 2 -> IF PFX67 THEN 2 ELSE 4
          [] OTHER -> 0
  IN  1 + IF SibPresent
          THEN 1 + IF Field(sib, 0, 3) = 5 /\ iMod \in {0, 2} THEN 4 ELSE OffsetSize
          ELSE OffsetSize

SizeOfCode(code) ==
  LET n == Prefixed(code)
      Opcode == code[n + 1]
      ext == Opcode = \h0F
      p == IF ext THEN n + 3 ELSE n + 2   \* the place behind the opcode
      PFX67 == \E i \in 1 .. n : code[i] = \h67
      PFX66 == IF Opcode \in \hA0 .. \hA3 THEN PFX67 ELSE \E i \in 1 .. n : code[i] = \h66
      iReg == Field(code[p], 3, 3)
      Flags == (IF ext THEN OpcodeFlagsExt(code[n + 2]) ELSE OpcodeFlags(Opcode))
               \cup {f \in {"DATA_I8"} : Opcode = \hF6 /\ iReg = 0}
               \cup {f \in {"DATA_PRE66_67"} : Opcode = \hF7 /\ iReg = 0}
      Size(flag, size) == IF flag \in Flags THEN size ELSE 0
  IN  IF n > 16 THEN 0
      ELSE p - 1 + Size("WORD", 1) + Size("MODRM", ModRMSize(code[p], code[p + 1], PFX67))
           + Size("DATA_I8", 1) + Size("DATA_I16", 2) + Size("DATA_PRE66_67", IF PFX66 THEN 2 ELSE 4)

-----------------------------------------------------------------------------
(* The manual: an instruction is prefixes, an opcode, an operand in a       *)
(* register or in memory, and what stands in the code itself.               *)

\* An operand in memory: its address is made of a base, an index and a
\* displacement of a size.
Displacement(mod, base, none, wide) ==
  CASE mod = 1 -> 1
    [] mod = 2 \/ (mod = 0 /\ base = none) -> wide
    [] OTHER -> 0
Operand(modrm, sib, short) ==
  LET mod == Field(modrm, 6, 2)
      rm == Field(modrm, 0, 3)
  IN  CASE mod = 3 -> 1
        [] mod # 3 /\ short -> 1 + Displacement(mod, rm, 6, 2)
        [] mod # 3 /\ ~short /\ rm = 4 -> 2 + Displacement(mod, Field(sib, 0, 3), 5, 4)
        [] OTHER -> 1 + Displacement(mod, rm, 5, 4)

\* The operand that each opcode has: of the long opcodes, those listed have none.
HasOperand(op) ==
  \/ op < \h40 /\ Field(op, 2, 1) = 0
  \/ op \in {\h62, \h63, \h69, \h6B, \hC0, \hC1, \hC4, \hC5, \hC6, \hC7} \cup \h80 .. \h8F \cup \hD0 .. \hD3
  \/ op \in \hD8 .. \hDF \cup {\hF6, \hF7, \hFE, \hFF}
NoOperand2 == {\h05, \h06, \h07, \h08, \h09, \h0B, \h77, \hA0, \hA1, \hA2, \hA8, \hA9, \hAA}
  \cup \h30 .. \h37 \cup \h80 .. \h8F \cup \hC8 .. \hCF

\* What stands in the code: b a byte, w two, z as wide as an operand, a as an
\* address.
Immediates(op, reg) ==
  CASE op < \h40 /\ op % 8 = 4 -> {"b"}
    [] op < \h40 /\ op % 8 = 5 -> {"z"}
    [] op \in {\h68, \h69, \h81, \hC7, \hA9, \hE8, \hE9} \cup \hB8 .. \hBF -> {"z"}
    [] op \in {\h9A, \hEA} -> {"z", "w"}
    [] op \in {\hC2, \hCA} -> {"w"}
    [] op = \hC8 -> {"w", "b"}
    [] op \in \hA0 .. \hA3 -> {"a"}
    [] op \in {\h6A, \h6B, \h80, \h82, \h83, \hA8, \hC0, \hC1, \hC6, \hCD, \hD4, \hD5, \hEB} -> {"b"}
    [] op \in \h70 .. \h7F \cup \hB0 .. \hB7 \cup \hE0 .. \hE7 -> {"b"}
    [] op = \hF6 /\ reg < 2 -> {"b"}
    [] op = \hF7 /\ reg < 2 -> {"z"}
    [] OTHER -> {}
Immediates2(op) ==
  CASE op \in \h80 .. \h8F -> {"z"}
    [] op \in {\h0F, \h70, \h71, \h72, \h73, \hA4, \hAC, \hBA, \hC2, \hC4, \hC5, \hC6} -> {"b"}
    [] OTHER -> {}

Manual(code) ==
  LET n == Prefixed(code)
      long == code[n + 1] = \h0F
      op == IF long THEN code[n + 2] ELSE code[n + 1]
      third == IF long /\ op \in {\h38, \h3A} THEN 1 ELSE 0
      p == n + 2 + third + IF long THEN 1 ELSE 0
      Has(prefix) == \E i \in 1 .. n : code[i] = prefix
      imm == IF long THEN Immediates2(op) \cup {b \in {"b"} : op = \h3A} ELSE Immediates(op, Field(code[p], 3, 3))
      register == long /\ op \in {\h20, \h21, \h22, \h23, \h24, \h26}
  IN  p - 1
      + (CASE register -> 1
           [] ~register /\ (IF long THEN op \notin NoOperand2 ELSE HasOperand(op)) -> Operand(code[p], code[p + 1], Has(\h67))
           [] OTHER -> 0)
      + (IF "b" \in imm THEN 1 ELSE 0) + (IF "w" \in imm THEN 2 ELSE 0)
      + (IF "z" \in imm THEN IF Has(\h66) THEN 2 ELSE 4 ELSE 0)
      + (IF "a" \in imm THEN IF Has(\h67) THEN 2 ELSE 4 ELSE 0)

-----------------------------------------------------------------------------
\* Codes the manual defines no instruction for, or other ones by now.
Undefined(code) ==
  LET n == Prefixed(code)
      op == code[n + 1]
      op2 == code[n + 2]
  IN  \/ op \in {\h62, \hC4, \hC5} /\ Field(op2, 6, 2) = 3
      \/ op = \h0F /\ op2 \in {\h04, \h0A, \h0C, \h0E, \h25, \h27, \h36, \h39, \h7A, \h7B, \hA6, \hA7} \cup \h3B .. \h3F

\* Where the tables differ from the manual: operands in memory of the floating
\* point unit, the other test of a byte or word with what stands in the code,
\* long opcodes that the tables give no operand, three-byte opcodes, and
\* registers of the processor, whose operand is never in memory.
Differs(code) ==
  LET n == Prefixed(code)
      op == code[n + 1]
      op2 == code[n + 2]
      short == \E i \in 1 .. n : code[i] = \h67
  IN  \/ op \in \hD8 .. \hDF /\ Operand(op2, code[n + 3], short) > 1
      \/ op \in {\hF6, \hF7} /\ Field(op2, 3, 3) = 1
      \/ op = \h0F /\ op2 \in \h19 .. \h1F \cup {\h38, \h3A, \h78, \h79, \hB8, \hB9, \hFF}
      \/ op = \h0F /\ op2 \in {\h20, \h21, \h22, \h23, \h24, \h26} /\ Operand(code[n + 3], code[n + 4], short) > 1

\* SizeOfCode agrees with the manual on every instruction but those.
SizeIsManuals(code) == ~Undefined(code) => (SizeOfCode(code) = Manual(code) <=> ~Differs(code))
=============================================================================
