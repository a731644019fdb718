------------------------------ MODULE ExprCalc ------------------------------
(***************************************************************************)
(* CLogExpressionCalc, what the commands "calc" and "dd" of the log window *)
(* do (Analysis): the text is cut into tokens (GetExpression), ordered for *)
(* a stack machine (GetRpn), and evaluated (CalcResult_By_Rpn).  One step  *)
(* is one turn of the loop of each.  A character of the text is a string,  *)
(* a token a record of its kind and value; numbers have the width of a     *)
(* UINT_PTR.                                                               *)
(***************************************************************************)
EXTENDS Integers, Sequences, FiniteSets, SequencesExt, Bitwise

CONSTANTS
  Entered,  \* what is entered: a command, its text, and what follows, "" for no command
  Bits,     \* of a UINT_PTR
  ReadValue \* what is at each address

WidthAssumption == Bits \in Nat \ {0} /\ ReadValue \in [0 .. 2^Bits - 1 -> 0 .. 2^Bits - 1]

VARIABLES
  cmd,      \* emCmdType
  parms,    \* parameters after the text: whether each has a '-', and its number or -1
  watched,  \* addresses that dd shows
  text,     \* wsExpText
  pc,       \* the function that runs, or how Analysis ended
  uIndex,   \* place in the text or among the tokens
  wsNumber, \* digits of the number that is read
  bNegative,
  last,     \* emLastTextType
  expr,     \* ExpressionVec
  symbols,  \* StackSymbol
  rpn,      \* tmpRpn, and Rpn in the order in which it is popped
  results   \* StackResult

lexVars == <<wsNumber, bNegative, last>>
cmdVars == <<cmd, parms, watched>>
calcVars == <<cmdVars, text, pc, uIndex, lexVars, expr, symbols, rpn, results>>

Width == 2^Bits
Digits == <<"0", "1", "2", "3", "4", "5", "6", "7", "8", "9", "A", "B", "C", "D", "E", "F">>
Low == {"+", "-"}
High == {"*", "/", "%", "^", "|", "~", "&", "<<", ">>"}
Left == {"(", "["}
Ended == {"done", "refused", "fault", "terminated"}

Init ==
  /\ \E e \in Entered : cmd = e.cmd /\ text = e.text /\ parms = e.parms
  /\ watched = <<>> /\ pc = "Analysis" /\ uIndex = 1
  /\ wsNumber = <<>> /\ bNegative = FALSE /\ last = "NULL"
  /\ expr = <<>> /\ symbols = <<>> /\ rpn = <<>> /\ results = <<>>

End(how) == pc' = how /\ UNCHANGED <<cmdVars, text, uIndex, lexVars, expr, symbols, rpn, results>>

\* Analysis: without any word, the first is read past the end of the vector.
Analysis ==
  /\ pc = "Analysis"
  /\ End(IF cmd = "" THEN "terminated" ELSE IF cmd \notin {"calc", "dd"} \/ text = <<>> THEN "refused" ELSE "GetExpression")

\* Then the parameters; the number of the last one is how much dd shows.
Parameters ==
  /\ pc = "Parameters"
  /\ End(IF \E k \in DOMAIN parms : ~parms[k].dash \/ parms[k].number = -1 THEN "refused" ELSE "GetRpn")

ReadMem_By_Rpn(address) ==
  watched' = IF cmd # "dd" \/ parms = <<>> THEN <<>>
             ELSE [k \in 1 .. parms[Len(parms)].number |-> (address + 4 * (k - 1)) % Width]

-----------------------------------------------------------------------------
(* GetExpression.                                                           *)

\* A lone '<' or '>' at the end is read past, which throws out of a throw().
GetTextType(k) ==
  LET c == text[k]
  IN  CASE c \in Range(Digits) -> "Number"
        [] c \in (Low \cup High) \ {"<<", ">>"} -> "Symbol"
        [] c \in {"(", ")", "[", "]"} -> "Bracket"
        [] c \in {"<", ">"} -> IF k = Len(text) THEN "Throws" ELSE IF text[k + 1] = c THEN "Symbol" ELSE "Invalid"
        [] OTHER -> "Invalid"

\* wcstol with base 16: a number that does not fit a long becomes the largest or
\* smallest long, and that becomes a UINT_PTR.
Hex(number, negative) ==
  LET v == FoldLeft(LAMBDA n, c : n * 16 + (CHOOSE k \in DOMAIN Digits : Digits[k] = c) - 1, 0, number)
  IN  IF negative THEN (Width - Min({v, Width \div 2})) % Width ELSE Min({v, Width \div 2 - 1})

Token(kind) == [kind |-> kind, value |-> 0]
Number(v) == [kind |-> "number", value |-> v]
WithNumber == IF wsNumber = <<>> THEN expr ELSE Append(expr, Number(Hex(wsNumber, bNegative)))

ReadDigit ==
  /\ GetTextType(uIndex) = "Number"
  /\ wsNumber' = Append(wsNumber, text[uIndex])
  /\ uIndex' = uIndex + 1 /\ last' = "Number"
  /\ UNCHANGED <<cmdVars, text, pc, bNegative, expr, symbols, rpn, results>>

\* Mutated form of ReadSymbol: the sign is kept for the next number too.
ReadSymbolKeepsSign ==
  /\ GetTextType(uIndex) \in {"Symbol", "Bracket"}
  /\ ~(GetTextType(uIndex) = "Symbol" /\ last = "Symbol")
  /\ expr' = Append(WithNumber, Token(IF text[uIndex] \in {"<", ">"} THEN text[uIndex] \o text[uIndex] ELSE text[uIndex]))
  /\ wsNumber' = <<>> /\ UNCHANGED bNegative
  /\ uIndex' = uIndex + (IF text[uIndex] \in {"<", ">"} THEN 2 ELSE 1) /\ last' = GetTextType(uIndex)
  /\ UNCHANGED <<cmdVars, text, pc, symbols, rpn, results>>

\* A symbol or bracket ends the number before it, and is a token itself.
ReadSymbol ==
  /\ GetTextType(uIndex) \in {"Symbol", "Bracket"}
  /\ ~(GetTextType(uIndex) = "Symbol" /\ last = "Symbol")
  /\ expr' = Append(WithNumber, Token(IF text[uIndex] \in {"<", ">"} THEN text[uIndex] \o text[uIndex] ELSE text[uIndex]))
  /\ wsNumber' = <<>> /\ bNegative' = (bNegative /\ wsNumber = <<>>)
  /\ uIndex' = uIndex + (IF text[uIndex] \in {"<", ">"} THEN 2 ELSE 1) /\ last' = GetTextType(uIndex)
  /\ UNCHANGED <<cmdVars, text, pc, symbols, rpn, results>>

\* After a symbol, a '-' is the sign of the next number, and no other may come.
ReadSign ==
  /\ GetTextType(uIndex) = "Symbol" /\ last = "Symbol"
  /\ IF text[uIndex] # "-" THEN End("refused")
     ELSE /\ bNegative' = TRUE /\ uIndex' = uIndex + 1
          /\ UNCHANGED <<cmdVars, text, pc, wsNumber, last, expr, symbols, rpn, results>>

ReadInvalid ==
  \/ GetTextType(uIndex) = "Invalid" /\ End("refused")
  \/ GetTextType(uIndex) = "Throws" /\ End("terminated")

GetExpression ==
  /\ pc = "GetExpression"
  /\ IF uIndex <= Len(text) THEN ReadDigit \/ ReadSymbol \/ ReadSign \/ ReadInvalid
     ELSE /\ expr' = WithNumber /\ wsNumber' = <<>>
          /\ pc' = "Parameters" /\ uIndex' = 1
          /\ UNCHANGED <<cmdVars, text, bNegative, last, symbols, rpn, results>>

-----------------------------------------------------------------------------
(* GetRpn.  Reading the top of an empty stack is undefined: a fault.        *)

GetPriority(kind) == IF kind \in Low THEN 1 ELSE 2

\* Pops the stack of symbols down to n, to the output; drops one more of them.
PopTo(n, drop) ==
  /\ rpn' = rpn \o Reverse(SubSeq(symbols, n + 1, Len(symbols)))
  /\ symbols' = SubSeq(symbols, 1, n - drop)

CloseBracket ==
  LET open == {k \in DOMAIN symbols : symbols[k].kind = "("}
  IN  IF open = {} THEN pc' = "fault" /\ UNCHANGED <<symbols, rpn>>
                   ELSE PopTo(Max(open), 1) /\ UNCHANGED pc

\* Mutated form of CloseAddress: like CloseBracket, without the '[' that reads.
CloseAddressDrops ==
  LET open == {k \in DOMAIN symbols : symbols[k].kind = "["}
  IN  IF open = {} THEN pc' = "fault" /\ UNCHANGED <<symbols, rpn>>
                   ELSE PopTo(Max(open), 1) /\ UNCHANGED pc

\* Mutated form of CloseAddress: looks for a '[' below the first even so.
CloseAddressAgain ==
  LET n == Len(symbols)
      below == Max({0} \cup {k \in 1 .. n - 1 : symbols[k].kind = "["})
  IN  IF below = 0 THEN pc' = "fault" /\ UNCHANGED <<symbols, rpn>> ELSE PopTo(below - 1, 0) /\ UNCHANGED pc

\* At least one symbol is popped, and more until a '[' is on top; it is popped too
\* unless the first one was a '[': then the loop has gone on to the next.
CloseAddress ==
  LET n == Len(symbols)
      below == Max({0} \cup {k \in 1 .. n - 1 : symbols[k].kind = "["})
      first == n > 0 /\ symbols[n].kind = "["
  IN  IF n = 0 \/ (~first /\ below = 0) THEN pc' = "fault" /\ UNCHANGED <<symbols, rpn>>
      ELSE PopTo(IF first THEN below ELSE below - 1, 0) /\ UNCHANGED pc

\* Mutated form of PushSymbol: a symbol of the same priority waits, too.
PushEqual(token) ==
  LET n == Len(symbols)
  IN  IF n = 0 \/ symbols[n].kind \in Left \/ GetPriority(token.kind) >= GetPriority(symbols[n].kind)
      THEN symbols' = Append(symbols, token) /\ UNCHANGED rpn
      ELSE symbols' = Append(SubSeq(symbols, 1, n - 1), token) /\ rpn' = Append(rpn, symbols[n])

PushSymbol(token) ==
  LET n == Len(symbols)
  IN  IF n = 0 \/ symbols[n].kind \in Left \/ GetPriority(token.kind) > GetPriority(symbols[n].kind)
      THEN symbols' = Append(symbols, token) /\ UNCHANGED rpn
      ELSE symbols' = Append(SubSeq(symbols, 1, n - 1), token) /\ rpn' = Append(rpn, symbols[n])

GetRpn ==
  /\ pc = "GetRpn"
  /\ IF uIndex <= Len(expr)
     THEN LET token == expr[uIndex]
          IN  /\ CASE token.kind = "number" -> rpn' = Append(rpn, token) /\ UNCHANGED <<symbols, pc>>
                   [] token.kind \in Left -> symbols' = Append(symbols, token) /\ UNCHANGED <<rpn, pc>>
                   [] token.kind = ")" -> CloseBracket
                   [] token.kind = "]" -> CloseAddress
                   [] OTHER -> PushSymbol(token) /\ UNCHANGED pc
              /\ uIndex' = uIndex + 1
     ELSE PopTo(0, 0) /\ pc' = "CalcResult_By_Rpn" /\ uIndex' = 1
  /\ UNCHANGED <<cmdVars, text, lexVars, expr, results>>

-----------------------------------------------------------------------------
(* CalcResult_By_Rpn.                                                       *)

\* Mutated form of CalcResult_By_Parm: numbers are signed.
CalcSigned(left, right, kind) == IF kind = "-" THEN left - right ELSE (left + right) % Width

\* CalcResult_By_Parm.  The processor takes the count of a shift modulo the width;
\* brackets that are left in the output give 0.
CalcResult_By_Parm(left, right, kind) ==
  CASE kind = "+" -> (left + right) % Width
    [] kind = "-" -> (left - right) % Width
    [] kind = "*" -> (left * right) % Width
    [] kind = "/" -> left \div right
    [] kind = "%" -> left % right
    [] kind = "~" -> Width - 1 - left
    [] kind = "^" -> left ^^ right
    [] kind = "|" -> left | right
    [] kind = "&" -> left & right
    [] kind = "<<" -> (left * 2^(right % Bits)) % Width
    [] kind = ">>" -> left \div 2^(right % Bits)
    [] kind = "[" -> ReadValue[left]
    [] OTHER -> 0

Push(n, v) == results' = Append(SubSeq(results, 1, Len(results) - n), v) /\ UNCHANGED pc
Fails(how) == pc' = how /\ UNCHANGED results

Operate(kind) ==
  LET n == Len(results)
  IN  IF n = 0 THEN Fails("refused")
      ELSE IF kind \in {"[", "~"} THEN Push(1, CalcResult_By_Parm(results[n], 0, kind))
      ELSE IF n = 1 THEN Fails("refused")
      ELSE IF kind = "/" /\ results[n] = 0 THEN Fails("refused")
      ELSE IF kind = "%" /\ results[n] = 0 THEN Fails("fault")
      ELSE Push(2, CalcResult_By_Parm(results[n - 1], results[n], kind))

CalcResult_By_Rpn ==
  /\ pc = "CalcResult_By_Rpn"
  /\ IF uIndex <= Len(rpn)
     THEN /\ IF rpn[uIndex].kind = "number" THEN Push(0, rpn[uIndex].value) ELSE Operate(rpn[uIndex].kind)
          /\ uIndex' = uIndex + 1 /\ UNCHANGED watched
     ELSE IF results = <<>> THEN pc' = "refused" /\ UNCHANGED <<uIndex, results, watched>>
     ELSE pc' = "done" /\ ReadMem_By_Rpn(results[Len(results)]) /\ UNCHANGED <<uIndex, results>>
  /\ UNCHANGED <<cmd, parms, text, lexVars, expr, symbols, rpn>>

Next == Analysis \/ GetExpression \/ Parameters \/ GetRpn \/ CalcResult_By_Rpn

Spec == Init /\ [][Next]_calcVars

-----------------------------------------------------------------------------
(* Reference: the value of tokens by the rules of arithmetic.               *)

Depth(s, k) == Cardinality({j \in 1 .. k - 1 : s[j].kind \in Left}) - Cardinality({j \in 1 .. k : s[j].kind \in {")", "]"}})

RECURSIVE Value(_)
Value(s) ==
  LET at(kinds) == {k \in DOMAIN s : Depth(s, k) = 0 /\ s[k].kind \in kinds}
      split == IF at(Low) # {} THEN at(Low) ELSE at(High \ {"~"})
      k == Max(split)
      n == Len(s)
  IN  IF split # {} THEN CalcResult_By_Parm(Value(SubSeq(s, 1, k - 1)), Value(SubSeq(s, k + 1, n)), s[k].kind)
      ELSE IF s[1].kind = "~" THEN CalcResult_By_Parm(Value(SubSeq(s, 2, n)), 0, "~")
      ELSE IF s[1].kind = "number" THEN s[1].value
      ELSE IF s[1].kind = "[" THEN ReadValue[Value(SubSeq(s, 2, n - 1))]
      ELSE Value(SubSeq(s, 2, n - 1))

\* What an expression is: operators have operands, brackets match.
RECURSIVE WellFormed(_)
WellFormed(s) ==
  LET at == {k \in DOMAIN s : Depth(s, k) = 0 /\ s[k].kind \in (Low \cup High) \ {"~"}}
      n == Len(s)
  IN  /\ s # <<>>
      /\ IF at # {} THEN WellFormed(SubSeq(s, 1, Max(at) - 1)) /\ WellFormed(SubSeq(s, Max(at) + 1, n))
         ELSE IF s[1].kind = "~" THEN WellFormed(SubSeq(s, 2, n))
         ELSE IF s[1].kind = "number" THEN n = 1
         ELSE n > 2 /\ <<s[1].kind, s[n].kind>> \in {<<"(", ")">>, <<"[", "]">>} /\ WellFormed(SubSeq(s, 2, n - 1))

\* A '-' that waits on the stack while a stronger symbol and a weaker one go by.
Overtaken(s) ==
  \E a, b, c \in DOMAIN s :
    /\ a < b /\ b < c /\ s[a].kind = "-" /\ s[b].kind \in High /\ s[c].kind \in Low
    /\ Depth(s, a) = Depth(s, b) /\ Depth(s, a) = Depth(s, c) /\ \A k \in a .. c : Depth(s, k) >= Depth(s, a)

AddressInBracket(s) ==
  \E a, b \in DOMAIN s : a < b /\ s[a].kind = "(" /\ s[b].kind = "[" /\ \A k \in a + 1 .. b : Depth(s, k) > Depth(s, a)

AddressBetween(s) ==
  \E a, b \in DOMAIN s :
    /\ 1 < a /\ a < b /\ b < Len(s) /\ s[a].kind = "[" /\ s[b].kind = "]" /\ Depth(s, a) = Depth(s, b)
    /\ s[a - 1].kind \in Low \cup High /\ s[b + 1].kind \in High

Misread(s) == Overtaken(s) \/ AddressInBracket(s) \/ AddressBetween(s)

Divides(s) == \E k \in DOMAIN s : s[k].kind \in {"/", "%"}

-----------------------------------------------------------------------------
(* Properties.                                                              *)

TypeOK ==
  /\ pc \in {"Analysis", "GetExpression", "Parameters", "GetRpn", "CalcResult_By_Rpn"} \cup Ended
  /\ \A k \in DOMAIN results : results[k] \in 0 .. Width - 1

\* A well-formed expression is evaluated as arithmetic has it.  The code differs where
\* a '-' is overtaken (1-2*3-4 is 1-(2*3-4)), an address is in brackets, or an address
\* is between a symbol and a stronger one (1+[2]*3 is (1+[2])*3).
IsArithmetic ==
  pc \in Ended /\ rpn # <<>> /\ WellFormed(expr) /\ ~Misread(expr) /\ ~Divides(expr) =>
    pc = "done" /\ results = <<Value(expr)>>

\* Nothing is lost between the tokens and the stack machine: it gets the numbers in
\* their order, and every symbol as often as it was written.
RpnKeepsTokens ==
  pc = "CalcResult_By_Rpn" /\ WellFormed(expr) /\ ~AddressInBracket(expr) =>
    /\ SelectSeq(rpn, LAMBDA t : t.kind = "number") = SelectSeq(expr, LAMBDA t : t.kind = "number")
    /\ \A kind \in Low \cup High \cup {"["} :
         Len(SelectSeq(rpn, LAMBDA t : t.kind = kind)) = Len(SelectSeq(expr, LAMBDA t : t.kind = kind))

\* The program goes down only from brackets that do not match or hold an address, from
\* a remainder by zero, or from a shift without its second character.
FaultsOnlyFrom ==
  /\ pc = "fault" => ~WellFormed(expr) \/ AddressInBracket(expr) \/ Divides(expr)
  /\ pc = "terminated" => cmd = "" \/ text[Len(text)] \in {"<", ">"}

\* A sign is for one number.
SignsAreUsedOnce ==
  pc \in {"Parameters", "GetRpn"} =>
    Cardinality({k \in DOMAIN expr : expr[k].value >= Width \div 2})
      <= Cardinality({k \in 2 .. Len(text) : text[k] = "-" /\ text[k - 1] \in Low \cup High \cup {"<", ">"}})

\* The state has its types, and what is entered is evaluated right.
Calculates == TypeOK /\ IsArithmetic /\ RpnKeepsTokens /\ FaultsOnlyFrom /\ SignsAreUsedOnce
=============================================================================
