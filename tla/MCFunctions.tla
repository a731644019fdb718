---------------------------- MODULE MCFunctions -----------------------------
(***************************************************************************)
(* The libraries' functions, on every small input: expressions of the      *)
(* console, calls of the operating system, pattern searches, packets,      *)
(* texts, hooks and ciphers.  Each behaviour is of one of the modules; the *)
(* variables of the others are not used in it, and those of SystemCalls    *)
(* and PatternSearch stay as they begin.                                   *)
(***************************************************************************)
EXTENDS SystemCalls, PatternSearch

CONSTANTS
  Entered, Bits, ReadValue,                                       \* ExprCalc
  t1, t2,                                                         \* SystemCalls
  Base, Heads, Values, MaxWrites, MaxReads,                       \* PacketCodec
  Tasks, Functions_,                                              \* TextTools
  Procs, NopCounts, MaxHooks, MaxFailed,                          \* InlineHook
  N, KeyTexts, Texts, MaxTexts, Primes, E, MaxText                \* RC4, RSA

VARIABLES
  which,  \* the module
  cmd, parms, watched, text, pc, uIndex, wsNumber, bNegative, last, expr, symbols, rpn, results,
  state, head, out, wire, damaged, arrived, in, verdict, msgHead, written, read,
  task, result,
  instruction, kind, proc, inModule, memory, hookPc, at, buffer, hooks, real, made, failed, lost, mostNops,
  K, sent, kept, plain, back, fresh, lengths, past,
  rsaPc, prime1, prime2, PubKey, PriKey, char, code, decoded

calcVars == <<cmd, parms, watched, text, pc, uIndex, wsNumber, bNegative, last, expr, symbols, rpn, results>>
packetVars == <<state, head, out, wire, damaged, arrived, in, verdict, msgHead, written, read>>
textVars == <<task, result>>
hookVars == <<instruction, kind, proc, inModule, memory, hookPc, at, buffer, hooks, real, made, failed, lost, mostNops>>
rc4Vars == <<K, sent, kept, plain, back, fresh, lengths, past>>
rsaVars == <<rsaPc, prime1, prime2, PubKey, PriKey, char, code, decoded>>

Calc == INSTANCE ExprCalc
Packet == INSTANCE PacketCodec
Text == INSTANCE TextTools
Hooking == INSTANCE InlineHook WITH mem <- memory
Stream == INSTANCE RC4
Keyed == INSTANCE RSA WITH p <- prime1, q <- prime2, plain <- decoded

\* The operators of those that the inputs below are made with.
Chars == INSTANCE TextTools WITH Tasks <- {}
Parts == INSTANCE InlineHook WITH mem <- memory, Procs <- {}

\* The variables of a module that does not run.
Unused == "unused"
NoCalc ==
  /\ cmd = Unused /\ parms = Unused /\ watched = Unused /\ text = Unused
  /\ pc = Unused /\ uIndex = Unused /\ wsNumber = Unused /\ bNegative = Unused
  /\ last = Unused /\ expr = Unused /\ symbols = Unused /\ rpn = Unused
  /\ results = Unused
NoSearch ==
  /\ mem = (CHOOSE m \in Images : TRUE) /\ key = (CHOOSE k \in Keys : TRUE)
  /\ SearchInit
NoPacket ==
  /\ state = Unused /\ head = Unused /\ out = Unused /\ wire = Unused
  /\ damaged = Unused /\ arrived = Unused /\ in = Unused /\ verdict = Unused
  /\ msgHead = Unused /\ written = Unused /\ read = Unused
NoText ==
  /\ task = Unused /\ result = Unused
NoHook ==
  /\ kind = Unused /\ proc = Unused /\ inModule = Unused /\ memory = Unused
  /\ hookPc = Unused /\ at = Unused /\ buffer = Unused /\ hooks = Unused
  /\ real = Unused /\ made = Unused /\ failed = Unused /\ lost = Unused
  /\ mostNops = Unused
NoCipher ==
  /\ K = Unused /\ sent = Unused /\ kept = Unused /\ plain = Unused
  /\ back = Unused /\ fresh = Unused /\ lengths = Unused /\ past = Unused
NoKeys ==
  /\ rsaPc = Unused /\ prime1 = Unused /\ prime2 = Unused
  /\ PubKey = Unused /\ PriKey = Unused /\ char = Unused /\ code = Unused /\ decoded = Unused
NoneOfLast == instruction = Unused /\ NoHook /\ NoCipher /\ NoKeys

\* Every opcode with every form of its operand, behind no prefix and behind those
\* that change a length.
Forms ==
  {<<64 * mod + 8 * reg + rm, 36>> : mod \in 0 .. 3, reg \in {0, 1}, rm \in {0, 4, 5, 6}}
  \cup {<<64 * mod + 8 * reg + 4, 37>> : mod \in 0 .. 3, reg \in {0, 1}}
Opcodes == {<<b>> : b \in (0 .. 255) \ (Parts!Prefixes \cup {\h0F})} \cup {<<\h0F, b>> : b \in 0 .. 255}
Instructions ==
  {prefix \o opcode \o form \o [i \in 1 .. 12 |-> 0] :
     prefix \in {<<>>, <<\h66>>, <<\h67>>}, opcode \in Opcodes, form \in Forms}

FunctionsInit ==
  \/ /\ which = "calc" /\ Calc!Init
     /\ CallsInit /\ NoSearch /\ NoPacket /\ NoText /\ NoneOfLast
  \/ /\ which = "system" /\ CallsInit
     /\ NoCalc /\ NoSearch /\ NoPacket /\ NoText /\ NoneOfLast
  \/ /\ which = "search" /\ SearchInit
     /\ NoCalc /\ CallsInit /\ NoPacket /\ NoText /\ NoneOfLast
  \/ /\ which = "packet" /\ Packet!Init
     /\ NoCalc /\ CallsInit /\ NoSearch /\ NoText /\ NoneOfLast
  \/ /\ which = "text" /\ Text!Init
     /\ NoCalc /\ CallsInit /\ NoSearch /\ NoPacket /\ NoneOfLast
  \/ /\ NoCalc /\ CallsInit /\ NoSearch /\ NoPacket /\ NoText
     /\ \/ which = "size" /\ instruction \in Instructions /\ NoHook /\ NoCipher /\ NoKeys
        \/ which = "hook" /\ Hooking!HookInit /\ instruction = Unused /\ NoCipher /\ NoKeys
        \/ which = "rc4" /\ Stream!RC4Init /\ instruction = Unused /\ NoHook /\ NoKeys
        \/ which = "rsa" /\ Keyed!RsaInit /\ instruction = Unused /\ NoHook /\ NoCipher

lastVars == <<hookVars, rc4Vars, rsaVars>>
firstVars == <<calcVars, callVars, searchVars, packetVars, textVars>>

FunctionsNext ==
  \/ which = "calc" /\ Calc!Next /\ UNCHANGED <<which, callVars, searchVars, packetVars, textVars, lastVars>>
  \/ which = "system" /\ CallsNext /\ UNCHANGED <<which, calcVars, searchVars, packetVars, textVars, lastVars>>
  \/ which = "search" /\ SearchNext /\ UNCHANGED <<which, calcVars, callVars, packetVars, textVars, lastVars>>
  \/ which = "packet" /\ Packet!Next /\ UNCHANGED <<which, calcVars, callVars, searchVars, textVars, lastVars>>
  \/ which = "text" /\ Text!Next /\ UNCHANGED <<which, calcVars, callVars, searchVars, packetVars, lastVars>>
  \/ which = "hook" /\ Hooking!HookNext /\ UNCHANGED <<which, firstVars, instruction, rc4Vars, rsaVars>>
  \/ which = "rc4" /\ Stream!RC4Next /\ UNCHANGED <<which, firstVars, hookVars, rsaVars>>
  \/ which = "rsa" /\ Keyed!RsaNext /\ UNCHANGED <<which, firstVars, hookVars, rc4Vars>>

FunctionsSpec ==
  FunctionsInit /\ [][FunctionsNext]_<<which, firstVars, lastVars>>

ASSUME CalcAssumptions == Calc!WidthAssumption
ASSUME StreamAssumptions == Stream!SizeAssumption
ASSUME SearchAssumptions == SearchAssumption

-----------------------------------------------------------------------------
(* ExprCalc: every expression of a small grammar, and every short string.   *)
Atoms == {<<"1">>, <<"2">>}
Wrap(e) == {<<"(">> \o e \o <<")">>, <<"[">> \o e \o <<"]">>, <<"~">> \o e}
Join(d, e) == {d \o <<s>> \o e : s \in {"+", "-", "*"}}
One == Atoms \cup UNION {Wrap(e) : e \in Atoms} \cup UNION {Join(d, e) : d, e \in Atoms}
Two == One \cup UNION {Wrap(e) : e \in One} \cup UNION {Join(d, e) : d \in One, e \in One}
Three == UNION {Wrap(e) : e \in UNION {Join(d, e) : d \in Atoms, e \in UNION {Wrap(f) : f \in Atoms}}}
Mixed == UNION {Join(d, e) : d \in Atoms, e \in UNION {Join(f, <<"2">>) : f \in UNION {Wrap(a) : a \in Atoms}}}
Signs == {"1", "0", "-", "%", "(", ")", "]", "<"}
Junk == {<<a, b, c, d>> : a, b, c, d \in Signs} \cup {<<a, b>> : a, b \in Signs}
Others == {<<"9", "F", "+", "1">>, <<"2", "*", "-", "3", "+", "4">>, <<"2", "*", "-", "(", "3", "+", "4", ")">>}
  \cup UNION {{<<"C", s, "6">>, <<"C", s, s, "2">>, <<"C", s, "0">>} : s \in {"/", "%", "^", "|", "&", "<", ">"}}
Expressions == Two \cup Mixed \cup Three \cup UNION {Join(d, e) : d \in Atoms, e \in Three} \cup Junk \cup Others
Parms == {<<>>, <<[dash |-> TRUE, number |-> 2]>>, <<[dash |-> TRUE, number |-> -1]>>, <<[dash |-> FALSE, number |-> 2]>>}
MCEntered == {[cmd |-> "calc", text |-> t, parms |-> <<>>] : t \in Expressions}
  \cup {[cmd |-> c, text |-> t, parms |-> p] : c \in {"dd", "help", ""}, t \in {<<>>, <<"1">>, <<"1", "+", "2">>}, p \in Parms}
MCMemory == [a \in 0 .. 255 |-> (3 * a + 5) % 256]

-----------------------------------------------------------------------------
(* SystemCalls: one thread calls every function, another those that share   *)
(* a path.                                                                  *)
MCCalls == t1 :> DOMAIN Code @@ t2 :> Statics

-----------------------------------------------------------------------------
(* PatternSearch: images of two pages of three bytes, every pattern of one  *)
(* or two.                                                                  *)
MCBytes == 1 .. 2
MCPages == [protect : {"execute", "readonly", "free"}, bytes : [1 .. 3 -> MCBytes]]
MCImages ==
  {m \in [1 .. 2 -> MCPages] :
     /\ m[1].protect # "free" /\ m[2].bytes \in {<<1, 1, 1>>, <<2, 1, 2>>}
     /\ m[2].protect = "free" => m[2].bytes = <<1, 1, 1>>}
MCThere == <<[protect |-> "execute", bytes |-> <<2, 1, 2>>], [protect |-> "readonly", bytes |-> <<1, 2, 1>>]>>
MCKeys == {<<1>>, <<Wild>>, <<1, 1>>, <<1, 2>>, <<2, Wild>>, <<Wild, 1>>}

-----------------------------------------------------------------------------
(* PacketCodec: bytes of base 4, so that a DWORD is below 256.              *)
MCValues ==
  [type : {"DWORD"}, value : {<<27>>}] \union [type : {"ULONGLONG"}, value : {<<60000>>}]
  \union [type : {"WORD"}, value : {<<6>>}] \union [type : {"BYTE"}, value : {<<3>>}] \union [type : {"bool"}, value : {<<1>>}]
  \union [type : {"text"}, value : {<<>>, <<1, 3, 2>>}] \union [type : {"raw"}, value : {<<2, 0>>}]
  \union [type : {"SYSTEMTIME"}, value : {<<15, 1, 2, 3, 4, 5, 6, 7>>}]

-----------------------------------------------------------------------------
(* TextTools: every short text over the characters a function treats        *)
(* differently.                                                             *)
TextsOf(chars, n) == UNION {[1 .. k -> chars] : k \in 0 .. n}

Quoted(p) == IF Chars!Has(p, <<Chars!Comma>>) THEN <<Chars!Quote>> \o p \o <<Chars!Quote>> ELSE p
ParmLists == UNION {[1 .. k -> TextsOf({"a", Chars!Comma}, 2)] : k \in 1 .. 2}
ParmText(ps) == Chars!Joined([i \in DOMAIN ps |-> Quoted(ps[i])], <<Chars!Comma>>)

\* Values in the places of the stars; no value holds a part.
Filled(format, values) ==
  LET put(s, c) == IF c = Chars!Star THEN [text |-> s.text \o values[s.n], n |-> s.n + 1] ELSE [s EXCEPT !.text = Append(@, c)]
      after[i \in 0 .. Len(format)] == IF i = 0 THEN [text |-> <<>>, n |-> 1] ELSE put(after[i - 1], format[i])
  IN  after[Len(format)].text
Fillings == TextsOf({"a", "b"}, 2) \ {<<>>}
Formats == {<<"*", "-", "*">>, <<"m", "(", "*", ")", ",", "*", "]">>, <<"*", "-", "*", "-", "*">>}
Stars(format) == Len(SelectSeq(format, LAMBDA c : c = Chars!Star))
Dates == {[i \in 1 .. 6 |-> IF i = k THEN <<"2">> ELSE <<"1", "1">>] : k \in 1 .. 6}
DateFormats == {Chars!TimeFormat, Chars!ChineseFormat}

MCTasks ==
  [fn : {"Trim"}, text : TextsOf({"a", Chars!Blank}, 5)]
  \union [fn : {"Split"}, text : TextsOf({"a", Chars!Blank, Chars!Comma}, 4),
          opt : {{"None"}, {"KeepOnly"}, {"RemoveEmptyEntries"}, {"KeepOnly", "RemoveEmptyEntries"}}]
  \union [fn : {"GetSplit_By_List"}, text : TextsOf({"a", "(", ")"}, 5)]
  \union [fn : {"Replace"}, text : TextsOf({"a", "b"}, 5), from : {<<"a">>, <<"a", "b">>, <<"a", "a">>}, to : {<<>>, <<"b">>, <<"b", "a">>}]
  \union {[fn |-> "GetVecByParm_RemoveQuotes", text |-> ParmText(ps), parms |-> ps] : ps \in ParmLists}
  \union UNION {{[fn |-> "SplitFormatText", text |-> Filled(f, vs), format |-> f, values |-> vs] : vs \in [1 .. Stars(f) -> Fillings]} : f \in Formats}
  \union {[fn |-> "GetTimeContent_By_Text", text |-> Filled(f, vs), values |-> vs] : f \in DateFormats, vs \in Dates}
  \union [fn : {"GetTimeContent_By_Text"}, text : TextsOf({"1", "-", "Y", "x"}, 4), values : {<<>>}]
  \union {[fn |-> "GetTimeContent_By_Text", text |-> Filled(f, [vs EXCEPT ![2] = <<"x">>]), values |-> <<>>] : f \in DateFormats, vs \in Dates}
  \union [fn : {"FormatTime"}, ms : {0, 999, 59999, 60000, 3599000, 3600000, 86399999, 86400000, 90061001, 172799000}]
  \union {[fn |-> "Run", text |-> name \o <<"(">> \o ParmText(ps) \o <<")">>, name |-> name, parms |-> ps] :
            name \in {<<"f">>, <<"g">>, <<"H">>}, ps \in [1 .. 2 -> TextsOf({"a", Chars!Comma}, 2)]}
  \union [fn : {"Run"}, text : TextsOf({"f", "(", ")", Chars!Quote}, 4), name : {<<>>}, parms : {<<>>}]
MCFunctionNames == {<<"f">>, <<"H">>}

-----------------------------------------------------------------------------
(* InlineHook: a usual start; one whose first instruction fills the place of *)
(* the jump; returns that come early; a branch, a call and a jump at the     *)
(* start; an instruction of the floating point unit; a prefix.               *)
Far(op) == <<op>> \o [i \in 1 .. 4 |-> Parts!Part(Parts!Elsewhere - Parts!Org - Parts!JmpSize, i)]
MCProcs ==
  {<<\h55, \h8B, \hEC, \h83, \hEC, 8, \h33, \hC0, \hC3>>,
   <<\hB8, 1, 2, 3, 4, \hFF, \hD2, \hC2, 8, 0>>,
   <<\h33, \hC0, \hC3>>, <<\hC3>>, <<\h40, \h48, \hC2, 4, 0>>,
   <<\h8B, \hFF, \h74, 4, \h8B, \hC1, \h33, \hC0, \hC3>>,
   Far(\hE8) \o <<\h33, \hC0, \hC3>>, Far(\hE9),
   <<\h55, \hD9, \h45, 8, \h83, \hEC, 8, \h5D, \hC3>>,
   <<\h66, \hA1, 1, 2, 3, 4, \h8B, \hC1, \hC3>>}

-----------------------------------------------------------------------------
(* RC4: bytes of two bits, keys of up to three, texts shorter and longer.   *)
MCKeyTexts == UNION {[1 .. n -> 0 .. 3] : n \in 1 .. 3}
MCTexts == {<<>>, <<0>>, <<3, 0>>, <<1, 2, 0>>, <<0, 0, 0, 0, 0>>}

-----------------------------------------------------------------------------
(* The modules' properties, by the names of the run.                        *)

\* Expressions have the value arithmetic gives them.
Calculates == which = "calc" => Calc!Calculates

\* Packets come out as they went in or are refused.
Decodes == which = "packet" => Packet!Decodes

\* Texts are cut and put together without loss.
TextsKept == which = "text" => Text!TextsKept

\* Instructions have their length, and procedures are hooked and put back.
Hooked ==
  /\ which = "size" => Parts!SizeIsManuals(instruction)
  /\ which = "hook" => Hooking!Hooked

\* What one side encrypts the other can decrypt, and keys are inverses.
Enciphers ==
  /\ which = "rc4" => Stream!Enciphers
  /\ which = "rsa" => Keyed!KeysInvert
=============================================================================
