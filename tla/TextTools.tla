----------------------------- MODULE TextTools -----------------------------
(***************************************************************************)
(* CCharacter's work on texts, what CTimeCharacter makes of it, and the    *)
(* command line of CLogExpression that is read with it.  A text is a       *)
(* sequence of characters; each behaviour is one call, `task', and its     *)
(* result.                                                                 *)
(***************************************************************************)
EXTENDS Integers, Sequences, SequencesExt

CONSTANTS
  Tasks,      \* calls: records with fn, text and what the function needs
  Functions_  \* names CLogExpression knows, VecFunPtr

VARIABLES task, result

vars == <<task, result>>

Blank == " "
Comma == ","
Quote == "'"     \* stands for the double quote
Star == "*"

\* basic_string::find, 0 for npos.
Find(text, what, from) ==
  LET at == {i \in from .. Len(text) - Len(what) + 1 : SubSeq(text, i, i + Len(what) - 1) = what}
  IN  IF at = {} THEN 0 ELSE CHOOSE i \in at : \A j \in at : i <= j
From(text, i) == SubSeq(text, i, Len(text))

\* Mutated form of Trim: the first character that is no blank goes too.
TrimOneMore(s) ==
  LET ink == {i \in 1 .. Len(s) : s[i] # Blank}
  IN  IF ink = {} THEN <<>> ELSE SubSeq(s, 1 + CHOOSE i \in ink : \A j \in ink : i <= j, CHOOSE i \in ink : \A j \in ink : j <= i)

\* A text of blanks keeps one: the first loop's iterator steps back by one.
Trim(s) ==
  LET ink == {i \in 1 .. Len(s) : s[i] # Blank}
  IN  IF ink # {} THEN SubSeq(s, CHOOSE i \in ink : \A j \in ink : i <= j, CHOOSE i \in ink : \A j \in ink : j <= i)
      ELSE IF s = <<>> THEN <<>> ELSE <<Blank>>

\* The text before, and after, the first `what'; `otherwise' when there is none.
GetRemoveLeft(text, what, otherwise) == LET i == Find(text, what, 1) IN IF i = 0 THEN otherwise ELSE SubSeq(text, 1, i - 1)
GetRemoveRight(text, what, otherwise) == LET i == Find(text, what, 1) IN IF i = 0 THEN otherwise ELSE From(text, i + Len(what))

GetCount_By_SpecifyText(text, what) == Len(SelectSeq([i \in DOMAIN text |-> i], LAMBDA i : Find(text, what, i) = i))

\* Mutated form of SplitLast: the piece behind the last separator is left out.
SplitNoLast(text, list, opt) == list

\* Behind the last separator; alone it counts only with KeepOnly.
SplitLast(text, list, opt) == IF text # <<>> /\ (list # <<>> \/ "KeepOnly" \in opt) THEN Append(list, text) ELSE list

\* RemoveEmptyEntries trims what it keeps; KeepOnly alone keeps no piece.
SplitPiece(piece, opt) ==
  CASE "RemoveEmptyEntries" \in opt -> IF Trim(piece) # <<>> THEN <<Trim(piece)>> ELSE <<>>
    [] "None" \in opt -> <<piece>>
    [] OTHER -> <<>>

RECURSIVE SplitOn(_, _, _, _)
SplitOn(text, format, opt, list) ==
  LET i == Find(text, format, 1)
  IN  IF i = 0 THEN SplitLast(text, list, opt)
      ELSE SplitOn(From(text, i + Len(format)), format, opt, list \o SplitPiece(SubSeq(text, 1, i - 1), opt))
Split(text, format, opt) == SplitOn(text, format, opt, <<>>)

\* What is between the first left and the first right mark, again and again;
\* an empty content is dropped whatever the option: `emOption |' is never 0.
RECURSIVE GetSplit_By_List(_, _, _, _)
GetSplit_By_List(text, left, right, list) ==
  LET l == Find(text, left, 1)  r == Find(text, right, 1)
      content == Trim(SubSeq(text, l + 1, r - 1))
  IN  IF l = 0 \/ r <= l THEN [text |-> text, list |-> list]
      ELSE GetSplit_By_List(SubSeq(text, 1, l - 1) \o From(text, r + 1), left, right,
                            IF content = <<>> THEN list ELSE Append(list, content))

\* Mutated form of NextPos: the character behind what was put in is passed over.
NextPosBehind(pos, to) == pos + Len(to) + 1

NextPos(pos, to) == pos + Len(to)

RECURSIVE ReplaceFrom(_, _, _, _)
ReplaceFrom(text, from, to, pos) ==
  LET i == Find(text, from, pos)
  IN  IF i = 0 THEN text ELSE ReplaceFrom(SubSeq(text, 1, i - 1) \o to \o From(text, i + Len(from)), from, to, NextPos(i, to))
Replace(text, from, to) == ReplaceFrom(text, from, to, 1)

-----------------------------------------------------------------------------
\* Mutated form of ReadParm: the keyword ends a parameter between quotes too.
ReadParmAlways(s, c) ==
  CASE c = Comma -> [s EXCEPT !.list = Append(@, s.parm), !.parm = <<>>]
    [] c = Quote -> [s EXCEPT !.quotes = ~@]
    [] OTHER -> [s EXCEPT !.parm = Append(@, c)]

ReadParm(s, c) ==
  CASE ~s.quotes /\ c = Comma -> [s EXCEPT !.list = Append(@, s.parm), !.parm = <<>>]
    [] c = Quote -> [s EXCEPT !.quotes = ~@]
    [] OTHER -> [s EXCEPT !.parm = Append(@, c)]

\* Filled up with empty parameters to one more than all commas there are, those
\* between quotes included.
GetVecByParm_RemoveQuotes(text) ==
  LET read[i \in 0 .. Len(text)] == IF i = 0 THEN [list |-> <<>>, parm |-> <<>>, quotes |-> FALSE]
                                   ELSE ReadParm(read[i - 1], text[i])
      s == read[Len(text)]
      list == IF s.parm = <<>> THEN s.list ELSE Append(s.list, s.parm)
      count == GetCount_By_SpecifyText(text, <<Comma>>) + 1
  IN  list \o [i \in 1 .. count - Len(list) |-> <<>>]

\* The parts of a format between its stars.
FindSplitFormatText(format) ==
  LET part(s, c) == CASE c # Star -> [s EXCEPT !.text = Append(@, c)]
                      [] c = Star /\ s.text # <<>> -> [list |-> Append(s.list, s.text), text |-> <<>>]
                      [] OTHER -> s
      read[i \in 0 .. Len(format)] == IF i = 0 THEN [list |-> <<>>, text |-> <<>>] ELSE part(read[i - 1], format[i])
      s == read[Len(format)]
  IN  IF s.text = <<>> THEN s.list ELSE Append(s.list, s.text)

\* Mutated form of AfterPart: the part stays in front of the rest.
AfterPartKeeps(text, part) == LET i == Find(text, part, 1) IN IF i = 0 THEN text ELSE From(text, i + Len(part) - 1)

AfterPart(text, part) == GetRemoveRight(text, part, text)

\* A part that is not found takes nothing and leaves the text as it is.
SplitFormatText(text, format, allowEmpty) ==
  LET take(s, part) == LET left == GetRemoveLeft(s.text, part, <<>>)
                       IN  [text |-> AfterPart(s.text, part),
                            list |-> IF left # <<>> \/ allowEmpty THEN Append(s.list, left) ELSE s.list]
      parts == FindSplitFormatText(format)
      after[i \in 0 .. Len(parts)] == IF i = 0 THEN [list |-> <<>>, text |-> text] ELSE take(after[i - 1], parts[i])
      s == after[Len(parts)]
  IN  IF s.text = <<>> THEN s.list ELSE Append(s.list, s.text)

\* A date by the first sign it holds: with dashes, or with the Chinese signs for
\* year, month, day, hour, minute and second, written as letters here.
TimeFormat == <<"*", "-", "*", "-", "*", " ", "*", ":", "*", ":", "*">>
ChineseFormat == <<"*", "Y", "*", "M", "*", "D", " ", "*", "h", "*", "m", "*", "s">>

\* std::stoi throws on a field that is no number, here an "x" in front.
GetTimeContent_By_Text(text) ==
  LET format == CASE Find(text, <<"-">>, 1) # 0 -> TimeFormat
                  [] Find(text, <<"-">>, 1) = 0 /\ Find(text, <<"Y">>, 1) # 0 -> ChineseFormat
                  [] OTHER -> <<>>
      fields == IF format = <<>> THEN <<>> ELSE SplitFormatText(text, format, FALSE)
  IN  CASE Len(fields) # 6 -> [verdict |-> "FALSE", fields |-> <<>>]
        [] Len(fields) = 6 /\ (\E i \in 1 .. 6 : Head(fields[i]) = "x") -> [verdict |-> "throws", fields |-> <<>>]
        [] OTHER -> [verdict |-> "TRUE", fields |-> fields]

\* Mutated form of Separate: an hour has a hundred minutes.
SeparateHundred(ms) ==
  LET s == ms \div 1000 IN [day |-> s \div 86400, hour |-> (s % 86400) \div 3600, min |-> (s % 3600) \div 60, sec |-> s % 100]

\* FormatTime: days, hours, minutes and seconds of a number of milliseconds.
Separate(ms) ==
  LET s == ms \div 1000 IN [day |-> s \div 86400, hour |-> (s % 86400) \div 3600, min |-> (s % 3600) \div 60, sec |-> s % 60]

-----------------------------------------------------------------------------
\* CLogExpression::Run: who is called, with what, and whether it says TRUE.
\* A name that is not known calls Help with the parameters.
Name(text) == GetRemoveLeft(text, <<"(">>, <<>>)
Parms(text) == LET inner == GetRemoveRight(text, <<"(">>, text) IN GetVecByParm_RemoveQuotes(GetRemoveLeft(inner, <<")">>, inner))

\* Mutated form of Callee: Help is not called.
CalleeOrNone(name) == IF name \in Functions_ THEN {name} ELSE {}

Callee(name) == IF name \in Functions_ THEN {name} ELSE Functions_ \intersect {<<"H">>}

Run(text) ==
  IF Find(text, <<"(">>, 1) = 0 \/ Find(text, <<")">>, 1) = 0 \/ GetCount_By_SpecifyText(text, <<Quote>>) % 2 # 0
  THEN [called |-> {}, parms |-> <<>>, ok |-> FALSE]
  ELSE [called |-> Callee(Name(text)), parms |-> Parms(text), ok |-> Name(text) \in Functions_]

-----------------------------------------------------------------------------
None == <<"none">>

Init == task \in Tasks /\ result = None

\* The call.
Call ==
  /\ result = None
  /\ result' = CASE task.fn = "Trim" -> <<"Trim", Trim(task.text)>>
                 [] task.fn = "Split" -> <<"Split", Split(task.text, <<Comma>>, task.opt)>>
                 [] task.fn = "GetSplit_By_List" -> <<"Marks", GetSplit_By_List(task.text, <<"(">>, <<")">>, <<>>)>>
                 [] task.fn = "Replace" -> <<"Replace", Replace(task.text, task.from, task.to)>>
                 [] task.fn = "GetVecByParm_RemoveQuotes" -> <<"Parms", GetVecByParm_RemoveQuotes(task.text)>>
                 [] task.fn = "SplitFormatText" -> <<"Format", SplitFormatText(task.text, task.format, FALSE)>>
                 [] task.fn = "GetTimeContent_By_Text" -> <<"Time", GetTimeContent_By_Text(task.text)>>
                 [] task.fn = "FormatTime" -> <<"Duration", Separate(task.ms)>>
                 [] task.fn = "Run" -> <<"Run", Run(task.text)>>
  /\ UNCHANGED task

Next == Call

Spec == Init /\ [][Next]_vars

-----------------------------------------------------------------------------
(* Properties. *)

Done(fn) == result # None /\ task.fn = fn

\* Pieces with `sep' between them.
RECURSIVE Joined(_, _)
Joined(pieces, sep) ==
  CASE pieces = <<>> -> <<>>
    [] Len(pieces) = 1 -> pieces[1]
    [] OTHER -> pieces[1] \o sep \o Joined(Tail(pieces), sep)

Has(text, what) == Find(text, what, 1) # 0

\* Type invariant: a call of Tasks, and the result of that call or none yet.
TypeOK ==
  /\ task \in Tasks
  /\ result = None \/ Len(result) = 2
  /\ Done("FormatTime") => result[2].hour < 24 /\ result[2].min < 60 /\ result[2].sec < 60

\* Trim takes the blanks from both ends and nothing else.  (Of a text that is
\* only blanks it leaves one.)
TrimIsStrip ==
  Done("Trim") =>
    LET t == result[2]
    IN  /\ \E l, r \in 0 .. Len(task.text) : task.text = [i \in 1 .. l |-> Blank] \o t \o [i \in 1 .. r |-> Blank]
        /\ t \in {<<>>, <<Blank>>} \/ (t[1] # Blank /\ t[Len(t)] # Blank)
        /\ t = <<Blank>> => \A i \in DOMAIN task.text : task.text[i] = Blank

\* The pieces Split returns, put together again, are the text, and no piece
\* holds a separator; an empty piece at the end is not returned, nor the text
\* itself when it has no separator.  GetSplit_By_List leaves no left mark in
\* front of the first right one, and takes no mark with a content.
SplitJoins ==
  /\ Done("GetSplit_By_List") =>
       LET text == result[2].text  l == Find(text, <<"(">>, 1)  r == Find(text, <<")">>, 1)
       IN  (l = 0 \/ r < l) /\ \A i \in DOMAIN result[2].list : ~Has(result[2].list[i], <<")">>)
  /\ Done("Split") /\ task.opt = {"None"} =>
       LET list == result[2]  ended == task.text # <<>> /\ Last(task.text) = Comma
       IN  IF ~Has(task.text, <<Comma>>) THEN list = <<>>
           ELSE /\ Joined(IF ended THEN Append(list, <<>>) ELSE list, <<Comma>>) = task.text
                /\ \A i \in DOMAIN list : ~Has(list[i], <<Comma>>)

\* Replace is splitting at one text and joining with the other: what is put in
\* is never replaced in turn.
ReplaceJoins ==
  Done("Replace") =>
    LET list == Split(task.text, task.from, {"None"})
        ended == Len(task.text) >= Len(task.from) /\ Joined(Append(list, <<>>), task.from) = task.text
    IN  result[2] = IF ~Has(task.text, task.from) THEN task.text
                    ELSE Joined(IF ended THEN Append(list, <<>>) ELSE list, task.to)

\* Parameters that are written with commas between them, in quotes where they
\* hold a comma, are read back in order; only empty ones may follow.
ParmsComeBack ==
  Done("GetVecByParm_RemoveQuotes") =>
    LET list == result[2]  want == task.parms
    IN  /\ Len(list) >= Len(want) /\ \A i \in DOMAIN want : list[i] = want[i]
        /\ \A i \in Len(want) + 1 .. Len(list) : list[i] = <<>>

\* A text made from a format by putting a value at each star is split into the
\* values, when none is empty or holds a part of the format; so is a date, in
\* either way of writing it.
FormatComesBack ==
  /\ Done("SplitFormatText") => result[2] = task.values
  /\ Done("GetTimeContent_By_Text") /\ task.values # <<>> => result[2] = [verdict |-> "TRUE", fields |-> task.values]

\* The parts of a duration add up to its whole seconds.
DurationAddsUp ==
  Done("FormatTime") =>
    ((result[2].day * 24 + result[2].hour) * 60 + result[2].min) * 60 + result[2].sec = task.ms \div 1000

\* A command Name(parameters) calls the function of that name, else Help, with
\* the parameters as written, and answers whether the name is known.
RunCallsNamed ==
  Done("Run") /\ task.name # <<>> =>
    LET r == result[2]
    IN  /\ r.ok = (task.name \in Functions_)
        /\ r.called = IF r.ok THEN {task.name} ELSE {<<"H">>}
        /\ Len(r.parms) >= Len(task.parms) /\ SubSeq(r.parms, 1, Len(task.parms)) = task.parms

\* The state has its types, and texts are cut and put together without loss.
TextsKept ==
  /\ TypeOK /\ TrimIsStrip /\ SplitJoins /\ ReplaceJoins
  /\ ParmsComeBack /\ FormatComesBack /\ DurationAddsUp /\ RunCallsNamed
=============================================================================
