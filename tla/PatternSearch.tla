--------------------------- MODULE PatternSearch ---------------------------
(***************************************************************************)
(* CSearchBinary and CProcessSearchBinary: the search of an image for a    *)
(* pattern of bytes and wildcards (Sunday's algorithm, region by region)   *)
(* and the answers FindAddr, FindCALL, FindBase and FindBase_ByCALL make   *)
(* of what it finds.  An address is a position in the image, a page is     *)
(* PageSize bytes with one protection, a DWORD is one byte wide.  Searches *)
(* follow one another: the first class makes read-only pages executable as *)
(* it goes.                                                                *)
(***************************************************************************)
EXTENDS Integers, Sequences, SequencesExt

CONSTANTS
  Images,          \* images: sequences of [protect, bytes], one per page
  There,           \* the image of another process, searched through its handle
  Keys,            \* patterns, as sequences of bytes and Wild
  PageSize,
  Addresses,       \* 2^32 in the code: addresses wrap
  MaxSearchCount,  \* _dwMaxSearchCount
  Orders, Offsets, Movs, \* nOrderNum, nOffset, nMov
  MaxSearches      \* bound: searches in a row

Wild == 256        \* a pair of characters that starts with '?'
CALL == 1          \* stands for 0xE8, CALL with a relative operand
INDIRECT == 2      \* stands for 0xFF
Thrown == -1       \* an exception instead of an address

\* Images of pages of one size, no longer than there are addresses.  A DWORD is one
\* byte wide, so a byte is an address.
Pages == [protect : {"execute", "readonly", "free"}, bytes : [1 .. PageSize -> 0 .. Addresses - 1]]
SearchAssumption ==
  /\ PageSize \in Nat \ {0} /\ Addresses \in Nat \ {0} /\ MaxSearchCount \in Nat
  /\ \A m \in Images \cup {There} : m \in Seq(Pages) /\ Len(m) * PageSize <= Addresses
  /\ Keys \subseteq Seq(Nat) \ {<<>>}
  /\ Orders \cup Offsets \cup Movs \subseteq Int

VARIABLES
  mem,      \* the image of this process
  who,      \* "own": CSearchBinary; "self", "other": CProcessSearchBinary with a handle of this process or of another
  searchPc, \* "idle", "query", "scan", "collect", "found", "answered", "fault"
  key, addr, mbi, now, vlst, vec,
  answer,   \* what the last Find function made of vec
  history   \* the vec of every search of CSearchBinary with the present key

searchVars == <<mem, who, searchPc, key, addr, mbi, now, vlst, vec, answer, history>>

Garbage == [base |-> 0, size |-> 0, protect |-> "none"]

SearchInit ==
  /\ mem \in Images /\ who = "own" /\ searchPc = "idle" /\ key \in Keys /\ addr = 1 /\ mbi = Garbage
  /\ now = 0 /\ vlst = <<>> /\ vec = <<>> /\ answer = <<"none", 0>> /\ history = <<>>

\* Whose pages are asked about.
Queried == IF who = "other" THEN There ELSE mem

\* The pages from p on that share its protection.
VirtualQueryEx(m, p) ==
  LET last == CHOOSE n \in p .. Len(m) : /\ \A i \in p .. n : m[i].protect = m[p].protect
                                         /\ n < Len(m) => m[n + 1].protect # m[p].protect
  IN  [base |-> p, size |-> last - p + 1, protect |-> m[p].protect]

RegionStart(r) == (r.base - 1) * PageSize
CodeOf(r) == FlattenSeq([i \in 1 .. r.size |-> mem[r.base + i - 1].bytes])

\* RegionSize and Protect are not initialized before the first query.
SearchBase(w) ==
  /\ searchPc \in {"idle", "found"} /\ Len(history) < MaxSearches
  /\ who' = w /\ searchPc' = "query" /\ addr' = 1 /\ vec' = <<>>
  /\ mbi' \in IF w = "other" THEN [base : {0}, size : 0 .. 1, protect : {"none"}] ELSE {Garbage}
  /\ UNCHANGED <<mem, key, now, vlst, answer, history>>

\* An odd number of characters, or a module that is not there.
SearchFails(w) ==
  /\ searchPc \in {"idle", "found"} /\ who' = w /\ searchPc' = "found" /\ vec' = <<>>
  /\ UNCHANGED <<mem, key, addr, mbi, now, vlst, answer, history>>

\* Mutated form of Protect: the first page of the region only.
ProtectFirst(r) ==
  [i \in DOMAIN mem |-> IF who = "own" /\ r.protect = "readonly" /\ i = r.base THEN [mem[i] EXCEPT !.protect = "execute"] ELSE mem[i]]

\* VirtualProtect of a read-only region, by CSearchBinary only.
Protect(r) ==
  [i \in DOMAIN mem |->
    IF who = "own" /\ r.protect = "readonly" /\ i \in r.base .. r.base + r.size - 1
    THEN [mem[i] EXCEPT !.protect = "execute"] ELSE mem[i]]

\* CSearchBinary tests the protection it read before it changed it;
\* `|| PAGE_READONLY' lets CProcessSearchBinary take every committed page.
Scanned(r) == IF who = "own" THEN r.protect = "execute" ELSE r.protect # "free"

Query ==
  /\ searchPc = "query" /\ addr <= Len(Queried)
  /\ \E r \in {VirtualQueryEx(Queried, addr)} :
       /\ mbi' = r /\ mem' = Protect(r)
       /\ IF Scanned(r) THEN searchPc' = "scan" /\ UNCHANGED addr ELSE searchPc' = "query" /\ addr' = addr + r.size
  /\ now' = 0 /\ vlst' = <<>>
  /\ UNCHANGED <<who, key, vec, answer, history>>

\* The query of another process's pages fails: on by the last region's size,
\* for ever when that is not known to be more than 0.
QueryFails ==
  /\ searchPc = "query" /\ who = "other" /\ addr <= Len(Queried) /\ addr' = addr + mbi.size
  /\ UNCHANGED <<mem, who, searchPc, key, mbi, now, vlst, vec, answer, history>>

\* Mutated form of CompCode: the first byte stands for all.
CompFirst(code, at) == key[1] \in {Wild, code[at + 1]}

CompCode(code, at) == \A i \in 1 .. Len(key) : key[i] = Wild \/ key[i] = code[at + i]

GetWord_By_Char(word) ==
  LET at == {i \in 1 .. Len(key) : key[i] \in {Wild, word}}
  IN  IF at = {} THEN -1 ELSE Len(key) - Max(at) + 1

\* Mutated form of Skip: past the last byte of a word that is in the key.
SkipOne(code) == LET pos == GetWord_By_Char(code[Len(key) + now + 1]) IN IF pos = -1 THEN Len(key) + 1 ELSE pos + 1

Skip(code) == LET pos == GetWord_By_Char(code[Len(key) + now + 1]) IN IF pos = -1 THEN Len(key) + 1 ELSE pos

\* One turn of CL_sunday.  The pages queried in another process are read here.
Sunday ==
  /\ searchPc = "scan"
  /\ \/ /\ \A i \in mbi.base .. mbi.base + mbi.size - 1 : i \in DOMAIN mem /\ mem[i].protect # "free"
        /\ \E code \in {CodeOf(mbi)} :
             IF now + Len(key) < Len(code)
             THEN /\ IF CompCode(code, now)
                     THEN vlst' = Append(vlst, now) /\ now' = now + Len(key) + 1
                     ELSE now' = now + Skip(code) /\ UNCHANGED vlst
                  /\ UNCHANGED searchPc
             ELSE searchPc' = "collect" /\ UNCHANGED <<vlst, now>>
     \/ /\ \E i \in mbi.base .. mbi.base + mbi.size - 1 : i \notin DOMAIN mem \/ mem[i].protect = "free"
        /\ searchPc' = "fault" /\ UNCHANGED <<vlst, now>>
  /\ UNCHANGED <<mem, who, key, addr, mbi, vec, answer, history>>

\* A region with MaxSearchCount matches or more adds none of them.
Collect ==
  /\ searchPc = "collect"
  /\ vec' = vec \o IF Len(vlst) < MaxSearchCount THEN [i \in DOMAIN vlst |-> RegionStart(mbi) + vlst[i]] ELSE <<>>
  /\ searchPc' = "query" /\ addr' = addr + mbi.size
  /\ UNCHANGED <<mem, who, key, mbi, now, vlst, answer, history>>

EndOfImage ==
  /\ searchPc = "query" /\ addr > Len(Queried) /\ searchPc' = "found"
  /\ history' = IF who = "own" THEN Append(history, vec) ELSE history
  /\ UNCHANGED <<mem, who, key, addr, mbi, now, vlst, vec, answer>>

-----------------------------------------------------------------------------
\* A read of an address that is not there is 0.
Read(a) == LET p == a \div PageSize + 1
           IN  IF a >= 0 /\ p <= Len(Queried) /\ Queried[p].protect # "free" THEN Queried[p].bytes[(a % PageSize) + 1] ELSE 0

HasNth(order) == order \in 0 .. Len(vec) - 1
Nth(order, off) == (vec[order + 1] - off) % Addresses

\* A negative nOrderNum: vector::at throws; the other class compares unsigned.
NoNth(order) == IF order < 0 /\ vec # <<>> /\ who = "own" THEN <<Thrown>> ELSE <<0>>

FindAddrs(off) == [i \in DOMAIN vec |-> (vec[i] - off) % Addresses]
FindAddr(order, off) == IF HasNth(order) THEN <<Nth(order, off)>> ELSE NoNth(order)

\* Mutated form of Relative: counted from the operand, not from its end.
RelativeFromStart(at) == (Read(at) + at) % Addresses

\* Mutated form of Relative: the sum does not wrap.
RelativeNoWrap(at) == Read(at) + 1 + at

Relative(at) == (Read(at) + 1 + at) % Addresses

FindCALL(order, off, mov) ==
  LET a == Nth(order, off)
  IN  IF ~HasNth(order) THEN NoNth(order)
      ELSE IF Read(a) = CALL \/ (who = "own" /\ Read(a) = INDIRECT) THEN <<Relative((a + mov) % Addresses)>> ELSE <<0>>

FindBase(order, off, mov) == IF HasNth(order) THEN <<Read((Nth(order, off) + mov) % Addresses)>> ELSE NoNth(order)

FindBase_ByCALL(order, off, mov, base) ==
  LET call == FindCALL(order, off, mov)
  IN  IF call \in {<<0>>, <<Thrown>>} THEN call ELSE <<Read((call[1] + base) % Addresses)>>

Answer ==
  /\ searchPc = "found"
  /\ \E order \in Orders, off \in Offsets :
       \/ answer' = <<"FindAddrs", off>> \o FindAddrs(off)
       \/ answer' = <<"FindAddr", order, off>> \o FindAddr(order, off)
       \/ \E mov \in Movs :
            \/ answer' = <<"FindCALL", order, off, mov>> \o FindCALL(order, off, mov)
            \/ answer' = <<"FindBase", order, off, mov>> \o FindBase(order, off, mov)
            \/ answer' = <<"FindBase_ByCALL", order, off, mov>> \o FindBase_ByCALL(order, off, mov, 1)
  /\ searchPc' = "answered"
  /\ UNCHANGED <<mem, who, key, addr, mbi, now, vlst, vec, history>>

SearchNext == \/ \E w \in {"own", "self", "other"} : SearchBase(w) \/ SearchFails(w)
        \/ Query \/ QueryFails \/ Sunday \/ Collect \/ EndOfImage \/ Answer

SearchSpec == SearchInit /\ [][SearchNext]_searchVars

-----------------------------------------------------------------------------
(* Properties. *)

\* Type invariant: an image, a place in it, and positions found.
SearchTypeOK ==
  /\ \A i \in DOMAIN mem : mem[i].protect \in {"execute", "readonly", "free"} /\ Len(mem[i].bytes) = PageSize
  /\ who \in {"own", "self", "other"} /\ searchPc \in {"idle", "query", "scan", "collect", "found", "answered", "fault"}
  /\ key \in Keys /\ addr \in Nat \ {0} /\ now \in Nat /\ vlst \in Seq(Nat) /\ vec \in Seq(Nat)
  /\ \A i \in DOMAIN history : history[i] \in Seq(Nat)
  /\ Len(answer) > 2 => Last(answer) \in 0 .. Addresses - 1 \union {Thrown}

AllBytes == FlattenSeq([i \in DOMAIN mem |-> mem[i].bytes])
Matches(code, at) == \A i \in 1 .. Len(key) : key[i] = Wild \/ key[i] = code[at + i]

\* Every address found is one of the pattern in this process's image, whoever's
\* pages were asked about, and each is further than the pattern from the last.
FoundIsMatch ==
  /\ \A i \in DOMAIN vec : vec[i] + Len(key) <= Len(AllBytes) /\ Matches(AllBytes, vec[i])
  /\ \A i \in 1 .. Len(vec) - 1 : vec[i + 1] > vec[i] + Len(key)

\* When the scan of a region is over, every match in it that does not end at
\* its last byte has been found, or begins inside or right behind one found.
NoneMissed ==
  searchPc = "collect" =>
    \E code \in {CodeOf(mbi)} :
      \A at \in 0 .. Len(code) - Len(key) - 1 :
        Matches(code, at) => \E i \in DOMAIN vlst : vlst[i] <= at /\ at <= vlst[i] + Len(key)

\* The first search of CSearchBinary makes read-only pages executable and does
\* not look at them; from the second on, the same search finds the same.
RepeatAgrees == Len(history) > 2 => history[Len(history)] = history[Len(history) - 1]

\* FindCALL of a pattern at a relative CALL, with nMov at its operand, is the
\* address the instruction calls.
CallIsTarget ==
  answer[1] = "FindCALL" /\ answer[2] >= 0 /\ answer[2] < Len(vec) /\ answer[3] = 0 /\ answer[4] = 1 =>
    LET at == vec[answer[2] + 1]  next == at + 2
    IN  Read(at) = CALL => answer[5] = (next + Read(at + 1)) % Addresses

\* The state has its types, and a search finds what is there.
Finds == SearchTypeOK /\ FoundIsMatch /\ NoneMissed /\ RepeatAgrees /\ CallIsTarget
=============================================================================
