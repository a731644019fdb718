----------------------------- MODULE InlineHook -----------------------------
(***************************************************************************)
(* CInlineHook of HookLib and the CLdrHeader behind it: a procedure of the  *)
(* own program is made to begin with a jump to another one, and is put back.*)
(* "ldr": CLdrHeader copies the instructions that the jump covers, so that  *)
(* the new procedure can call the old one; several hooks of one procedure   *)
(* call one another.  "content": the caller says how many bytes the jump    *)
(* covers, and the new procedure does not come back.                        *)
(*                                                                         *)
(* Memory is a function from addresses to bytes.  The four bytes of a       *)
(* relative address are kept as such: Part(d, i) is the i-th byte of d.     *)
(***************************************************************************)
EXTENDS Dasm, TLC, FiniteSetsExt

CONSTANTS
  Procs,     \* procedures, as sequences of bytes
  NopCounts, \* values of uNopCount
  MaxHooks,  \* bound: hooks made
  MaxFailed  \* bound: writes that fail

VARIABLES
  kind,     \* "ldr" or "content"
  proc,     \* the procedure as it is in the file
  inModule, \* whether it lies in a module behind the module's first byte
  mem,      \* the memory
  hookPc,   \* how far the call of Hook or UnHook is
  at,       \* the hook it is about
  buffer,   \* what it has to write
  hooks,    \* hooks made and not taken back, in this order, with whether the jump was written
  real,     \* the variable RealProc of each hook, 0 before it is set
  made,     \* hooks made so far
  failed,   \* writes that failed
  lost,     \* whether hooks were taken back in another order, or not written back, or
            \* when nothing was kept to be written back, or written only in part
  mostNops  \* the most bytes written behind a jump

hookVars == <<kind, proc, inModule, mem, hookPc, at, buffer, hooks, real, made, failed, lost, mostNops>>

-----------------------------------------------------------------------------
(* Memory.                                                                  *)

JmpSize == 5
E9 == \hE9
Nop == \h90
CC == \hCC
Org == 100            \* OrgProc
Block(i) == 1000 * i  \* the memory of hook i
HookFunc(i) == Block(i) + 4
New(i) == 9000 + i    \* NewProc of hook i
Elsewhere == 9900     \* a procedure that is not hooked
Reach == 20000        \* no relative address is as large

Part(d, i) == 256 + 4 * (d + Reach) + i - 1

\* Four bytes as a relative address, one that leads nowhere if they are none.
Nowhere == Reach - 1
Relative(m, a) ==
  LET d == (m[a] - 256) \div 4 - Reach
  IN  IF \A i \in 1 .. 4 : m[a + i - 1] = Part(d, i) THEN d ELSE Nowhere

Jump(from, to) == <<E9>> \o [i \in 1 .. 4 |-> Part(to - from - JmpSize, i)]
JumpTarget(m, a) == a + JmpSize + Relative(m, a + 1)

Copy(m, a, n) == [i \in 1 .. n |-> m[a + i - 1]]
Placed(a, bytes) == [x \in a .. a + Len(bytes) - 1 |-> bytes[x - a + 1]]
Code(m, a) == [i \in 1 .. 16 |-> IF a + i - 1 \in DOMAIN m THEN m[a + i - 1] ELSE CC]

\* The procedure with what lies behind it.
Room == 16
Loaded(p) == Placed(Org, p \o [i \in 1 .. Room - Len(p) |-> CC])

-----------------------------------------------------------------------------
(* CLdrHeader.                                                              *)

\* Mutated form of GetPatchSize: the size needed, wherever instructions end.
GetPatchSizeNeeded(m, dwNeedSize) == dwNeedSize

\* GetPatchSize: whole instructions until the jump has room, or a return comes.
GetPatchSize(m, dwNeedSize) ==
  LET after[k \in 0 .. dwNeedSize] ==
        IF k = 0 THEN [size |-> 0, done |-> FALSE]
        ELSE LET old == after[k - 1]
                 code == Code(m, Org + old.size)
                 length == SizeOfCode(code)
                 op == code[Prefixed(code) + 1]
             IN  CASE old.done \/ (length = 1 /\ op = \hC3) \/ (length = 3 /\ op = \hC2) -> [old EXCEPT !.done = TRUE]
                   [] OTHER -> [size |-> old.size + length, done |-> old.size + length >= dwNeedSize \/ length = 0]
  IN  after[dwNeedSize].size

\* Mutated form of Backup: jumps are copied as they are.
BackupUnmoved(m, i, dwPatchSize) ==
  [instructions |-> Copy(m, Org, dwPatchSize),
   saved |-> IF m[Org] = E9 /\ inModule THEN Copy(m, Org, JmpSize) ELSE [k \in 1 .. JmpSize |-> 0]]

\* What the memory of a hook has of the procedure: the instructions covered,
\* and the bytes to restore if they begin with a jump.  A jump is made to lead
\* from the copy to where it led, if the procedure is in a module.
Backup(m, i, dwPatchSize) ==
  LET jumps == m[Org] = E9 /\ inModule
      old == Copy(m, Org, dwPatchSize)
      moved == Jump(HookFunc(i) + JmpSize, JumpTarget(m, Org))
  IN  [instructions |-> IF jumps THEN moved \o SubSeq(old, JmpSize + 1, dwPatchSize) ELSE old,
       saved |-> IF jumps THEN Copy(m, Org, JmpSize) ELSE [k \in 1 .. JmpSize |-> 0]]

Allocated(m, i, dwPatchSize) ==
  LET backup == Backup(m, i, dwPatchSize)
      back == HookFunc(i) + JmpSize + dwPatchSize
  IN  Placed(Block(i), <<dwPatchSize, 0, 0, 0>> \o Jump(HookFunc(i), New(i)) \o backup.instructions
                       \o Jump(back, Org + dwPatchSize) \o backup.saved)

\* Mutated form of Restored: the copied instructions, whatever they are.
RestoredCopy(m, i) == Copy(m, HookFunc(i) + JmpSize, m[Block(i)])

\* What UnInlineHook writes over the jump.
Restored(m, i) ==
  LET RealProc == HookFunc(i) + JmpSize
      dwPatchSize == m[Block(i)]
  IN  IF m[RealProc] = E9 THEN Copy(m, RealProc + dwPatchSize + JmpSize, dwPatchSize)
      ELSE Copy(m, RealProc, dwPatchSize)

-----------------------------------------------------------------------------
HookInit ==
  /\ kind \in {"ldr", "content"} /\ proc \in Procs /\ inModule \in BOOLEAN
  /\ kind = "content" => inModule
  /\ mem = Loaded(proc)
  /\ hookPc = "idle" /\ at = 0 /\ buffer = <<>> /\ hooks = <<>>
  /\ real = [i \in 1 .. MaxHooks |-> 0]
  /\ made = 0 /\ failed = 0 /\ lost = FALSE /\ mostNops = 0

Last == hooks[Len(hooks)]

\* InlineHook up to the write.  When nothing can be covered the buffer has no
\* memory, and the jump is put together at address zero.
InlineHook ==
  /\ kind = "ldr" /\ hookPc = "idle" /\ made < MaxHooks
  /\ LET i == made + 1
         dwPatchSize == GetPatchSize(mem, JmpSize)
         lpPatchBuffer == Jump(Org, HookFunc(i)) \o [k \in 1 .. dwPatchSize |-> Nop]
     IN  /\ mem' = mem @@ Allocated(mem, i, dwPatchSize)
         /\ at' = i /\ made' = i
         /\ hookPc' = IF dwPatchSize = 0 THEN "faulted" ELSE "write"
         /\ buffer' = SubSeq(lpPatchBuffer, 1, dwPatchSize)
         /\ hooks' = Append(hooks, [id |-> i, there |-> FALSE])
  /\ UNCHANGED <<kind, proc, inModule, real, failed, lost, mostNops>>

\* UnInlineHook, of any hook there is.
UnInlineHook ==
  /\ kind = "ldr" /\ hookPc = "idle"
  /\ \E n \in DOMAIN hooks :
       /\ at' = hooks[n].id
       /\ buffer' = Restored(mem, hooks[n].id)
       /\ lost' = (lost \/ n # Len(hooks) \/ (~inModule /\ mem[HookFunc(at') + JmpSize] = E9))
       /\ hooks' = SubSeq(hooks, 1, n - 1) \o SubSeq(hooks, n + 1, Len(hooks))
  /\ hookPc' = "restore"
  /\ UNCHANGED <<kind, proc, inModule, mem, real, made, failed, mostNops>>

\* Mutated form of Then: RealProc is not set.
ThenReturns(pc) == IF kind = "ldr" /\ pc = "restore" THEN "free" ELSE "idle"

\* What comes after the write: InlineHook sets RealProc, UnInlineHook frees.
Then(pc) ==
  IF kind = "content" THEN "idle" ELSE IF pc = "restore" THEN "free" ELSE "assign"

\* WriteReadOnlyMemory, or WriteProcessMemory: another thread may meet a part of
\* the bytes.
WriteSome ==
  /\ hookPc \in {"write", "restore"}
  /\ \E n \in 1 .. Len(buffer) - 1 :
       /\ mem' = Placed(Org, SubSeq(buffer, 1, n)) @@ mem
       /\ hookPc' = IF hookPc = "write" THEN "writing" ELSE "restoring"
  /\ UNCHANGED <<kind, proc, inModule, at, buffer, hooks, real, made, failed, lost, mostNops>>

WriteAll ==
  /\ hookPc \in {"write", "writing", "restore", "restoring"}
  /\ LET pc == IF hookPc \in {"write", "writing"} THEN "write" ELSE "restore"
     IN  /\ mem' = Placed(Org, buffer) @@ mem
         /\ hooks' = IF pc = "write" THEN [hooks EXCEPT ![Len(hooks)].there = TRUE] ELSE hooks
         /\ mostNops' = IF pc = "write" /\ Len(buffer) - JmpSize > mostNops THEN Len(buffer) - JmpSize ELSE mostNops
         /\ hookPc' = Then(pc)
  /\ UNCHANGED <<kind, proc, inModule, at, buffer, real, made, failed, lost>>

\* The calls of WriteProcessMemory by HookContent, as the bytes each writes: the
\* jump's first byte, its address, and the NOPs one by one; or two words.
Pieces(pc) ==
  IF pc = "write" THEN {1 .. 1, 2 .. JmpSize} \cup {{k} : k \in JmpSize + 1 .. Len(buffer)}
  ELSE {1 .. 4, 5 .. 8}

\* Nobody looks at the result.  The pages are made writable in one, or not at all
\* (VirtualProtect); of HookContent's calls each may fail.
WriteFails ==
  /\ hookPc \in {"write", "restore"} /\ failed < MaxFailed
  /\ failed' = failed + 1
  /\ \E Through \in SUBSET (IF kind = "content" THEN Pieces(hookPc) ELSE {}) :
       LET written == UNION Through
           there == hookPc = "write" /\ 1 .. JmpSize \subseteq written
       IN  /\ written # DOMAIN buffer
           /\ mem' = [x \in {Org + k - 1 : k \in written} |-> buffer[x - Org + 1]] @@ mem
           /\ hooks' = IF there THEN [hooks EXCEPT ![Len(hooks)].there = TRUE] ELSE hooks
           /\ lost' = (lost \/ hookPc = "restore" \/ (~there /\ written # {}))
           /\ mostNops' = IF there THEN Max({mostNops} \cup {k - JmpSize : k \in written}) ELSE mostNops
  /\ hookPc' = Then(hookPc)
  /\ UNCHANGED <<kind, proc, inModule, at, buffer, real, made>>

Assign ==
  /\ hookPc = "assign"
  /\ real' = [real EXCEPT ![at] = HookFunc(at) + JmpSize]
  /\ hookPc' = "idle"
  /\ UNCHANGED <<kind, proc, inModule, mem, at, buffer, hooks, made, failed, lost, mostNops>>

Free ==
  /\ hookPc = "free"
  /\ mem' = [a \in DOMAIN mem \ (Block(at) .. Block(at) + 999) |-> mem[a]]
  /\ hookPc' = "idle"
  /\ UNCHANGED <<kind, proc, inModule, at, buffer, hooks, real, made, failed, lost, mostNops>>

-----------------------------------------------------------------------------
(* CInlineHook by HookContent.                                              *)

ContentSize == 8

\* Hook: two words are kept, then the jump and the NOPs are written.
Hook ==
  /\ kind = "content" /\ hookPc = "idle" /\ made < MaxHooks
  /\ \E uNopCount \in NopCounts :
       buffer' = Jump(Org, New(made + 1)) \o [k \in 1 .. uNopCount |-> Nop]
  /\ mem' = mem @@ Placed(Block(made + 1), Copy(mem, Org, ContentSize))
  /\ made' = made + 1 /\ at' = made'
  /\ hooks' = Append(hooks, [id |-> made', there |-> FALSE])
  /\ hookPc' = "write"
  /\ UNCHANGED <<kind, proc, inModule, real, failed, lost, mostNops>>

\* Mutated form of OldCode: the first word only.
OldCode1(m, i) == Copy(m, Block(i), 4)

\* The words that UnHook writes.
OldCode(m, i) == Copy(m, Block(i), ContentSize)

UnHook ==
  /\ kind = "content" /\ hookPc = "idle"
  /\ \E n \in DOMAIN hooks :
       /\ at' = hooks[n].id
       /\ buffer' = OldCode(mem, hooks[n].id)
       /\ lost' = (lost \/ n # Len(hooks))
       /\ hooks' = SubSeq(hooks, 1, n - 1) \o SubSeq(hooks, n + 1, Len(hooks))
  /\ hookPc' = "restore"
  /\ UNCHANGED <<kind, proc, inModule, mem, real, made, failed, mostNops>>

HookNext ==
  \/ InlineHook \/ UnInlineHook \/ Hook \/ UnHook
  \/ WriteSome \/ WriteAll \/ WriteFails \/ Assign \/ Free

HookSpec == HookInit /\ [][HookNext]_hookVars

-----------------------------------------------------------------------------
(* What the processor does.                                                 *)

Signed8(b) == IF b < 128 THEN b ELSE b - 256
Event(ev, bytes) == [ev |-> ev, bytes |-> bytes]

ShortJumps == \h70 .. \h7F \cup \hE0 .. \hE3 \cup {\hEB}

\* One step at an address: NewProc calls RealProc, or does not come back.
Ran(m, s) ==
  LET a == s.pc
      code == Code(m, a)
      length == Manual(code)
      op == code[1]
      On(event, next) == [pc |-> next, ran |-> Append(s.ran, event), over |-> FALSE]
      End(event) == [pc |-> a, ran |-> Append(s.ran, event), over |-> TRUE]
  IN  CASE s.over -> s
        [] ~s.over /\ a > 9000 /\ a <= 9000 + MaxHooks ->
             LET i == a - 9000
             IN  IF kind = "content" THEN End(Event("new", <<i>>))
                 ELSE IF real[i] = 0 THEN End(Event("unset", <<i>>)) ELSE On(Event("new", <<i>>), real[i])
        [] ~s.over /\ a = Elsewhere -> End(Event("elsewhere", <<>>))
        [] ~s.over /\ a < 9000 /\ a \notin DOMAIN m -> End(Event("fault", <<>>))
        [] ~s.over /\ a > 9000 /\ a # Elsewhere /\ a > 9000 + MaxHooks -> End(Event("fault", <<>>))
        [] OTHER ->
             CASE op = E9 -> [s EXCEPT !.pc = JumpTarget(m, a)]
               [] op = \hE8 -> On(Event("call", <<JumpTarget(m, a)>>), a + length)
               [] op \in ShortJumps -> On(Event("branch", <<op, a + 2 + Signed8(code[2])>>), a + length)
               [] op \in {\hC2, \hC3} -> End(Event("code", SubSeq(code, 1, length)))
               [] OTHER -> On(Event("code", SubSeq(code, 1, length)), a + length)

Fuel == 8 * MaxHooks + Room
Run(m, a) ==
  LET after[k \in 0 .. Fuel] ==
        IF k = 0 THEN [pc |-> a, ran |-> <<>>, over |-> FALSE]
        ELSE LET old == after[k - 1] IN Ran(m, old)
  IN  after[Fuel].ran

\* The hooks in force, the latest first, and what a call of OrgProc should do.
InForce == SelectSeq(hooks, LAMBDA h : h.there)
Wanted ==
  LET n == Len(InForce)
      news == [k \in 1 .. n |-> Event("new", <<InForce[n + 1 - k].id>>)]
  IN  IF kind = "content" /\ n > 0 THEN <<news[1]>> ELSE news \o Run(Loaded(proc), Org)

-----------------------------------------------------------------------------
(* Properties.                                                              *)

\* The places where instructions of the procedure begin that the jump covers.
Covered ==
  LET next == [k \in 0 .. Room |-> IF k < Room THEN k + Manual(Code(Loaded(proc), Org + k)) ELSE Room]
      reached[k \in 0 .. JmpSize] == IF k = 0 THEN 0 ELSE IF reached[k - 1] < JmpSize THEN next[reached[k - 1]] ELSE reached[k - 1]
  IN  {reached[k] : k \in 0 .. JmpSize} \cap 0 .. JmpSize - 1

\* Procedures with an instruction at their start whose length CDasm has wrong: what
\* is copied may end within one.
LengthsKnown == \A k \in Covered : ~Differs(Code(Loaded(proc), Org + k))

\* CLdrHeader can hook a procedure when the jump has room before a return, and
\* none of the instructions it covers is relative, but for a jump right at the
\* start in a module: and that is what a second hook finds.
CanHook ==
  /\ \A k \in Covered :
       LET code == Code(Loaded(proc), Org + k)
       IN  /\ code[1] \notin {\hC2, \hC3}
           /\ code[1] \notin ShortJumps \cup {\hE8}
           /\ code[1] = E9 => k = 0 /\ inModule
  /\ Len(InForce) > 1 => inModule

\* A call of OrgProc goes through the hooks, the latest first, and then does what
\* the procedure does: for those procedures, and no others.
HooksChain ==
  hookPc = "idle" /\ ~lost /\ InForce # <<>> /\ (kind = "ldr" => LengthsKnown) =>
    (Run(mem, Org) = Wanted <=> kind = "content" \/ CanHook)

\* Hooks that are taken back in the reverse order leave the procedure as it was;
\* with HookContent if no byte beyond the two words was covered.
ProcComesBack ==
  hookPc = "idle" /\ ~lost /\ hooks = <<>> =>
    (Copy(mem, Org, Room) = Copy(Loaded(proc), Org, Room) <=> (kind = "ldr" \/ mostNops <= ContentSize - JmpSize))

\* The jump is there before RealProc is set: only a call that comes in between
\* finds the variable empty, and one that comes before the memory is freed is
\* served by the procedure.
UnsetInBetween ==
  kind = "ldr" /\ ~lost /\ hookPc \in {"idle", "assign", "free"} /\ LengthsKnown /\ CanHook =>
    LET ran == Run(mem, Org)
    IN  /\ hookPc = "assign" /\ Last.there => ran = <<Event("unset", <<at>>)>>
        /\ hookPc # "assign" => ran = Wanted

\* Procedures are hooked and put back as the caller may expect.
Hooked == HooksChain /\ ProcComesBack /\ UnsetInBetween
=============================================================================
