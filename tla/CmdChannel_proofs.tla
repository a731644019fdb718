-------------------------- MODULE CmdChannel_proofs --------------------------
(***************************************************************************)
(* Proofs about CmdChannel, for any clients, names and handles and all     *)
(* bounds: the server's list is true to its connections, and a command     *)
(* goes to whom it is meant for and is run once at most.                   *)
(***************************************************************************)
EXTENDS CmdChannel, Loops_proofs, FunctionTheorems, FiniteSetTheorems, SequenceTheorems, TLAPS

-----------------------------------------------------------------------------
(* What the server's loops keep.                                             *)

\* Entries of different handles stay so.
Distinct(s) == \A j, k \in DOMAIN s : s[j].handle = s[k].handle => j = k

LEMMA KeptDistinct ==
  ASSUME NEW S, NEW s \in Seq(S), NEW I, Distinct(s)
  PROVE  Distinct(Kept(s, I))
<1> DEFINE t == Kept(s, I)
<1>1. Selects(t, Len(s), S, s, I) /\ DOMAIN s = 1 .. Len(s)
  BY KeptSelects
<1> HIDE DEF t
<1>2. t \in Seq(S) /\ DOMAIN t = 1 .. Len(t) /\ Len(t) \in Nat
  BY <1>1 DEF Selects
<1>3. ASSUME NEW j1 \in 1 .. Len(t), NEW j2 \in 1 .. Len(t), j1 < j2, t[j1].handle = t[j2].handle
      PROVE  FALSE
  <2>1. PICK k1 \in 1 .. Len(s), k2 \in 1 .. Len(s) : k1 < k2 /\ t[j1] = s[k1] /\ t[j2] = s[k2]
    BY <1>1, <1>3 DEF Selects
  <2>2. s[k1].handle = s[k2].handle /\ k1 # k2
    BY <1>3, <2>1
  <2> QED BY <1>1, <2>2 DEF Distinct
<1>4. ASSUME NEW j \in 1 .. Len(t), NEW k \in 1 .. Len(t), t[j].handle = t[k].handle
      PROVE  j = k
  <2>1. j < k \/ k < j \/ j = k
    BY <1>2
  <2> QED BY <1>3, <1>4, <2>1
<1> QED BY <1>2, <1>4 DEF Distinct, t

LEMMA RangeOfAppend ==
  ASSUME NEW S, NEW s \in Seq(S), NEW x \in S
  PROVE  Range(Append(s, x)) = Range(s) \cup {x}
<1> DEFINE t == Append(s, x)
           n == Len(s)
<1>1. /\ n \in Nat /\ DOMAIN s = 1 .. n /\ DOMAIN t = 1 .. n + 1
      /\ t[n + 1] = x /\ \A i \in 1 .. n : t[i] = s[i]
  BY AppendProperties
<1> HIDE DEF t, n
<1>2. Range(s) = {s[i] : i \in 1 .. n} /\ Range(t) = {t[i] : i \in 1 .. n + 1}
  BY <1>1 DEF Range
<1>3. (\A i \in 1 .. n + 1 : i \in 1 .. n \/ i = n + 1) /\ \A i \in 1 .. n : i \in 1 .. n + 1
  BY <1>1
<1>4. n + 1 \in 1 .. n + 1
  BY <1>1
<1>5. ASSUME NEW y
      PROVE  y \in Range(t) <=> y \in Range(s) \cup {x}
  <2>1. y \in Range(s) <=> \E i \in 1 .. n : y = s[i]
    BY <1>2, Zenon
  <2>2. y \in Range(t) <=> \E i \in 1 .. n + 1 : y = t[i]
    BY <1>2, Zenon
  <2> QED BY <1>1, <1>3, <1>4, <2>1, <2>2
<1> QED BY <1>5 DEF t

\* Nothing is in s twice.
Once(s) == \A j, k \in DOMAIN s : s[j] = s[k] => j = k

\* The first of a sequence and the others.
LEMMA HeadAndTail ==
  ASSUME NEW S, NEW s \in Seq(S), s # <<>>
  PROVE  /\ Head(s) \in S /\ Tail(s) \in Seq(S)
         /\ Range(s) = {Head(s)} \cup Range(Tail(s))
         /\ Once(s) => Once(Tail(s)) /\ Head(s) \notin Range(Tail(s))
<1>1. /\ Len(s) \in Nat /\ Len(s) # 0 /\ DOMAIN s = 1 .. Len(s) /\ Head(s) = s[1] /\ s[1] \in S
      /\ Tail(s) \in Seq(S) /\ Len(Tail(s)) = Len(s) - 1
      /\ \A i \in 1 .. Len(s) - 1 : Tail(s)[i] = s[i + 1]
  BY HeadTailProperties, EmptySeq
<1>2. DOMAIN Tail(s) = 1 .. Len(s) - 1
  BY <1>1
<1> DEFINE t == Tail(s)
           n == Len(s)
<1>3. /\ n \in Nat /\ n # 0 /\ DOMAIN s = 1 .. n /\ DOMAIN t = 1 .. n - 1 /\ Head(s) = s[1]
      /\ \A i \in 1 .. n - 1 : t[i] = s[i + 1]
  BY <1>1, <1>2
<1>4. Head(s) \in S /\ Tail(s) \in Seq(S)
  BY <1>1
<1> HIDE DEF t, n
<1>5. Range(s) = {s[i] : i \in 1 .. n} /\ Range(t) = {t[i] : i \in 1 .. n - 1}
  BY <1>3 DEF Range
<1>6. /\ \A i \in 1 .. n - 1 : i + 1 \in 1 .. n /\ i + 1 # 1
      /\ \A i \in 1 .. n : i = 1 \/ (i - 1 \in 1 .. n - 1 /\ (i - 1) + 1 = i)
      /\ 1 \in 1 .. n
  BY <1>3
<1>7. Range(s) = {s[1]} \cup Range(t)
  <2>1. ASSUME NEW i \in 1 .. n
        PROVE  s[i] = s[1] \/ \E j \in 1 .. n - 1 : t[j] = s[i]
    BY <1>3, <1>6
  <2>2. \A j \in 1 .. n - 1 : \E i \in 1 .. n : t[j] = s[i]
    BY <1>3, <1>6
  <2>3. ASSUME NEW x
        PROVE  x \in Range(s) <=> x \in {s[1]} \cup Range(t)
    <3>1. x \in Range(s) <=> \E i \in 1 .. n : x = s[i]
      BY <1>5, Zenon
    <3>2. x \in Range(t) <=> \E j \in 1 .. n - 1 : x = t[j]
      BY <1>5, Zenon
    <3> QED BY <1>6, <2>1, <2>2, <3>1, <3>2
  <2> QED BY <2>3
<1>8. ASSUME Once(s)
      PROVE  Once(t) /\ s[1] \notin Range(t)
  <2>1. ASSUME NEW j \in 1 .. n - 1, NEW k \in 1 .. n - 1, t[j] = t[k]
        PROVE  j = k
    <3>1. j + 1 = k + 1
      BY <1>3, <1>6, <1>8, <2>1 DEF Once
    <3> QED BY <1>3, <3>1
  <2>2. ASSUME NEW j \in 1 .. n - 1
        PROVE  t[j] # s[1]
    BY <1>3, <1>6, <1>8 DEF Once
  <2> QED BY <1>3, <1>5, <2>1, <2>2 DEF Once
<1> QED BY <1>3, <1>4, <1>7, <1>8 DEF t

LEMMA OnceMore ==
  ASSUME NEW S, NEW s \in Seq(S), NEW x \in S, Once(s), x \notin Range(s)
  PROVE  Once(Append(s, x))
<1> DEFINE t == Append(s, x)
           n == Len(s)
<1>1. /\ n \in Nat /\ DOMAIN s = 1 .. n /\ DOMAIN t = 1 .. n + 1
      /\ t[n + 1] = x /\ \A i \in 1 .. n : t[i] = s[i]
  BY AppendProperties
<1> HIDE DEF t, n
<1>2. \A i \in 1 .. n : s[i] # x
  BY <1>1 DEF Range
<1>3. \A i \in 1 .. n + 1 : i \in 1 .. n \/ i = n + 1
  BY <1>1
<1>4. Once(t)
  BY <1>1, <1>2, <1>3 DEF Once
<1> QED BY <1>4 DEF t

-----------------------------------------------------------------------------
(* The invariant.                                                            *)

AtServer == {"hello", "listed"}

\* The connection a client made last: the only one it may still read.
Latest(c) == \A d \in DOMAIN conn : conn[d].owner = conn[c].owner => d <= c

\* The command that is being sent is to go to c yet.
ToSend(c) == conn[c].far \in AtServer /\ conn[c].handle \in Range(todo)

\* The commands a client has received.
Got(p) == started[p] \cup Range(ran[p])

TypeInv ==
  /\ TypeOK
  /\ sk \in [Clients -> Nat] /\ rs \in [Clients -> Nat]
  /\ started \in [Clients -> SUBSET Nat] /\ ran \in [Clients -> Seq(Nat)]
  /\ Len(cmds) <= MaxCmds /\ (sendPc # "idle" => cmds # <<>>)

\* A socket a client holds or receives from is its latest; before it is greeted
\* with a name nothing was sent on it.
ClientInv ==
  \A p \in Clients :
    /\ sk[p] # 0 => conn[sk[p]].owner = p /\ Latest(sk[p])
    /\ recvPc[p] = "recv" /\ rs[p] # 0 => conn[rs[p]].owner = p /\ Latest(rs[p])
    /\ recvPc[p] = "hello" /\ sk[p] # 0 => conn[sk[p]].up = "none"

\* What the server knows of a connection, and that handles are not shared.
ConnInv ==
  /\ \A c \in DOMAIN conn :
       /\ conn[c].near = "new" => conn[c].far = "none" /\ conn[c].up = "none"
       /\ conn[c].far = "listed" \/ conn[c].down # <<>> => conn[c].up = "whole"
       /\ conn[c].far \in AtServer => conn[c].handle \in Handles
  /\ \A c, d \in DOMAIN conn :
       conn[c].far \in AtServer /\ conn[d].far \in AtServer /\ conn[c].handle = conn[d].handle => c = d

Closing == IF sendPc = "close" THEN {Head(todo)} ELSE {}
Live == {c \in DOMAIN conn : conn[c].far = "listed" /\ conn[c].handle \notin Closing}
EntryOf(c) == [handle |-> conn[c].handle, name |-> conn[c].name]

ListInv ==
  /\ Distinct(list)
  /\ Range(list) = {EntryOf(c) : c \in Live}

\* The handles still to send to are those of registered connections, once each.
TodoInv ==
  /\ Once(todo)
  /\ \A h \in Range(todo) : \E c \in DOMAIN conn : conn[c].far = "listed" /\ conn[c].handle = h

\* On a connection each command is once, and it was meant for its name.
WayInv ==
  \A c \in DOMAIN conn :
    /\ Once(conn[c].down)
    /\ \A k \in Range(conn[c].down) : k \in DOMAIN cmds /\ cmds[k] \in {Everyone, conn[c].name}
    /\ ToSend(c) => Len(cmds) \notin Range(conn[c].down) /\ cmds[Len(cmds)] \in {Everyone, conn[c].name}

\* On its way to the connection a client reads is nothing the client has received.
OnceInv ==
  /\ AtMostOnce
  /\ \A c \in DOMAIN conn : Latest(c) =>
       /\ \A k \in Range(conn[c].down) : k \notin Got(conn[c].owner)
       /\ ToSend(c) => Len(cmds) \notin Got(conn[c].owner)

Inv == TypeInv /\ ClientInv /\ ConnInv /\ ListInv /\ TodoInv /\ WayInv /\ OnceInv

LEMMA InitInv == Init => Inv
<1> SUFFICES ASSUME Init PROVE Inv
  OBVIOUS
<1>1. (CHOOSE n \in Names : TRUE) \in Names
  BY NamesAssumption
<1>2. {MaxConns, MaxCmds, MaxCalls, MaxFaults} \subseteq Nat
  BY BoundsAssumption
<1>3. TypeInv
  BY <1>1, <1>2 DEF Init, TypeInv, TypeOK, RecvLabels, AppLabels, Range
<1>4. ClientInv
  BY DEF Init, ClientInv
<1>5. ConnInv /\ TodoInv /\ WayInv
  BY DEF Init, ConnInv, TodoInv, WayInv, Range, Once
<1>6. ListInv
  BY DEF Init, ListInv, Distinct, Live, Range
<1>7. OnceInv
  BY DEF Init, OnceInv, AtMostOnce, Range
<1> QED BY <1>3, <1>4, <1>5, <1>6, <1>7 DEF Inv

-----------------------------------------------------------------------------
(* Changes to the connections.                                               *)

\* The types of a connection.
LEMMA ConnTyped ==
  ASSUME TypeInv, NEW c \in DOMAIN conn
  PROVE  /\ conn[c] \in Conn /\ c \in 1 .. Len(conn)
         /\ conn[c].owner \in Clients /\ conn[c].name \in Names /\ conn[c].down \in Seq(1 .. MaxCmds)
         /\ conn[c].handle \in Handles \cup {0}
<1>1. conn \in Seq(Conn)
  BY DEF TypeInv, TypeOK
<1>2. conn[c] \in Conn /\ c \in 1 .. Len(conn)
  BY <1>1
<1> QED BY <1>2 DEF Conn

\* One connection changes.
Change(c, v) == conn' = [conn EXCEPT ![c] = v]

LEMMA Changed ==
  ASSUME TypeInv, NEW c \in DOMAIN conn, NEW v \in Conn, Change(c, v)
  PROVE  /\ conn' \in Seq(Conn) /\ Len(conn') = Len(conn) /\ DOMAIN conn' = DOMAIN conn
         /\ conn'[c] = v /\ \A d \in DOMAIN conn : d # c => conn'[d] = conn[d]
<1>1. conn \in Seq(Conn) /\ c \in 1 .. Len(conn)
  BY ConnTyped DEF TypeInv, TypeOK
<1>2. conn' = [conn EXCEPT ![c] = v]
  BY DEF Change
<1> QED BY <1>1, <1>2, ExceptSeq

\* No connection gets to the server's threads, and those in the list stay; a
\* client may give its name on one that had none.
Faded(r, v) ==
  /\ v.owner = r.owner /\ v.down = r.down /\ v.handle = r.handle
  /\ \/ v.name = r.name /\ v.up = r.up
     \/ r.up = "none" /\ r.near # "new"
  /\ v.far = r.far \/ (r.far # "listed" /\ v.far \notin AtServer)
  /\ v.near = "new" => r.near = "new" /\ v.far = r.far

Fades ==
  /\ conn' \in Seq(Conn) /\ Len(conn') = Len(conn)
  /\ \A c \in DOMAIN conn : Faded(conn[c], conn'[c])

LEMMA OneFades ==
  ASSUME TypeInv, NEW c \in DOMAIN conn, NEW v \in Conn, Change(c, v), Faded(conn[c], v)
  PROVE  Fades /\ conn'[c] = v /\ \A d \in DOMAIN conn : d # c => conn'[d] = conn[d]
<1>1. /\ conn' \in Seq(Conn) /\ Len(conn') = Len(conn)
      /\ conn'[c] = v /\ \A d \in DOMAIN conn : d # c => conn'[d] = conn[d]
  BY Changed
<1>2. \A d \in DOMAIN conn : Faded(conn[d], conn[d])
  BY ConnTyped DEF Faded
<1> QED BY <1>1, <1>2 DEF Fades

LEMMA NoneFades ==
  ASSUME TypeInv, UNCHANGED conn
  PROVE  Fades
BY DEF TypeInv, TypeOK, Fades, Faded

\* What SendContent is to send to is registered.
LEMMA ToSendListed ==
  ASSUME Inv, NEW c \in DOMAIN conn, ToSend(c)
  PROVE  conn[c].far = "listed" /\ conn[c].up = "whole"
<1>1. PICK d \in DOMAIN conn : conn[d].far = "listed" /\ conn[d].handle = conn[c].handle
  BY DEF Inv, TodoInv, ToSend
<1>2. c = d
  BY <1>1 DEF Inv, ConnInv, ToSend, AtServer
<1> QED BY <1>1, <1>2 DEF Inv, ConnInv

LEMMA Fading ==
  ASSUME Inv, Fades, UNCHANGED <<list, sendVars, execVars>>
  PROVE  ConnInv' /\ ListInv' /\ TodoInv' /\ WayInv' /\ OnceInv'
<1>1. DOMAIN conn' = DOMAIN conn
  BY DEF Fades, Faded, Inv, TypeInv, TypeOK
<1>2. list' = list /\ sendPc' = sendPc /\ todo' = todo /\ cmds' = cmds /\ started' = started /\ ran' = ran
  BY DEF sendVars, execVars
<1>3. \A c \in DOMAIN conn :
        /\ conn'[c].far = "listed" <=> conn[c].far = "listed"
        /\ conn'[c].far \in AtServer => conn'[c].far = conn[c].far
        /\ ToSend(c)' => ToSend(c)
        /\ Latest(c)' <=> Latest(c)
  BY <1>1, <1>2 DEF Fades, Faded, AtServer, ToSend, Latest
<1>4. \A c \in DOMAIN conn :
        conn[c].up # "none" => conn'[c].name = conn[c].name /\ conn'[c].up = conn[c].up
  BY DEF Fades, Faded
<1>5. \A c \in DOMAIN conn : conn[c].far = "listed" \/ conn[c].down # <<>> => conn[c].up # "none"
  BY DEF Inv, ConnInv
<1>6. ConnInv'
  <2>1. ASSUME NEW c \in DOMAIN conn
        PROVE  /\ conn'[c].near = "new" => conn'[c].far = "none" /\ conn'[c].up = "none"
               /\ conn'[c].far = "listed" \/ conn'[c].down # <<>> => conn'[c].up = "whole"
               /\ conn'[c].far \in AtServer => conn'[c].handle \in Handles
    BY <1>3, <1>4, <1>5 DEF Inv, ConnInv, Fades, Faded
  <2>2. ASSUME NEW c \in DOMAIN conn, NEW d \in DOMAIN conn, conn'[c].far \in AtServer,
               conn'[d].far \in AtServer, conn'[c].handle = conn'[d].handle
        PROVE  c = d
    <3>1. conn[c].far \in AtServer /\ conn[d].far \in AtServer /\ conn[c].handle = conn[d].handle
      BY <1>3, <2>2 DEF Fades, Faded
    <3> QED BY <3>1 DEF Inv, ConnInv
  <2> QED BY <1>1, <2>1, <2>2 DEF ConnInv
<1>7. ListInv'
  <2>1. Closing' = Closing
    BY <1>2 DEF Closing
  <2>2. Live' = Live
    BY <1>1, <1>3, <2>1 DEF Live, Fades, Faded
  <2>3. \A c \in Live : EntryOf(c)' = EntryOf(c)
    BY <1>4, <1>5 DEF Live, Fades, Faded, EntryOf
  <2>4. {EntryOf(c)' : c \in Live} = {EntryOf(c) : c \in Live}
    BY <2>3
  <2>5. Range(list)' = Range(list)
    BY <1>2
  <2> QED BY <1>2, <2>2, <2>4, <2>5 DEF Inv, ListInv, Distinct
<1>8. TodoInv'
  BY <1>1, <1>2, <1>3 DEF Inv, TodoInv, Fades, Faded
<1>9. WayInv'
  <2>1. ASSUME NEW c \in DOMAIN conn
        PROVE  /\ Once(conn'[c].down)
               /\ \A k \in Range(conn'[c].down) : k \in DOMAIN cmds /\ cmds[k] \in {Everyone, conn'[c].name}
    <3>1. conn'[c].down = conn[c].down
      BY DEF Fades, Faded
    <3>2. CASE conn[c].down = <<>>
      BY <3>1, <3>2 DEF Range, Once
    <3>3. CASE conn[c].down # <<>>
      <4>1. conn'[c].name = conn[c].name
        BY <1>4, <1>5, <3>3
      <4> QED BY <3>1, <4>1 DEF Inv, WayInv
    <3> QED BY <3>2, <3>3
  <2>2. ASSUME NEW c \in DOMAIN conn, ToSend(c)'
        PROVE  Len(cmds) \notin Range(conn'[c].down) /\ cmds[Len(cmds)] \in {Everyone, conn'[c].name}
    <3>1. ToSend(c)
      BY <1>3, <2>2
    <3>2. conn'[c].name = conn[c].name /\ conn'[c].down = conn[c].down
      BY <1>4, <3>1, ToSendListed DEF Fades, Faded
    <3> QED BY <3>1, <3>2 DEF Inv, WayInv
  <2> QED BY <1>1, <1>2, <2>1, <2>2 DEF WayInv
<1>10. OnceInv'
  BY <1>1, <1>2, <1>3 DEF Inv, OnceInv, AtMostOnce, Fades, Faded, Got
<1> QED BY <1>6, <1>7, <1>8, <1>9, <1>10

\* Steps that do no more than that, and change what the clients' threads know.
ClientTyped ==
  /\ run \in [Clients -> BOOLEAN] /\ name \in [Clients -> Names]
  /\ sk \in [Clients -> Nat] /\ rs \in [Clients -> Nat]
  /\ recvPc \in [Clients -> RecvLabels] /\ appPc \in [Clients -> AppLabels]
  /\ srvRun \in BOOLEAN /\ acceptPc \in {"accept", "done"}
  /\ calls \in 0 .. MaxCalls /\ faults \in 0 .. MaxFaults

Quiet ==
  /\ Fades /\ ClientTyped'
  /\ UNCHANGED <<list, sendVars, execVars>>
  /\ \A p \in Clients :
       /\ sk'[p] \in {0, sk[p]} /\ rs'[p] \in {0, sk[p], rs[p]}
       /\ recvPc'[p] = "recv" => rs'[p] \in {0, sk[p]} \/ (recvPc[p] = "recv" /\ rs'[p] = rs[p])
       /\ recvPc'[p] = "hello" /\ sk'[p] # 0 => conn'[sk[p]].up = "none"

LEMMA QuietInv ==
  ASSUME Inv, Quiet
  PROVE  Inv'
<1>1. ConnInv' /\ ListInv' /\ TodoInv' /\ WayInv' /\ OnceInv'
  BY Fading DEF Quiet
<1>2. conn' \in Seq(Conn) /\ Len(conn') = Len(conn) /\ DOMAIN conn' = DOMAIN conn
  BY DEF Quiet, Fades, Faded, Inv, TypeInv, TypeOK
<1>3. list' = list /\ sendPc' = sendPc /\ todo' = todo /\ cmds' = cmds /\ started' = started /\ ran' = ran
  BY DEF Quiet, sendVars, execVars
<1>4. \A p \in Clients : sk[p] \in 0 .. Len(conn) /\ rs[p] \in 0 .. Len(conn)
  BY DEF Inv, TypeInv, TypeOK
<1>5. TypeInv'
  <2>1. \A p \in Clients : {sk[p], rs[p]}' \subseteq 0 .. Len(conn')
    BY <1>2, <1>4 DEF Quiet
  <2> QED BY <1>2, <1>3, <2>1 DEF Quiet, ClientTyped, Inv, TypeInv, TypeOK
<1>6. ClientInv'
  <2> DEFINE LastMade(c) == \A d \in DOMAIN conn' : conn'[d].owner = conn'[c].owner => d <= c
  <2>1. \A c \in DOMAIN conn : conn'[c].owner = conn[c].owner /\ (Latest(c) => LastMade(c))
    BY <1>2 DEF Quiet, Fades, Faded, Latest
  <2>2. \A c \in 0 .. Len(conn) : c # 0 => c \in DOMAIN conn
    BY DEF Inv, TypeInv, TypeOK
  <2> HIDE DEF LastMade
  <2>3. ASSUME NEW p \in Clients
        PROVE  /\ sk'[p] # 0 => conn'[sk'[p]].owner = p /\ LastMade(sk'[p])
               /\ recvPc'[p] = "recv" /\ rs'[p] # 0 => conn'[rs'[p]].owner = p /\ LastMade(rs'[p])
               /\ recvPc'[p] = "hello" /\ sk'[p] # 0 => conn'[sk'[p]].up = "none"
    <3>1. sk[p] # 0 => conn'[sk[p]].owner = p /\ LastMade(sk[p])
      BY <1>4, <2>1, <2>2 DEF Inv, ClientInv
    <3>2. recvPc[p] = "recv" /\ rs[p] # 0 => conn'[rs[p]].owner = p /\ LastMade(rs[p])
      BY <1>4, <2>1, <2>2 DEF Inv, ClientInv
    <3> QED BY <3>1, <3>2 DEF Quiet
  <2> QED BY <2>3 DEF ClientInv, Latest, LastMade
<1> QED BY <1>1, <1>5, <1>6 DEF Inv

LEMMA ClosedFades ==
  ASSUME TypeInv, NEW p \in Clients, sk[p] # 0, CloseNear(p)
  PROVE  Fades /\ conn'[sk[p]].up = conn[sk[p]].up
<1> DEFINE c == sk[p]
           v == [conn[c] EXCEPT !.near = "closed"]
<1>1. c \in DOMAIN conn
  BY DEF TypeInv, TypeOK
<1>2. conn[c] \in Conn
  BY <1>1, ConnTyped
<1>3. v \in Conn /\ Faded(conn[c], v) /\ v.up = conn[c].up
  BY <1>2 DEF Conn, Faded
<1>4. Change(c, v)
  BY DEF CloseNear, Change
<1> HIDE DEF c, v
<1>5. Fades /\ conn'[c] = v
  BY <1>1, <1>3, <1>4, OneFades
<1> QED BY <1>3, <1>5 DEF c

LEMMA RunInv ==
  ASSUME Inv, NEW p \in Clients, Run(p) \/ ReSetClientName(p) \/ Stop(p)
  PROVE  Inv'
<1>1. Fades /\ TypeInv /\ ClientInv
  BY NoneFades DEF Inv, Run, ReSetClientName, Stop
<1>2. calls' \in 0 .. MaxCalls
  BY <1>1, BoundsAssumption DEF TypeInv, TypeOK, Run, ReSetClientName, Stop, Call
<1>3. /\ run' \in [Clients -> BOOLEAN] /\ name' \in [Clients -> Names]
      /\ recvPc' \in [Clients -> RecvLabels] /\ appPc' \in [Clients -> AppLabels]
  BY <1>1, ZenonT(40) DEF TypeInv, TypeOK, RecvLabels, AppLabels, Run, ReSetClientName, Stop, RecvGoto, AppGoto
<1>4. \A q \in Clients : recvPc'[q] \in {"recv", "hello"} => recvPc'[q] = recvPc[q]
  BY <1>1 DEF TypeInv, TypeOK, Run, ReSetClientName, Stop, RecvGoto
<1>5. UNCHANGED <<sk, rs, conn, serverVars, sendVars, execVars, faults>>
  BY DEF Run, ReSetClientName, Stop
<1>6. ClientTyped' /\ UNCHANGED list
  BY <1>1, <1>2, <1>3, <1>5 DEF TypeInv, TypeOK, ClientTyped, serverVars
<1>7. ASSUME NEW q \in Clients, recvPc'[q] = "hello", sk'[q] # 0
      PROVE  conn'[sk[q]].up = "none"
  BY <1>1, <1>4, <1>5, <1>7 DEF ClientInv
<1>8. Quiet
  BY <1>1, <1>4, <1>5, <1>6, <1>7 DEF Quiet
<1> QED BY <1>8, QuietInv

LEMMA BreakingInv ==
  ASSUME Inv, NEW p \in Clients, Breaking(p)
  PROVE  Inv'
<1>1. TypeInv /\ ClientInv
  BY DEF Inv
<1>2. Fades /\ \A q \in Clients : sk[q] # 0 => conn'[sk[q]].up = conn[sk[q]].up
  <2>1. CASE UNCHANGED conn
    BY <1>1, <2>1, NoneFades
  <2>2. CASE sk[p] # 0 /\ CloseNear(p)
    <3>1. Fades /\ conn'[sk[p]].up = conn[sk[p]].up
      BY <1>1, <2>2, ClosedFades
    <3>2. \A c \in DOMAIN conn : c # sk[p] => conn'[c] = conn[c]
      BY <1>1, <2>2 DEF CloseNear, TypeInv, TypeOK
    <3>3. \A q \in Clients : sk[q] # 0 => sk[q] \in DOMAIN conn
      BY <1>1 DEF TypeInv, TypeOK
    <3> QED BY <3>1, <3>2, <3>3
  <2> QED BY <2>1, <2>2 DEF Breaking, AppBreak, AppReset, StopWait
<1>3. faults' \in 0 .. MaxFaults
  BY <1>1, BoundsAssumption DEF TypeInv, TypeOK, Breaking, AppBreak, AppReset, StopWait, Fault
<1>4. /\ recvPc' \in [Clients -> RecvLabels] /\ appPc' \in [Clients -> AppLabels]
      /\ sk' \in [Clients -> Nat] /\ \A q \in Clients : sk'[q] \in {0, sk[q]}
  <2>1. recvPc' \in [Clients -> RecvLabels] /\ appPc' \in [Clients -> AppLabels]
    BY <1>1 DEF TypeInv, TypeOK, RecvLabels, AppLabels, Breaking, AppBreak, AppReset, StopWait, RecvGoto, AppGoto
  <2>2. sk' = sk \/ sk' = [sk EXCEPT ![p] = 0]
    BY DEF Breaking, AppBreak, AppReset, StopWait
  <2>3. sk \in [Clients -> Nat]
    BY <1>1 DEF TypeInv
  <2>4. sk' \in [Clients -> Nat] /\ \A q \in Clients : sk'[q] \in {0, sk[q]}
    BY <2>2, <2>3
  <2> QED BY <2>1, <2>4
<1>5. \A q \in Clients : recvPc'[q] \in {"recv", "hello"} => recvPc'[q] = recvPc[q]
  BY <1>1 DEF TypeInv, TypeOK, Breaking, AppBreak, AppReset, StopWait, RecvGoto
<1>6. UNCHANGED <<run, name, rs, serverVars, sendVars, execVars, calls>>
  BY DEF Breaking, AppBreak, AppReset, StopWait
<1>7. ClientTyped' /\ UNCHANGED list
  BY <1>1, <1>3, <1>4, <1>6 DEF TypeInv, TypeOK, ClientTyped, serverVars
<1>8. ASSUME NEW q \in Clients, recvPc'[q] = "hello", sk'[q] # 0
      PROVE  conn'[sk[q]].up = "none"
  <2>1. recvPc[q] = "hello" /\ sk[q] # 0
    BY <1>4, <1>5, <1>8
  <2>2. conn[sk[q]].up = "none"
    BY <1>1, <2>1 DEF ClientInv
  <2> QED BY <1>2, <2>1, <2>2
<1>9. Quiet
  BY <1>1, <1>2, <1>4, <1>5, <1>6, <1>7, <1>8 DEF Quiet
<1> QED BY <1>9, QuietInv

\* The steps of a client's thread that send and receive nothing.
Waits(p) == Top(p) \/ Inner(p) \/ RecvFailed(p) \/ RecvReset(p) \/ (CreateSocket(p) /\ sk[p] # 0)

LEMMA WaitsInv ==
  ASSUME Inv, NEW p \in Clients, Waits(p)
  PROVE  Inv'
<1>1. Fades /\ TypeInv /\ ClientInv /\ conn' = conn
  BY NoneFades DEF Inv, Waits, Top, Inner, RecvFailed, RecvReset, CreateSocket
<1>2. recvPc' \in [Clients -> RecvLabels]
  BY <1>1 DEF TypeInv, TypeOK, RecvLabels, Waits, Top, Inner, RecvFailed, RecvReset, CreateSocket, RecvGoto
<1>3. sk' = sk \/ sk' = [sk EXCEPT ![p] = 0]
  BY DEF Waits, Top, Inner, RecvFailed, RecvReset, CreateSocket
<1>4. sk' \in [Clients -> Nat] /\ \A q \in Clients : sk'[q] \in {0, sk[q]}
  <2>1. sk \in [Clients -> Nat]
    BY <1>1 DEF TypeInv
  <2> QED BY <1>3, <2>1
<1>5. rs' = rs \/ (Inner(p) /\ rs' = [rs EXCEPT ![p] = IF run[p] THEN sk[p] ELSE 0])
  BY DEF Waits, Top, Inner, RecvFailed, RecvReset, CreateSocket
<1>6. rs' \in [Clients -> Nat] /\ \A q \in Clients : rs'[q] \in {0, sk[q], rs[q]}
  <2>1. sk \in [Clients -> Nat] /\ rs \in [Clients -> Nat]
    BY <1>1 DEF TypeInv
  <2> QED BY <1>5, <2>1
<1>7. \A q \in Clients : recvPc'[q] \in {"recv", "hello"} =>
        recvPc'[q] = recvPc[q] \/ (q = p /\ Inner(p) /\ recvPc'[q] = "recv")
  BY <1>1 DEF TypeInv, TypeOK, Waits, Top, Inner, RecvFailed, RecvReset, CreateSocket, RecvGoto
<1>8. \A q \in Clients : recvPc'[q] = "recv" => rs'[q] \in {0, sk[q]} \/ (recvPc[q] = "recv" /\ rs'[q] = rs[q])
  <2> TAKE q \in Clients
  <2>1. CASE Inner(p) /\ q = p
    BY <1>1, <2>1 DEF Inner, TypeInv
  <2>2. CASE ~ (Inner(p) /\ q = p)
    <3>1. recvPc'[q] = "recv" => recvPc'[q] = recvPc[q]
      BY <1>7, <2>2
    <3>2. rs'[q] = rs[q]
      BY <1>1, <1>5, <2>2 DEF TypeInv
    <3> QED BY <3>1, <3>2
  <2> QED BY <2>1, <2>2
<1>9. \A q \in Clients : recvPc'[q] = "hello" /\ sk'[q] # 0 => conn'[sk[q]].up = "none"
  BY <1>1, <1>4, <1>7 DEF ClientInv
<1>10. UNCHANGED <<run, name, appPc, serverVars, sendVars, execVars, calls, faults>>
  BY DEF Waits, Top, Inner, RecvFailed, RecvReset, CreateSocket
<1>11. Quiet
  BY <1>1, <1>2, <1>4, <1>6, <1>8, <1>9, <1>10 DEF TypeInv, TypeOK, ClientTyped, Quiet, serverVars
<1> QED BY <1>11, QuietInv

\* The steps of a client's thread that change its socket.
Dials(p) == Connect(p) \/ SendClientName(p) \/ RecvBreak(p)

LEMMA DialsFades ==
  ASSUME Inv, NEW p \in Clients, Dials(p)
  PROVE  /\ Fades
         /\ \A c \in DOMAIN conn : c # sk[p] => conn'[c] = conn[c]
         /\ Connect(p) /\ recvPc'[p] = "hello" /\ sk[p] # 0 => conn'[sk[p]].up = "none"
<1>1. TypeInv /\ ConnInv /\ \A q \in Clients : sk[q] # 0 => sk[q] \in DOMAIN conn
  BY DEF Inv, TypeInv, TypeOK
<1>2. CASE UNCHANGED conn
  <2>1. Connect(p) => ~ (recvPc'[p] = "hello" /\ sk[p] # 0)
    <3> SUFFICES ASSUME Connect(p), recvPc'[p] = "hello", sk[p] # 0 PROVE FALSE
      OBVIOUS
    <3>1. recvPc' # [recvPc EXCEPT ![p] = "top"]
      BY <1>1 DEF TypeInv, TypeOK
    <3>2. conn[sk[p]].near = "new" /\ conn' = [conn EXCEPT ![sk[p]].near = "open", ![sk[p]].far = "backlog"]
      BY <3>1 DEF Connect, RecvGoto
    <3>3. sk[p] \in DOMAIN conn /\ conn[sk[p]] \in Conn
      BY <1>1, ConnTyped
    <3>4. conn'[sk[p]].near = "open"
      BY <3>2, <3>3 DEF Conn
    <3> QED BY <1>2, <3>2, <3>4
  <2> QED BY <1>1, <1>2, <2>1, NoneFades
<1>3. CASE RecvBreak(p) /\ sk[p] # 0
  <2>1. CloseNear(p) /\ recvPc[p] = "check"
    BY <1>3 DEF RecvBreak
  <2>2. Connect(p) => FALSE
    BY <2>1 DEF Connect
  <2>3. \A c \in DOMAIN conn : c # sk[p] => conn'[c] = conn[c]
    BY <1>1, <2>1 DEF CloseNear, TypeInv, TypeOK
  <2> QED BY <1>1, <1>3, <2>1, <2>2, <2>3, ClosedFades
<1>4. CASE Connect(p) /\ sk[p] # 0 /\ conn[sk[p]].near = "new" /\ ~ UNCHANGED conn
  <2> DEFINE c == sk[p]
             v == [conn[c] EXCEPT !.near = "open", !.far = "backlog"]
  <2>1. c \in DOMAIN conn /\ conn[c] \in Conn
    BY <1>1, <1>4, ConnTyped
  <2>2. conn[c].far = "none" /\ conn[c].up = "none"
    BY <1>1, <1>4, <2>1 DEF ConnInv
  <2>3. v \in Conn /\ Faded(conn[c], v) /\ v.up = "none"
    BY <2>1, <2>2 DEF Conn, Faded, AtServer
  <2>4. Change(c, v)
    BY <1>4, <2>1 DEF Connect, Change
  <2> HIDE DEF c, v
  <2>5. Fades /\ conn'[c] = v /\ \A d \in DOMAIN conn : d # c => conn'[d] = conn[d]
    BY <1>1, <2>1, <2>3, <2>4, OneFades
  <2> QED BY <2>3, <2>5 DEF c
<1>5. CASE SendClientName(p) /\ sk[p] # 0 /\ conn[sk[p]].near = "open" /\ ~ UNCHANGED conn
  <2> DEFINE c == sk[p]
             v == [conn[c] EXCEPT !.up = "whole", !.name = name[p]]
             w == [conn[c] EXCEPT !.up = "part"]
  <2>1. c \in DOMAIN conn /\ conn[c] \in Conn /\ name[p] \in Names
    BY <1>1, <1>5, ConnTyped DEF TypeInv, TypeOK
  <2>2. conn[c].near = "open" /\ conn[c].up = "none"
    BY <1>5 DEF Inv, ClientInv, SendClientName
  <2>3. v \in Conn /\ Faded(conn[c], v) /\ w \in Conn /\ Faded(conn[c], w)
    BY <2>1, <2>2 DEF Conn, Faded, AtServer
  <2>4. Change(c, v) \/ Change(c, w)
    BY <1>5, <2>1 DEF SendClientName, Change
  <2>5. Connect(p) => FALSE
    BY <1>5 DEF Connect, SendClientName
  <2> HIDE DEF c, v, w
  <2>6. Fades /\ \A d \in DOMAIN conn : d # c => conn'[d] = conn[d]
    BY <1>1, <2>1, <2>3, <2>4, OneFades
  <2> QED BY <2>5, <2>6 DEF c
<1> QED BY <1>2, <1>3, <1>4, <1>5 DEF Dials, Connect, SendClientName, RecvBreak

LEMMA DialsInv ==
  ASSUME Inv, NEW p \in Clients, Dials(p)
  PROVE  Inv'
<1>1. TypeInv /\ ClientInv /\ Fades
  BY DialsFades DEF Inv
<1>2. UNCHANGED <<run, name, sk, rs, appPc, serverVars, sendVars, execVars, calls>>
  BY DEF Dials, Connect, SendClientName, RecvBreak
<1>3. faults' \in 0 .. MaxFaults
  BY <1>1, BoundsAssumption DEF TypeInv, TypeOK, Dials, Connect, SendClientName, RecvBreak, Fault
<1>4. recvPc' \in [Clients -> RecvLabels]
  BY <1>1 DEF TypeInv, TypeOK, RecvLabels, Dials, Connect, SendClientName, RecvBreak, RecvGoto
<1>5. \A q \in Clients : recvPc'[q] \in {"recv", "hello"} =>
        (q # p /\ recvPc'[q] = recvPc[q]) \/ (q = p /\ Connect(p) /\ recvPc'[p] = "hello")
  BY <1>1 DEF TypeInv, TypeOK, Dials, Connect, SendClientName, RecvBreak, RecvGoto
<1>6. \A q \in Clients : recvPc'[q] = "hello" /\ sk[q] # 0 => conn'[sk[q]].up = "none"
  <2> SUFFICES ASSUME NEW q \in Clients, recvPc'[q] = "hello", sk[q] # 0
               PROVE  conn'[sk[q]].up = "none"
    OBVIOUS
  <2>1. CASE q = p
    BY <1>5, <2>1, DialsFades
  <2>2. CASE q # p
    <3>1. recvPc[q] = "hello" /\ sk[q] \in DOMAIN conn
      BY <1>1, <1>5, <2>2 DEF TypeInv, TypeOK
    <3>2. sk[q] # sk[p]
      BY <1>1, <2>2 DEF ClientInv
    <3> QED BY <1>1, <3>1, <3>2, DialsFades DEF ClientInv
  <2> QED BY <2>1, <2>2
<1>7. Quiet
  BY <1>1, <1>2, <1>3, <1>4, <1>5, <1>6 DEF TypeInv, TypeOK, ClientTyped, Quiet, serverVars
<1> QED BY <1>7, QuietInv

\* The server rejects a connection, or stops.
Ends == AcceptEnds \/ StopServer \/ \E c \in DOMAIN conn : Reject(c)

LEMMA EndsInv ==
  ASSUME Inv, Ends
  PROVE  Inv'
<1>1. TypeInv /\ ClientInv
  BY DEF Inv
<1>2. /\ Fades
      /\ \A c \in DOMAIN conn : conn'[c].up = conn[c].up
  <2>1. CASE AcceptEnds
    BY <1>1, <2>1, NoneFades DEF AcceptEnds
  <2>2. CASE StopServer
    <3> DEFINE v(c) == [conn[c] EXCEPT !.far = IF @ = "backlog" THEN "closed" ELSE @]
    <3>1. conn' = [c \in DOMAIN conn |-> v(c)]
      BY <2>2 DEF StopServer
    <3>2. ASSUME NEW c \in DOMAIN conn
          PROVE  v(c) \in Conn /\ Faded(conn[c], v(c)) /\ v(c).up = conn[c].up
      <4>1. conn[c] \in Conn /\ (conn[c].near = "new" => conn[c].far = "none")
        BY <1>1, ConnTyped DEF Inv, ConnInv
      <4>2. CASE conn[c].far = "backlog"
        <5>1. v(c) = [conn[c] EXCEPT !.far = "closed"]
          BY <4>2
        <5> HIDE DEF v
        <5> QED BY <4>1, <4>2, <5>1 DEF Conn, Faded, AtServer
      <4>3. CASE conn[c].far # "backlog"
        <5>1. v(c) = conn[c]
          BY <4>1, <4>3 DEF Conn
        <5> HIDE DEF v
        <5> QED BY <4>1, <4>3, <5>1 DEF Faded
      <4> QED BY <4>2, <4>3
    <3> HIDE DEF v
    <3>3. conn \in Seq(Conn) /\ DOMAIN conn = 1 .. Len(conn) /\ Len(conn) \in Nat
      BY <1>1 DEF TypeInv, TypeOK
    <3>4. conn' \in Seq(Conn) /\ Len(conn') = Len(conn)
      BY <3>1, <3>2, <3>3
    <3> QED BY <3>1, <3>2, <3>4 DEF Fades
  <2>3. CASE \E c \in DOMAIN conn : Reject(c)
    <3>1. PICK c \in DOMAIN conn : Reject(c)
      BY <2>3
    <3> DEFINE v == [conn[c] EXCEPT !.far = "closed"]
    <3>2. conn[c] \in Conn /\ conn[c].far = "hello"
      BY <1>1, <3>1, ConnTyped DEF Reject
    <3>3. v \in Conn /\ Faded(conn[c], v) /\ v.up = conn[c].up
      BY <3>2, <1>1 DEF Conn, Faded, AtServer, Inv, ConnInv
    <3>4. Change(c, v)
      BY <3>1 DEF Reject, Change
    <3> HIDE DEF v
    <3> QED BY <1>1, <3>3, <3>4, OneFades
  <2> QED BY <2>1, <2>2, <2>3 DEF Ends
<1>3. UNCHANGED <<run, name, sk, rs, recvPc, appPc, list, sendVars, execVars, calls>>
  BY DEF Ends, AcceptEnds, StopServer, Reject, clientVars, serverVars
<1>4. faults' \in 0 .. MaxFaults /\ srvRun' \in BOOLEAN /\ acceptPc' \in {"accept", "done"}
  <2>1. faults \in 0 .. MaxFaults /\ srvRun \in BOOLEAN /\ acceptPc \in {"accept", "done"} /\ MaxFaults \in Nat
    BY <1>1, BoundsAssumption DEF TypeInv, TypeOK
  <2>2. faults' = faults \/ Fault
    BY DEF Ends, AcceptEnds, StopServer, Reject
  <2>3. (srvRun' = srvRun \/ srvRun' = FALSE) /\ (acceptPc' = acceptPc \/ acceptPc' = "done")
    BY DEF Ends, AcceptEnds, StopServer, Reject, serverVars
  <2>4. faults' \in 0 .. MaxFaults
    BY <2>1, <2>2 DEF Fault
  <2>5. srvRun' \in BOOLEAN /\ acceptPc' \in {"accept", "done"}
    BY <2>1, <2>3, Zenon
  <2> QED BY <2>4, <2>5
<1>5. \A q \in Clients : sk[q] # 0 => sk[q] \in DOMAIN conn
  BY <1>1 DEF TypeInv, TypeOK
<1>6. Quiet
  BY <1>1, <1>2, <1>3, <1>4, <1>5 DEF TypeInv, TypeOK, ClientInv, ClientTyped, Quiet
<1> QED BY <1>6, QuietInv

-----------------------------------------------------------------------------
(* Connections that are new, accepted and registered.                        *)

\* What the clients know stays true when only the server's side changes.
LEMMA ClientKept ==
  ASSUME TypeInv, ClientInv, UNCHANGED <<sk, rs>>, DOMAIN conn' = DOMAIN conn,
         \A q \in Clients : recvPc'[q] \in {"recv", "hello"} => recvPc'[q] = recvPc[q],
         \A d \in DOMAIN conn : conn'[d].owner = conn[d].owner /\ conn'[d].up = conn[d].up
  PROVE  ClientInv'
<1> DEFINE LastMade(d) == \A e \in DOMAIN conn' : conn'[e].owner = conn'[d].owner => e <= d
<1>1. \A d \in DOMAIN conn : Latest(d) => LastMade(d)
  BY DEF Latest
<1> HIDE DEF LastMade
<1>2. \A q \in Clients : (sk[q] # 0 => sk[q] \in DOMAIN conn) /\ (rs[q] # 0 => rs[q] \in DOMAIN conn)
  BY DEF TypeInv, TypeOK
<1>3. ASSUME NEW q \in Clients
      PROVE  /\ sk[q] # 0 => conn'[sk[q]].owner = q /\ LastMade(sk[q])
             /\ recvPc'[q] = "recv" /\ rs[q] # 0 => conn'[rs[q]].owner = q /\ LastMade(rs[q])
             /\ recvPc'[q] = "hello" /\ sk[q] # 0 => conn'[sk[q]].up = "none"
  BY <1>1, <1>2 DEF ClientInv
<1> QED BY <1>3 DEF ClientInv, Latest, LastMade

LEMMA CreateInv ==
  ASSUME Inv, NEW p \in Clients, CreateSocket(p), sk[p] = 0
  PROVE  Inv'
<1> DEFINE r == [owner |-> p, near |-> "new", far |-> "none", handle |-> 0,
                 up |-> "none", name |-> name[p], down |-> <<>>]
           N == Len(conn) + 1
<1>1. TypeInv /\ ClientInv /\ ConnInv /\ ListInv /\ TodoInv /\ WayInv /\ OnceInv
  BY DEF Inv
<1>2. conn \in Seq(Conn) /\ Len(conn) \in Nat /\ DOMAIN conn = 1 .. Len(conn) /\ MaxConns \in Nat
  BY <1>1, BoundsAssumption DEF TypeInv, TypeOK
<1>3. r \in Conn
  BY <1>1 DEF TypeInv, TypeOK, Conn
<1>4. conn' = Append(conn, r) /\ sk' = [sk EXCEPT ![p] = N] /\ recvPc' = [recvPc EXCEPT ![p] = "dial"]
  BY DEF CreateSocket, RecvGoto
<1>5. UNCHANGED <<run, name, rs, appPc, serverVars, sendVars, execVars, faults, calls>>
  BY DEF CreateSocket
<1>6. /\ r.owner = p /\ r.near = "new" /\ r.far = "none" /\ r.up = "none" /\ r.down = <<>>
  OBVIOUS
<1> HIDE DEF r
<1>7. /\ conn' \in Seq(Conn) /\ Len(conn') = N /\ DOMAIN conn' = 1 .. N /\ conn'[N] = r
      /\ \A c \in DOMAIN conn : c \in DOMAIN conn' /\ c # N /\ conn'[c] = conn[c]
      /\ \A c \in DOMAIN conn' : c \in DOMAIN conn \/ c = N
  BY <1>2, <1>3, <1>4, AppendProperties
<1>8. /\ N \in Nat /\ N # 0 /\ N \in DOMAIN conn' /\ N \notin DOMAIN conn /\ \A c \in DOMAIN conn : c < N
  BY <1>2, <1>7
<1> HIDE DEF N
<1>9. /\ list' = list /\ sendPc' = sendPc /\ todo' = todo /\ cmds' = cmds /\ started' = started /\ ran' = ran
      /\ rs' = rs
  BY <1>5 DEF serverVars, sendVars, execVars
<1>10. TypeInv'
  <2>1. recvPc' \in [Clients -> RecvLabels] /\ sk' \in [Clients -> Nat]
    BY <1>1, <1>4, <1>8 DEF TypeInv, TypeOK, RecvLabels
  <2>2. \A q \in Clients : {sk[q], rs[q]}' \subseteq 0 .. Len(conn')
    <3> TAKE q \in Clients
    <3>1. sk[q] \in 0 .. Len(conn) /\ rs[q] \in 0 .. Len(conn) /\ sk \in [Clients -> Nat]
      BY <1>1 DEF TypeInv, TypeOK
    <3>2. sk'[q] = N \/ sk'[q] = sk[q]
      BY <1>4, <3>1
    <3> QED BY <1>2, <1>7, <1>8, <1>9, <3>1, <3>2 DEF N
  <2> QED BY <1>1, <1>5, <1>7, <1>9, <2>1, <2>2 DEF TypeInv, TypeOK, serverVars
<1>11. \A c \in DOMAIN conn : ~ Latest(c)' \/ Latest(c)
  BY <1>7 DEF Latest
<1>12. ClientInv'
  <2> DEFINE LastMade(c) == \A d \in DOMAIN conn' : conn'[d].owner = conn'[c].owner => d <= c
  <2>1. LastMade(N)
    BY <1>2, <1>7, <1>8 DEF N
  <2>2. \A c \in DOMAIN conn : conn[c].owner # p /\ Latest(c) => LastMade(c)
    BY <1>6, <1>7 DEF Latest
  <2> HIDE DEF LastMade
  <2>3. ASSUME NEW q \in Clients
        PROVE  /\ sk'[q] # 0 => conn'[sk'[q]].owner = q /\ LastMade(sk'[q])
               /\ recvPc'[q] = "recv" /\ rs'[q] # 0 => conn'[rs'[q]].owner = q /\ LastMade(rs'[q])
               /\ recvPc'[q] = "hello" /\ sk'[q] # 0 => conn'[sk'[q]].up = "none"
    <3>1. CASE q = p
      <4>1. sk'[q] = N /\ recvPc'[q] = "dial"
        BY <1>1, <1>4, <3>1 DEF TypeInv, TypeOK
      <4> QED BY <1>6, <1>7, <2>1, <3>1, <4>1
    <3>2. CASE q # p
      <4>1. sk'[q] = sk[q] /\ recvPc'[q] = recvPc[q]
        BY <1>1, <1>4, <3>2 DEF TypeInv, TypeOK
      <4>2. (sk[q] # 0 => sk[q] \in DOMAIN conn) /\ (rs[q] # 0 => rs[q] \in DOMAIN conn)
        BY <1>1 DEF TypeInv, TypeOK
      <4> QED BY <1>1, <1>7, <1>9, <2>2, <3>2, <4>1, <4>2 DEF ClientInv
    <3> QED BY <3>1, <3>2
  <2> QED BY <2>3 DEF ClientInv, Latest, LastMade
<1>13. ConnInv'
  <2>1. ASSUME NEW c \in DOMAIN conn'
        PROVE  /\ conn'[c].near = "new" => conn'[c].far = "none" /\ conn'[c].up = "none"
               /\ conn'[c].far = "listed" \/ conn'[c].down # <<>> => conn'[c].up = "whole"
               /\ conn'[c].far \in AtServer => conn'[c].handle \in Handles
    BY <1>1, <1>6, <1>7 DEF ConnInv, AtServer
  <2>2. ASSUME NEW c \in DOMAIN conn', NEW d \in DOMAIN conn', conn'[c].far \in AtServer,
               conn'[d].far \in AtServer, conn'[c].handle = conn'[d].handle
        PROVE  c = d
    <3>1. c \in DOMAIN conn /\ d \in DOMAIN conn
      BY <1>6, <1>7, <2>2 DEF AtServer
    <3> QED BY <1>1, <1>7, <2>2, <3>1 DEF ConnInv
  <2> QED BY <2>1, <2>2 DEF ConnInv
<1>14. ListInv'
  <2>1. Closing' = Closing
    BY <1>9 DEF Closing
  <2>2. Live' = Live
    BY <1>6, <1>7, <2>1 DEF Live
  <2>3. {EntryOf(c)' : c \in Live} = {EntryOf(c) : c \in Live}
    BY <1>7 DEF Live, EntryOf
  <2>4. Range(list)' = Range(list)
    BY <1>9
  <2> QED BY <1>1, <1>9, <2>2, <2>3, <2>4 DEF ListInv, Distinct
<1>15. TodoInv'
  BY <1>1, <1>7, <1>9 DEF TodoInv
<1>16. \A c \in DOMAIN conn' : c = N => Range(conn'[c].down) = {} /\ Once(conn'[c].down) /\ ~ ToSend(c)'
  BY <1>6, <1>7 DEF Range, Once, ToSend, AtServer
<1>17. WayInv'
  <2>1. \A c \in DOMAIN conn : ToSend(c)' => ToSend(c)
    BY <1>7, <1>9 DEF ToSend
  <2> QED BY <1>1, <1>7, <1>9, <1>16, <2>1 DEF WayInv
<1>18. OnceInv'
  <2>1. \A c \in DOMAIN conn : ToSend(c)' => ToSend(c)
    BY <1>7, <1>9 DEF ToSend
  <2> QED BY <1>1, <1>7, <1>9, <1>11, <1>16, <2>1 DEF OnceInv, AtMostOnce, Got
<1> QED BY <1>10, <1>12, <1>13, <1>14, <1>15, <1>17, <1>18 DEF Inv

LEMMA AcceptInv ==
  ASSUME Inv, Accept
  PROVE  Inv'
<1>1. TypeInv /\ ClientInv /\ ConnInv /\ ListInv /\ TodoInv /\ WayInv /\ OnceInv
  BY DEF Inv
<1>2. PICK c \in DOMAIN conn, h \in Handles \ Held :
        /\ conn[c].far = "backlog"
        /\ conn' = [conn EXCEPT ![c].far = "hello", ![c].handle = h]
  BY DEF Accept
<1> DEFINE v == [conn[c] EXCEPT !.far = "hello", !.handle = h]
<1>3. conn[c] \in Conn /\ conn[c].near # "new" /\ conn[c].far = "backlog" /\ h \in Handles
  BY <1>1, <1>2, ConnTyped DEF ConnInv
<1>4. /\ v \in Conn /\ v.owner = conn[c].owner /\ v.near = conn[c].near /\ v.far = "hello" /\ v.handle = h
      /\ v.up = conn[c].up /\ v.name = conn[c].name /\ v.down = conn[c].down
  BY <1>3 DEF Conn
<1>5. Change(c, v)
  BY <1>2 DEF Change
<1> HIDE DEF v
<1>6. /\ conn' \in Seq(Conn) /\ Len(conn') = Len(conn) /\ DOMAIN conn' = DOMAIN conn
      /\ conn'[c] = v /\ \A d \in DOMAIN conn : d # c => conn'[d] = conn[d]
  BY <1>1, <1>4, <1>5, Changed
<1>7. UNCHANGED <<run, name, sk, recvPc, rs, appPc, srvRun, acceptPc, list, sendPc, todo, cmds, started, ran, faults, calls>>
  BY DEF Accept, clientVars, serverVars, sendVars, execVars
<1>8. \A d \in DOMAIN conn :
        /\ conn'[d].owner = conn[d].owner /\ conn'[d].near = conn[d].near /\ conn'[d].up = conn[d].up
        /\ conn'[d].name = conn[d].name /\ conn'[d].down = conn[d].down
        /\ conn'[d].far = "listed" <=> conn[d].far = "listed"
  BY <1>3, <1>4, <1>6
<1>9. \A d \in DOMAIN conn : conn[d].far \in AtServer => d # c /\ conn[d].handle # h
  BY <1>2, <1>3 DEF Held, AtServer
<1>10. \A d \in DOMAIN conn : (Latest(d)' <=> Latest(d)) /\ (ToSend(d)' => ToSend(d))
  <2>1. h \notin Range(todo)
    BY <1>1, <1>9 DEF TodoInv, AtServer
  <2> QED BY <1>4, <1>6, <1>7, <1>8, <2>1 DEF Latest, ToSend
<1>11. TypeInv'
  BY <1>1, <1>6, <1>7 DEF TypeInv, TypeOK
<1>12. ClientInv'
  BY <1>1, <1>6, <1>7, <1>8, ClientKept
<1>13. ConnInv'
  <2>1. ASSUME NEW d \in DOMAIN conn
        PROVE  /\ conn'[d].near = "new" => conn'[d].far = "none" /\ conn'[d].up = "none"
               /\ conn'[d].far = "listed" \/ conn'[d].down # <<>> => conn'[d].up = "whole"
               /\ conn'[d].far \in AtServer => conn'[d].handle \in Handles
    <3>1. CASE d = c
      BY <1>1, <1>3, <1>4, <1>6, <3>1 DEF ConnInv
    <3>2. CASE d # c
      BY <1>1, <1>6, <3>2 DEF ConnInv
    <3> QED BY <3>1, <3>2
  <2>2. ASSUME NEW d \in DOMAIN conn, NEW e \in DOMAIN conn, conn'[d].far \in AtServer,
               conn'[e].far \in AtServer, conn'[d].handle = conn'[e].handle
        PROVE  d = e
    BY <1>1, <1>4, <1>6, <1>9, <2>2 DEF ConnInv
  <2> QED BY <1>6, <2>1, <2>2 DEF ConnInv
<1>14. ListInv'
  <2>1. \A d \in DOMAIN conn : conn[d].far = "listed" => conn'[d] = conn[d]
    BY <1>3, <1>6
  <2>2. Live' = Live
    BY <1>6, <1>7, <1>8, <2>1 DEF Live, Closing
  <2>3. {EntryOf(d)' : d \in Live} = {EntryOf(d) : d \in Live}
    BY <2>1 DEF Live, EntryOf
  <2> QED BY <1>1, <1>7, <2>2, <2>3 DEF ListInv, Distinct
<1>15. TodoInv'
  BY <1>1, <1>3, <1>6, <1>7 DEF TodoInv
<1>16. WayInv'
  BY <1>1, <1>6, <1>7, <1>8, <1>10 DEF WayInv
<1>17. OnceInv'
  BY <1>1, <1>6, <1>7, <1>8, <1>10 DEF OnceInv, AtMostOnce, Got
<1> QED BY <1>11, <1>12, <1>13, <1>14, <1>15, <1>16, <1>17 DEF Inv

LEMMA RegisterInv ==
  ASSUME Inv, NEW c \in DOMAIN conn, Register(c)
  PROVE  Inv'
<1>1. TypeInv /\ ClientInv /\ ConnInv /\ ListInv /\ TodoInv /\ WayInv /\ OnceInv
  BY DEF Inv
<1> DEFINE v == [conn[c] EXCEPT !.far = "listed"]
<1>2. conn[c] \in Conn /\ conn[c].far = "hello" /\ conn[c].up = "whole" /\ conn[c].handle \in Handles
  BY <1>1, ConnTyped DEF Register, ConnInv, AtServer
<1>3. /\ v \in Conn /\ v.owner = conn[c].owner /\ v.near = conn[c].near /\ v.far = "listed"
      /\ v.handle = conn[c].handle /\ v.up = conn[c].up /\ v.name = conn[c].name /\ v.down = conn[c].down
  BY <1>2 DEF Conn
<1>4. Change(c, v)
  BY DEF Register, Change
<1> HIDE DEF v
<1>5. /\ conn' \in Seq(Conn) /\ Len(conn') = Len(conn) /\ DOMAIN conn' = DOMAIN conn
      /\ conn'[c] = v /\ \A d \in DOMAIN conn : d # c => conn'[d] = conn[d]
  BY <1>1, <1>3, <1>4, Changed
<1>6. /\ UNCHANGED <<run, name, sk, recvPc, rs, appPc, srvRun, acceptPc, sendPc, todo, cmds, started, ran, faults, calls>>
      /\ list' = Append(list, EntryOf(c))
  BY DEF Register, clientVars, sendVars, execVars, EntryOf
<1>7. \A d \in DOMAIN conn :
        /\ conn'[d].owner = conn[d].owner /\ conn'[d].near = conn[d].near /\ conn'[d].up = conn[d].up
        /\ conn'[d].name = conn[d].name /\ conn'[d].down = conn[d].down /\ conn'[d].handle = conn[d].handle
        /\ conn'[d].far \in AtServer <=> conn[d].far \in AtServer
        /\ conn'[d].far = "listed" <=> conn[d].far = "listed" \/ d = c
  BY <1>2, <1>3, <1>5 DEF AtServer
<1>8. \A d \in DOMAIN conn : (Latest(d)' <=> Latest(d)) /\ (ToSend(d)' <=> ToSend(d))
  BY <1>5, <1>6, <1>7 DEF Latest, ToSend
<1>9. EntryOf(c) \in Entry
  BY <1>2 DEF EntryOf, Entry, Conn
<1>10. \A d \in DOMAIN conn : conn[d].far = "listed" => d # c /\ conn[d].handle # conn[c].handle
  BY <1>1, <1>2 DEF ConnInv, AtServer
<1>11. list \in Seq(Entry) /\ Len(list) \in Nat /\ DOMAIN list = 1 .. Len(list)
  BY <1>1 DEF TypeInv, TypeOK
<1>12. /\ list' \in Seq(Entry) /\ DOMAIN list' = 1 .. Len(list) + 1
       /\ list'[Len(list) + 1] = EntryOf(c) /\ \A j \in DOMAIN list : list'[j] = list[j]
  BY <1>6, <1>9, <1>11, AppendProperties
<1>13. TypeInv'
  BY <1>1, <1>5, <1>6, <1>12 DEF TypeInv, TypeOK
<1>14. ClientInv'
  BY <1>1, <1>5, <1>6, <1>7, ClientKept
<1>15. ConnInv'
  <2>1. ASSUME NEW d \in DOMAIN conn
        PROVE  /\ conn'[d].near = "new" => conn'[d].far = "none" /\ conn'[d].up = "none"
               /\ conn'[d].far = "listed" \/ conn'[d].down # <<>> => conn'[d].up = "whole"
               /\ conn'[d].far \in AtServer => conn'[d].handle \in Handles
    <3>1. CASE d = c
      BY <1>1, <1>2, <1>7, <3>1 DEF ConnInv
    <3>2. CASE d # c
      BY <1>1, <1>5, <3>2 DEF ConnInv
    <3> QED BY <3>1, <3>2
  <2>2. ASSUME NEW d \in DOMAIN conn, NEW e \in DOMAIN conn, conn'[d].far \in AtServer,
               conn'[e].far \in AtServer, conn'[d].handle = conn'[e].handle
        PROVE  d = e
    BY <1>1, <1>7, <2>2 DEF ConnInv
  <2> QED BY <1>5, <2>1, <2>2 DEF ConnInv
<1>16. ListInv'
  <2>1. conn[c].handle \notin Closing
    <3>1. CASE sendPc # "close"
      BY <3>1 DEF Closing
    <3>2. CASE sendPc = "close"
      <4>1. todo \in Seq(Handles) /\ todo # <<>>
        BY <1>1, <3>2 DEF TypeInv, TypeOK
      <4>2. Head(todo) \in Range(todo)
        BY <4>1, HeadAndTail
      <4> QED BY <1>1, <1>10, <3>2, <4>2 DEF TodoInv, Closing
    <3> QED BY <3>1, <3>2
  <2>2. Live' = Live \cup {c}
    BY <1>5, <1>6, <1>7, <2>1 DEF Live, Closing
  <2>3. {EntryOf(d)' : d \in Live'} = {EntryOf(d) : d \in Live} \cup {EntryOf(c)}
    BY <1>7, <2>2 DEF Live, EntryOf
  <2>4. Range(list') = Range(list) \cup {EntryOf(c)}
    BY <1>6, <1>9, <1>11, RangeOfAppend
  <2>5. \A j \in DOMAIN list : list[j].handle # conn[c].handle
    <3> TAKE j \in DOMAIN list
    <3>1. PICK d \in Live : list[j] = EntryOf(d)
      BY <1>1 DEF ListInv, Range
    <3> QED BY <1>10, <3>1 DEF Live, EntryOf
  <2>6. Distinct(list')
    <3>1. \A j \in DOMAIN list' : j \in DOMAIN list \/ j = Len(list) + 1
      BY <1>11, <1>12
    <3> QED BY <1>1, <1>11, <1>12, <2>5, <3>1 DEF ListInv, Distinct, EntryOf
  <2> QED BY <1>1, <2>3, <2>4, <2>6 DEF ListInv
<1>17. TodoInv'
  BY <1>1, <1>5, <1>6, <1>7 DEF TodoInv
<1>18. WayInv'
  BY <1>1, <1>5, <1>6, <1>7, <1>8 DEF WayInv
<1>19. OnceInv'
  BY <1>1, <1>5, <1>6, <1>7, <1>8 DEF OnceInv, AtMostOnce, Got
<1> QED BY <1>13, <1>14, <1>15, <1>16, <1>17, <1>18, <1>19 DEF Inv

-----------------------------------------------------------------------------
(* Commands: chosen, sent, received and run.                                 *)

LEMMA ExecuteInv ==
  ASSUME Inv, NEW p \in Clients, Execute(p)
  PROVE  Inv'
<1>1. TypeInv /\ ClientInv /\ ConnInv /\ ListInv /\ TodoInv /\ WayInv /\ OnceInv
  BY DEF Inv
<1>2. PICK k \in started[p] : /\ started' = [started EXCEPT ![p] = @ \ {k}]
                              /\ ran' = [ran EXCEPT ![p] = Append(@, k)]
  BY DEF Execute
<1>3. UNCHANGED <<run, name, sk, recvPc, rs, appPc, conn, srvRun, acceptPc, list, sendPc, todo, cmds, faults, calls>>
  BY DEF Execute, clientVars, serverVars, sendVars
<1>4. started \in [Clients -> SUBSET Nat] /\ ran \in [Clients -> Seq(Nat)] /\ k \in Nat
  BY <1>1, <1>2 DEF TypeInv
<1>5. /\ started' \in [Clients -> SUBSET Nat] /\ ran' \in [Clients -> Seq(Nat)]
      /\ started'[p] = started[p] \ {k} /\ ran'[p] = Append(ran[p], k)
      /\ \A q \in Clients : q # p => started'[q] = started[q] /\ ran'[q] = ran[q]
  BY <1>2, <1>4
<1>6. Range(ran'[p]) = Range(ran[p]) \cup {k}
  BY <1>4, <1>5, RangeOfAppend
<1>7. \A q \in Clients : started'[q] \cup Range(ran'[q]) = Got(q)
  BY <1>5, <1>6 DEF Got
<1>8. TypeInv'
  BY <1>1, <1>3, <1>5, <1>7 DEF TypeInv, TypeOK, Got
<1>9. ClientInv' /\ ConnInv' /\ ListInv' /\ TodoInv' /\ WayInv'
  BY <1>1, <1>3 DEF ClientInv, Latest, ConnInv, ListInv, Distinct, Live, Closing, EntryOf, TodoInv, WayInv, ToSend
<1>10. AtMostOnce'
  <2>1. Once(ran'[p])
    <3>1. Once(ran[p]) /\ k \notin Range(ran[p])
      BY <1>1, <1>2 DEF OnceInv, AtMostOnce, Once
    <3> QED BY <1>4, <1>5, <3>1, OnceMore
  <2>2. started'[p] \cap Range(ran'[p]) = {}
    BY <1>1, <1>5, <1>6 DEF OnceInv, AtMostOnce
  <2> QED BY <1>1, <1>5, <2>1, <2>2 DEF OnceInv, AtMostOnce, Once
<1>11. OnceInv'
  <2>1. \A d \in DOMAIN conn : conn[d].owner \in Clients
    BY <1>1, ConnTyped
  <2>2. \A d \in DOMAIN conn : started'[conn[d].owner] \cup Range(ran'[conn[d].owner]) = Got(conn[d].owner)
    BY <1>7, <2>1
  <2> QED BY <1>1, <1>3, <1>10, <2>2 DEF OnceInv, Latest, ToSend, Got
<1> QED BY <1>8, <1>9, <1>11 DEF Inv

LEMMA RecvInv ==
  ASSUME Inv, NEW p \in Clients, Recv(p)
  PROVE  Inv'
<1>1. TypeInv /\ ClientInv /\ ConnInv /\ ListInv /\ TodoInv /\ WayInv /\ OnceInv
  BY DEF Inv
<1> DEFINE c == rs[p]
           k == Head(conn[c].down)
           v == [conn[c] EXCEPT !.down = Tail(@)]
<1>2. /\ c \in DOMAIN conn /\ recvPc[p] = "recv" /\ conn[c].down # <<>>
      /\ conn[c].owner = p /\ Latest(c)
  BY <1>1 DEF TypeInv, TypeOK, ClientInv, Recv
<1>3. conn' = [conn EXCEPT ![c].down = Tail(@)]
  BY DEF Recv
<1>4. started' = started \/ started' = [started EXCEPT ![p] = @ \cup {k}]
  BY DEF Recv
<1>5. conn[c] \in Conn /\ conn[c].down \in Seq(1 .. MaxCmds)
  BY <1>1, <1>2, ConnTyped
<1>6. /\ Tail(conn[c].down) \in Seq(1 .. MaxCmds) /\ k \in 1 .. MaxCmds
      /\ Range(conn[c].down) = {k} \cup Range(Tail(conn[c].down))
      /\ Once(Tail(conn[c].down)) /\ k \notin Range(Tail(conn[c].down))
  <2> DEFINE s == conn[c].down
  <2>1. s \in Seq(1 .. MaxCmds) /\ s # <<>> /\ Once(s)
    BY <1>1, <1>2, <1>5 DEF WayInv
  <2> HIDE DEF s
  <2>2. /\ Head(s) \in 1 .. MaxCmds /\ Tail(s) \in Seq(1 .. MaxCmds)
        /\ Range(s) = {Head(s)} \cup Range(Tail(s))
        /\ Once(Tail(s)) /\ Head(s) \notin Range(Tail(s))
    BY <2>1, HeadAndTail
  <2> QED BY <2>2 DEF s
<1>7. /\ v \in Conn /\ v.owner = conn[c].owner /\ v.near = conn[c].near /\ v.far = conn[c].far
      /\ v.handle = conn[c].handle /\ v.up = conn[c].up /\ v.name = conn[c].name /\ v.down = Tail(conn[c].down)
  BY <1>5, <1>6 DEF Conn
<1>8. Change(c, v)
  BY <1>3 DEF Change
<1> HIDE DEF c, k, v
<1>9. /\ conn' \in Seq(Conn) /\ Len(conn') = Len(conn) /\ DOMAIN conn' = DOMAIN conn
      /\ conn'[c] = v /\ \A d \in DOMAIN conn : d # c => conn'[d] = conn[d]
  BY <1>1, <1>2, <1>7, <1>8, Changed
<1>10. \A d \in DOMAIN conn :
         /\ conn'[d].owner = conn[d].owner /\ conn'[d].near = conn[d].near /\ conn'[d].up = conn[d].up
         /\ conn'[d].name = conn[d].name /\ conn'[d].handle = conn[d].handle /\ conn'[d].far = conn[d].far
         /\ Once(conn'[d].down)
         /\ Range(conn'[d].down) = IF d = c THEN Range(conn[d].down) \ {k} ELSE Range(conn[d].down)
         /\ conn[d].down = <<>> => conn'[d].down = <<>>
  <2> TAKE d \in DOMAIN conn
  <2>1. CASE d = c
    BY <1>2, <1>6, <1>7, <1>9, <2>1
  <2>2. CASE d # c
    BY <1>1, <1>9, <2>2 DEF WayInv
  <2> QED BY <2>1, <2>2
<1>11. UNCHANGED <<run, name, sk, rs, appPc, srvRun, acceptPc, list, sendPc, todo, cmds, ran, calls>>
  BY DEF Recv, serverVars, sendVars
<1>12. \A d \in DOMAIN conn : (Latest(d)' <=> Latest(d)) /\ (ToSend(d)' <=> ToSend(d))
  BY <1>9, <1>10, <1>11 DEF Latest, ToSend
<1>13. /\ started \in [Clients -> SUBSET Nat] /\ ran \in [Clients -> Seq(Nat)]
       /\ k \in Range(conn[c].down) /\ k \in DOMAIN cmds /\ k \in Nat
  BY <1>1, <1>2, <1>6 DEF TypeInv, WayInv
<1>14. /\ started' \in [Clients -> SUBSET Nat]
       /\ \A q \in Clients : q # p => started'[q] = started[q]
       /\ started'[p] = started[p] \/ started'[p] = started[p] \cup {k}
  BY <1>4, <1>13
<1>15. TypeInv'
  <2>1. faults' \in 0 .. MaxFaults
    BY <1>1, BoundsAssumption, SMTT(40) DEF TypeInv, TypeOK, Recv, Fault
  <2>2. recvPc' \in [Clients -> RecvLabels]
    BY <1>1 DEF TypeInv, TypeOK, RecvLabels, Recv, RecvGoto
  <2>3. \A q \in Clients : started'[q] \cup Range(ran'[q]) \subseteq DOMAIN cmds
    BY <1>1, <1>11, <1>13, <1>14 DEF TypeInv, TypeOK
  <2>4. \A q \in Clients : {sk[q], rs[q]}' \subseteq 0 .. Len(conn')
    BY <1>1, <1>9, <1>11 DEF TypeInv, TypeOK
  <2> QED BY <1>1, <1>9, <1>11, <1>14, <2>1, <2>2, <2>3, <2>4 DEF TypeInv, TypeOK
<1>16. ClientInv'
  <2>1. \A q \in Clients : recvPc'[q] \in {"recv", "hello"} => recvPc'[q] = recvPc[q]
    BY <1>1 DEF TypeInv, TypeOK, Recv, RecvGoto
  <2> QED BY <1>1, <1>9, <1>10, <1>11, <2>1, ClientKept
<1>17. ConnInv'
  BY <1>1, <1>9, <1>10, ZenonT(40) DEF ConnInv
<1>18. ListInv'
  <2>1. Live' = Live
    BY <1>9, <1>10, <1>11 DEF Live, Closing
  <2>2. {EntryOf(d)' : d \in Live} = {EntryOf(d) : d \in Live}
    BY <1>10 DEF Live, EntryOf
  <2> QED BY <1>1, <1>11, <2>1, <2>2 DEF ListInv, Distinct
<1>19. TodoInv'
  <2>1. \A d \in DOMAIN conn : conn'[d].far = conn[d].far /\ conn'[d].handle = conn[d].handle
    BY <1>10
  <2> QED BY <1>1, <1>9, <1>11, <2>1 DEF TodoInv
<1>20. WayInv'
  <2>1. \A d \in DOMAIN conn : Range(conn'[d].down) \subseteq Range(conn[d].down)
    BY <1>10
  <2> QED BY <1>1, <1>9, <1>10, <1>11, <1>12, <2>1 DEF WayInv
<1>21. OnceInv'
  <2>1. k \notin Got(p)
    BY <1>1, <1>2, <1>13 DEF OnceInv
  <2>2. AtMostOnce'
    BY <1>1, <1>11, <1>14, <2>1 DEF OnceInv, AtMostOnce, Got
  <2> DEFINE GotNext(q) == started'[q] \cup Range(ran'[q])
  <2>3. /\ GotNext(p) \subseteq Got(p) \cup {k}
        /\ \A q \in Clients : q # p => GotNext(q) = Got(q)
    BY <1>11, <1>14 DEF Got
  <2> HIDE DEF GotNext
  <2>4. ASSUME NEW d \in DOMAIN conn, Latest(d)
        PROVE  /\ \A j \in Range(conn'[d].down) : j \notin GotNext(conn[d].owner)
               /\ ToSend(d) => Len(cmds) \notin GotNext(conn[d].owner)
    <3>1. conn[d].owner \in Clients
      BY <1>1, ConnTyped
    <3>2. CASE d = c
      <4>1. Len(cmds) \in Range(conn[d].down) => ~ ToSend(d)
        BY <1>1 DEF WayInv
      <4>2. \A j \in Range(conn[d].down) : j \notin Got(p)
        BY <1>1, <1>2, <2>4, <3>2 DEF OnceInv
      <4>3. ToSend(d) => Len(cmds) \notin Got(p)
        BY <1>1, <1>2, <2>4, <3>2 DEF OnceInv
      <4>4. GotNext(p) \subseteq Got(p) \cup {k} /\ Range(conn'[d].down) = Range(conn[d].down) \ {k}
        BY <1>10, <2>3, <3>2
      <4>5. conn[d].owner = p /\ k \in Range(conn[d].down)
        BY <1>2, <1>13, <3>2
      <4> QED BY <4>1, <4>2, <4>3, <4>4, <4>5
    <3>3. CASE d # c
      <4>1. conn[d].owner # p
        <5>1. d \in 1 .. Len(conn) /\ c \in 1 .. Len(conn) /\ Len(conn) \in Nat
          BY <1>1, <1>2, ConnTyped, SMTT(40) DEF TypeInv, TypeOK
        <5> QED BY <1>2, <2>4, <3>3, <5>1 DEF Latest
      <4>2. GotNext(conn[d].owner) = Got(conn[d].owner) /\ conn'[d] = conn[d]
        BY <1>9, <2>3, <3>1, <3>3, <4>1
      <4> QED BY <1>1, <2>4, <4>2 DEF OnceInv
    <3> QED BY <3>2, <3>3
  <2> QED BY <1>9, <1>10, <1>11, <1>12, <2>2, <2>4 DEF OnceInv, Got, GotNext
<1> QED BY <1>15, <1>16, <1>17, <1>18, <1>19, <1>20, <1>21 DEF Inv

LEMMA SendContentInv ==
  ASSUME Inv, SendContent
  PROVE  Inv'
<1>1. TypeInv /\ ClientInv /\ ConnInv /\ ListInv /\ TodoInv /\ WayInv /\ OnceInv
  BY DEF Inv
<1>2. PICK n \in Names \cup {Everyone} :
        LET picked == Kept(list, {j \in DOMAIN list : n \in {Everyone, list[j].name}})
        IN  /\ cmds' = Append(cmds, n)
            /\ todo' = [j \in DOMAIN picked |-> picked[j].handle]
            /\ sendPc' = IF picked = <<>> THEN "idle" ELSE "send"
  <2>1. PICK m \in Names \cup {"ALL", Everyone} :
          LET to == IF m = "ALL" THEN Everyone ELSE m
              picked == Kept(list, {j \in DOMAIN list : to \in {Everyone, list[j].name}})
          IN  /\ cmds' = Append(cmds, to)
              /\ todo' = [j \in DOMAIN picked |-> picked[j].handle]
              /\ sendPc' = IF picked = <<>> THEN "idle" ELSE "send"
    BY DEF SendContent
  <2> DEFINE to == IF m = "ALL" THEN Everyone ELSE m
             picked == Kept(list, {j \in DOMAIN list : to \in {Everyone, list[j].name}})
  <2>2. /\ cmds' = Append(cmds, to)
        /\ todo' = [j \in DOMAIN picked |-> picked[j].handle]
        /\ sendPc' = IF picked = <<>> THEN "idle" ELSE "send"
    BY <2>1
  <2>3. to \in Names \cup {Everyone}
    OBVIOUS
  <2> HIDE DEF to
  <2> WITNESS to \in Names \cup {Everyone}
  <2> QED BY <2>2
<1> DEFINE I == {j \in DOMAIN list : n \in {Everyone, list[j].name}}
           picked == Kept(list, I)
           N == Len(cmds) + 1
<1>3. /\ cmds' = Append(cmds, n) /\ todo' = [j \in DOMAIN picked |-> picked[j].handle]
      /\ sendPc' = IF picked = <<>> THEN "idle" ELSE "send"
  BY <1>2
<1>4. sendPc = "idle" /\ todo = <<>> /\ Len(cmds) < MaxCmds
  BY <1>1 DEF SendContent, TypeInv, TypeOK
<1>5. UNCHANGED <<run, name, sk, recvPc, rs, appPc, conn, srvRun, acceptPc, list, started, ran, faults, calls>>
  BY DEF SendContent, clientVars, serverVars, execVars
<1>6. list \in Seq(Entry) /\ cmds \in Seq(Names \cup {Everyone}) /\ MaxCmds \in Nat
  BY <1>1, BoundsAssumption DEF TypeInv, TypeOK
<1>7. /\ picked \in Seq(Entry) /\ Distinct(picked)
      /\ \A j \in DOMAIN picked : \E i \in I : picked[j] = list[i]
  <2>1. I \in SUBSET DOMAIN list
    OBVIOUS
  <2>2. Distinct(list)
    BY <1>1 DEF ListInv
  <2> HIDE DEF I
  <2>3. picked \in Seq(Entry) /\ Range(picked) = {list[i] : i \in I} /\ Distinct(picked)
    BY <1>6, <2>1, <2>2, KeptRange, KeptDistinct
  <2> HIDE DEF picked
  <2>4. ASSUME NEW j \in DOMAIN picked
        PROVE  picked[j] \in {list[i] : i \in I}
    BY <2>3 DEF Range
  <2> QED BY <2>3, <2>4
<1>8. \A i \in I : n \in {Everyone, list[i].name} /\ list[i] \in Range(list)
  BY DEF Range
<1> HIDE DEF I, picked
<1>9. DOMAIN picked = 1 .. Len(picked) /\ Len(picked) \in Nat
  BY <1>7
<1>10. /\ todo' \in Seq(Handles) /\ DOMAIN todo' = DOMAIN picked
       /\ \A j \in DOMAIN picked : todo'[j] = picked[j].handle
  <2>1. \A j \in DOMAIN picked : picked[j] \in Entry
    BY <1>7
  <2>2. \A j \in DOMAIN picked : picked[j].handle \in Handles
    BY <2>1 DEF Entry
  <2>3. DOMAIN todo' = DOMAIN picked /\ \A j \in DOMAIN picked : todo'[j] = picked[j].handle
    BY <1>3
  <2>4. todo' = [j \in 1 .. Len(picked) |-> todo'[j]] /\ \A j \in 1 .. Len(picked) : todo'[j] \in Handles
    BY <1>3, <1>9, <2>2, <2>3
  <2>5. todo' \in Seq(Handles)
    BY <1>9, <2>4, IsASeq
  <2> QED BY <2>3, <2>5
<1>11. (sendPc' = "idle") = (todo' = <<>>) /\ sendPc' \in {"idle", "send"}
  <2>1. (todo' = <<>>) <=> (picked = <<>>)
    BY <1>7, <1>9, <1>10
  <2>2. (sendPc' = "idle") <=> (picked = <<>>)
    BY <1>3
  <2>3. sendPc' \in {"idle", "send"}
    BY <1>3
  <2> QED BY <2>1, <2>2, <2>3
<1>12. Len(cmds) \in Nat /\ DOMAIN cmds = 1 .. Len(cmds)
  BY <1>6
<1>13. /\ cmds' \in Seq(Names \cup {Everyone}) /\ Len(cmds') = N /\ DOMAIN cmds' = 1 .. N /\ cmds'[N] = n
       /\ \A k \in DOMAIN cmds : cmds'[k] = cmds[k]
  BY <1>2, <1>3, <1>6, AppendProperties
<1>14. N \in Nat /\ N <= MaxCmds /\ N \notin DOMAIN cmds /\ DOMAIN cmds \subseteq DOMAIN cmds' /\ N # 0
  BY <1>4, <1>6, <1>12, <1>13
<1> HIDE DEF N
\* Every handle is that of a registered connection whose client has that name.
<1>15. ASSUME NEW h \in Range(todo')
       PROVE  \E d \in DOMAIN conn : /\ conn[d].far = "listed" /\ conn[d].handle = h
                                     /\ n \in {Everyone, conn[d].name}
  <2>1. PICK j \in DOMAIN picked : h = picked[j].handle
    BY <1>10 DEF Range
  <2>2. PICK i \in I : picked[j] = list[i]
    BY <1>7
  <2>3. PICK d \in Live : list[i] = EntryOf(d)
    BY <1>1, <1>8 DEF ListInv
  <2> QED BY <1>8, <2>1, <2>2, <2>3 DEF Live, EntryOf
<1>16. ASSUME NEW c \in DOMAIN conn, ToSend(c)'
       PROVE  n \in {Everyone, conn[c].name}
  <2>1. conn[c].far \in AtServer /\ conn[c].handle \in Range(todo')
    BY <1>5, <1>16 DEF ToSend
  <2>2. PICK d \in DOMAIN conn : /\ conn[d].far = "listed" /\ conn[d].handle = conn[c].handle
                                 /\ n \in {Everyone, conn[d].name}
    BY <1>15, <2>1
  <2>3. c = d
    BY <1>1, <2>1, <2>2 DEF ConnInv, AtServer
  <2> QED BY <2>2, <2>3
<1>17. TypeInv'
  <2>1. \A q \in Clients : started[q] \cup Range(ran[q]) \subseteq DOMAIN cmds'
    BY <1>1, <1>14 DEF TypeInv, TypeOK
  <2>2. cmds' # <<>>
    BY <1>13, <1>14
  <2> QED BY <1>1, <1>5, <1>10, <1>11, <1>13, <1>14, <2>1, <2>2 DEF TypeInv, TypeOK
<1>18. ClientInv' /\ ConnInv'
  BY <1>1, <1>5 DEF ClientInv, Latest, ConnInv
<1>19. ListInv'
  <2>1. Closing = {} /\ Closing' = {}
    BY <1>4, <1>11 DEF Closing
  <2> QED BY <1>1, <1>5, <2>1 DEF ListInv, Distinct, Live, EntryOf
<1>20. TodoInv'
  <2>1. Once(todo')
    BY <1>7, <1>10 DEF Once, Distinct
  <2> QED BY <1>5, <1>15, <2>1 DEF TodoInv
<1>21. \A c \in DOMAIN conn : N \notin Range(conn[c].down)
  BY <1>1, <1>14 DEF WayInv
<1>22. WayInv'
  <2>1. \A c \in DOMAIN conn : \A k \in Range(conn[c].down) : k \in DOMAIN cmds' /\ cmds'[k] \in {Everyone, conn[c].name}
    BY <1>1, <1>13, <1>14 DEF WayInv
  <2> QED BY <1>1, <1>5, <1>13, <1>16, <1>21, <2>1 DEF WayInv
<1>23. OnceInv'
  <2>1. \A c \in DOMAIN conn : N \notin Got(conn[c].owner)
    <3>1. \A c \in DOMAIN conn : conn[c].owner \in Clients
      BY <1>1, ConnTyped
    <3> QED BY <1>1, <1>14, <3>1 DEF TypeInv, TypeOK, Got
  <2> QED BY <1>1, <1>5, <1>13, <2>1 DEF OnceInv, AtMostOnce, Got, Latest
<1> QED BY <1>17, <1>18, <1>19, <1>20, <1>22, <1>23 DEF Inv

\* The handle that is at the head is that of one registered connection.
LEMMA Todo ==
  ASSUME Inv, sendPc # "idle"
  PROVE  /\ todo \in Seq(Handles) /\ todo # <<>>
         /\ Head(todo) \in Range(todo) /\ Tail(todo) \in Seq(Handles)
         /\ Once(Tail(todo)) /\ Range(Tail(todo)) = Range(todo) \ {Head(todo)}
         /\ cmds # <<>> /\ Len(cmds) \in 1 .. MaxCmds
<1>1. todo \in Seq(Handles) /\ todo # <<>> /\ Once(todo)
  BY DEF Inv, TypeInv, TypeOK, TodoInv
<1>2. /\ Tail(todo) \in Seq(Handles)
      /\ Range(todo) = {Head(todo)} \cup Range(Tail(todo))
      /\ Once(Tail(todo)) /\ Head(todo) \notin Range(Tail(todo))
  BY <1>1, HeadAndTail
<1>3. cmds # <<>> /\ Len(cmds) <= MaxCmds /\ cmds \in Seq(Names \cup {Everyone}) /\ MaxCmds \in Nat
  BY BoundsAssumption DEF Inv, TypeInv, TypeOK
<1>4. Len(cmds) \in 1 .. MaxCmds
  BY <1>3, EmptySeq
<1> QED BY <1>1, <1>2, <1>3, <1>4

LEMMA SendInv ==
  ASSUME Inv, Send
  PROVE  Inv'
<1>1. TypeInv /\ ClientInv /\ ConnInv /\ ListInv /\ TodoInv /\ WayInv /\ OnceInv
  BY DEF Inv
<1>2. UNCHANGED <<run, name, sk, recvPc, rs, appPc, srvRun, acceptPc, list, cmds, started, ran, calls>>
  BY DEF Send, clientVars, serverVars, execVars
<1>3. sendPc = "send" /\ Closing = {}
  BY DEF Send, Closing
<1>4. /\ todo \in Seq(Handles) /\ todo # <<>>
      /\ Head(todo) \in Range(todo) /\ Tail(todo) \in Seq(Handles)
      /\ Once(Tail(todo)) /\ Range(Tail(todo)) = Range(todo) \ {Head(todo)}
      /\ cmds # <<>> /\ Len(cmds) \in 1 .. MaxCmds
  BY <1>3, Todo
<1>5. CASE sendPc' = "remove" /\ UNCHANGED <<conn, todo>>
  <2>1. faults' \in 0 .. MaxFaults
    <3>1. faults \in 0 .. MaxFaults /\ MaxFaults \in Nat
      BY <1>1, BoundsAssumption DEF TypeInv, TypeOK
    <3>2. faults' = faults \/ Fault
      BY DEF Send
    <3> QED BY <3>1, <3>2 DEF Fault
  <2>2. (sendPc' = "idle") = (todo' = <<>>)
    BY <1>4, <1>5
  <2>3. TypeInv'
    BY <1>1, <1>2, <1>4, <1>5, <2>1, <2>2 DEF TypeInv, TypeOK
  <2>4. ClientInv' /\ ConnInv' /\ TodoInv' /\ WayInv' /\ OnceInv'
    BY <1>1, <1>2, <1>5 DEF ClientInv, Latest, ConnInv, TodoInv, WayInv, ToSend, OnceInv, AtMostOnce, Got
  <2>5. ListInv'
    <3>1. Closing' = {}
      BY <1>5 DEF Closing
    <3> QED BY <1>1, <1>2, <1>3, <1>5, <3>1 DEF ListInv, Distinct, Live, EntryOf
  <2> QED BY <2>3, <2>4, <2>5 DEF Inv
<1>6. CASE /\ \E c \in DOMAIN conn :
                /\ conn[c].handle = Head(todo) /\ conn[c].far \in {"hello", "listed"}
                /\ conn' = [conn EXCEPT ![c].down = Append(@, Len(cmds))]
           /\ NextTarget /\ UNCHANGED faults
  <2>1. PICK c \in DOMAIN conn :
          /\ conn[c].handle = Head(todo) /\ conn[c].far \in AtServer
          /\ conn' = [conn EXCEPT ![c].down = Append(@, Len(cmds))]
    BY <1>6 DEF AtServer
  <2> DEFINE k == Len(cmds)
             v == [conn[c] EXCEPT !.down = Append(@, k)]
  <2>2. ToSend(c) /\ conn[c].far = "listed" /\ conn[c].up = "whole"
    BY <1>4, <2>1, ToSendListed DEF ToSend
  <2>3. conn[c] \in Conn /\ conn[c].down \in Seq(1 .. MaxCmds) /\ k \in 1 .. MaxCmds
    BY <1>1, <1>4, ConnTyped
  <2>4. /\ Append(conn[c].down, k) \in Seq(1 .. MaxCmds)
        /\ Range(Append(conn[c].down, k)) = Range(conn[c].down) \cup {k}
        /\ Once(Append(conn[c].down, k))
    <3> DEFINE s == conn[c].down
    <3>1. s \in Seq(1 .. MaxCmds) /\ Once(s) /\ k \notin Range(s)
      BY <1>1, <2>2, <2>3 DEF WayInv
    <3> HIDE DEF s, k
    <3>2. k \in 1 .. MaxCmds
      BY <2>3
    <3> DEFINE S == 1 .. MaxCmds
    <3>3. s \in Seq(S) /\ k \in S
      BY <3>1, <3>2
    <3>4. Append(s, k) \in Seq(1 .. MaxCmds)
      BY <3>3, AppendProperties
    <3>5. Range(Append(s, k)) = Range(s) \cup {k}
      <4> HIDE DEF S
      <4> QED BY <3>3, RangeOfAppend
    <3>6. Once(Append(s, k))
      BY <3>1, <3>2, OnceMore
    <3> QED BY <3>4, <3>5, <3>6 DEF s
  <2>5. /\ v \in Conn /\ v.owner = conn[c].owner /\ v.near = conn[c].near /\ v.far = conn[c].far
        /\ v.handle = conn[c].handle /\ v.up = conn[c].up /\ v.name = conn[c].name
        /\ v.down = Append(conn[c].down, k)
    BY <2>3, <2>4 DEF Conn
  <2>6. Change(c, v)
    BY <2>1 DEF Change
  <2> HIDE DEF k, v
  <2>7. /\ conn' \in Seq(Conn) /\ Len(conn') = Len(conn) /\ DOMAIN conn' = DOMAIN conn
        /\ conn'[c] = v /\ \A d \in DOMAIN conn : d # c => conn'[d] = conn[d]
    BY <1>1, <2>5, <2>6, Changed
  <2>8. \A d \in DOMAIN conn :
          /\ conn'[d].owner = conn[d].owner /\ conn'[d].near = conn[d].near /\ conn'[d].up = conn[d].up
          /\ conn'[d].name = conn[d].name /\ conn'[d].handle = conn[d].handle /\ conn'[d].far = conn[d].far
          /\ Once(conn'[d].down)
          /\ Range(conn'[d].down) = IF d = c THEN Range(conn[d].down) \cup {k} ELSE Range(conn[d].down)
          /\ d # c => conn'[d].down = conn[d].down
    <3> TAKE d \in DOMAIN conn
    <3>1. CASE d = c
      BY <2>4, <2>5, <2>7, <3>1
    <3>2. CASE d # c
      BY <1>1, <2>7, <3>2 DEF WayInv
    <3> QED BY <3>1, <3>2
  <2>9. /\ todo' = Tail(todo) /\ sendPc' \in {"idle", "send"} /\ (sendPc' = "idle") = (todo' = <<>>)
        /\ faults' = faults /\ Closing' = {}
    BY <1>6 DEF NextTarget, Closing
  <2>10. \A d \in DOMAIN conn : (Latest(d)' <=> Latest(d)) /\ (ToSend(d)' => ToSend(d) /\ d # c)
    BY <1>4, <2>1, <2>7, <2>8, <2>9 DEF Latest, ToSend
  <2>11. TypeInv'
    BY <1>1, <1>2, <1>4, <2>7, <2>9 DEF TypeInv, TypeOK
  <2>12. ClientInv'
    BY <1>1, <1>2, <2>7, <2>8, ClientKept
  <2>13. ConnInv'
    <3>1. ASSUME NEW d \in DOMAIN conn
          PROVE  /\ conn'[d].near = "new" => conn'[d].far = "none" /\ conn'[d].up = "none"
                 /\ conn'[d].far = "listed" \/ conn'[d].down # <<>> => conn'[d].up = "whole"
                 /\ conn'[d].far \in AtServer => conn'[d].handle \in Handles
      <4>1. CASE d = c
        BY <1>1, <2>2, <2>8, <4>1 DEF ConnInv
      <4>2. CASE d # c
        BY <1>1, <2>7, <4>2 DEF ConnInv
      <4> QED BY <4>1, <4>2
    <3>2. \A d \in DOMAIN conn : conn'[d].far = conn[d].far /\ conn'[d].handle = conn[d].handle
      BY <2>8
    <3> QED BY <1>1, <2>7, <3>1, <3>2 DEF ConnInv
  <2>14. ListInv'
    <3>1. Live' = Live
      BY <1>3, <2>7, <2>8, <2>9 DEF Live
    <3>2. {EntryOf(d)' : d \in Live} = {EntryOf(d) : d \in Live}
      BY <2>8 DEF Live, EntryOf
    <3> QED BY <1>1, <1>2, <3>1, <3>2 DEF ListInv, Distinct
  <2>15. TodoInv'
    <3>1. \A d \in DOMAIN conn : conn'[d].far = conn[d].far /\ conn'[d].handle = conn[d].handle
      BY <2>8
    <3> QED BY <1>1, <1>4, <2>7, <2>9, <3>1 DEF TodoInv
  <2>16. WayInv'
    <3>1. k \in DOMAIN cmds /\ cmds[k] \in {Everyone, conn[c].name} /\ Len(cmds) = k
      BY <1>1, <1>4, <2>2 DEF WayInv, TypeInv, TypeOK, k
    <3> QED BY <1>1, <1>2, <2>7, <2>8, <2>10, <3>1, ZenonT(40) DEF WayInv
  <2>17. OnceInv'
    <3>1. Latest(c) => k \notin Got(conn[c].owner)
      BY <1>1, <2>2 DEF OnceInv, k
    <3>2. ASSUME NEW d \in DOMAIN conn, Latest(d)
          PROVE  /\ \A j \in Range(conn'[d].down) : j \notin Got(conn[d].owner)
                 /\ ToSend(d) => Len(cmds) \notin Got(conn[d].owner)
      BY <1>1, <2>8, <3>1, <3>2 DEF OnceInv
    <3>3. \A d \in DOMAIN conn : conn'[d].owner = conn[d].owner
      BY <2>8
    <3> QED BY <1>1, <1>2, <2>7, <2>10, <3>2, <3>3 DEF OnceInv, AtMostOnce, Got
  <2> QED BY <2>11, <2>12, <2>13, <2>14, <2>15, <2>16, <2>17 DEF Inv
<1> QED BY <1>5, <1>6 DEF Send

LEMMA RemoveInv ==
  ASSUME Inv, RemoveSocket
  PROVE  Inv'
<1>1. TypeInv /\ ClientInv /\ ConnInv /\ ListInv /\ TodoInv /\ WayInv /\ OnceInv
  BY DEF Inv
<1> DEFINE I == {j \in DOMAIN list : list[j].handle # Head(todo)}
<1>2. list' = Kept(list, I) /\ sendPc = "remove" /\ sendPc' = "close"
  BY DEF RemoveSocket
<1>3. UNCHANGED <<run, name, sk, recvPc, rs, appPc, conn, srvRun, acceptPc, todo, cmds, started, ran, faults, calls>>
  BY DEF RemoveSocket, clientVars, execVars
<1>4. todo # <<>> /\ Closing = {} /\ Closing' = {Head(todo)}
  BY <1>2, <1>3, Todo DEF Closing
<1>5. /\ list' \in Seq(Entry) /\ Distinct(list')
      /\ Range(list') = {list[j] : j \in I}
  <2>1. list \in Seq(Entry) /\ Distinct(list) /\ I \in SUBSET DOMAIN list
    BY <1>1 DEF TypeInv, TypeOK, ListInv
  <2> HIDE DEF I
  <2> QED BY <1>2, <2>1, KeptRange, KeptDistinct
<1>6. TypeInv'
  <2>1. (sendPc' = "idle") = (todo' = <<>>)
    BY <1>2, <1>3, <1>4
  <2> QED BY <1>1, <1>2, <1>3, <1>5, <2>1 DEF TypeInv, TypeOK
<1>7. ClientInv' /\ ConnInv' /\ TodoInv' /\ WayInv' /\ OnceInv'
  BY <1>1, <1>3 DEF ClientInv, Latest, ConnInv, TodoInv, WayInv, ToSend, OnceInv, AtMostOnce, Got
<1>8. ListInv'
  <2>1. Live' = {c \in Live : conn[c].handle # Head(todo)}
    BY <1>3, <1>4 DEF Live
  <2>2. ASSUME NEW e
        PROVE  e \in {list[j] : j \in I} <=> e \in Range(list) /\ e.handle # Head(todo)
    BY DEF Range
  <2>3. ASSUME NEW e
        PROVE  e \in Range(list) /\ e.handle # Head(todo)
                 <=> \E c \in Live : e = EntryOf(c) /\ conn[c].handle # Head(todo)
    BY <1>1 DEF ListInv, EntryOf
  <2> HIDE DEF I
  <2>4. Range(list') = {EntryOf(c) : c \in Live'}
    BY <1>5, <2>1, <2>2, <2>3
  <2>5. {EntryOf(c)' : c \in Live'} = {EntryOf(c) : c \in Live'}
    BY <1>3 DEF EntryOf
  <2> QED BY <1>5, <2>4, <2>5 DEF ListInv
<1> QED BY <1>6, <1>7, <1>8 DEF Inv

LEMMA CloseInv ==
  ASSUME Inv, CloseSocket
  PROVE  Inv'
<1>1. TypeInv /\ ClientInv /\ ConnInv /\ ListInv /\ TodoInv /\ WayInv /\ OnceInv
  BY DEF Inv
<1>2. UNCHANGED <<run, name, sk, recvPc, rs, appPc, srvRun, acceptPc, list, cmds, started, ran, faults, calls>>
  BY DEF CloseSocket, clientVars, serverVars, execVars
<1>3. sendPc = "close" /\ Closing = {Head(todo)}
  BY DEF CloseSocket, Closing
<1>4. /\ todo \in Seq(Handles) /\ todo # <<>>
      /\ Head(todo) \in Range(todo) /\ Tail(todo) \in Seq(Handles)
      /\ Once(Tail(todo)) /\ Range(Tail(todo)) = Range(todo) \ {Head(todo)}
      /\ cmds # <<>>
  BY <1>3, Todo
<1>5. /\ todo' = Tail(todo) /\ sendPc' \in {"idle", "send"} /\ (sendPc' = "idle") = (todo' = <<>>)
      /\ Closing' = {}
  BY DEF CloseSocket, NextTarget, Closing
<1> DEFINE closes(c) == conn[c].handle = Head(todo) /\ conn[c].far \in AtServer
           v(c) == [conn[c] EXCEPT !.far = IF closes(c) THEN "closed" ELSE @]
<1>6. conn' = [c \in DOMAIN conn |-> v(c)]
  BY DEF CloseSocket, AtServer
<1>7. ASSUME NEW c \in DOMAIN conn
      PROVE  /\ v(c) \in Conn /\ v(c).owner = conn[c].owner /\ v(c).near = conn[c].near
             /\ v(c).handle = conn[c].handle /\ v(c).up = conn[c].up
             /\ v(c).name = conn[c].name /\ v(c).down = conn[c].down
             /\ v(c).far = IF closes(c) THEN "closed" ELSE conn[c].far
  <2>1. conn[c] \in Conn
    BY <1>1, ConnTyped
  <2>2. CASE closes(c)
    <3>1. v(c) = [conn[c] EXCEPT !.far = "closed"]
      BY <2>2
    <3> HIDE DEF v
    <3> QED BY <2>1, <2>2, <3>1 DEF Conn
  <2>3. CASE ~ closes(c)
    <3>1. v(c) = conn[c]
      BY <2>1, <2>3 DEF Conn
    <3> HIDE DEF v
    <3> QED BY <2>1, <2>3, <3>1
  <2> QED BY <2>2, <2>3
<1> HIDE DEF v
<1>8. /\ conn' \in Seq(Conn) /\ Len(conn') = Len(conn) /\ DOMAIN conn' = DOMAIN conn
      /\ \A c \in DOMAIN conn :
           /\ conn'[c].owner = conn[c].owner /\ conn'[c].near = conn[c].near /\ conn'[c].up = conn[c].up
           /\ conn'[c].name = conn[c].name /\ conn'[c].handle = conn[c].handle /\ conn'[c].down = conn[c].down
           /\ conn'[c].far = IF closes(c) THEN "closed" ELSE conn[c].far
  <2>1. conn \in Seq(Conn) /\ DOMAIN conn = 1 .. Len(conn) /\ Len(conn) \in Nat
    BY <1>1 DEF TypeInv, TypeOK
  <2>2. conn' \in Seq(Conn) /\ Len(conn') = Len(conn)
    BY <1>6, <1>7, <2>1
  <2>3. \A c \in DOMAIN conn : conn'[c] = v(c)
    BY <1>6
  <2> QED BY <1>6, <1>7, <2>2, <2>3
<1>9. \A c \in DOMAIN conn :
        /\ conn'[c].far = "listed" <=> conn[c].far = "listed" /\ conn[c].handle # Head(todo)
        /\ conn'[c].far \in AtServer => conn'[c].far = conn[c].far
        /\ conn'[c].far # conn[c].far => conn[c].near # "new"
  BY <1>1, <1>8 DEF AtServer, ConnInv
<1> HIDE DEF closes
<1>10. \A c \in DOMAIN conn : (Latest(c)' <=> Latest(c)) /\ (ToSend(c)' => ToSend(c))
  BY <1>4, <1>5, <1>8, <1>9 DEF Latest, ToSend
<1>11. TypeInv'
  BY <1>1, <1>2, <1>4, <1>5, <1>8 DEF TypeInv, TypeOK
<1>12. ClientInv'
  BY <1>1, <1>2, <1>8, ClientKept
<1>13. ConnInv'
  <2>1. ASSUME NEW c \in DOMAIN conn
        PROVE  /\ conn'[c].near = "new" => conn'[c].far = "none" /\ conn'[c].up = "none"
               /\ conn'[c].far = "listed" \/ conn'[c].down # <<>> => conn'[c].up = "whole"
               /\ conn'[c].far \in AtServer => conn'[c].handle \in Handles
    BY <1>1, <1>8, <1>9 DEF ConnInv
  <2>2. ASSUME NEW c \in DOMAIN conn, NEW d \in DOMAIN conn, conn'[c].far \in AtServer,
               conn'[d].far \in AtServer, conn'[c].handle = conn'[d].handle
        PROVE  c = d
    BY <1>1, <1>8, <1>9, <2>2 DEF ConnInv
  <2> QED BY <1>8, <2>1, <2>2 DEF ConnInv
<1>14. ListInv'
  <2>1. Live' = Live
    BY <1>3, <1>5, <1>8, <1>9 DEF Live
  <2>2. {EntryOf(c)' : c \in Live} = {EntryOf(c) : c \in Live}
    BY <1>8 DEF Live, EntryOf
  <2> QED BY <1>1, <1>2, <2>1, <2>2 DEF ListInv, Distinct
<1>15. TodoInv'
  BY <1>1, <1>4, <1>5, <1>8, <1>9 DEF TodoInv
<1>16. WayInv'
  BY <1>1, <1>2, <1>8, <1>10 DEF WayInv
<1>17. OnceInv'
  BY <1>1, <1>2, <1>8, <1>10 DEF OnceInv, AtMostOnce, Got
<1> QED BY <1>11, <1>12, <1>13, <1>14, <1>15, <1>16, <1>17 DEF Inv

LEMMA StepInv ==
  ASSUME Inv, [Next]_vars
  PROVE  Inv'
<1>1. CASE UNCHANGED vars
  <2>1. Fades /\ TypeInv /\ ClientInv
    BY <1>1, NoneFades DEF Inv, vars
  <2>2. UNCHANGED <<run, name, sk, rs, recvPc, appPc, conn, srvRun, acceptPc, list, sendVars, execVars, calls, faults>>
    BY <1>1 DEF vars, clientVars, serverVars
  <2>3. Quiet
    BY <2>1, <2>2 DEF TypeInv, TypeOK, ClientInv, ClientTyped, Quiet
  <2> QED BY <2>3, QuietInv
<1>2. CASE \E p \in Clients : Run(p) \/ ReSetClientName(p) \/ Stop(p) \/ Breaking(p)
  BY <1>2, RunInv, BreakingInv
<1>3. CASE \E p \in Clients : RecvThread(p) \/ Execute(p)
  <2>1. PICK p \in Clients : RecvThread(p) \/ Execute(p)
    BY <1>3
  <2>2. CASE Waits(p)
    BY <2>2, WaitsInv
  <2>3. CASE Dials(p)
    BY <2>3, DialsInv
  <2>4. CASE CreateSocket(p) /\ sk[p] = 0
    BY <2>4, CreateInv
  <2>5. CASE Recv(p)
    BY <2>5, RecvInv
  <2>6. CASE Execute(p)
    BY <2>6, ExecuteInv
  <2> QED BY <2>1, <2>2, <2>3, <2>4, <2>5, <2>6 DEF RecvThread, Waits, Dials
<1>4. CASE ServerThreads \/ StopServer
  BY <1>4, AcceptInv, RegisterInv, EndsInv DEF ServerThreads, Ends
<1>5. CASE SendContent \/ Sending
  BY <1>5, SendContentInv, SendInv, RemoveInv, CloseInv DEF Sending
<1> QED BY <1>1, <1>2, <1>3, <1>4, <1>5 DEF Next

LEMMA Invariance == Spec => []Inv
<1>1. Inv /\ [Next]_vars => Inv'
  BY StepInv
<1> QED BY <1>1, InitInv, PTL DEF Spec

-----------------------------------------------------------------------------
(* What the invariant says to those who use the channel.                     *)

\* A list that has an entry for each of a set, and none twice, is as long.
LEMMA CountLive ==
  ASSUME Inv
  PROVE  Len(list) = Cardinality(Live)
<1> DEFINE n == Len(list)
           f == [c \in Live |-> CHOOSE j \in 1 .. n : list[j] = EntryOf(c)]
<1>1. list \in Seq(Entry) /\ n \in Nat /\ DOMAIN list = 1 .. n /\ ListInv /\ ConnInv
  BY DEF Inv, TypeInv, TypeOK
<1> HIDE DEF n
<1>2. \A c \in Live : f[c] \in 1 .. n /\ list[f[c]] = EntryOf(c)
  <2> TAKE c \in Live
  <2>1. EntryOf(c) \in Range(list)
    BY <1>1 DEF ListInv
  <2>2. \E j \in 1 .. n : list[j] = EntryOf(c)
    BY <1>1, <2>1 DEF Range
  <2> QED BY <2>2
<1>3. f = [c \in Live |-> f[c]]
  OBVIOUS
<1> HIDE DEF f
<1>4. \A c, d \in Live : f[c] = f[d] => c = d
  <2> SUFFICES ASSUME NEW c \in Live, NEW d \in Live, f[c] = f[d] PROVE c = d
    OBVIOUS
  <2>1. EntryOf(c) = EntryOf(d)
    BY <1>2
  <2> QED BY <1>1, <2>1 DEF Live, EntryOf, ConnInv, AtServer
<1>5. \A j \in 1 .. n : \E c \in Live : f[c] = j
  <2> TAKE j \in 1 .. n
  <2>1. PICK c \in Live : list[j] = EntryOf(c)
    BY <1>1 DEF ListInv, Range
  <2>2. list[f[c]].handle = list[j].handle
    BY <1>2, <2>1
  <2> QED BY <1>1, <1>2, <2>1, <2>2 DEF ListInv, Distinct
<1>6. f \in Bijection(Live, 1 .. n)
  BY <1>2, <1>3, <1>4, <1>5, Fun_IsBij
<1>7. IsFiniteSet(1 .. n) /\ Cardinality(1 .. n) = n
  BY <1>1, FS_Interval
<1>8. ExistsBijection(Live, 1 .. n)
  BY <1>6 DEF ExistsBijection
<1>9. Cardinality(Live) = n
  BY <1>7, <1>8, FS_Bijection, Fun_ExistsBijSymmetric
<1> QED BY <1>9 DEF n

\* Whatever the threads of the server do and whatever breaks, its list is true
\* to its connections: an entry for each that is registered, and no other.
THEOREM ListStaysTrue == Spec => []ListIsTrue
<1>1. Inv => ListIsTrue
  <2> SUFFICES ASSUME Inv PROVE ListIsTrue
    OBVIOUS
  <2>1. Len(list) = Cardinality(Live)
    BY CountLive
  <2>2. Range(list) = {EntryOf(c) : c \in Live}
    BY DEF Inv, ListInv
  <2> QED BY <2>1, <2>2 DEF ListIsTrue, Live, Closing, EntryOf
<1> QED BY <1>1, Invariance, PTL

\* The state has its types, a command on its way is for the name the client gave
\* on that connection, and no client runs a command twice, though it may be
\* listed twice after it has come back.
THEOREM CommandsReachWhomTheyAreFor == Spec => []OnlyMeant
<1>1. Inv => OnlyMeant
  <2> SUFFICES ASSUME Inv PROVE OnlyMeant
    OBVIOUS
  <2>1. TypeOK /\ AtMostOnce
    BY DEF Inv, TypeInv, OnceInv
  <2>2. RightTarget
    BY DEF Inv, WayInv, RightTarget
  <2> QED BY <2>1, <2>2 DEF OnlyMeant
<1> QED BY <1>1, Invariance, PTL
=============================================================================
