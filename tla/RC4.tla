-------------------------------- MODULE RC4 ---------------------------------
(***************************************************************************)
(* CRC4 of AlgroithmLib: objects that produce a key stream and encrypt with *)
(* it, used as the comment in the header says: one side encrypts, the other *)
(* asks its object for as long a key stream and decrypts with that.  The    *)
(* receiver may have one object for all texts or a new one for each.        *)
(*                                                                          *)
(* N stands for 256: the number of entries of S and of values of a byte.    *)
(***************************************************************************)
EXTENDS Integers, Sequences, Bitwise

CONSTANTS
  N,        \* 256
  KeyTexts, \* keys, as sequences of bytes
  Texts,    \* texts that may be sent
  MaxTexts  \* bound: texts

SizeAssumption == N \in Nat \ {0} /\ KeyTexts \subseteq Seq(0 .. N - 1) \ {<<>>}

VARIABLES
  K,      \* the key of both sides
  sent,   \* k of the sender's object
  kept,   \* k of the receiver's object
  plain,  \* the latest text
  back,   \* it, decrypted with the stream of the receiver's object
  fresh,  \* it, decrypted with the stream of a new object
  lengths,\* how long the texts were
  past    \* values that GetKeyStream wrote behind the buffer it returns

rc4Vars == <<K, sent, kept, plain, back, fresh, lengths, past>>

-----------------------------------------------------------------------------
(* The key stream.                                                          *)

\* Two entries are exchanged by sums and differences of bytes, which leaves 0
\* where the two are one.
Swap(S, i, j) ==
  LET s1 == [S EXCEPT ![i] = (S[i] + S[j]) % N]
      s2 == [s1 EXCEPT ![j] = (s1[i] - s1[j]) % N]
  IN  [s2 EXCEPT ![i] = (s2[i] - s2[j]) % N]

\* Mutated form of Ranged: the key begins one later, at what T has for 1.
RangedFromOne(key) ==
  LET T(i) == key[((i + 1) % Len(key)) + 1]
      after[i \in 0 .. N] ==
        IF i = 0 THEN [S |-> [n \in 0 .. N - 1 |-> n], j |-> 0]
        ELSE LET old == after[i - 1]
                 j == (old.j + old.S[i - 1] + T(i - 1)) % N
             IN  [S |-> Swap(old.S, i - 1, j), j |-> j]
  IN  after[N].S

\* Initial and rangeS: S and j after i steps.
Ranged(key) ==
  LET T(i) == key[(i % Len(key)) + 1]
      after[i \in 0 .. N] ==
        IF i = 0 THEN [S |-> [n \in 0 .. N - 1 |-> n], j |-> 0]
        ELSE LET old == after[i - 1]
                 j == (old.j + old.S[i - 1] + T(i - 1)) % N
             IN  [S |-> Swap(old.S, i - 1, j), j |-> j]
  IN  after[N].S

\* keyStream: what it pushes to k for a text of a length, from S as ranged.
Stream(key, length) ==
  LET after[i \in 0 .. length] ==
        IF i = 0 THEN [S |-> Ranged(key), j |-> 0, k |-> <<>>]
        ELSE LET old == after[i - 1]
                 m == i % N
                 j == (old.j + old.S[m]) % N
                 S == Swap(old.S, m, j)
             IN  [S |-> S, j |-> j, k |-> Append(old.k, S[(S[m] + S[j]) % N])]
  IN  after[length].k

\* It is appended to what earlier calls have left in k.
keyStream(k, length) == k \o Stream(K, length)

Mixed(text, k) == [i \in DOMAIN text |-> text[i] ^^ k[i]]

-----------------------------------------------------------------------------

RC4Init ==
  /\ K \in KeyTexts
  /\ sent = <<>> /\ kept = <<>> /\ plain = <<>> /\ back = <<>> /\ fresh = <<>>
  /\ lengths = <<>> /\ past = 0

\* GetKeyStream returns a buffer of the length asked for and copies all of k.
Behind(k, length) == Len(k) - length

\* Mutated form of GetEncryptText: the latest values of k are used.
GetEncryptTextLatest(text) ==
  LET k == keyStream(sent, Len(text)) IN Mixed(text, SubSeq(k, Len(sent) + 1, Len(k)))

GetEncryptText(text) == Mixed(text, keyStream(sent, Len(text)))

DecryptText(text, keyStream_) == Mixed(text, keyStream_)

Transmit ==
  /\ Len(lengths) < MaxTexts
  /\ \E text \in Texts :
       LET cipher == GetEncryptText(text)
           length == Len(text)
       IN  /\ plain' = text
           /\ sent' = keyStream(sent, length)
           /\ kept' = keyStream(kept, length)
           /\ back' = DecryptText(cipher, kept')
           /\ fresh' = DecryptText(cipher, keyStream(<<>>, length))
           /\ lengths' = Append(lengths, length)
           /\ past' = Behind(kept', length)
  /\ UNCHANGED K

RC4Next == Transmit

RC4Spec == RC4Init /\ [][RC4Next]_rc4Vars

-----------------------------------------------------------------------------
(* Properties.                                                              *)

\* The receiver's object, asked for the same lengths, gives every text back.
ObjectsAgree == back = plain

\* A new object gives a text back as far as the sender's first one went, and
\* whole if none was sent before.
First == IF lengths = <<>> THEN 0 ELSE lengths[1]
NewObjectAgrees ==
  \A i \in DOMAIN plain : i <= First \/ Len(lengths) = 1 => fresh[i] = plain[i]

\* The buffer of GetKeyStream is long enough for a new object only.
FirstFits == past = 0 <=> (Len(lengths) <= 1 \/ \A j \in 1 .. Len(lengths) - 1 : lengths[j] = 0)

\* While no entry meets itself, S is a permutation, as RC4 has it: an entry that
\* is exchanged with itself gets lost.
TrueRanged(key) ==
  LET after[i \in 0 .. N] ==
        IF i = 0 THEN [S |-> [n \in 0 .. N - 1 |-> n], j |-> 0, met |-> FALSE]
        ELSE LET old == after[i - 1]
                 j == (old.j + old.S[i - 1] + key[((i - 1) % Len(key)) + 1]) % N
             IN  [S |-> [old.S EXCEPT ![i - 1] = old.S[j], ![j] = old.S[i - 1]], j |-> j,
                  met |-> old.met \/ j = i - 1]
  IN  after[N]
RangedAsRC4 == ~TrueRanged(K).met => Ranged(K) = TrueRanged(K).S

\* What one side encrypts the other can decrypt.
Enciphers == ObjectsAgree /\ NewObjectAgrees /\ FirstFits /\ RangedAsRC4
=============================================================================
