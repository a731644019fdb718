-------------------------------- MODULE RSA ---------------------------------
(***************************************************************************)
(* CRSA of AlgroithmLib: a pair of keys from two primes, and numbers        *)
(* encrypted with one and decrypted with the other.  The primes are taken   *)
(* from a list, which begins with 1 and from which one may be taken twice.  *)
(***************************************************************************)
EXTENDS Integers

CONSTANTS
  Primes,   \* the list
  E,        \* the public exponent, 257
  MaxText   \* bound: characters are below it

VARIABLES rsaPc, p, q, PubKey, PriKey, char, code, plain

rsaVars == <<rsaPc, p, q, PubKey, PriKey, char, code, plain>>

\* The remainder of C++: its sign is that of the first number.
Rem(a, b) == IF a < 0 THEN -((-a) % b) ELSE a % b
Quo(a, b) == IF a < 0 THEN -((-a) \div b) ELSE a \div b

-----------------------------------------------------------------------------
(* ExtEuclid, turn by turn.                                                 *)

Begun(a, b) == [a |-> a, gcd |-> b, x |-> 0, y |-> 1, u |-> 1, v |-> 0]
\* Mutated form of Turn: the new factor is made from the new one before.
TurnSwapped(s) ==
  LET quotient == Quo(s.gcd, s.a)
  IN  [a |-> Rem(s.gcd, s.a), gcd |-> s.a, x |-> s.u, y |-> s.v,
       u |-> s.x - s.u * quotient, v |-> s.v - s.y * quotient]

Turn(s) ==
  LET quotient == Quo(s.gcd, s.a)
  IN  [a |-> Rem(s.gcd, s.a), gcd |-> s.a, x |-> s.u, y |-> s.v,
       u |-> s.x - s.u * quotient, v |-> s.y - s.v * quotient]

\* More turns than numbers below 2 ^ 12 need.
MaxTurns == 24
Turns(a, b) ==
  LET after[k \in 0 .. MaxTurns] ==
        IF k = 0 THEN Begun(a, b)
        ELSE LET old == after[k - 1] IN IF old.a = 0 THEN old ELSE Turn(old)
  IN  after
ExtEuclid(a, b) == Turns(a, b)[MaxTurns].y

\* While it is below zero, MaxPhi is added to d; never for a MaxPhi of zero.
Raised(d, MaxPhi) == IF d < 0 THEN d + MaxPhi * ((MaxPhi - 1 - d) \div MaxPhi) ELSE d

\* Mutated form of Power: the factor of an odd exponent is lost.
PowerHalved(s, m) ==
  IF s.e < 2 THEN s ELSE [s EXCEPT !.b = Rem(s.b * s.b, m), !.e = s.e \div 2]

\* Rsa_ModExp: an even exponent is halved and the base squared, an odd one gives
\* a factor; on the way out each result is multiplied by its factor.
Power(s, m) ==
  CASE s.e < 2 -> s
    [] s.e >= 2 /\ s.e % 2 = 0 -> [s EXCEPT !.b = Rem(s.b * s.b, m), !.e = s.e \div 2]
    [] OTHER -> [s EXCEPT !.e = s.e - 1, !.factor = Rem(s.factor * s.b, m)]

Rsa_ModExp(b, e, m) ==
  LET after[k \in 0 .. MaxTurns] ==
        IF k = 0 THEN [b |-> Rem(b, m), e |-> e, factor |-> 1]
        ELSE LET old == after[k - 1] IN Power(old, m)
      last == after[MaxTurns]
  IN  CASE e = 0 -> 1
        [] e = 1 -> Rem(b, m)
        [] OTHER -> Rem(last.factor * (IF last.e = 0 THEN 1 ELSE last.b), m)

-----------------------------------------------------------------------------
NoKey == [modulus |-> 0, exponent |-> 0]

RsaInit ==
  /\ rsaPc = "keys" /\ p = 0 /\ q = 0 /\ PubKey = NoKey /\ PriKey = NoKey
  /\ char = 0 /\ code = 0 /\ plain = 0

GenerateKey ==
  /\ rsaPc = "keys"
  /\ p' \in Primes /\ q' \in Primes
  /\ LET MaxValue == p' * q'
         MaxPhi == (p' - 1) * (q' - 1)
     IN  /\ PubKey' = [modulus |-> MaxValue, exponent |-> E]
         /\ PriKey' = [modulus |-> MaxValue, exponent |-> Raised(ExtEuclid(MaxPhi, E), MaxPhi)]
  /\ rsaPc' = "encrypt"
  /\ UNCHANGED <<char, code, plain>>

Encrypt ==
  /\ rsaPc = "encrypt"
  /\ char' \in 0 .. MaxText - 1
  /\ code' = Rsa_ModExp(char', PubKey.exponent, PubKey.modulus)
  /\ rsaPc' = "decrypt"
  /\ UNCHANGED <<p, q, PubKey, PriKey, plain>>

Decrypt ==
  /\ rsaPc = "decrypt"
  /\ plain' = Rsa_ModExp(code, PriKey.exponent, PriKey.modulus)
  /\ rsaPc' = "done"
  /\ UNCHANGED <<p, q, PubKey, PriKey, char, code>>

RsaNext == GenerateKey \/ Encrypt \/ Decrypt

RsaSpec == RsaInit /\ [][RsaNext]_rsaVars

-----------------------------------------------------------------------------
(* Properties.                                                              *)

Phi == (p - 1) * (q - 1)

\* The greatest common divisor that ExtEuclid ends with.
Common == Turns(Phi, E)[MaxTurns].gcd

\* In every turn both numbers are sums of multiples of the two it began with.
Bezout ==
  rsaPc = "encrypt" =>
    \A k \in 0 .. MaxTurns :
      LET s == Turns(Phi, E)[k]
      IN  s.x * Phi + s.y * E = s.gcd /\ s.u * Phi + s.v * E = s.a

\* The loop ends, and the exponent is an inverse whenever there is one.
IsInverse ==
  rsaPc = "encrypt" /\ Phi > 1 =>
    /\ Turns(Phi, E)[MaxTurns].a = 0
    /\ PriKey.exponent \in 0 .. Phi - 1
    /\ Common = 1 <=> (PriKey.exponent * E) % Phi = 1

\* What was encrypted comes back when it is below the modulus, the primes are two
\* and greater than one, and the exponent has an inverse.
ComesBack ==
  rsaPc = "done" /\ p # q /\ p > 1 /\ q > 1 /\ Common = 1 /\ char < PubKey.modulus => plain = char

\* With one prime taken twice, or no inverse, some character is changed.
SomeChange ==
  rsaPc = "encrypt" /\ (p = q \/ Common # 1) /\ p > 1 /\ q > 1 =>
    \E c \in 0 .. PubKey.modulus - 1 :
      Rsa_ModExp(Rsa_ModExp(c, E, PubKey.modulus), PriKey.exponent, PubKey.modulus) # c

\* Keys are each other's inverse where the primes allow it.
KeysInvert == Bezout /\ IsInverse /\ ComesBack /\ SomeChange
=============================================================================
