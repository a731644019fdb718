------------------------------- MODULE Loops --------------------------------
(***************************************************************************)
(* What loops of the code compute that go over a sequence, for the modules *)
(* that prove something of it.                                             *)
(***************************************************************************)
EXTENDS Naturals, Sequences

\* What a loop over s keeps that keeps what is at the places in I.
Kept(s, I) ==
  LET kept[i \in 0 .. Len(s)] ==
        IF i = 0 THEN <<>> ELSE IF i \in I THEN Append(kept[i - 1], s[i]) ELSE kept[i - 1]
  IN  kept[Len(s)]
=============================================================================
