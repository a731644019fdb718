----------------------------- MODULE MCFraming ------------------------------
(* Small instances of Framing.                                              *)
EXTENDS Framing

\* An empty packet, one of five bytes, and one longer than a receive; the data
\* read as a size is small, so a misread one ends within the stream.
SmallPayloads == {<<>>, <<2>>, <<0, 9, 0, 0, 0, 6>>}
=============================================================================
