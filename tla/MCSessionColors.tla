-------------------------- MODULE MCSessionColors --------------------------
(* A finite instance of SessionColors for TLC. *)
EXTENDS SessionColors

CONSTANTS ann, bob, cid, a1, a2, b1, b2

\* Two tabs of ann and two of bob; cid may have been there before, so that two
\* colours are one too few until the key is lost.
MCUserOf == [c \in Calls |-> IF c \in {b1, b2} THEN bob ELSE ann]
MCPalette == <<"#7C3AED", "#F97316">>
MCHashOf == [u \in Users |-> IF u = bob THEN 1 ELSE 2]
=============================================================================
