-------------------------- MODULE MCYjsAwareness --------------------------
(* A finite instance of YjsAwareness for TLC. *)
EXTENDS YjsAwareness

CONSTANTS ann, bob, a1, a2, b1

\* ann connects twice, while bob looks on.
MCOwnerOf == [k \in Conns |-> IF k = b1 THEN bob ELSE ann]
MCMaxClock == [c \in Clients |-> IF c = ann THEN 2 ELSE 1]
=============================================================================
