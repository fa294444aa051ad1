----------------------------- MODULE SharedDoc -----------------------------
(***************************************************************************)
(* What the collaborative document of one session promises, with no rooms, *)
(* no connections, no Redis and no timers: a set of accepted edits, the    *)
(* part of it that is durable, and a stop of the server that falls back to *)
(* the durable part.  An edit is accepted once; durability only grows; a   *)
(* stop loses what was not yet durable and nothing else.                   *)
(***************************************************************************)
CONSTANT Updates

VARIABLES live,     \* the edits the server serves to whoever joins now
          durable   \* the edits that survive a stop of the server

vars == <<live, durable>>

TypeOK == live \in SUBSET Updates /\ durable \in SUBSET Updates

Init == live = {} /\ durable = {}

Accept(u) == /\ u \notin live
             /\ live' = live \cup {u}
             /\ UNCHANGED durable

Save(S) == /\ durable \subseteq S /\ S \subseteq live
           /\ durable' = S
           /\ UNCHANGED live

Stop == live' = durable /\ UNCHANGED durable

Next == \/ \E u \in Updates : Accept(u)
        \/ \E S \in SUBSET live : Save(S)
        \/ Stop

Spec == Init /\ [][Next]_vars
=============================================================================
