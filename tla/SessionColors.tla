--------------------------- MODULE SessionColors ---------------------------
(***************************************************************************)
(* The colours of ONE session's users: RedisService.assignSessionColor, as *)
(* the handlers of session.join call it, over the hash session:<id>:colors.*)
(*                                                                         *)
(* A call is a record with the Redis command it awaits; commands take      *)
(* effect one at a time, and calls interleave between them.  A field of    *)
(* the hash is never deleted: a user who leaves keeps his colour, and all  *)
(* go with the key.                                                        *)
(*                                                                         *)
(* Env says which behaviours of the surroundings are considered:           *)
(*   "keyLoss"  the key vanishes (24 h TTL, LRU eviction, Redis restart)   *)
(*   "fail"     a command rejects, or the process ends under the call      *)
(***************************************************************************)
EXTENDS Naturals, Sequences

CONSTANTS Users, Calls, UserOf, Palette, HashOf, None, Env

ASSUME ColorUsersAssumption == UserOf \in [Calls -> Users]
ASSUME PaletteAssumption == Palette \in Seq(STRING) /\ Len(Palette) > 0
ASSUME HashAssumption == HashOf \in [Users -> 1..Len(Palette)]
ASSUME ColorNoneAssumption == None \notin STRING

VARIABLES
  colors,   \* the hash: [user -> his colour, or None]
  call,     \* [call -> the command it awaits and its local variables]
  late      \* history: users whose colour was chosen from an outdated read

vars == <<colors, call, late>>

-----------------------------------------------------------------------------
PaletteColors == {Palette[i] : i \in 1..Len(Palette)}
NoColors      == [u \in Users |-> None]
Taken         == {colors[u] : u \in Users} \ {None}

Awaits == {"idle", "hget", "hvals", "setnx", "again", "expire",
           "fallback", "expireFallback", "final"}

\* answer: the colour the call returns, while the key is not lost.
\* fresh (history): nothing was written or lost since the call read the taken
\* colours.
CallType == [at : Awaits, attempt : 0..Len(Palette), pick : PaletteColors \cup {None},
             answer : PaletteColors \cup {None}, fresh : BOOLEAN]

TypeOK == /\ colors \in [Users -> PaletteColors \cup {None}]
          /\ call \in [Calls -> CallType]
          /\ late \in SUBSET Users

At(p)            == [at |-> p, attempt |-> 0, pick |-> None, answer |-> None, fresh |-> FALSE]
Answer(p, color) == [At(p) EXCEPT !.answer = color]

\* Users who make no call came before: each with a colour of his own, or none.
Early == {u \in Users : \A c \in Calls : UserOf[c] # u}

Init == /\ colors \in [Users -> PaletteColors \cup {None}]
        /\ \A u \in Users : colors[u] # None =>
             u \in Early /\ \A v \in Users : colors[v] = colors[u] => v = u
        /\ call = [c \in Calls |-> At("idle")]
        /\ late = {}

-----------------------------------------------------------------------------
(* The commands of a call.                                                 *)

Becomes(c, rec) == call' = [call EXCEPT ![c] = rec]

\* onSessionJoin calls assignSessionColor.
Start(c) == /\ call[c].at = "idle"
            /\ Becomes(c, At("hget"))
            /\ UNCHANGED <<colors, late>>

\* HGET: a user who has a colour keeps it.
ReadExisting(c) ==
  /\ call[c].at = "hget"
  /\ Becomes(c, IF colors[UserOf[c]] # None THEN Answer("expire", colors[UserOf[c]])
                ELSE At("hvals"))
  /\ UNCHANGED <<colors, late>>

\* Mutant: the taken colours are not looked at.
IsFirstFree_Any(i) == i = 1

\* The i-th colour is the one palette.find returns.
IsFirstFree(i) == /\ Palette[i] \notin Taken
                  /\ \A j \in 1..(i - 1) : Palette[j] \in Taken

\* HVALS, and the first free colour; break when there is none.
ReadTaken(c) ==
  /\ call[c].at = "hvals"
  /\ \/ \E i \in 1..Len(Palette) :
          /\ IsFirstFree(i)
          /\ Becomes(c, [call[c] EXCEPT !.at = "setnx", !.pick = Palette[i], !.fresh = TRUE])
     \/ /\ PaletteColors \subseteq Taken
        /\ Becomes(c, [At("fallback") EXCEPT !.fresh = TRUE])
  /\ UNCHANGED <<colors, late>>

\* HSETNX stores an absent field, and the call goes on as rec; what the others
\* have read is outdated.
Store(c, color, rec) ==
  /\ colors' = [colors EXCEPT ![UserOf[c]] = color]
  /\ late' = IF call[c].fresh THEN late ELSE late \cup {UserOf[c]}
  /\ call' = [d \in Calls |-> IF d = c THEN rec ELSE [call[d] EXCEPT !.fresh = FALSE]]

\* Mutant: HSET instead of HSETNX.
SetFree_Hset(c) ==
  /\ call[c].at = "setnx"
  /\ Store(c, call[c].pick, Answer("expire", call[c].pick))

SetFree(c) ==
  /\ call[c].at = "setnx"
  /\ \/ /\ colors[UserOf[c]] = None
        /\ Store(c, call[c].pick, Answer("expire", call[c].pick))
     \/ /\ colors[UserOf[c]] # None
        /\ Becomes(c, [At("again") EXCEPT !.attempt = call[c].attempt])
        /\ UNCHANGED <<colors, late>>

\* Mutant: the attempts are counted but not bounded.
ReadConcurrent_NoBound(c) ==
  /\ call[c].at = "again"
  /\ Becomes(c, IF colors[UserOf[c]] # None THEN Answer("expire", colors[UserOf[c]])
                ELSE [At("hvals") EXCEPT !.attempt = call[c].attempt + 1])
  /\ UNCHANGED <<colors, late>>

\* HGET: another call of the user was faster; when the key has gone since, the
\* next of palette.length attempts.
ReadConcurrent(c) ==
  /\ call[c].at = "again"
  /\ LET n == call[c].attempt + 1
     IN  Becomes(c, IF colors[UserOf[c]] # None THEN Answer("expire", colors[UserOf[c]])
                    ELSE IF n < Len(Palette) THEN [At("hvals") EXCEPT !.attempt = n]
                    ELSE At("fallback"))
  /\ UNCHANGED <<colors, late>>

Fallback(u) == Palette[HashOf[u]]

\* HSETNX of palette[hashEmail(userEmail) % palette.length], whoever has it.
SetFallback(c) ==
  /\ call[c].at = "fallback"
  /\ \/ /\ colors[UserOf[c]] = None
        /\ Store(c, Fallback(UserOf[c]), At("expireFallback"))
     \/ /\ colors[UserOf[c]] # None
        /\ Becomes(c, At("expireFallback"))
        /\ UNCHANGED <<colors, late>>

\* HGET of what is stored, by this call or another.  When that is nothing the
\* key was lost, and with it the fallback the call returns.
ReadFinal(c) ==
  /\ call[c].at = "final"
  /\ Becomes(c, Answer("idle", colors[UserOf[c]]))
  /\ UNCHANGED <<colors, late>>

\* EXPIRE of the key, whose effect is KeyLoss.
SetExpiry(c) ==
  /\ call[c].at \in {"expire", "expireFallback"}
  /\ Becomes(c, [call[c] EXCEPT !.at = IF @ = "expire" THEN "idle" ELSE "final"])
  /\ UNCHANGED <<colors, late>>

Fail(c) ==
  /\ "fail" \in Env
  /\ call[c].at # "idle"
  /\ Becomes(c, At("idle"))
  /\ UNCHANGED <<colors, late>>

KeyLoss ==
  /\ "keyLoss" \in Env
  /\ Taken # {}
  /\ colors' = NoColors
  /\ late' = {}
  /\ call' = [c \in Calls |-> [call[c] EXCEPT !.fresh = FALSE, !.answer = None]]

Command(c) == \/ ReadExisting(c) \/ ReadTaken(c) \/ SetFree(c) \/ ReadConcurrent(c)
              \/ SetFallback(c) \/ SetExpiry(c) \/ ReadFinal(c)

Next == \/ \E c \in Calls : Start(c) \/ Command(c) \/ Fail(c)
        \/ KeyLoss

Spec == Init /\ [][Next]_vars

-----------------------------------------------------------------------------
(* What the colours must guarantee.                                        *)

\* What a call returns is what the hash holds for its user until the key is
\* lost, so all his tabs agree, on each path: found, stored, lost to another
\* call of his, fallback.
AnswerIsStored ==
  \A c \in Calls : call[c].answer # None => colors[UserOf[c]] = call[c].answer

\* Two users share a colour only when the palette is used up, or one of them
\* chose from a read that another write or the loss of the key had outdated
\* (HSETNX is per user and not per colour).
ColoursDiffer ==
  \A u, v \in Users :
    u # v /\ colors[u] # None /\ colors[u] = colors[v] =>
      u \in late \/ v \in late \/ PaletteColors \subseteq Taken

-----------------------------------------------------------------------------
\* What makes ColoursDiffer inductive: what a call has read is true while it is
\* fresh.  The colour it picked is free; when it found none free, none is.
ReadIsTrue ==
  \A c \in Calls : call[c].fresh =>
    /\ call[c].at = "setnx" => call[c].pick \notin Taken
    /\ call[c].at = "fallback" => PaletteColors \subseteq Taken
=============================================================================
