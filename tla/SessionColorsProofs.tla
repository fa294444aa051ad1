------------------------ MODULE SessionColorsProofs ------------------------
(***************************************************************************)
(* Theorems about SessionColors for any users, calls and palette, with     *)
(* failing commands and loss of the key at any time.                       *)
(***************************************************************************)
EXTENDS SessionColors, TLAPS

-----------------------------------------------------------------------------
\* A palette has a length.
LEMMA ZeroAttempts == Len(Palette) \in Nat /\ 0 \in 0..Len(Palette)
  BY PaletteAssumption

\* The records a call takes on have its type.
LEMMA AtType ==
  \A p \in Awaits :
    /\ At(p) \in CallType /\ [At(p) EXCEPT !.fresh = TRUE] \in CallType
    /\ \A color \in PaletteColors \cup {None} : Answer(p, color) \in CallType
    /\ \A n \in 0..Len(Palette) : [At(p) EXCEPT !.attempt = n] \in CallType
<1> SUFFICES ASSUME NEW p \in Awaits
             PROVE  /\ At(p) \in CallType /\ [At(p) EXCEPT !.fresh = TRUE] \in CallType
                    /\ \A color \in PaletteColors \cup {None} : Answer(p, color) \in CallType
                    /\ \A n \in 0..Len(Palette) : [At(p) EXCEPT !.attempt = n] \in CallType
  OBVIOUS
<1>1. At(p) \in CallType /\ [At(p) EXCEPT !.fresh = TRUE] \in CallType
  BY ZeroAttempts DEF At, CallType
<1>2. \A color \in PaletteColors \cup {None} : Answer(p, color) \in CallType
  BY ZeroAttempts DEF At, Answer, CallType
<1>3. \A n \in 0..Len(Palette) : [At(p) EXCEPT !.attempt = n] \in CallType
  BY DEF At, CallType
<1> QED
  BY <1>1, <1>2, <1>3

\* The initial states have the types.
LEMMA InitType == Init => TypeOK
<1> SUFFICES ASSUME Init PROVE TypeOK
  OBVIOUS
<1>1. At("idle") \in CallType
  BY AtType, ZeroAttempts DEF Awaits
<1> QED
  BY <1>1 DEF Init, TypeOK

\* What Store leaves has the types.
LEMMA StoreType ==
  ASSUME TypeOK, NEW c \in Calls, NEW color \in PaletteColors \cup {None}, NEW rec \in CallType,
         Store(c, color, rec)
  PROVE  TypeOK'
<1>1. UserOf[c] \in Users
  BY ColorUsersAssumption
<1>2. \A d \in Calls : [call[d] EXCEPT !.fresh = FALSE] \in CallType
  BY DEF TypeOK, CallType
<1> QED
  BY <1>1, <1>2 DEF Store, TypeOK

\* Every step keeps the types.
LEMMA StepType == TypeOK /\ [Next]_vars => TypeOK'
<1> SUFFICES ASSUME TypeOK, [Next]_vars PROVE TypeOK'
  OBVIOUS
<1>0. ASSUME NEW c \in Calls, NEW rec \in CallType, Becomes(c, rec), UNCHANGED <<colors, late>>
      PROVE  TypeOK'
  BY <1>0 DEF Becomes, TypeOK
<1>00. \A c \in Calls : UserOf[c] \in Users /\ colors[UserOf[c]] \in PaletteColors \cup {None}
  BY ColorUsersAssumption DEF TypeOK
<1>1. ASSUME NEW c \in Calls, Start(c) \/ Fail(c) PROVE TypeOK'
  BY <1>1, <1>0, AtType DEF Start, Fail, Awaits
<1>2. ASSUME NEW c \in Calls, ReadExisting(c) \/ ReadFinal(c) PROVE TypeOK'
  BY <1>2, <1>0, <1>00, AtType DEF ReadExisting, ReadFinal, Awaits
<1>3. ASSUME NEW c \in Calls, ReadTaken(c) PROVE TypeOK'
  <2>1. CASE \E i \in 1..Len(Palette) :
               Becomes(c, [call[c] EXCEPT !.at = "setnx", !.pick = Palette[i], !.fresh = TRUE])
    <3>1. PICK i \in 1..Len(Palette) :
            Becomes(c, [call[c] EXCEPT !.at = "setnx", !.pick = Palette[i], !.fresh = TRUE])
      BY <2>1
    <3>2. [call[c] EXCEPT !.at = "setnx", !.pick = Palette[i], !.fresh = TRUE] \in CallType
      BY <3>1 DEF TypeOK, CallType, PaletteColors, Awaits
    <3> QED
      BY <1>3, <1>0, <3>1, <3>2 DEF ReadTaken
  <2>2. CASE Becomes(c, [At("fallback") EXCEPT !.fresh = TRUE])
    <3>1. [At("fallback") EXCEPT !.fresh = TRUE] \in CallType
      BY AtType DEF Awaits
    <3> QED
      BY <1>3, <1>0, <2>2, <3>1 DEF ReadTaken
  <2> QED
    BY <1>3, <2>1, <2>2 DEF ReadTaken
<1>4. ASSUME NEW c \in Calls, SetFree(c) PROVE TypeOK'
  <2>1. call[c].pick \in PaletteColors \cup {None} /\ call[c].attempt \in 0..Len(Palette)
    BY DEF TypeOK, CallType
  <2>2. /\ Answer("expire", call[c].pick) \in CallType
        /\ [At("again") EXCEPT !.attempt = call[c].attempt] \in CallType
    BY <2>1, AtType DEF Awaits
  <2> QED
    BY <1>4, <1>0, <2>1, <2>2, StoreType DEF SetFree
<1>5. ASSUME NEW c \in Calls, ReadConcurrent(c) PROVE TypeOK'
  <2> DEFINE n == call[c].attempt + 1
  <2>1. n < Len(Palette) => n \in 0..Len(Palette)
    BY PaletteAssumption DEF TypeOK, CallType
  <2>2. n < Len(Palette) => [At("hvals") EXCEPT !.attempt = n] \in CallType
    BY <2>1, AtType DEF Awaits
  <2>3. At("fallback") \in CallType /\ Answer("expire", colors[UserOf[c]]) \in CallType
    BY <1>00, AtType DEF Awaits
  <2> QED
    BY <1>5, <1>0, <2>2, <2>3 DEF ReadConcurrent
<1>6. ASSUME NEW c \in Calls, SetFallback(c) PROVE TypeOK'
  <2>1. Fallback(UserOf[c]) \in PaletteColors
    BY <1>00, HashAssumption DEF Fallback, PaletteColors
  <2>2. At("expireFallback") \in CallType
    BY AtType DEF Awaits
  <2> QED
    BY <1>6, <1>0, <2>1, <2>2, StoreType DEF SetFallback
<1>7. ASSUME NEW c \in Calls, SetExpiry(c) PROVE TypeOK'
  <2>1. [call[c] EXCEPT !.at = IF @ = "expire" THEN "idle" ELSE "final"] \in CallType
    BY DEF TypeOK, CallType, Awaits
  <2> QED
    BY <1>7, <1>0, <2>1 DEF SetExpiry
<1>8. CASE KeyLoss
  <2>1. \A c \in Calls : [call[c] EXCEPT !.fresh = FALSE, !.answer = None] \in CallType
    BY DEF TypeOK, CallType
  <2> QED
    BY <1>8, <2>1 DEF KeyLoss, TypeOK, NoColors
<1>9. CASE UNCHANGED vars
  BY <1>9 DEF vars, TypeOK
<1> QED
  BY <1>1, <1>2, <1>3, <1>4, <1>5, <1>6, <1>7, <1>8, <1>9 DEF Next, Command

\* The types of the hash and of the calls are kept through races, failures and
\* the loss of the key; the attempts stay within the palette.
THEOREM TypeCorrect == Spec => []TypeOK
<1>1. Init => TypeOK
  BY InitType
<1>2. TypeOK /\ [Next]_vars => TypeOK'
  BY StepType
<1> QED
  BY <1>1, <1>2, PTL DEF Spec

-----------------------------------------------------------------------------
\* A step stores a colour where there is none, loses the hash, or leaves it.
LEMMA HashStep ==
  ASSUME TypeOK, [Next]_vars
  PROVE  \/ \E c \in Calls : /\ SetFree(c) \/ SetFallback(c)
                             /\ colors[UserOf[c]] = None
                             /\ \A u \in Users \ {UserOf[c]} : colors'[u] = colors[u]
         \/ KeyLoss
         \/ colors' = colors
  BY ColorUsersAssumption
     DEF Next, Command, Start, ReadExisting, ReadTaken, SetFree, ReadConcurrent, SetFallback,
         SetExpiry, ReadFinal, Fail, Store, vars, TypeOK

\* Every step keeps what the calls return true of the hash.
LEMMA StepAnswer == TypeOK /\ AnswerIsStored /\ [Next]_vars => AnswerIsStored'
<1> SUFFICES ASSUME TypeOK, AnswerIsStored, [Next]_vars, NEW d \in Calls, call'[d].answer # None
             PROVE  colors'[UserOf[d]] = call'[d].answer
  BY DEF AnswerIsStored
<1> USE DEF AnswerIsStored
<1>0. UserOf[d] \in Users
  BY ColorUsersAssumption
<1>1. ASSUME NEW c \in Calls, NEW rec, Becomes(c, rec), UNCHANGED colors,
             rec.answer # None => rec.answer = colors[UserOf[c]]
      PROVE  colors'[UserOf[d]] = call'[d].answer
  BY <1>1 DEF Becomes, TypeOK
<1>2. ASSUME NEW c \in Calls, NEW color, NEW rec, Store(c, color, rec), colors[UserOf[c]] = None,
             rec.answer # None => rec.answer = color
      PROVE  colors'[UserOf[d]] = call'[d].answer
  <2>1. CASE d = c
    BY <1>2, <1>0, <2>1 DEF Store, TypeOK
  <2>2. CASE d # c
    <3>1. call'[d].answer = call[d].answer
      BY <1>2, <2>2 DEF Store, TypeOK, CallType
    <3>2. colors[UserOf[d]] = call[d].answer /\ UserOf[d] # UserOf[c]
      BY <1>2, <3>1
    <3> QED
      BY <1>2, <1>0, <3>1, <3>2 DEF Store, TypeOK
  <2> QED
    BY <2>1, <2>2
<1>3. ASSUME NEW c \in Calls, Start(c) \/ Fail(c) \/ ReadExisting(c) \/ ReadConcurrent(c)
                              \/ ReadFinal(c)
      PROVE  colors'[UserOf[d]] = call'[d].answer
  <2>1. \E rec \in {At("hget"), At("idle"), At("hvals"), At("fallback")}
                    \cup {[At("hvals") EXCEPT !.attempt = call[c].attempt + 1]}
                    \cup {Answer(p, colors[UserOf[c]]) : p \in {"expire", "idle"}} :
          Becomes(c, rec)
    BY <1>3 DEF Start, Fail, ReadExisting, ReadConcurrent, ReadFinal
  <2> QED
    BY <1>3, <1>1, <2>1
       DEF Start, Fail, ReadExisting, ReadConcurrent, ReadFinal, At, Answer
<1>4. ASSUME NEW c \in Calls, ReadTaken(c) \/ SetExpiry(c)
      PROVE  colors'[UserOf[d]] = call'[d].answer
  <2>1. call'[c].answer \in {call[c].answer, None} /\ \A e \in Calls \ {c} : call'[e] = call[e]
    BY <1>4 DEF ReadTaken, SetExpiry, Becomes, At, TypeOK, CallType
  <2> QED
    BY <1>4, <2>1 DEF ReadTaken, SetExpiry
<1>5. ASSUME NEW c \in Calls, SetFree(c) PROVE colors'[UserOf[d]] = call'[d].answer
  BY <1>5, <1>1, <1>2 DEF SetFree, At, Answer
<1>6. ASSUME NEW c \in Calls, SetFallback(c) PROVE colors'[UserOf[d]] = call'[d].answer
  BY <1>6, <1>1, <1>2 DEF SetFallback, At
<1>7. CASE KeyLoss
  BY <1>7 DEF KeyLoss, TypeOK, CallType
<1>8. CASE UNCHANGED vars
  BY <1>8 DEF vars
<1> QED
  BY <1>3, <1>4, <1>5, <1>6, <1>7, <1>8 DEF Next, Command

\* All tabs of a user are given the colour that is stored, however their calls
\* race and whatever fails.
THEOREM AnswerIsStoredAlways == Spec => []AnswerIsStored
<1>1. Init => AnswerIsStored
  BY DEF Init, AnswerIsStored, At
<1>2. TypeOK /\ AnswerIsStored /\ [Next]_vars => AnswerIsStored'
  BY StepAnswer
<1> QED
  BY <1>1, <1>2, TypeCorrect, PTL DEF Spec

-----------------------------------------------------------------------------
\* The fields of the records a call takes on.
LEMMA AtFields ==
  \A p, color, n :
    /\ At(p).fresh = FALSE /\ Answer(p, color).fresh = FALSE
    /\ [At(p) EXCEPT !.attempt = n].fresh = FALSE
  BY DEF At, Answer

\* Every step keeps what the fresh calls have read true: whoever writes outdates
\* the others.
LEMMA StepRead == TypeOK /\ ReadIsTrue /\ [Next]_vars => ReadIsTrue'
<1> SUFFICES ASSUME TypeOK, ReadIsTrue, [Next]_vars, NEW d \in Calls, call'[d].fresh
             PROVE  /\ call'[d].at = "setnx" => call'[d].pick \notin Taken'
                    /\ call'[d].at = "fallback" => PaletteColors \subseteq Taken'
  BY DEF ReadIsTrue
<1> DEFINE Goal == /\ call'[d].at = "setnx" => call'[d].pick \notin Taken'
                   /\ call'[d].at = "fallback" => PaletteColors \subseteq Taken'
<1>0. /\ call[d].fresh /\ call[d].at = "setnx" => call[d].pick \notin Taken
      /\ call[d].fresh /\ call[d].at = "fallback" => PaletteColors \subseteq Taken
  BY DEF ReadIsTrue
<1>1. ASSUME UNCHANGED colors PROVE Taken' = Taken
  BY <1>1 DEF Taken
<1>2. ASSUME NEW c \in Calls, NEW rec, Becomes(c, rec), UNCHANGED colors,
             rec.fresh => /\ rec.at = "setnx" => rec.pick \notin Taken
                          /\ rec.at = "fallback" => PaletteColors \subseteq Taken
      PROVE  Goal
  <2>1. call'[d] = IF d = c THEN rec ELSE call[d]
    BY <1>2 DEF Becomes, TypeOK
  <2> QED
    BY <1>0, <1>1, <1>2, <2>1
<1>3. ASSUME NEW c \in Calls, NEW color, NEW rec, Store(c, color, rec), ~rec.fresh PROVE Goal
  <2>1. call'[d].fresh = FALSE
    BY <1>3 DEF Store, TypeOK, CallType
  <2> QED
    BY <2>1
<1>4. ASSUME NEW c \in Calls, Start(c) \/ Fail(c) \/ ReadExisting(c) \/ ReadConcurrent(c)
                              \/ ReadFinal(c)
      PROVE  Goal
  <2>1. \E rec \in {At("hget"), At("idle"), At("hvals"), At("fallback")}
                    \cup {[At("hvals") EXCEPT !.attempt = call[c].attempt + 1]}
                    \cup {Answer(p, colors[UserOf[c]]) : p \in {"expire", "idle"}} :
          Becomes(c, rec)
    BY <1>4 DEF Start, Fail, ReadExisting, ReadConcurrent, ReadFinal
  <2> QED
    BY <1>4, <1>2, <2>1, AtFields DEF Start, Fail, ReadExisting, ReadConcurrent, ReadFinal
<1>5. ASSUME NEW c \in Calls, ReadTaken(c) PROVE Goal
  <2>1. CASE \E i \in 1..Len(Palette) :
               /\ IsFirstFree(i)
               /\ Becomes(c, [call[c] EXCEPT !.at = "setnx", !.pick = Palette[i], !.fresh = TRUE])
    <3>1. PICK i \in 1..Len(Palette) :
            /\ IsFirstFree(i)
            /\ Becomes(c, [call[c] EXCEPT !.at = "setnx", !.pick = Palette[i], !.fresh = TRUE])
      BY <2>1
    <3> DEFINE rec == [call[c] EXCEPT !.at = "setnx", !.pick = Palette[i], !.fresh = TRUE]
    <3>2. rec.at = "setnx" /\ rec.pick = Palette[i]
      BY DEF TypeOK, CallType
    <3>3. Palette[i] \notin Taken
      BY <3>1 DEF IsFirstFree
    <3> HIDE DEF rec
    <3> QED
      BY <1>5, <1>2, <3>1, <3>2, <3>3 DEF ReadTaken, rec
  <2>2. CASE PaletteColors \subseteq Taken /\ Becomes(c, [At("fallback") EXCEPT !.fresh = TRUE])
    <3>1. [At("fallback") EXCEPT !.fresh = TRUE].at = "fallback"
      BY DEF At
    <3> QED
      BY <1>5, <1>2, <2>2, <3>1 DEF ReadTaken
  <2> QED
    BY <1>5, <2>1, <2>2 DEF ReadTaken
<1>6. ASSUME NEW c \in Calls, SetFree(c) \/ SetFallback(c) PROVE Goal
  BY <1>6, <1>2, <1>3, AtFields DEF SetFree, SetFallback
<1>7. ASSUME NEW c \in Calls, SetExpiry(c) PROVE Goal
  <2>1. \/ call'[d] = call[d]
        \/ call'[d].at \in {"idle", "final"}
    BY <1>7 DEF SetExpiry, Becomes, TypeOK, CallType
  <2> QED
    BY <1>7, <1>0, <1>1, <2>1 DEF SetExpiry
<1>8. CASE KeyLoss
  <2>1. call'[d].fresh = FALSE
    BY <1>8 DEF KeyLoss, TypeOK, CallType
  <2> QED
    BY <2>1
<1>9. CASE UNCHANGED vars
  BY <1>9, <1>0, <1>1 DEF vars
<1> QED
  BY <1>4, <1>5, <1>6, <1>7, <1>8, <1>9 DEF Next, Command

\* What Store does to the users' colours: of a fresh call, the new colour is
\* nobody's or none is left; of another, the user is late.
LEMMA StoreDiffers ==
  ASSUME TypeOK, ReadIsTrue, ColoursDiffer, NEW c \in Calls, NEW color, NEW rec,
         Store(c, color, rec), colors[UserOf[c]] = None,
         call[c].fresh => color \notin Taken \/ PaletteColors \subseteq Taken
  PROVE  ColoursDiffer'
<1> DEFINE w == UserOf[c]
<1>0. w \in Users /\ colors' = [colors EXCEPT ![w] = color] /\ late \subseteq late'
  BY ColorUsersAssumption DEF Store
<1>1. \A u \in Users \ {w} : colors'[u] = colors[u]
  BY <1>0 DEF TypeOK
<1>2. Taken \subseteq Taken'
  BY <1>0, <1>1 DEF Taken
<1>3. ASSUME NEW u \in Users \ {w}, colors'[u] # None, colors'[u] = colors'[w]
      PROVE  w \in late' \/ PaletteColors \subseteq Taken'
  <2>1. colors[u] \in Taken /\ colors[u] = color
    BY <1>0, <1>1, <1>3 DEF Taken, TypeOK
  <2>2. CASE call[c].fresh
    BY <1>2, <2>1, <2>2
  <2>3. CASE ~call[c].fresh
    BY <2>3 DEF Store
  <2> QED
    BY <2>2, <2>3
<1> QED
  BY <1>0, <1>1, <1>2, <1>3 DEF ColoursDiffer

\* Every step keeps ColoursDiffer.
LEMMA StepDiffer == TypeOK /\ ReadIsTrue /\ ColoursDiffer /\ [Next]_vars => ColoursDiffer'
<1> SUFFICES ASSUME TypeOK, ReadIsTrue, ColoursDiffer, [Next]_vars PROVE ColoursDiffer'
  OBVIOUS
<1>1. CASE UNCHANGED <<colors, late>>
  BY <1>1 DEF ColoursDiffer, Taken
<1>2. CASE KeyLoss
  BY <1>2 DEF KeyLoss, NoColors, ColoursDiffer
<1>3. ASSUME NEW c \in Calls, SetFree(c) PROVE ColoursDiffer'
  BY <1>1, <1>3, StoreDiffers DEF SetFree, ReadIsTrue
<1>4. ASSUME NEW c \in Calls, SetFallback(c) PROVE ColoursDiffer'
  BY <1>1, <1>4, StoreDiffers DEF SetFallback, ReadIsTrue
<1> QED
  BY <1>1, <1>2, <1>3, <1>4
     DEF Next, Command, Start, Fail, ReadExisting, ReadTaken, ReadConcurrent, ReadFinal,
         SetExpiry, vars

\* Two users share a colour only when one of them chose from an outdated read or
\* the palette is used up, for any number of tabs and any palette.
THEOREM ColoursDifferAlways == Spec => []ColoursDiffer
<1>1. Init => ReadIsTrue /\ ColoursDiffer
  BY DEF Init, ReadIsTrue, ColoursDiffer, At
<1>2. TypeOK /\ ReadIsTrue /\ ColoursDiffer /\ [Next]_vars => ReadIsTrue' /\ ColoursDiffer'
  BY StepRead, StepDiffer
<1> QED
  BY <1>1, <1>2, TypeCorrect, PTL DEF Spec
=============================================================================
