------------------------- MODULE YjsAwarenessProofs -------------------------
(***************************************************************************)
(* Theorems about YjsAwareness for any clients, connections and clocks,    *)
(* with or without throttled clients.                                      *)
(***************************************************************************)
EXTENDS YjsAwareness, SequenceTheorems, FiniteSetTheorems, TLAPS

\* An awareness frame of a client.
Frame == [clock : Nat, on : BOOLEAN]

\* The types without the bound on the clocks: what a clock has reached depends on
\* how many connections were lost.
Unbounded ==
  /\ present \in SUBSET Clients /\ clk \in [Clients -> Nat]
  /\ sock \in [Conns -> {"new", "open", "cut", "closed"}]
  /\ pending \in SUBSET Conns /\ reg \in SUBSET Conns
  /\ ctl \in [Conns -> SUBSET Clients]
  /\ up \in [Conns -> Seq(Frame)]
  /\ clock \in [Clients -> Nat] /\ here \in SUBSET Clients /\ again \in SUBSET Clients

\* A connection that is not registered controls nobody.
Unregistered == \A k \in Conns \ reg : ctl[k] = {}

-----------------------------------------------------------------------------
\* The frames of a client after it has sent one more.
LEMMA SendIs ==
  ASSUME Unbounded, NEW c \in Clients, NEW s \in Frame, Send(c, s)
  PROVE  /\ up' \in [Conns -> Seq(Frame)]
         /\ \A k \in Conns :
              \/ up'[k] = up[k]
              \/ /\ OwnerOf[k] = c /\ Len(up'[k]) = Len(up[k]) + 1
                 /\ \A i \in 1..Len(up'[k]) :
                      up'[k][i] = s \/ (i \in 1..Len(up[k]) /\ up'[k][i] = up[k][i])
<1>1. \A k \in Conns : up'[k] = IF k \in Open(c) THEN Append(up[k], s) ELSE up[k]
  BY DEF Send
<1>2. \A k \in Conns : up[k] \in Seq(Frame)
  BY DEF Unbounded
<1>3. \A k \in Conns : Append(up[k], s) \in Seq(Frame)
  BY <1>2
<1>4. up' \in [Conns -> Seq(Frame)]
  BY <1>1, <1>2, <1>3 DEF Send
<1>5. ASSUME NEW k \in Conns, k \in Open(c)
      PROVE  /\ Len(up'[k]) = Len(up[k]) + 1
             /\ \A i \in 1..Len(up'[k]) :
                  up'[k][i] = s \/ (i \in 1..Len(up[k]) /\ up'[k][i] = up[k][i])
  <2>1. up'[k] = Append(up[k], s) /\ up[k] \in Seq(Frame)
    BY <1>1, <1>2, <1>5
  <2>2. /\ Len(up'[k]) = Len(up[k]) + 1 /\ Len(up[k]) \in Nat
        /\ \A i \in 1..Len(up[k]) : up'[k][i] = up[k][i]
        /\ up'[k][Len(up[k]) + 1] = s
    BY <2>1, AppendProperties, LenProperties
  <2> QED
    BY <2>2
<1>6. \A k \in Open(c) : OwnerOf[k] = c
  BY DEF Open
<1> QED
  BY <1>1, <1>4, <1>5, <1>6

\* The frames of a connection after its first one has been taken off.
LEMMA TailIs ==
  ASSUME Unbounded, NEW k \in Conns, up[k] # <<>>, up' = [up EXCEPT ![k] = Tail(@)]
  PROVE  /\ up' \in [Conns -> Seq(Frame)]
         /\ Head(up[k]) \in Frame /\ 1 \in 1..Len(up[k])
         /\ Head(up[k]) = up[k][1]
         /\ \A j \in Conns \ {k} : up'[j] = up[j]
         /\ \A i \in 1..Len(up'[k]) : i + 1 \in 1..Len(up[k]) /\ up'[k][i] = up[k][i + 1]
<1>1. up[k] \in Seq(Frame)
  BY DEF Unbounded
<1>2. /\ Tail(up[k]) \in Seq(Frame) /\ Head(up[k]) \in Frame
      /\ Len(Tail(up[k])) = Len(up[k]) - 1
      /\ \A i \in 1..Len(Tail(up[k])) : Tail(up[k])[i] = up[k][i + 1]
  BY <1>1, HeadTailProperties
<1>20. Len(up[k]) \in Nat \ {0} /\ Head(up[k]) = up[k][1]
  BY <1>1, EmptySeq
<1>3. up'[k] = Tail(up[k]) /\ \A j \in Conns \ {k} : up'[j] = up[j]
  BY DEF Unbounded
<1>4. up' \in [Conns -> Seq(Frame)]
  BY <1>2 DEF Unbounded
<1> QED
  BY <1>2, <1>20, <1>3, <1>4

-----------------------------------------------------------------------------
\* The initial states satisfy the invariant.
LEMMA InitGhost == Init => Unbounded /\ Unregistered /\ GhostInv
<1> SUFFICES ASSUME Init PROVE Unbounded /\ Unregistered /\ GhostInv
  OBVIOUS
<1>1. Unbounded /\ Unregistered
  BY DEF Init, Unbounded, Unregistered
<1>2. GhostInv
  BY DEF Init, GhostInv, OfOneConnection
<1> QED
  BY <1>1, <1>2

\* Every step keeps the types.
LEMMA StepUnbounded ==
  Unbounded /\ Unregistered /\ [Next]_vars => Unbounded' /\ Unregistered'
<1> SUFFICES ASSUME Unbounded, Unregistered, [Next]_vars PROVE Unbounded' /\ Unregistered'
  OBVIOUS
<1> USE DEF Unregistered
<1>0. \A k \in Conns : OwnerOf[k] \in Clients
  BY OwnerOfAssumption
<1>1. ASSUME NEW k \in Conns, Connect(k) PROVE Unbounded' /\ Unregistered'
  <2>1. Own(OwnerOf[k]) \in Frame
    BY <1>0 DEF Own, Unbounded, Frame
  <2>2. <<Own(OwnerOf[k])>> \in Seq(Frame) /\ <<>> \in Seq(Frame)
    BY <2>1
  <2>3. up' \in [Conns -> Seq(Frame)]
    BY <1>1, <2>2 DEF Connect, Unbounded
  <2> QED
    BY <1>0, <1>1, <2>3 DEF Connect, Unbounded
<1>2. ASSUME NEW k \in Conns, Show(k) PROVE Unbounded' /\ Unregistered'
  <2> DEFINE c == OwnerOf[k]
  <2>1. \/ UNCHANGED <<clock, up>>
        \/ /\ clock' = [clock EXCEPT ![c] = @ + 1]
           /\ Send(c, [clock |-> clock[c] + 1, on |-> TRUE])
    BY <1>2 DEF Show
  <2>2. UNCHANGED <<server, sock, here, again>>
    BY <1>2 DEF Show
  <2>3. clock[c] + 1 \in Nat /\ [clock |-> clock[c] + 1, on |-> TRUE] \in Frame
    BY <1>0 DEF Unbounded, Frame
  <2>4. clock' \in [Clients -> Nat] /\ up' \in [Conns -> Seq(Frame)]
    BY <1>0, <2>1, <2>3, SendIs DEF Unbounded
  <2> QED
    BY <2>2, <2>4 DEF server, Unbounded
<1>3. ASSUME NEW k \in Conns, Cut(k) \/ Attach(k) PROVE Unbounded' /\ Unregistered'
  BY <1>3 DEF Cut, Attach, server, client, Unbounded
<1>4. ASSUME NEW k \in Conns, FrameDropped(k) PROVE Unbounded' /\ Unregistered'
  BY <1>4, TailIs DEF FrameDropped, server, client, Unbounded
<1>5. ASSUME NEW k \in Conns, HandleAwareness(k) PROVE Unbounded' /\ Unregistered'
  <2> DEFINE c == OwnerOf[k]
             e == Head(up[k])
  <2>1. /\ up[k] # <<>> /\ up' = [up EXCEPT ![k] = Tail(@)] /\ k \in reg
        /\ UNCHANGED <<pending, reg, sock, view, client>>
    BY <1>5 DEF HandleAwareness
  <2>2. e \in Frame /\ up' \in [Conns -> Seq(Frame)]
    BY <2>1, TailIs
  <2>3. \/ UNCHANGED <<clk, present, ctl>>
        \/ /\ clk' = [clk EXCEPT ![c] = e.clock]
           /\ present' = IF e.on THEN present \cup {c} ELSE present \ {c}
           /\ \E a, b \in BOOLEAN : ctl' = [ctl EXCEPT ![k] = Controlled(k, c, a, b)]
    BY <1>5, <2>2 DEF HandleAwareness
  <2>4. e.clock \in Nat /\ e.on \in BOOLEAN /\ c \in Clients
    BY <1>0, <2>2 DEF Frame
  <2>5. clk' \in [Clients -> Nat] /\ present' \in SUBSET Clients
    BY <2>3, <2>4 DEF Unbounded
  <2>6. \A a, b \in BOOLEAN : Controlled(k, c, a, b) \in SUBSET Clients
    BY <2>4 DEF Controlled, Unbounded
  <2>7. ctl' \in [Conns -> SUBSET Clients] /\ \A j \in Conns \ {k} : ctl'[j] = ctl[j]
    <3>1. UNCHANGED ctl \/ \E v \in SUBSET Clients : ctl' = [ctl EXCEPT ![k] = v]
      BY <2>3, <2>6
    <3> QED
      BY <3>1 DEF Unbounded
  <2> QED
    BY <2>1, <2>2, <2>5, <2>7 DEF client, Unbounded
<1>6. ASSUME NEW k \in Conns, SockClose(k) PROVE Unbounded' /\ Unregistered'
  BY <1>6 DEF SockClose, Remove, client, Unbounded
<1>7. ASSUME NEW c \in Clients, Outdate(c) PROVE Unbounded' /\ Unregistered'
  BY <1>7 DEF Outdate, Remove, client, Unbounded
<1>8. ASSUME NEW c \in Clients, NEW on \in BOOLEAN, SetLocal(c, on) PROVE Unbounded' /\ Unregistered'
  <2>1. clock[c] + 1 \in Nat /\ [clock |-> clock[c] + 1, on |-> on] \in Frame
    BY DEF Unbounded, Frame
  <2>2. up' \in [Conns -> Seq(Frame)]
    BY <1>8, <2>1, SendIs DEF SetLocal
  <2> QED
    BY <1>8, <2>1, <2>2 DEF SetLocal, server, Unbounded
<1>9. CASE UNCHANGED vars
  BY <1>9 DEF vars, Unbounded
<1> QED
  BY <1>1, <1>2, <1>3, <1>4, <1>5, <1>6, <1>7, <1>8, <1>9 DEF Next

\* What is controlled, or gone, in OfOneConnection.
Settled(c) ==
  \E k \in Conns : /\ OwnerOf[k] = c
                   /\ \/ k \in reg /\ c \in ctl[k] /\ sock[k] \in {"open", "cut"}
                      \/ c \notin present /\ sock[k] = "closed"

\* What a step that adds no state of c, and takes no control of c from a connection
\* that is not closed, leaves true.
LEMMA SettledStays ==
  ASSUME NEW c \in Clients, Settled(c),
         c \in present' => c \in present,
         \A k \in Conns : OwnerOf[k] = c =>
           /\ k \in reg /\ c \in ctl[k] /\ sock[k] \in {"open", "cut"} =>
                k \in reg' /\ c \in ctl'[k] /\ sock'[k] \in {"open", "cut"}
           /\ sock[k] = "closed" => sock'[k] = "closed"
  PROVE  Settled(c)'
  BY DEF Settled

\* Every step keeps the invariant: the connection that adds a client controls it,
\* no null comes to take that back, and the close that ends the control ends the
\* state.
LEMMA StepGhost == Unbounded /\ Unregistered /\ GhostInv /\ [Next]_vars => GhostInv'
<1> SUFFICES ASSUME Unbounded, Unregistered, GhostInv, [Next]_vars,
                    NEW c \in Clients, c \notin again'
             PROVE  OfOneConnection(c)'
  BY DEF GhostInv
<1> DEFINE One == \A j, k \in Conns : OwnerOf[j] = c /\ OwnerOf[k] = c /\ sock[j] # "new" /\ sock[k] # "new"
                                      => j = k
           AllOn == \A k \in Conns : OwnerOf[k] = c => \A i \in 1..Len(up[k]) : up[k][i].on
           Known == clk[c] # 0 \/ c \in present
<1>01. \A k \in Conns : OwnerOf[k] \in Clients
  BY OwnerOfAssumption
<1>02. again \subseteq again'
  <2>1. ASSUME NEW k \in Conns, Connect(k) PROVE again \subseteq again'
    BY <2>1 DEF Connect
  <2>2. ASSUME NEW d \in Clients, NEW on \in BOOLEAN, SetLocal(d, on) PROVE again \subseteq again'
    BY <2>2 DEF SetLocal
  <2>3. ASSUME NEW k \in Conns, Show(k) PROVE again' = again
    BY <2>3 DEF Show
  <2>4. ASSUME NEW k \in Conns, HandleAwareness(k) PROVE again' = again
    BY <2>4 DEF HandleAwareness, client
  <2>5. ASSUME NEW k \in Conns,
               Cut(k) \/ Attach(k) \/ FrameDropped(k) \/ SockClose(k)
        PROVE  again' = again
    BY <2>5 DEF Cut, Attach, FrameDropped, SockClose, client
  <2>6. (\E d \in Clients : Outdate(d)) \/ UNCHANGED vars => again' = again
    BY DEF Outdate, client, vars
  <2> QED
    BY <2>1, <2>2, <2>3, <2>4, <2>5, <2>6 DEF Next
<1>03. One /\ AllOn /\ (Known => Settled(c))
  BY <1>02 DEF GhostInv, OfOneConnection, Settled
<1>04. One' /\ AllOn' /\ (Known' => Settled(c)') => OfOneConnection(c)'
  BY DEF OfOneConnection, Settled
<1>05. \A k \in Conns : sock[k] \in {"new", "open", "cut", "closed"}
  BY DEF Unbounded
<1>1. ASSUME NEW k \in Conns, Connect(k) PROVE OfOneConnection(c)'
  <2>1. /\ sock[k] = "new" /\ sock' = [sock EXCEPT ![k] = "open"]
        /\ up' = [up EXCEPT ![k] = IF OwnerOf[k] \in here THEN <<Own(OwnerOf[k])>> ELSE <<>>]
        /\ UNCHANGED <<present, clk, reg, ctl>>
    BY <1>1 DEF Connect
  <2>2. ASSUME OwnerOf[k] = c, NEW j \in Conns, OwnerOf[j] = c PROVE sock[j] = "new"
    <3>1. again' = IF \E i \in Conns : OwnerOf[i] = OwnerOf[k] /\ sock[i] # "new"
                   THEN again \cup {OwnerOf[k]} ELSE again
      BY <1>1 DEF Connect
    <3> QED
      BY <2>2, <3>1
  <2>3. One'
    BY <1>03, <2>1, <2>2 DEF Unbounded
  <2>4. AllOn'
    <3> SUFFICES ASSUME NEW j \in Conns, OwnerOf[j] = c, NEW i \in 1..Len(up'[j])
                 PROVE  up'[j][i].on
      OBVIOUS
    <3>1. CASE j = k /\ c \in here
      <4>1. up'[j] = <<Own(c)>>
        BY <2>1, <3>1 DEF Unbounded
      <4>2. Len(<<Own(c)>>) = 1 /\ <<Own(c)>>[1] = Own(c)
        OBVIOUS
      <4>3. up'[j][i] = Own(c)
        BY <4>1, <4>2
      <4>4. Own(c).on = TRUE
        <5>1. (c \in here) = TRUE
          BY <3>1
        <5> QED
          BY <5>1 DEF Own
      <4> QED
        BY <4>3, <4>4
    <3>2. CASE j = k /\ c \notin here
      <4>1. up'[j] = <<>>
        BY <2>1, <3>2 DEF Unbounded
      <4> QED
        BY <4>1, EmptySeq
    <3>3. CASE j # k
      <4>1. up'[j] = up[j]
        BY <2>1, <3>3 DEF Unbounded
      <4> QED
        BY <1>03, <4>1
    <3> QED
      BY <3>1, <3>2, <3>3
  <2>5. ASSUME Known' PROVE Settled(c)'
    <3>1. Settled(c)
      BY <1>03, <2>1, <2>5
    <3>2. OwnerOf[k] # c
      BY <2>1, <2>2, <3>1 DEF Settled
    <3> QED
      BY <2>1, <3>1, <3>2, SettledStays DEF Unbounded
  <2> QED
    BY <1>04, <2>3, <2>4, <2>5
<1>2. ASSUME NEW k \in Conns, Show(k) PROVE OfOneConnection(c)'
  <2> DEFINE d == OwnerOf[k]
             answer == [clock |-> clock[d] + 1, on |-> TRUE]
  <2>1. UNCHANGED <<present, clk, reg, ctl, sock>>
    BY <1>2 DEF Show, server
  <2>2. up' = up \/ Send(d, answer)
    BY <1>2 DEF Show
  <2>3. answer \in Frame /\ answer.on = TRUE
    BY <1>01 DEF Frame, Unbounded
  <2> HIDE DEF answer
  <2>4. AllOn'
    BY <1>01, <1>03, <2>2, <2>3, SendIs
  <2> QED
    BY <1>03, <1>04, <2>1, <2>4 DEF Settled
<1>3. ASSUME NEW k \in Conns, Cut(k) PROVE OfOneConnection(c)'
  <2>1. sock[k] = "open" /\ sock' = [sock EXCEPT ![k] = "cut"] /\ UNCHANGED <<present, clk, reg, ctl, up>>
    BY <1>3 DEF Cut, server
  <2>2. One' /\ AllOn'
    BY <1>03, <2>1 DEF Unbounded
  <2>3. Known' => Settled(c)'
    BY <1>03, <2>1, SettledStays DEF Unbounded
  <2> QED
    BY <1>04, <2>2, <2>3
<1>4. ASSUME NEW k \in Conns, Attach(k) PROVE OfOneConnection(c)'
  <2>1. reg' = reg \cup {k} /\ UNCHANGED <<present, clk, ctl, sock, up>>
    BY <1>4 DEF Attach
  <2> QED
    BY <1>03, <1>04, <2>1, SettledStays
<1>5. ASSUME NEW k \in Conns, FrameDropped(k) PROVE OfOneConnection(c)'
  <2>1. up[k] # <<>> /\ up' = [up EXCEPT ![k] = Tail(@)] /\ UNCHANGED <<present, clk, ctl, reg, sock>>
    BY <1>5 DEF FrameDropped, server
  <2>2. AllOn'
    BY <1>03, <2>1, TailIs
  <2> QED
    BY <1>03, <1>04, <2>1, <2>2 DEF Settled
<1>6. ASSUME NEW k \in Conns, HandleAwareness(k) PROVE OfOneConnection(c)'
  <2> DEFINE d == OwnerOf[k]
             e == Head(up[k])
             applies == Applies(clk[d], d \in present, e)
             ctlNext == Controlled(k, d, ~(clk[d] # 0) /\ e.on, clk[d] # 0 /\ ~e.on)
  <2>1. /\ up[k] # <<>> /\ up' = [up EXCEPT ![k] = Tail(@)] /\ k \in reg
        /\ sock[k] \in {"open", "cut"} /\ UNCHANGED <<reg, sock>>
    BY <1>6 DEF HandleAwareness
  <2>2. \/ UNCHANGED <<clk, present, ctl>>
        \/ /\ applies
           /\ clk' = [clk EXCEPT ![d] = e.clock]
           /\ present' = IF e.on THEN present \cup {d} ELSE present \ {d}
           /\ ctl' = [ctl EXCEPT ![k] = ctlNext]
    BY <1>6 DEF HandleAwareness
  <2>3. AllOn' /\ One'
    BY <1>03, <2>1, TailIs
  <2>4. CASE UNCHANGED <<clk, present, ctl>>
    BY <1>03, <1>04, <2>1, <2>3, <2>4 DEF Settled
  <2>5. CASE /\ clk' = [clk EXCEPT ![d] = e.clock]
             /\ present' = IF e.on THEN present \cup {d} ELSE present \ {d}
             /\ ctl' = [ctl EXCEPT ![k] = ctlNext]
    <3>1. CASE d # c
      <4>1. clk'[c] = clk[c] /\ (c \in present' <=> c \in present)
            /\ \A j \in Conns \ {k} : ctl'[j] = ctl[j]
        BY <1>01, <2>5, <3>1 DEF Unbounded
      <4>2. Known' => Settled(c)'
        BY <1>03, <2>1, <3>1, <4>1, SettledStays
      <4> QED
        BY <1>04, <2>3, <4>2
    <3>2. CASE d = c
      <4>1. e.on
        BY <1>03, <2>1, <3>2, TailIs
      <4>2. ctl'[k] = ctlNext
        BY <2>5 DEF Unbounded
      <4>3. c \in ctl'[k]
        <5>1. CASE clk[c] = 0
          BY <3>2, <4>1, <4>2, <5>1 DEF Controlled
        <5>2. CASE clk[c] # 0
          <6>1. PICK w \in Conns : /\ OwnerOf[w] = c
                                   /\ \/ c \in ctl[w] /\ sock[w] \in {"open", "cut"}
                                      \/ sock[w] = "closed"
            BY <1>03, <5>2 DEF Settled
          <6>2. w = k
            BY <1>03, <2>1, <3>2, <6>1
          <6>3. c \in ctl[k]
            BY <2>1, <6>1, <6>2
          <6> QED
            BY <3>2, <4>1, <4>2, <5>2, <6>3 DEF Controlled
        <5> QED
          BY <5>1, <5>2
      <4>4. Settled(c)'
        BY <2>1, <3>2, <4>3 DEF Settled
      <4> QED
        BY <1>04, <2>3, <4>4
    <3> QED
      BY <3>1, <3>2
  <2> QED
    BY <2>2, <2>4, <2>5
<1>7. ASSUME NEW k \in Conns, SockClose(k) PROVE OfOneConnection(c)'
  <2>1. /\ sock[k] = "cut" /\ sock' = [sock EXCEPT ![k] = "closed"] /\ reg' = reg \ {k}
        /\ ctl' = [ctl EXCEPT ![k] = {}] /\ up' = [up EXCEPT ![k] = <<>>]
        /\ present' = present \ ctl[k] /\ UNCHANGED clk
    BY <1>7 DEF SockClose, Remove
  <2>2. One'
    BY <1>03, <2>1 DEF Unbounded
  <2>3. AllOn'
    <3> SUFFICES ASSUME NEW j \in Conns, OwnerOf[j] = c, NEW i \in 1..Len(up'[j])
                 PROVE  up'[j][i].on
      OBVIOUS
    <3>1. CASE j = k
      <4>1. up'[j] = <<>>
        BY <2>1, <3>1 DEF Unbounded
      <4> QED
        BY <4>1, EmptySeq
    <3>2. CASE j # k
      <4>1. up'[j] = up[j]
        BY <2>1, <3>2 DEF Unbounded
      <4> QED
        BY <1>03, <4>1
    <3> QED
      BY <3>1, <3>2
  <2>4. ASSUME Known' PROVE Settled(c)'
    <3>0. Settled(c)
      BY <1>03, <2>1, <2>4
    <3>1. CASE OwnerOf[k] # c
      <4>1. \A j \in Conns : OwnerOf[j] = c =>
              (j \in reg' <=> j \in reg) /\ ctl'[j] = ctl[j] /\ sock'[j] = sock[j]
        BY <2>1, <3>1 DEF Unbounded
      <4> QED
        BY <2>1, <3>0, <4>1, SettledStays
    <3>2. CASE OwnerOf[k] = c
      <4>1. PICK w \in Conns : /\ OwnerOf[w] = c
                               /\ \/ c \in ctl[w] /\ sock[w] \in {"open", "cut"}
                                  \/ sock[w] = "closed"
        BY <3>0 DEF Settled
      <4>2. w = k
        BY <1>03, <2>1, <3>2, <4>1
      <4>3. c \notin present' /\ sock'[k] = "closed"
        BY <2>1, <4>1, <4>2 DEF Unbounded
      <4> QED
        BY <3>2, <4>3 DEF Settled
    <3> QED
      BY <3>1, <3>2
  <2> QED
    BY <1>04, <2>2, <2>3, <2>4
<1>8. ASSUME NEW d \in Clients, Outdate(d) PROVE OfOneConnection(c)'
  <2>1. present' = present \ {d} /\ UNCHANGED <<clk, reg, ctl, sock, up>>
    BY <1>8 DEF Outdate, Remove
  <2> QED
    BY <1>03, <1>04, <2>1, SettledStays
<1>9. ASSUME NEW d \in Clients, NEW on \in BOOLEAN, SetLocal(d, on) PROVE OfOneConnection(c)'
  <2> DEFINE s == [clock |-> clock[d] + 1, on |-> on]
  <2>1. /\ UNCHANGED <<present, clk, reg, ctl, sock>> /\ Send(d, s)
        /\ again' = IF on THEN again ELSE again \cup {d}
    BY <1>9 DEF SetLocal, server
  <2>2. s \in Frame /\ s.on = on
    BY DEF Frame, Unbounded
  <2>3. d = c => on
    BY <2>1
  <2> HIDE DEF s
  <2>4. AllOn'
    BY <1>03, <2>1, <2>2, <2>3, SendIs
  <2> QED
    BY <1>03, <1>04, <2>1, <2>4 DEF Settled
<1>10. CASE UNCHANGED vars
  BY <1>03, <1>04, <1>10 DEF vars, Settled
<1> QED
  BY <1>1, <1>2, <1>3, <1>4, <1>5, <1>6, <1>7, <1>8, <1>9, <1>10 DEF Next

\* Whoever has had one connection and never set null leaves no state behind: his
\* state is controlled by that connection until its close is noticed.
THEOREM NoGhostAlways == Spec => []NoGhost
<1>1. Unbounded /\ Unregistered /\ GhostInv /\ [Next]_vars => Unbounded' /\ Unregistered' /\ GhostInv'
  BY StepUnbounded, StepGhost
<1>2. Unbounded /\ GhostInv => NoGhost
  BY DEF Unbounded, GhostInv, OfOneConnection, NoGhost
<1> QED
  BY <1>1, <1>2, InitGhost, PTL DEF Spec

-----------------------------------------------------------------------------
(* What a connection shows, and what it is still to be told.               *)

\* What a frame of the server tells of one client.
Told == [client : Clients, clock : Nat, on : BOOLEAN]

\* The types of what the connections show and of the frames on their way to them.
ViewTypes == /\ down \in [Conns -> Seq(SUBSET Told)]
             /\ view \in [Conns -> [Clients -> Frame]]

\* Where Append and Tail put the elements of a sequence.
LEMMA AppendAt ==
  ASSUME NEW S, NEW q \in Seq(S), NEW x \in S
  PROVE  /\ Append(q, x) \in Seq(S) /\ Len(q) \in Nat /\ Len(Append(q, x)) = Len(q) + 1
         /\ \A i \in 1..Len(Append(q, x)) :
              \/ i \in 1..Len(q) /\ Append(q, x)[i] = q[i]
              \/ i = Len(q) + 1 /\ Append(q, x)[i] = x
         /\ \A i \in 1..Len(q) : i \in 1..Len(Append(q, x)) /\ Append(q, x)[i] = q[i]
<1>1. Append(q, x) \in Seq(S) /\ Len(q) \in Nat /\ Len(Append(q, x)) = Len(q) + 1
  BY AppendProperties, LenProperties
<1>2. \A i \in 1..Len(q) : Append(q, x)[i] = q[i]
  BY AppendProperties
<1>3. Append(q, x)[Len(q) + 1] = x
  BY AppendProperties
<1> QED
  BY <1>1, <1>2, <1>3

LEMMA TailAt ==
  ASSUME NEW S, NEW q \in Seq(S), q # <<>>
  PROVE  /\ Tail(q) \in Seq(S) /\ Len(q) \in Nat /\ Len(Tail(q)) = Len(q) - 1
         /\ 1 \in 1..Len(q) /\ Head(q) = q[1] /\ Head(q) \in S
         /\ \A i \in 1..Len(Tail(q)) : i + 1 \in 1..Len(q) /\ Tail(q)[i] = q[i + 1]
         /\ \A i \in 1..Len(q) : i = 1 \/ (i - 1 \in 1..Len(Tail(q)) /\ q[i] = Tail(q)[i - 1])
<1>1. /\ Tail(q) \in Seq(S) /\ Len(Tail(q)) = Len(q) - 1 /\ Head(q) \in S
      /\ \A i \in 1..Len(Tail(q)) : Tail(q)[i] = q[i + 1]
  BY HeadTailProperties
<1>2. Len(q) \in Nat \ {0} /\ Head(q) = q[1]
  BY EmptySeq
<1> QED
  BY <1>1, <1>2

\* Below is transitive.
LEMMA BelowTrans ==
  ASSUME NEW a, NEW b, NEW d, a.clock \in Nat, b.clock \in Nat, d.clock \in Nat,
         Below(a, b), Below(b, d)
  PROVE  Below(a, d)
  BY DEF Below

\* A frame that tells nothing of c leaves what is told of c as it was.
LEMMA FollowsSilent ==
  ASSUME NEW q \in Seq(SUBSET Told), NEW F \in SUBSET Told, NEW v, NEW c, NEW srv,
         Follows(q, v, c, srv), About(F, c) = {}
  PROVE  Follows(Append(q, F), v, c, srv)
<1> DEFINE p == Append(q, F)
<1>1. /\ \A i \in 1..Len(p) : \/ i \in 1..Len(q) /\ p[i] = q[i]
                              \/ i = Len(q) + 1 /\ p[i] = F
      /\ \A i \in 1..Len(q) : i \in 1..Len(p) /\ p[i] = q[i]
  BY AppendAt
<1> HIDE DEF p
<1>2. Follows(p, v, c, srv)
  BY <1>1 DEF Follows
<1> QED
  BY <1>2 DEF p

\* A frame that tells what the room now has of c keeps the order.
LEMMA FollowsTold ==
  ASSUME NEW q \in Seq(SUBSET Told), NEW F \in SUBSET Told, NEW v \in Frame, NEW c,
         NEW srv \in Frame, NEW new \in Frame, NEW e \in About(F, c),
         Follows(q, v, c, srv), \A f \in About(F, c) : f = e,
         e.clock = new.clock, e.on = new.on, Below(srv, new)
  PROVE  Follows(Append(q, F), v, c, new)
<1> DEFINE p == Append(q, F)
<1>1. /\ Len(q) \in Nat /\ Len(p) = Len(q) + 1
      /\ \A i \in 1..Len(p) : \/ i \in 1..Len(q) /\ p[i] = q[i]
                              \/ i = Len(q) + 1 /\ p[i] = F
      /\ \A i \in 1..Len(q) : i \in 1..Len(p) /\ p[i] = q[i]
      /\ Len(q) + 1 \in 1..Len(p) /\ p[Len(q) + 1] = F
  BY AppendAt
<1>2. \A i \in 1..Len(q) : \A f \in About(q[i], c) : f \in Told
  BY DEF About
<1>3. Below(v, new)
  BY BelowTrans DEF Follows, Frame
<1>4. ASSUME NEW i \in 1..Len(q), NEW f \in About(q[i], c) PROVE Below(f, new) /\ Below(f, e)
  <2>1. Below(f, new)
    BY <1>2, <1>4, BelowTrans DEF Follows, Frame, Told
  <2> QED
    BY <2>1 DEF Below
<1>5. Below(v, e) /\ Below(e, new) /\ UpToDate(e, new)
  BY <1>3 DEF Below, UpToDate, Frame
<1> HIDE DEF p
<1>6. ASSUME NEW i \in 1..Len(p), NEW f \in About(p[i], c)
      PROVE  /\ \A g \in About(p[i], c) : f = g
             /\ Below(v, f) /\ Below(f, new)
             /\ \A j \in 1..Len(p) : j < i => \A g \in About(p[j], c) : Below(g, f)
             /\ (\A j \in 1..Len(p) : i < j => About(p[j], c) = {}) => UpToDate(f, new)
  <2>1. CASE i \in 1..Len(q) /\ p[i] = q[i]
    <3>1. \A j \in 1..Len(p) : j < i => j \in 1..Len(q) /\ p[j] = q[j]
      BY <1>1, <2>1
    <3>2. i < Len(q) + 1 /\ About(p[Len(q) + 1], c) # {}
      BY <1>1, <2>1
    <3>3. /\ \A g \in About(q[i], c) : f = g
          /\ Below(v, f)
          /\ \A j \in 1..Len(q) : j < i => \A g \in About(q[j], c) : Below(g, f)
      BY <1>6, <2>1 DEF Follows
    <3> QED
      BY <1>1, <1>4, <1>6, <2>1, <3>1, <3>2, <3>3
  <2>2. CASE i = Len(q) + 1 /\ p[i] = F
    <3>1. f = e
      BY <1>6, <2>2
    <3>2. \A j \in 1..Len(p) : j < i => j \in 1..Len(q) /\ p[j] = q[j]
      BY <1>1, <2>2
    <3> QED
      BY <1>4, <1>5, <2>2, <3>1, <3>2
  <2> QED
    BY <1>1, <2>1, <2>2
<1>7. Follows(p, v, c, new)
  <2>1. ~\A i \in 1..Len(p) : About(p[i], c) = {}
    BY <1>1
  <2> QED
    BY <1>3, <1>6, <2>1 DEF Follows
<1> QED
  BY <1>7 DEF p

\* A newer clock of a state that is gone need not be told.
LEMMA FollowsQuiet ==
  ASSUME NEW q \in Seq(SUBSET Told), NEW v \in Frame, NEW c, NEW srv \in Frame,
         NEW new \in Frame, Follows(q, v, c, srv), Below(srv, new), ~srv.on, ~new.on
  PROVE  Follows(q, v, c, new)
<1>1. \A i \in 1..Len(q) : \A f \in About(q[i], c) : f \in Told
  BY DEF About
<1>2. Below(v, new)
  BY BelowTrans DEF Follows, Frame
<1>3. \A i \in 1..Len(q) : \A f \in About(q[i], c) : Below(f, new)
  BY <1>1, BelowTrans DEF Follows, Frame, Told
<1>4. \A f : UpToDate(f, srv) => UpToDate(f, new)
  BY DEF UpToDate
<1> QED
  BY <1>2, <1>3, <1>4 DEF Follows

\* What the client takes over when the first frame arrives.
LEMMA FollowsShown ==
  ASSUME NEW q \in Seq(SUBSET Told), q # <<>>, NEW v \in Frame, NEW c, NEW srv \in Frame,
         NEW w \in Frame, Follows(q, v, c, srv),
         \/ \E e \in About(Head(q), c) : w.clock = e.clock /\ w.on = e.on
         \/ w = v /\ \A e \in About(Head(q), c) : ~Applies(v.clock, v.on, e)
  PROVE  Follows(Tail(q), w, c, srv)
<1> DEFINE p == Tail(q)
<1>1. /\ Len(q) \in Nat /\ Len(p) = Len(q) - 1
      /\ 1 \in 1..Len(q) /\ Head(q) = q[1] /\ Head(q) \in SUBSET Told
      /\ \A i \in 1..Len(p) : i + 1 \in 1..Len(q) /\ p[i] = q[i + 1]
      /\ \A i \in 1..Len(q) : i = 1 \/ (i - 1 \in 1..Len(p) /\ q[i] = p[i - 1])
  BY TailAt
<1> HIDE DEF p
<1>2. \/ \E e \in About(q[1], c) : w.clock = e.clock /\ w.on = e.on
      \/ w = v /\ About(q[1], c) = {}
  <2>1. ASSUME NEW e \in About(q[1], c), ~Applies(v.clock, v.on, e)
        PROVE  v.clock = e.clock /\ v.on = e.on
    <3>1. Below(v, e)
      BY <1>1 DEF Follows
    <3>2. e.clock \in Nat /\ e.on \in BOOLEAN /\ v.clock \in Nat /\ v.on \in BOOLEAN
      BY <1>1 DEF About, Told, Frame
    <3> QED
      BY <2>1, <3>1, <3>2 DEF Below, Applies
  <2> QED
    BY <1>1, <2>1
<1>3. ASSUME NEW i \in 1..Len(p), NEW f \in About(p[i], c)
      PROVE  /\ \A g \in About(p[i], c) : f = g
             /\ Below(w, f) /\ Below(f, srv)
             /\ \A j \in 1..Len(p) : j < i => \A g \in About(p[j], c) : Below(g, f)
             /\ (\A j \in 1..Len(p) : i < j => About(p[j], c) = {}) => UpToDate(f, srv)
  <2>1. i + 1 \in 1..Len(q) /\ p[i] = q[i + 1] /\ 1 < i + 1 /\ i \in Nat
    BY <1>1
  <2>2. /\ \A g \in About(q[i + 1], c) : f = g
        /\ Below(v, f) /\ Below(f, srv)
        /\ \A j \in 1..Len(q) : j < i + 1 => \A g \in About(q[j], c) : Below(g, f)
        /\ (\A j \in 1..Len(q) : i + 1 < j => About(q[j], c) = {}) => UpToDate(f, srv)
    BY <1>3, <2>1 DEF Follows
  <2>3. Below(w, f)
    <3>1. \A g \in About(q[1], c) : Below(g, f)
      BY <1>1, <2>1, <2>2
    <3> QED
      BY <1>2, <2>2, <3>1 DEF Below
  <2>4. \A j \in 1..Len(p) : j < i => \A g \in About(p[j], c) : Below(g, f)
    BY <1>1, <2>1, <2>2
  <2>5. (\A j \in 1..Len(p) : i < j => About(p[j], c) = {}) =>
          \A j \in 1..Len(q) : i + 1 < j => About(q[j], c) = {}
    <3> SUFFICES ASSUME \A j \in 1..Len(p) : i < j => About(p[j], c) = {},
                        NEW j \in 1..Len(q), i + 1 < j
                 PROVE  About(q[j], c) = {}
      OBVIOUS
    <3>1. j \in Nat /\ j # 1 /\ i < j - 1
      BY <1>1, <2>1
    <3>2. j - 1 \in 1..Len(p) /\ q[j] = p[j - 1]
      BY <1>1, <3>1
    <3> QED
      BY <3>1, <3>2
  <2> QED
    BY <2>1, <2>2, <2>3, <2>4, <2>5
<1>4. Below(w, srv)
  BY <1>1, <1>2 DEF Follows, Below
<1>5. (\A i \in 1..Len(p) : About(p[i], c) = {}) => UpToDate(w, srv)
  <2> SUFFICES ASSUME \A i \in 1..Len(p) : About(p[i], c) = {} PROVE UpToDate(w, srv)
    OBVIOUS
  <2>1. ASSUME NEW j \in 1..Len(q), 1 < j PROVE About(q[j], c) = {}
    <3>1. j # 1
      BY <2>1
    <3>2. j - 1 \in 1..Len(p) /\ q[j] = p[j - 1]
      BY <1>1, <3>1
    <3> QED
      BY <3>2
  <2>2. ASSUME About(q[1], c) = {} PROVE UpToDate(v, srv)
    <3>1. \A j \in 1..Len(q) : About(q[j], c) = {}
      BY <1>1, <2>1, <2>2
    <3> QED
      BY <3>1 DEF Follows
  <2>3. \A e \in About(q[1], c) : UpToDate(e, srv)
    BY <1>1, <2>1 DEF Follows
  <2> QED
    BY <1>2, <2>2, <2>3 DEF UpToDate
<1>6. Follows(p, w, c, srv)
  BY <1>3, <1>4, <1>5 DEF Follows
<1> QED
  BY <1>6 DEF p

\* What Broadcast puts on the way.
LEMMA BroadcastIs ==
  ASSUME ViewTypes, NEW R \in SUBSET Conns, NEW E \in SUBSET Told, NEW X \in SUBSET Conns,
         Broadcast(R, E, X)
  PROVE  /\ down' \in [Conns -> Seq(SUBSET Told)]
         /\ \A k \in Conns : k \in R \ X /\ sock[k] = "open" =>
              down'[k] = IF E # {} THEN Append(down[k], E) ELSE down[k]
         /\ \A k \in Conns : k \notin R \ X \/ sock[k] # "open" => down'[k] = down[k]
<1>1. \A k \in Conns : down'[k] = IF k \in R \ X /\ sock[k] = "open" /\ E # {}
                                  THEN Append(down[k], E) ELSE down[k]
  BY DEF Broadcast
<1>2. \A k \in Conns : down[k] \in Seq(SUBSET Told) /\ Append(down[k], E) \in Seq(SUBSET Told)
  BY AppendAt DEF ViewTypes
<1>3. down' \in [Conns -> Seq(SUBSET Told)]
  BY <1>2 DEF Broadcast
<1> QED
  BY <1>1, <1>3

\* What the room has of each client.
LEMMA SrvIs ==
  ASSUME Unbounded, NEW c \in Clients
  PROVE  Srv(c) \in Frame /\ Srv(c).clock = clk[c] /\ Srv(c).on = (c \in present)
  BY DEF Srv, Frame, Unbounded

\* The frames that keep, for every connection that is told, what it follows.
Following(k) == \A c \in Clients \ {OwnerOf[k]} : Follows(down[k], view[k][c], c, Srv(c))

\* Removing states tells everybody who is still registered.
LEMMA RemoveFollows ==
  ASSUME Unbounded, Unbounded', ViewTypes, ViewsInv, NEW S \in SUBSET Clients, NEW R \in SUBSET reg,
         Remove(S, R), clk' = clk, view' = view
  PROVE  /\ down' \in [Conns -> Seq(SUBSET Told)]
         /\ \A c \in present' : clk'[c] > 0
         /\ \A k \in Conns : k \notin R \/ sock[k] # "open" => down'[k] = down[k]
         /\ \A k \in R : sock[k] = "open" => Following(k)'
<1> DEFINE gone(c) == [client |-> c, clock |-> clk[c], on |-> FALSE]
           E == {gone(c) : c \in S \cap present}
<1>0. \A c \in Clients : /\ gone(c) \in Told /\ gone(c).client = c
                         /\ gone(c).clock = clk[c] /\ gone(c).on = FALSE
  BY DEF Told, Unbounded
<1>2. Broadcast(R, E, {}) /\ present' = present \ S
  BY DEF Remove
<1> HIDE DEF gone
<1>1. E \in SUBSET Told
  BY <1>0
<1>3. ASSUME NEW c \in Clients
      PROVE  /\ c \in S \cap present => gone(c) \in About(E, c) /\ \A f \in About(E, c) : f = gone(c)
             /\ c \notin S \cap present => About(E, c) = {}
  <2>1. \A f \in E : f = gone(f.client) /\ f.client \in S \cap present
    BY <1>0
  <2> QED
    BY <1>0, <2>1 DEF About
<1> HIDE DEF E
<1>4. /\ \A k \in Conns : k \in R /\ sock[k] = "open" =>
           down'[k] = IF E # {} THEN Append(down[k], E) ELSE down[k]
      /\ down' \in [Conns -> Seq(SUBSET Told)]
      /\ \A k \in Conns : k \notin R \/ sock[k] # "open" => down'[k] = down[k]
  <2>1. /\ \A k \in Conns : k \in R \ {} /\ sock[k] = "open" =>
             down'[k] = IF E # {} THEN Append(down[k], E) ELSE down[k]
        /\ down' \in [Conns -> Seq(SUBSET Told)]
        /\ \A k \in Conns : k \notin R \ {} \/ sock[k] # "open" => down'[k] = down[k]
    <3>1. R \in SUBSET Conns /\ {} \in SUBSET Conns
      BY DEF Unbounded
    <3> QED
      BY <1>1, <1>2, <3>1, BroadcastIs
  <2> QED
    BY <2>1
<1>5. ASSUME NEW k \in R, sock[k] = "open", NEW c \in Clients \ {OwnerOf[k]}
      PROVE  Follows(down'[k], view'[k][c], c, Srv(c)')
  <2>1. /\ k \in Conns /\ down[k] \in Seq(SUBSET Told) /\ view[k][c] \in Frame
        /\ Follows(down[k], view[k][c], c, Srv(c)) /\ view'[k][c] = view[k][c]
    BY <1>5 DEF ViewsInv, ViewTypes, Unbounded
  <2>2. down'[k] = IF E # {} THEN Append(down[k], E) ELSE down[k]
    BY <1>4, <1>5, <2>1
  <2>3. /\ Srv(c) \in Frame /\ Srv(c).clock = clk[c] /\ Srv(c).on = (c \in present)
        /\ Srv(c)' \in Frame /\ Srv(c)'.clock = clk'[c] /\ Srv(c)'.on = (c \in present')
    BY SrvIs DEF Srv, Frame, Unbounded
  <2>4. CASE c \in S \cap present
    <3>1. Below(Srv(c), Srv(c)')
      BY <1>2, <2>3, <2>4 DEF Below
    <3>2. Srv(c)'.on = FALSE
      <4>1. (c \in present') = FALSE
        BY <1>2, <2>4
      <4> QED
        BY <2>3, <4>1
    <3>3. /\ gone(c) \in About(E, c) /\ \A f \in About(E, c) : f = gone(c)
          /\ gone(c).clock = Srv(c)'.clock /\ gone(c).on = Srv(c)'.on
      BY <1>0, <1>3, <2>3, <2>4, <3>2
    <3>4. Follows(Append(down[k], E), view[k][c], c, Srv(c)')
      BY <1>1, <2>1, <2>3, <3>1, <3>3, FollowsTold
    <3> QED
      BY <2>1, <2>2, <3>3, <3>4 DEF About
  <2>5. CASE c \notin S \cap present
    <3>1. Srv(c)' = Srv(c) /\ About(E, c) = {}
      <4>1. clk'[c] = clk[c] /\ (c \in present') = (c \in present)
        BY <1>2, <2>5
      <4> QED
        BY <1>3, <2>5, <4>1 DEF Srv
    <3>2. Follows(down'[k], view[k][c], c, Srv(c))
      BY <1>1, <2>1, <2>2, <3>1, FollowsSilent
    <3> QED
      BY <2>1, <3>1, <3>2
  <2> QED
    BY <2>4, <2>5
<1>6. \A k \in R : sock[k] = "open" => Following(k)'
  BY <1>5 DEF Following
<1> QED
  BY <1>2, <1>4, <1>6 DEF ViewsInv

\* A frame that arrives brings what is shown nearer to the room.
LEMMA ShowFollows ==
  ASSUME Unbounded, ViewTypes, ViewsInv, NEW k \in Conns, Show(k)
  PROVE  ViewTypes' /\ ViewsInv'
<1> DEFINE own == OwnerOf[k]
           told(d) == {e \in Head(down[k]) : e.client = d /\ Applies(view[k][d].clock, view[k][d].on, e)}
           shown(d) == IF d # own /\ told(d) # {}
                       THEN LET e == CHOOSE e \in told(d) : TRUE IN [clock |-> e.clock, on |-> e.on]
                       ELSE view[k][d]
<1>1. /\ sock[k] = "open" /\ down[k] # <<>>
      /\ down' = [down EXCEPT ![k] = Tail(@)]
      /\ view' = [view EXCEPT ![k] = [d \in Clients |-> shown(d)]]
      /\ UNCHANGED <<present, clk, pending, reg, ctl, sock>>
  BY DEF Show, server
<1>2. k \in reg
  BY <1>1 DEF ViewsInv, OnlyRegistered
<1>3. /\ down[k] \in Seq(SUBSET Told) /\ Tail(down[k]) \in Seq(SUBSET Told)
      /\ Head(down[k]) \in SUBSET Told
  BY <1>1, TailAt DEF ViewTypes
<1>30. \A d \in Clients :
         \/ d # own /\ \E e \in told(d) : shown(d) = [clock |-> e.clock, on |-> e.on]
         \/ ~(d # own /\ told(d) # {}) /\ shown(d) = view[k][d]
  OBVIOUS
<1> HIDE DEF shown
<1>4. ASSUME NEW d \in Clients
      PROVE  /\ shown(d) \in Frame
             /\ d # own =>
                  \/ \E e \in About(Head(down[k]), d) : shown(d).clock = e.clock /\ shown(d).on = e.on
                  \/ /\ shown(d) = view[k][d]
                     /\ \A e \in About(Head(down[k]), d) : ~Applies(view[k][d].clock, view[k][d].on, e)
  <2>1. CASE d # own /\ \E e \in told(d) : shown(d) = [clock |-> e.clock, on |-> e.on]
    <3>1. PICK e \in told(d) : shown(d) = [clock |-> e.clock, on |-> e.on]
      BY <2>1
    <3>2. e \in About(Head(down[k]), d) /\ e.clock \in Nat /\ e.on \in BOOLEAN
      BY <1>3 DEF About, Told
    <3>3. shown(d) \in Frame /\ shown(d).clock = e.clock /\ shown(d).on = e.on
      BY <3>1, <3>2 DEF Frame
    <3> QED
      BY <3>2, <3>3
  <2>2. CASE ~(d # own /\ told(d) # {}) /\ shown(d) = view[k][d]
    <3>1. view[k][d] \in Frame
      BY DEF ViewTypes
    <3> QED
      BY <2>2, <3>1 DEF About
  <2> QED
    BY <1>30, <2>1, <2>2
<1>5. /\ down'[k] = Tail(down[k]) /\ \A d \in Clients : view'[k][d] = shown(d)
      /\ \A j \in Conns \ {k} : down'[j] = down[j] /\ view'[j] = view[j]
  BY <1>1 DEF ViewTypes
<1>6. ViewTypes'
  BY <1>1, <1>3, <1>4 DEF ViewTypes
<1>7. OnlyRegistered' /\ \A c \in present' : clk'[c] > 0
  BY <1>1, <1>2, <1>5 DEF ViewsInv, OnlyRegistered
<1>8. ASSUME NEW j \in reg', sock'[j] = "open", NEW c \in Clients \ {OwnerOf[j]}
      PROVE  Follows(down'[j], view'[j][c], c, Srv(c)')
  <2>1. Srv(c)' = Srv(c) /\ Srv(c) \in Frame
    BY <1>1, SrvIs DEF Srv
  <2>2. Follows(down[j], view[j][c], c, Srv(c)) /\ view[j][c] \in Frame /\ j \in Conns
    BY <1>1, <1>8 DEF ViewsInv, ViewTypes, Unbounded
  <2>3. CASE j = k
    <3>1. Follows(Tail(down[k]), shown(c), c, Srv(c))
      BY <1>1, <1>3, <1>4, <1>8, <2>1, <2>2, <2>3, FollowsShown
    <3> QED
      BY <1>5, <2>1, <2>3, <3>1
  <2>4. CASE j # k
    BY <1>5, <2>1, <2>2, <2>4
  <2> QED
    BY <2>3, <2>4
<1> QED
  BY <1>6, <1>7, <1>8 DEF ViewsInv

\* A connection that is registered is told of everybody who is there.
LEMMA AttachFollows ==
  ASSUME Unbounded, ViewTypes, ViewsInv, NEW k \in Conns, Attach(k)
  PROVE  ViewTypes' /\ ViewsInv'
<1> DEFINE snap(c) == [client |-> c, clock |-> clk[c], on |-> TRUE]
           F == {snap(c) : c \in present}
<1>1. /\ k \in pending /\ pending' = pending \ {k} /\ reg' = reg \cup {k}
      /\ UNCHANGED <<present, clk, sock, view>>
      /\ IF sock[k] = "open" /\ present # {}
         THEN down' = [down EXCEPT ![k] = <<F>>] ELSE down' = down
  BY DEF Attach
<1>2. \A c \in present : /\ snap(c) \in Told /\ snap(c).client = c
                         /\ snap(c).clock = clk[c] /\ snap(c).on = TRUE
  BY DEF Told, Unbounded
<1> HIDE DEF snap
<1>3. F \in SUBSET Told
  BY <1>2
<1>4. ASSUME NEW c \in Clients
      PROVE  /\ c \in present => snap(c) \in About(F, c) /\ \A f \in About(F, c) : f = snap(c)
             /\ c \notin present => About(F, c) = {}
  <2>1. \A f \in F : f = snap(f.client) /\ f.client \in present
    BY <1>2
  <2> QED
    BY <1>2, <2>1 DEF About
<1>5. k \notin reg /\ down[k] = <<>> /\ view[k] = Nothing
  BY <1>1 DEF ViewsInv, OnlyRegistered
<1> HIDE DEF F
<1>6. /\ <<>> \in Seq(SUBSET Told) /\ <<F>> \in Seq(SUBSET Told) /\ <<F>> = Append(<<>>, F)
      /\ Len(<<>>) = 0
  BY <1>3
<1>7. ViewTypes'
  BY <1>1, <1>6 DEF ViewTypes
<1>8. OnlyRegistered' /\ \A c \in present' : clk'[c] > 0
  BY <1>1, <1>5 DEF ViewsInv, OnlyRegistered, ViewTypes
<1>9. ASSUME NEW c \in Clients, sock[k] = "open"
      PROVE  Follows(down'[k], view[k][c], c, Srv(c))
  <2> DEFINE v == [clock |-> 0, on |-> FALSE]
  <2>1. view[k][c] = v /\ v \in Frame /\ v.clock = 0 /\ v.on = FALSE
    BY <1>5 DEF Nothing, Frame
  <2>2. Srv(c) \in Frame /\ Srv(c).clock = clk[c] /\ Srv(c).on = (c \in present)
    BY SrvIs
  <2> HIDE DEF v
  <2>3. ASSUME NEW s \in Frame, Below(v, s), ~s.on PROVE Follows(<<>>, v, c, s)
    BY <1>6, <2>1, <2>3 DEF Follows, UpToDate
  <2>4. CASE c \in present
    <3>1. Below(v, Srv(c))
      BY <2>1, <2>2, <2>4 DEF Below, ViewsInv
    <3>2. Follows(<<>>, v, c, v)
      BY <2>1, <2>3 DEF Below
    <3>3. snap(c).clock = Srv(c).clock /\ snap(c).on = Srv(c).on /\ snap(c) \in About(F, c)
          /\ \A f \in About(F, c) : f = snap(c)
      <4>1. (c \in present) = TRUE
        BY <2>4
      <4> QED
        BY <1>2, <1>4, <2>2, <2>4, <4>1
    <3>4. Follows(<<F>>, v, c, Srv(c))
      BY <1>3, <1>6, <2>1, <2>2, <3>1, <3>2, <3>3, FollowsTold
    <3>5. down'[k] = <<F>>
      BY <1>1, <1>9, <2>4 DEF ViewTypes
    <3> QED
      BY <2>1, <3>4, <3>5
  <2>5. CASE c \notin present
    <3>1. Below(v, Srv(c)) /\ ~Srv(c).on
      <4>1. (c \in present) = FALSE /\ clk[c] \in Nat
        BY <2>5 DEF Unbounded
      <4>2. Srv(c).on = FALSE
        BY <2>2, <4>1
      <4>3. v.clock < Srv(c).clock \/ v.clock = Srv(c).clock
        BY <2>1, <2>2, <4>1
      <4> QED
        BY <4>2, <4>3 DEF Below
    <3>2. Follows(<<>>, v, c, Srv(c))
      BY <2>2, <2>3, <3>1
    <3>3. Follows(<<F>>, v, c, Srv(c))
      BY <1>3, <1>4, <1>6, <2>5, <3>2, FollowsSilent
    <3>4. down'[k] \in {<<>>, <<F>>}
      BY <1>1, <1>5 DEF ViewTypes
    <3> QED
      BY <2>1, <3>2, <3>3, <3>4
  <2> QED
    BY <2>4, <2>5
<1>10. ASSUME NEW j \in reg', sock'[j] = "open", NEW c \in Clients \ {OwnerOf[j]}
       PROVE  Follows(down'[j], view'[j][c], c, Srv(c)')
  <2>1. Srv(c)' = Srv(c) /\ view' = view
    BY <1>1 DEF Srv
  <2>2. CASE j = k
    BY <1>1, <1>9, <1>10, <2>1, <2>2
  <2>3. CASE j # k
    <3>1. j \in reg /\ sock[j] = "open" /\ down'[j] = down[j]
      BY <1>1, <1>10, <2>3 DEF ViewTypes, Unbounded
    <3> QED
      BY <1>10, <2>1, <3>1 DEF ViewsInv
  <2> QED
    BY <2>2, <2>3
<1> QED
  BY <1>7, <1>8, <1>10 DEF ViewsInv

\* What the room learns of a client it tells everybody else, or nobody when it has
\* never known him and he is gone.
LEMMA HandleFollows ==
  ASSUME Unbounded, Unbounded', ViewTypes, ViewsInv, NEW k \in Conns, HandleAwareness(k)
  PROVE  ViewTypes' /\ ViewsInv'
<1> DEFINE c == OwnerOf[k]
           e == Head(up[k])
           known == clk[c] # 0
           told == [client |-> c, clock |-> e.clock, on |-> e.on]
           E == IF known \/ e.on THEN {told} ELSE {}
<1>1. /\ up[k] # <<>> /\ up' = [up EXCEPT ![k] = Tail(@)] /\ k \in reg
      /\ UNCHANGED <<pending, reg, sock, view>>
      /\ IF Applies(clk[c], c \in present, e)
         THEN /\ clk' = [clk EXCEPT ![c] = e.clock]
              /\ present' = IF e.on THEN present \cup {c} ELSE present \ {c}
              /\ Broadcast(reg, E, {k})
         ELSE UNCHANGED <<clk, present, ctl, down>>
  BY DEF HandleAwareness
<1>2. c \in Clients /\ e \in Frame /\ e.clock \in Nat /\ e.on \in BOOLEAN
  BY <1>1, OwnerOfAssumption, TailIs DEF Frame
<1>3. CASE ~Applies(clk[c], c \in present, e)
  BY <1>1, <1>3 DEF ViewTypes, ViewsInv, OnlyRegistered, Srv
<1>4. CASE Applies(clk[c], c \in present, e)
  <2>1. told \in Told /\ told.client = c /\ told.clock = e.clock /\ told.on = e.on
    BY <1>2 DEF Told
  <2> HIDE DEF told
  <2>2. /\ E \in SUBSET Told
        /\ known \/ e.on => told \in About(E, c) /\ \A f \in About(E, c) : f = told
        /\ ~(known \/ e.on) => About(E, c) = {}
        /\ \A d \in Clients \ {c} : About(E, d) = {}
    BY <2>1 DEF About
  <2> HIDE DEF E
  <2>3. /\ down' \in [Conns -> Seq(SUBSET Told)]
        /\ \A j \in Conns : j \in reg \ {k} /\ sock[j] = "open" =>
             down'[j] = IF E # {} THEN Append(down[j], E) ELSE down[j]
        /\ \A j \in Conns : j \notin reg \ {k} \/ sock[j] # "open" => down'[j] = down[j]
    <3>1. reg \in SUBSET Conns /\ {k} \in SUBSET Conns
      BY DEF Unbounded
    <3> QED
      BY <1>1, <1>4, <2>2, <3>1, BroadcastIs
  <2>4. /\ clk'[c] = e.clock /\ \A d \in Clients \ {c} : clk'[d] = clk[d]
        /\ (c \in present') = e.on /\ \A d \in Clients \ {c} : (d \in present') = (d \in present)
    BY <1>1, <1>2, <1>4 DEF Unbounded
  <2>5. ViewTypes' /\ OnlyRegistered'
    BY <1>1, <2>3 DEF ViewTypes, ViewsInv, OnlyRegistered
  <2>6. \A d \in present' : clk'[d] > 0
    <3>1. e.on => e.clock > 0
      BY <1>2, <1>4 DEF Applies, Unbounded
    <3>2. present' \in SUBSET Clients
      BY DEF Unbounded
    <3> QED
      BY <2>4, <3>1, <3>2 DEF ViewsInv
  <2>7. \A d \in Clients :
          /\ Srv(d) \in Frame /\ Srv(d).clock = clk[d] /\ Srv(d).on = (d \in present)
          /\ Srv(d)' \in Frame /\ Srv(d)'.clock = clk'[d] /\ Srv(d)'.on = (d \in present')
    BY SrvIs DEF Srv, Frame, Unbounded
  <2>8. Below(Srv(c), Srv(c)')
    <3>1. clk[c] < e.clock \/ (clk[c] = e.clock /\ ~e.on)
      BY <1>4 DEF Applies
    <3>2. /\ Srv(c).clock = clk[c] /\ Srv(c)'.clock = e.clock /\ Srv(c)'.on = e.on
      BY <1>2, <2>4, <2>7
    <3> QED
      BY <3>1, <3>2 DEF Below
  <2>9. ASSUME NEW j \in reg', sock'[j] = "open", NEW d \in Clients \ {OwnerOf[j]}
        PROVE  Follows(down'[j], view'[j][d], d, Srv(d)')
    <3>1. /\ j \in Conns /\ j \in reg /\ sock[j] = "open" /\ view' = view
          /\ down[j] \in Seq(SUBSET Told) /\ view[j][d] \in Frame
      BY <1>1, <2>9 DEF ViewTypes, Unbounded
    <3>2. Follows(down[j], view[j][d], d, Srv(d))
      BY <2>9, <3>1 DEF ViewsInv
    <3>3. CASE d = c
      <4>1. j # k
        BY <2>9, <3>3
      <4>2. down'[j] = IF E # {} THEN Append(down[j], E) ELSE down[j]
        BY <2>3, <3>1, <4>1
      <4>3. CASE known \/ e.on
        <5>1. /\ told \in About(E, c) /\ \A g \in About(E, c) : g = told
              /\ told.clock = Srv(c)'.clock /\ told.on = Srv(c)'.on
          BY <1>2, <2>1, <2>2, <2>4, <2>7, <4>3
        <5>2. /\ view[j][c] \in Frame /\ Follows(down[j], view[j][c], c, Srv(c))
              /\ Srv(c) \in Frame /\ Srv(c)' \in Frame
          BY <1>2, <2>7, <3>1, <3>2, <3>3
        <5>3. Follows(Append(down[j], E), view[j][c], c, Srv(c)')
          BY <2>2, <2>8, <3>1, <5>1, <5>2, FollowsTold
        <5>4. down'[j] = Append(down[j], E)
          BY <4>2, <5>1 DEF About
        <5> QED
          BY <3>1, <3>3, <5>3, <5>4
      <4>4. CASE ~(known \/ e.on)
        <5>1. About(E, c) = {}
          BY <2>2, <4>4
        <5>2. (c \in present) = FALSE /\ (c \in present') = FALSE
          BY <1>2, <2>4, <4>4 DEF ViewsInv
        <5>3. Srv(c).on = FALSE /\ Srv(c)'.on = FALSE
          BY <1>2, <2>7, <5>2
        <5>4. Follows(down[j], view[j][c], c, Srv(c)')
          BY <1>2, <2>7, <2>8, <3>1, <3>2, <3>3, <5>3, FollowsQuiet
        <5>5. Follows(down'[j], view[j][c], c, Srv(c)')
          BY <2>2, <3>1, <4>2, <5>1, <5>4, FollowsSilent
        <5> QED
          BY <3>1, <3>3, <5>5
      <4> QED
        BY <4>3, <4>4
    <3>4. CASE d # c
      <4>1. Srv(d)' = Srv(d)
        BY <2>4, <2>9, <3>4 DEF Srv
      <4>2. About(E, d) = {}
        BY <2>2, <2>9, <3>4
      <4>3. down'[j] = down[j] \/ down'[j] = Append(down[j], E)
        BY <2>3, <3>1
      <4>4. Follows(down'[j], view[j][d], d, Srv(d))
        <5>1. Follows(Append(down[j], E), view[j][d], d, Srv(d))
          BY <2>2, <3>1, <3>2, <4>2, FollowsSilent
        <5> QED
          BY <3>2, <4>3, <5>1
      <4> QED
        BY <3>1, <4>1, <4>4
    <3> QED
      BY <3>3, <3>4
  <2> QED
    BY <2>5, <2>6, <2>9 DEF ViewsInv
<1> QED
  BY <1>3, <1>4

\* Every step keeps what the connections show behind the room by no more than the
\* frames on their way.
LEMMA StepViews ==
  Unbounded /\ Unregistered /\ ViewTypes /\ ViewsInv /\ [Next]_vars => ViewTypes' /\ ViewsInv'
<1> SUFFICES ASSUME Unbounded, Unregistered, ViewTypes, ViewsInv, [Next]_vars
             PROVE  ViewTypes' /\ ViewsInv'
  OBVIOUS
<1>0. Unbounded'
  BY StepUnbounded
<1>1. ASSUME NEW k \in Conns, Connect(k) PROVE ViewTypes' /\ ViewsInv'
  <2>1. /\ sock[k] = "new" /\ sock' = [sock EXCEPT ![k] = "open"] /\ pending' = pending \cup {k}
        /\ UNCHANGED <<present, clk, reg, down, view>>
    BY <1>1 DEF Connect
  <2>2. k \notin pending \cup reg
    BY <2>1 DEF ViewsInv, OnlyRegistered
  <2>3. \A j \in Conns \ {k} : sock'[j] = sock[j]
    BY <2>1 DEF Unbounded
  <2>4. sock'[k] = "open"
    BY <2>1 DEF Unbounded
  <2>5. ViewTypes' /\ OnlyRegistered'
    BY <2>1, <2>2, <2>3, <2>4 DEF ViewTypes, ViewsInv, OnlyRegistered, Unbounded
  <2>6. \A c : Srv(c)' = Srv(c)
    BY <2>1 DEF Srv
  <2>7. \A j \in reg : sock'[j] = sock[j]
    BY <2>2, <2>3 DEF Unbounded
  <2> QED
    BY <2>1, <2>5, <2>6, <2>7 DEF ViewsInv
<1>2. ASSUME NEW k \in Conns, Cut(k) PROVE ViewTypes' /\ ViewsInv'
  <2>1. /\ sock[k] = "open" /\ sock' = [sock EXCEPT ![k] = "cut"]
        /\ down' = [down EXCEPT ![k] = <<>>] /\ view' = [view EXCEPT ![k] = Nothing]
        /\ UNCHANGED <<present, clk, reg, pending>>
    BY <1>2 DEF Cut, server
  <2>2. /\ \A j \in Conns \ {k} : sock'[j] = sock[j] /\ down'[j] = down[j] /\ view'[j] = view[j]
        /\ sock'[k] = "cut" /\ down'[k] = <<>> /\ view'[k] = Nothing
    BY <2>1 DEF Unbounded, ViewTypes
  <2>3. Nothing \in [Clients -> Frame]
    BY DEF Nothing, Frame
  <2>4. <<>> \in Seq(SUBSET Told)
    OBVIOUS
  <2>5. ViewTypes' /\ OnlyRegistered'
    BY <2>1, <2>2, <2>3, <2>4 DEF ViewTypes, ViewsInv, OnlyRegistered
  <2>6. \A c : Srv(c)' = Srv(c)
    BY <2>1 DEF Srv
  <2>7. \A j \in reg : sock'[j] = "open" => sock[j] = "open" /\ down'[j] = down[j] /\ view'[j] = view[j]
    BY <2>2 DEF Unbounded
  <2> QED
    BY <2>1, <2>5, <2>6, <2>7 DEF ViewsInv
<1>3. ASSUME NEW k \in Conns, SockClose(k) PROVE ViewTypes' /\ ViewsInv'
  <2>1. /\ sock[k] = "cut" /\ sock' = [sock EXCEPT ![k] = "closed"] /\ reg' = reg \ {k}
        /\ Remove(ctl[k], reg \ {k}) /\ UNCHANGED <<clk, pending, view>>
    BY <1>3 DEF SockClose
  <2>2. ctl[k] \in SUBSET Clients /\ reg \ {k} \in SUBSET reg
    BY DEF Unbounded
  <2>3. /\ down' \in [Conns -> Seq(SUBSET Told)]
        /\ \A c \in present' : clk'[c] > 0
        /\ \A j \in Conns : j \notin reg \ {k} \/ sock[j] # "open" => down'[j] = down[j]
        /\ \A j \in reg \ {k} : sock[j] = "open" => Following(j)'
    BY <1>0, <2>1, <2>2, RemoveFollows
  <2>4. sock'[k] = "closed" /\ \A j \in Conns \ {k} : sock'[j] = sock[j]
    BY <2>1 DEF Unbounded
  <2>5. ViewTypes' /\ OnlyRegistered'
    BY <2>1, <2>3, <2>4 DEF ViewTypes, ViewsInv, OnlyRegistered, Unbounded
  <2>6. \A j \in reg' : sock'[j] = "open" => Following(j)'
    BY <2>1, <2>3, <2>4 DEF Unbounded
  <2> QED
    BY <2>3, <2>5, <2>6 DEF ViewsInv, Following
<1>4. ASSUME NEW c \in Clients, Outdate(c) PROVE ViewTypes' /\ ViewsInv'
  <2>1. Remove({c}, reg) /\ UNCHANGED <<clk, pending, reg, sock, view>>
    BY <1>4 DEF Outdate
  <2>2. /\ down' \in [Conns -> Seq(SUBSET Told)]
        /\ \A d \in present' : clk'[d] > 0
        /\ \A j \in Conns : j \notin reg \/ sock[j] # "open" => down'[j] = down[j]
        /\ \A j \in reg : sock[j] = "open" => Following(j)'
    BY <1>0, <2>1, RemoveFollows
  <2>3. ViewTypes' /\ OnlyRegistered'
    BY <2>1, <2>2 DEF ViewTypes, ViewsInv, OnlyRegistered
  <2> QED
    BY <2>1, <2>2, <2>3 DEF ViewsInv, Following
<1>5. CASE \/ \E k \in Conns : FrameDropped(k)
           \/ \E c \in Clients, on \in BOOLEAN : SetLocal(c, on)
           \/ UNCHANGED vars
  <2>1. UNCHANGED <<present, clk, pending, reg, sock, down, view>>
    BY <1>5 DEF FrameDropped, SetLocal, server, vars
  <2> QED
    BY <2>1 DEF ViewTypes, ViewsInv, OnlyRegistered, Srv
<1> QED
  BY <1>0, <1>1, <1>2, <1>3, <1>4, <1>5, ShowFollows, AttachFollows, HandleFollows DEF Next

\* At start nobody is told anything.
LEMMA InitViews == Init => ViewTypes /\ ViewsInv
<1> SUFFICES ASSUME Init PROVE ViewTypes /\ ViewsInv
  OBVIOUS
<1>1. Nothing \in [Clients -> Frame] /\ <<>> \in Seq(SUBSET Told)
  BY DEF Nothing, Frame
<1> QED
  BY <1>1 DEF Init, ViewTypes, ViewsInv, OnlyRegistered

\* A client that has read all its frames shows the others as the room has them, for
\* any number of clients and connections, however clocks, removals, closes and
\* timeouts interleave.
THEOREM ViewsAgreeAlways == Spec => []ViewsAgree
<1>1. Init => ViewTypes /\ ViewsInv
  BY InitViews
<1>2. /\ Unbounded /\ Unregistered /\ ViewTypes /\ ViewsInv
      /\ [Next]_vars
      => Unbounded' /\ Unregistered' /\ ViewTypes' /\ ViewsInv'
  BY StepUnbounded, StepViews
<1>3. Unbounded /\ ViewTypes /\ ViewsInv => ViewsAgree
  <2> SUFFICES ASSUME Unbounded, ViewTypes, ViewsInv, NEW k \in reg, sock[k] = "open",
                      down[k] = <<>>, NEW c \in Clients \ {OwnerOf[k]}
               PROVE  IF c \in present THEN view[k][c] = [clock |-> clk[c], on |-> TRUE]
                                       ELSE ~view[k][c].on
    BY DEF ViewsAgree
  <2>1. Follows(<<>>, view[k][c], c, Srv(c)) /\ view[k][c] \in Frame
    BY DEF ViewsInv, ViewTypes, Unbounded
  <2>2. UpToDate(view[k][c], Srv(c))
    BY <2>1 DEF Follows
  <2>3. Srv(c).clock = clk[c] /\ Srv(c).on = (c \in present)
    BY SrvIs
  <2>4. CASE c \in present
    <3>1. Srv(c).on = TRUE
      <4>1. (c \in present) = TRUE
        BY <2>4
      <4> QED
        BY <2>3, <4>1
    <3>2. view[k][c].on = TRUE /\ view[k][c].clock = clk[c]
      BY <2>1, <2>2, <2>3, <3>1 DEF UpToDate, Frame
    <3> QED
      BY <2>1, <2>4, <3>2 DEF Frame
  <2>5. CASE c \notin present
    <3>1. Srv(c).on = FALSE
      <4>1. (c \in present) = FALSE
        BY <2>5
      <4> QED
        BY <2>3, <4>1
    <3> QED
      BY <2>2, <2>5, <3>1 DEF UpToDate
  <2> QED
    BY <2>4, <2>5
<1> QED
  BY <1>1, <1>2, <1>3, InitGhost, PTL DEF Spec

-----------------------------------------------------------------------------
(* The clocks: ClockInv is inductive.                                      *)

\* A client that sends its next clock has sent nothing newer, and no null at it
\* unless it has no state.
LEMMA SendOwn ==
  ASSUME Unbounded, \A k \in Conns : SentIsOwn(k), NEW c \in Clients, NEW on \in BOOLEAN,
         clock' = [clock EXCEPT ![c] = @ + 1], Send(c, [clock |-> clock[c] + 1, on |-> on]),
         \A d \in Clients \ {c} : d \in here' => d \in here, ~on => c \notin here'
  PROVE  \A k \in Conns : SentIsOwn(k)'
<1> DEFINE s == [clock |-> clock[c] + 1, on |-> on]
<1>1. clock[c] \in Nat /\ clock'[c] = clock[c] + 1 /\ \A d \in Clients \ {c} : clock'[d] = clock[d]
  BY DEF Unbounded
<1>2. s \in Frame /\ s.clock = clock[c] + 1 /\ s.on = on
  BY <1>1 DEF Frame
<1> HIDE DEF s
<1>3. \A k \in Conns :
        \/ up'[k] = up[k]
        \/ /\ OwnerOf[k] = c
           /\ \A i \in 1..Len(up'[k]) : up'[k][i] = s \/ (i \in 1..Len(up[k]) /\ up'[k][i] = up[k][i])
  BY <1>2, SendIs DEF s
<1>4. ASSUME NEW k \in Conns PROVE SentIsOwn(k)'
  <2>0. OwnerOf[k] \in Clients
    BY OwnerOfAssumption
  <2>1. \A i \in 1..Len(up[k]) : up[k][i].clock \in Nat
    <3>1. up[k] \in Seq(Frame)
      BY DEF Unbounded
    <3>2. \A i \in 1..Len(up[k]) : up[k][i] \in Frame
      BY <3>1
    <3> QED
      BY <3>2 DEF Frame
  <2>2. CASE OwnerOf[k] # c
    <3>1. up'[k] = up[k] /\ clock'[OwnerOf[k]] = clock[OwnerOf[k]]
      BY <1>1, <1>3, <2>0, <2>2
    <3> QED
      BY <2>0, <2>2, <3>1 DEF SentIsOwn
  <2>3. CASE OwnerOf[k] = c
    <3>1. ASSUME NEW i \in 1..Len(up'[k]), up'[k][i] # s
          PROVE  up'[k][i].clock <= clock[c] /\ up'[k][i].clock \in Nat
      <4>1. i \in 1..Len(up[k]) /\ up'[k][i] = up[k][i]
        BY <1>3, <2>3, <3>1
      <4> QED
        BY <2>1, <2>3, <4>1 DEF SentIsOwn
    <3>2. ASSUME NEW i \in 1..Len(up'[k])
          PROVE  /\ up'[k][i].clock <= clock'[c]
                 /\ up'[k][i].clock = clock'[c] /\ ~up'[k][i].on => c \notin here'
      BY <1>1, <1>2, <3>1
    <3> QED
      BY <2>3, <3>2 DEF SentIsOwn
  <2> QED
    BY <2>2, <2>3
<1> QED
  BY <1>4

\* Taking off the first frame of a connection leaves the others.
LEMMA TailOwn ==
  ASSUME Unbounded, ClockInv, NEW k \in Conns, up[k] # <<>>, up' = [up EXCEPT ![k] = Tail(@)],
         UNCHANGED <<clock, here>>
  PROVE  \A j \in Conns : SentIsOwn(j)'
<1>1. \A j \in Conns \ {k} : SentIsOwn(j)'
  BY TailIs DEF ClockInv, SentIsOwn
<1>2. SentIsOwn(k)'
  BY TailIs DEF ClockInv, SentIsOwn
<1> QED
  BY <1>1, <1>2

\* A step that leaves the clocks, the states and the closed connections as they are
\* keeps the bound of a client who is not denied anew.
LEMMA BoundStays ==
  ASSUME NEW c \in Clients, Bound(c), clock'[c] = clock[c], c \in here' => c \in here,
         \A k \in Conns : OwnerOf[k] = c => (sock'[k] = "closed" <=> sock[k] = "closed"),
         c \in here /\ Denied(c)' => Denied(c) \/ clock[c] < MaxClock[c] + Cardinality(Lost(c))
  PROVE  Bound(c)'
<1>1. Lost(c)' = Lost(c)
  BY DEF Lost
<1> QED
  BY <1>1 DEF Bound

\* A client that sets its next clock is not denied by what it was told before.
LEMMA NextClock ==
  ASSUME Unbounded, ViewTypes, ClockInv, NEW c \in Clients, clock' = [clock EXCEPT ![c] = @ + 1],
         \A k \in Conns : \A i \in 1..Len(down'[k]) :
           \E j \in 1..Len(down[k]) : down'[k][i] = down[k][j]
  PROVE  /\ ~Denied(c)'
         /\ \A d \in Clients \ {c} : Denied(d)' => Denied(d)
         /\ \A k \in Conns : \A i \in 1..Len(down'[k]) : \A e \in down'[k][i] :
              e.clock <= clock'[e.client]
<1>1. /\ \A d \in Clients : clock[d] \in Nat
      /\ clock'[c] = clock[c] + 1 /\ \A d \in Clients \ {c} : clock'[d] = clock[d]
  BY DEF Unbounded
<1>2. ASSUME NEW k \in Conns, NEW i \in 1..Len(down'[k]), NEW e \in down'[k][i]
      PROVE  /\ e \in Told /\ e.clock <= clock[e.client]
             /\ \E j \in 1..Len(down[k]) : e \in down[k][j]
  <2>1. PICK j \in 1..Len(down[k]) : down'[k][i] = down[k][j]
    OBVIOUS
  <2>2. down[k][j] \in SUBSET Told
    BY DEF ViewTypes
  <2> QED
    BY <2>1, <2>2 DEF ClockInv
<1>3. ~Denied(c)'
  <2> SUFFICES ASSUME Denied(c)' PROVE FALSE
    OBVIOUS
  <2>1. \E k \in Conns : \E i \in 1..Len(down'[k]) :
          [client |-> c, clock |-> clock'[c], on |-> FALSE] \in down'[k][i]
    BY DEF Denied
  <2>2. clock'[c] <= clock[c]
    BY <1>2, <2>1
  <2> QED
    BY <1>1, <2>2
<1>4. ASSUME NEW d \in Clients \ {c}, Denied(d)' PROVE Denied(d)
  BY <1>1, <1>2, <1>4 DEF Denied
<1>5. ASSUME NEW k \in Conns, NEW i \in 1..Len(down'[k]), NEW e \in down'[k][i]
      PROVE  e.clock <= clock'[e.client]
  <2>1. e.clock \in Nat /\ e.client \in Clients /\ e.clock <= clock[e.client]
    BY <1>2 DEF Told
  <2> QED
    BY <1>1, <2>1
<1> QED
  BY <1>3, <1>4, <1>5

\* A broadcast that tells of no clock beyond the clients' own denies only those it
\* names as gone, and only on their open connections.
LEMMA BroadcastDenies ==
  ASSUME ViewTypes, ClockInv, NEW R \in SUBSET Conns, NEW E \in SUBSET Told, NEW X \in SUBSET Conns,
         Broadcast(R, E, X), \A e \in E : e.clock <= clock[e.client], clock' = clock
  PROVE  /\ \A k \in Conns : \A i \in 1..Len(down'[k]) : \A e \in down'[k][i] :
              e.clock <= clock'[e.client]
         /\ \A c \in Clients : Denied(c)' =>
              \/ Denied(c)
              \/ /\ [client |-> c, clock |-> clock[c], on |-> FALSE] \in E
                 /\ Open(c) # {}
<1>1. ASSUME NEW k \in Conns, NEW i \in 1..Len(down'[k])
      PROVE  \/ i \in 1..Len(down[k]) /\ down'[k][i] = down[k][i]
             \/ down'[k][i] = E /\ k \in R \ X /\ sock[k] = "open"
  <2>1. \/ down'[k] = down[k]
        \/ down'[k] = Append(down[k], E) /\ k \in R \ X /\ sock[k] = "open"
    BY BroadcastIs
  <2>2. down[k] \in Seq(SUBSET Told)
    BY DEF ViewTypes
  <2> QED
    BY <2>1, <2>2, AppendAt
<1>2. \A k \in Conns : \A i \in 1..Len(down'[k]) : \A e \in down'[k][i] : e.clock <= clock'[e.client]
  BY <1>1 DEF ClockInv
<1>3. ASSUME NEW c \in Clients, Denied(c)'
      PROVE  \/ Denied(c)
             \/ /\ [client |-> c, clock |-> clock[c], on |-> FALSE] \in E
                /\ Open(c) # {}
  BY <1>1, <1>3 DEF Denied, Open
<1> QED
  BY <1>2, <1>3

\* A sequence is one over every set that holds its elements.
LEMMA SeqOf ==
  ASSUME NEW S, NEW T, NEW q \in Seq(S), \A i \in 1..Len(q) : q[i] \in T
  PROVE  q \in Seq(T)
<1>1. Len(q) \in Nat /\ q \in [1..Len(q) -> S]
  BY LenProperties
<1>2. q \in [1..Len(q) -> T]
  BY <1>1
<1> QED
  BY <1>1, <1>2, SeqDef

\* Every step keeps the bound on the clocks.
LEMMA StepClocks ==
  Unbounded /\ Unregistered /\ ViewTypes /\ ViewsInv /\ ClockInv /\ [Next]_vars => ClockInv'
<1> SUFFICES ASSUME Unbounded, Unregistered, ViewTypes, ViewsInv, ClockInv, [Next]_vars
             PROVE  ClockInv'
  OBVIOUS
<1>0. \A k \in Conns : OwnerOf[k] \in Clients
  BY OwnerOfAssumption
<1>1. \A c \in Clients : clock[c] \in Nat
  BY DEF Unbounded
<1>2. ASSUME NEW k \in Conns, Connect(k) PROVE ClockInv'
  <2> DEFINE c == OwnerOf[k]
  <2>1. /\ sock[k] = "new" /\ sock' = [sock EXCEPT ![k] = "open"]
        /\ up' = [up EXCEPT ![k] = IF c \in here THEN <<Own(c)>> ELSE <<>>]
        /\ UNCHANGED <<present, clk, reg, ctl, down, view, clock, here>>
    BY <1>2 DEF Connect
  <2>2. \A j \in Conns : sock'[j] = "closed" <=> sock[j] = "closed"
    BY <2>1 DEF Unbounded
  <2>3. \A d \in Clients : Bound(d)'
    BY <2>1, <2>2, BoundStays DEF ClockInv, Denied
  <2>4. /\ up'[k] = IF c \in here THEN <<Own(c)>> ELSE <<>>
        /\ \A j \in Conns \ {k} : up'[j] = up[j]
    BY <2>1 DEF Unbounded
  <2>5. \A j \in Conns \ {k} : SentIsOwn(j)'
    BY <2>1, <2>4 DEF ClockInv, SentIsOwn
  <2>6. SentIsOwn(k)'
    <3>1. Own(c).clock = clock[c] /\ (Own(c).on <=> c \in here)
      BY DEF Own
    <3>2. \A i \in 1..Len(up'[k]) : up'[k][i] = Own(c) /\ c \in here
      BY <2>4
    <3> QED
      BY <1>0, <1>1, <2>1, <3>1, <3>2 DEF SentIsOwn
  <2> QED
    BY <2>1, <2>3, <2>5, <2>6 DEF ClockInv
<1>3. ASSUME NEW k \in Conns, Show(k) PROVE ClockInv'
  <2> DEFINE c == OwnerOf[k]
  <2>1. /\ down[k] # <<>> /\ down' = [down EXCEPT ![k] = Tail(@)]
        /\ UNCHANGED <<server, sock, here, again>>
    BY <1>3 DEF Show
  <2>2. \A d \in Clients : \/ view'[k][d] = view[k][d]
                           \/ \E e \in Head(down[k]) : /\ e.client = d
                                                       /\ view'[k][d] = [clock |-> e.clock, on |-> e.on]
    <3> DEFINE told(d) == {e \in Head(down[k]) : e.client = d /\ Applies(view[k][d].clock, view[k][d].on, e)}
    <3>1. view' = [view EXCEPT ![k] = [d \in Clients |->
            IF d # c /\ told(d) # {} THEN LET e == CHOOSE e \in told(d) : TRUE
                                          IN  [clock |-> e.clock, on |-> e.on]
            ELSE view[k][d]]]
      BY <1>3 DEF Show
    <3>2. \A d \in Clients : told(d) # {} => (CHOOSE e \in told(d) : TRUE) \in told(d)
      OBVIOUS
    <3> HIDE DEF told
    <3>3. \A d \in Clients : view'[k][d] = IF d # c /\ told(d) # {}
                                           THEN LET e == CHOOSE e \in told(d) : TRUE
                                                IN  [clock |-> e.clock, on |-> e.on]
                                           ELSE view[k][d]
      BY <3>1 DEF ViewTypes
    <3> QED
      BY <3>2, <3>3 DEF told
  <2>3. \A j \in Conns \ {k} : view'[j] = view[j]
    BY <1>3 DEF Show, ViewTypes
  <2>4. /\ down[k] \in Seq(SUBSET Told) /\ down'[k] = Tail(down[k])
        /\ \A j \in Conns \ {k} : down'[j] = down[j]
    BY <2>1 DEF ViewTypes
  <2>5. /\ Head(down[k]) = down[k][1] /\ 1 \in 1..Len(down[k]) /\ Head(down[k]) \in SUBSET Told
        /\ \A j \in Conns : \A i \in 1..Len(down'[j]) :
             \E h \in 1..Len(down[j]) : down'[j][i] = down[j][h]
    BY <2>1, <2>4, TailAt
  <2>6. \A e \in Head(down[k]) : e \in Told /\ e.clock <= clock[e.client]
    BY <2>5 DEF ClockInv
  <2>7. \A j \in Conns : \A d \in Clients : view'[j][d].clock <= clock[d]
    <3>1. \A d \in Clients : view'[k][d].clock <= clock[d]
      <4>1. \A d \in Clients : view[k][d].clock <= clock[d]
        BY DEF ClockInv
      <4>2. ASSUME NEW d \in Clients,
                   NEW e \in Head(down[k]), e.client = d, view'[k][d] = [clock |-> e.clock, on |-> e.on]
            PROVE  view'[k][d].clock <= clock[d]
        <5>1. view'[k][d].clock = e.clock /\ e.clock <= clock[e.client]
          BY <2>6, <4>2
        <5> QED
          BY <4>2, <5>1
      <4> QED
        BY <2>2, <4>1, <4>2
    <3> QED
      BY <2>3, <3>1 DEF ClockInv
  <2>8. CASE UNCHANGED <<clock, up>>
    <3>1. \A j \in Conns : \A i \in 1..Len(down'[j]) : \A e \in down'[j][i] : e.clock <= clock'[e.client]
      BY <2>5, <2>8 DEF ClockInv
    <3>2. \A d \in Clients : Denied(d)' => Denied(d)
      BY <2>5, <2>8 DEF Denied
    <3>3. \A d \in Clients : Bound(d)'
      BY <2>1, <2>8, <3>2, BoundStays DEF ClockInv
    <3> QED
      BY <2>1, <2>7, <2>8, <3>1, <3>3 DEF ClockInv, SentIsOwn, server
  <2>9. CASE /\ \E e \in Head(down[k]) : e.client = c /\ ~e.on /\ c \in here /\ clock[c] <= e.clock
             /\ clock' = [clock EXCEPT ![c] = @ + 1]
             /\ Send(c, [clock |-> clock[c] + 1, on |-> TRUE])
    <3>1. c \in here /\ Denied(c)
      <4>1. PICK e \in Head(down[k]) : e.client = c /\ ~e.on /\ c \in here /\ clock[c] <= e.clock
        BY <2>9
      <4>2. e \in Told /\ e.clock = clock[c]
        BY <1>0, <1>1, <2>6, <4>1 DEF Told
      <4>3. e = [client |-> c, clock |-> clock[c], on |-> FALSE]
        BY <4>1, <4>2 DEF Told
      <4> QED
        BY <2>5, <4>1, <4>3 DEF Denied
    <3>2. clock'[c] = clock[c] + 1 /\ \A d \in Clients \ {c} : clock'[d] = clock[d]
      BY <1>0, <2>9 DEF Unbounded
    <3>3. /\ ~Denied(c)'
          /\ \A d \in Clients \ {c} : Denied(d)' => Denied(d)
          /\ \A j \in Conns : \A i \in 1..Len(down'[j]) : \A e \in down'[j][i] :
               e.clock <= clock'[e.client]
      BY <1>0, <2>5, <2>9, NextClock
    <3>4. \A j \in Conns : SentIsOwn(j)'
      BY <1>0, <2>1, <2>9, SendOwn DEF ClockInv
    <3>5. \A d \in Clients \ {c} : Bound(d)'
      BY <2>1, <3>2, <3>3, BoundStays DEF ClockInv
    <3>6. Bound(c)'
      <4>1. Lost(c)' = Lost(c) /\ clock[c] < MaxClock[c] + Cardinality(Lost(c))
        BY <1>0, <2>1, <3>1 DEF ClockInv, Bound, Lost
      <4>2. Cardinality(Lost(c)) \in Nat
        <5>1. IsFiniteSet(Lost(c))
          BY ConnsAssumption, FS_Subset DEF Lost
        <5> QED
          BY <5>1, FS_CardinalityType
      <4> QED
        BY <1>0, <1>1, <3>2, <3>3, <4>1, <4>2, MaxClockAssumption DEF Bound
    <3>7. \A j \in Conns : \A d \in Clients : view'[j][d].clock <= clock'[d]
      <4>1. \A j \in Conns : \A d \in Clients : view'[j][d].clock \in Nat
        <5>1. ViewTypes'
          BY <1>3, StepViews DEF Next
        <5> QED
          BY <5>1 DEF ViewTypes, Frame
      <4> QED
        BY <1>1, <2>7, <3>2, <4>1
    <3>8. \A d \in Clients : clk'[d] <= clock'[d]
      <4>1. clk' = clk /\ \A d \in Clients : clk[d] \in Nat /\ clk[d] <= clock[d]
        BY <2>1 DEF server, ClockInv, Unbounded
      <4> QED
        BY <1>0, <1>1, <3>2, <4>1
    <3> QED
      BY <1>0, <2>1, <3>3, <3>4, <3>5, <3>6, <3>7, <3>8 DEF ClockInv, server
  <2> QED
    BY <1>3, <2>8, <2>9 DEF Show
<1>4. ASSUME NEW k \in Conns, Cut(k) PROVE ClockInv'
  <2>1. /\ sock[k] = "open" /\ sock' = [sock EXCEPT ![k] = "cut"]
        /\ down' = [down EXCEPT ![k] = <<>>] /\ view' = [view EXCEPT ![k] = Nothing]
        /\ UNCHANGED <<present, clk, reg, ctl, up, clock, here>>
    BY <1>4 DEF Cut, server, client
  <2>2. /\ \A j \in Conns \ {k} : down'[j] = down[j] /\ view'[j] = view[j]
        /\ down'[k] = <<>> /\ view'[k] = Nothing
        /\ \A j \in Conns : sock'[j] = "closed" <=> sock[j] = "closed"
    BY <2>1 DEF ViewTypes, Unbounded
  <2>3. \A d \in Clients : Nothing[d].clock <= clock[d]
    BY <1>1 DEF Nothing
  <2>4. \A j \in Conns : \A i \in 1..Len(down'[j]) : i \in 1..Len(down[j]) /\ down'[j][i] = down[j][i]
    BY <2>2
  <2>5. \A d \in Clients : Bound(d)'
    BY <2>1, <2>2, <2>4, BoundStays DEF ClockInv, Denied
  <2> QED
    BY <2>1, <2>2, <2>3, <2>4, <2>5 DEF ClockInv, SentIsOwn
<1>5. ASSUME NEW k \in Conns, Attach(k) PROVE ClockInv'
  <2> DEFINE F == {[client |-> c, clock |-> clk[c], on |-> TRUE] : c \in present}
  <2>1. /\ down' = down \/ down' = [down EXCEPT ![k] = <<F>>]
        /\ UNCHANGED <<present, clk, ctl, sock, up, view, clock, here>>
    BY <1>5 DEF Attach, client
  <2>2. ASSUME NEW j \in Conns, NEW i \in 1..Len(down'[j])
        PROVE  (i \in 1..Len(down[j]) /\ down'[j][i] = down[j][i]) \/ down'[j][i] = F
    BY <2>1 DEF ViewTypes
  <2>3. \A e \in F : e.on = TRUE /\ e.clock <= clock[e.client]
    BY DEF ClockInv, Unbounded
  <2> HIDE DEF F
  <2>4. \A d \in Clients : Denied(d)' => Denied(d)
    BY <2>1, <2>2, <2>3 DEF Denied
  <2>5. \A d \in Clients : Bound(d)'
    BY <2>1, <2>4, BoundStays DEF ClockInv
  <2>6. \A j \in Conns : \A i \in 1..Len(down'[j]) : \A e \in down'[j][i] : e.clock <= clock'[e.client]
    BY <2>1, <2>2, <2>3 DEF ClockInv
  <2> QED
    BY <2>1, <2>5, <2>6 DEF ClockInv, SentIsOwn
<1>6. ASSUME NEW k \in Conns, FrameDropped(k) PROVE ClockInv'
  <2>1. up[k] # <<>> /\ up' = [up EXCEPT ![k] = Tail(@)] /\ UNCHANGED <<server, sock, down, view, client>>
    BY <1>6 DEF FrameDropped
  <2>2. \A j \in Conns : SentIsOwn(j)'
    BY <2>1, TailOwn DEF client
  <2>3. \A d \in Clients : Bound(d)'
    BY <2>1, BoundStays DEF ClockInv, Denied, client
  <2> QED
    BY <2>1, <2>2, <2>3 DEF ClockInv, server, client
<1>7. ASSUME NEW k \in Conns, HandleAwareness(k) PROVE ClockInv'
  <2> DEFINE c == OwnerOf[k]
             e == Head(up[k])
             E == IF clk[c] # 0 \/ e.on THEN {[client |-> c, clock |-> e.clock, on |-> e.on]} ELSE {}
  <2>1. /\ up[k] # <<>> /\ up' = [up EXCEPT ![k] = Tail(@)] /\ k \in reg
        /\ UNCHANGED <<pending, reg, sock, view, client>>
    BY <1>7 DEF HandleAwareness
  <2>2. \A j \in Conns : SentIsOwn(j)'
    BY <2>1, TailOwn DEF client
  <2>3. /\ e \in Frame /\ e.clock <= clock[c]
        /\ e.clock = clock[c] /\ ~e.on => c \notin here
    <3>1. e \in Frame /\ e = up[k][1] /\ 1 \in 1..Len(up[k])
      BY <2>1, TailIs
    <3>2. SentIsOwn(k)
      BY DEF ClockInv
    <3> QED
      BY <3>1, <3>2 DEF SentIsOwn
  <2>4. CASE UNCHANGED <<clk, present, ctl, down>>
    <3>1. \A d \in Clients : Bound(d)'
      BY <2>1, <2>4, BoundStays DEF ClockInv, Denied, client
    <3> QED
      BY <2>1, <2>2, <2>4, <3>1 DEF ClockInv, client
  <2>5. CASE /\ clk' = [clk EXCEPT ![c] = e.clock]
             /\ \E a, b \in BOOLEAN : ctl' = [ctl EXCEPT ![k] = Controlled(k, c, a, b)]
             /\ Broadcast(reg, E, {k})
    <3>1. E \in SUBSET Told /\ \A f \in E : f.clock <= clock[f.client]
      BY <1>0, <2>3 DEF Told, Frame
    <3>2. \A d \in Clients : [client |-> d, clock |-> clock[d], on |-> FALSE] \in E => d \notin here
      BY <2>3
    <3>3. clock' = clock /\ here' = here /\ reg \in SUBSET Conns /\ {k} \in SUBSET Conns
      BY <2>1 DEF client, Unbounded
    <3> HIDE DEF E
    <3>4. /\ \A j \in Conns : \A i \in 1..Len(down'[j]) : \A f \in down'[j][i] :
               f.clock <= clock'[f.client]
          /\ \A d \in Clients : Denied(d)' =>
               Denied(d) \/ [client |-> d, clock |-> clock[d], on |-> FALSE] \in E
      BY <2>5, <3>1, <3>3, BroadcastDenies
    <3>5. \A d \in Clients : Bound(d)'
      BY <2>1, <3>2, <3>3, <3>4, BoundStays DEF ClockInv
    <3>6. \A j \in Conns : ctl'[j] \subseteq {OwnerOf[j]}
      <4>1. \A a, b \in BOOLEAN : Controlled(k, c, a, b) \subseteq {c}
        BY DEF Controlled, ClockInv
      <4>2. ctl'[k] \subseteq {c} /\ \A j \in Conns \ {k} : ctl'[j] = ctl[j]
        BY <2>5, <4>1 DEF Unbounded
      <4> QED
        BY <4>2 DEF ClockInv
    <3>7. \A d \in Clients : clk'[d] <= clock'[d]
      BY <1>0, <2>3, <2>5, <3>3 DEF ClockInv, Unbounded
    <3> QED
      BY <2>1, <2>2, <3>3, <3>4, <3>5, <3>6, <3>7 DEF ClockInv
  <2> QED
    BY <1>7, <2>3, <2>4, <2>5 DEF HandleAwareness, Frame
<1>8. ASSUME NEW k \in Conns, SockClose(k) PROVE ClockInv'
  <2> DEFINE c == OwnerOf[k]
             E == {[client |-> d, clock |-> clk[d], on |-> FALSE] : d \in ctl[k] \cap present}
  <2>1. /\ sock[k] = "cut" /\ sock' = [sock EXCEPT ![k] = "closed"]
        /\ ctl' = [ctl EXCEPT ![k] = {}] /\ up' = [up EXCEPT ![k] = <<>>]
        /\ Broadcast(reg \ {k}, E, {}) /\ UNCHANGED <<clk, pending, view, client>>
    BY <1>8 DEF SockClose, Remove
  <2>2. ctl[k] \subseteq {c} /\ \A d \in Clients : clk[d] \in Nat /\ clk[d] <= clock[d]
    BY DEF ClockInv, Unbounded
  <2>3. E \in SUBSET Told /\ \A f \in E : f.client = c /\ f.clock <= clock[f.client]
    <3>1. \A d \in Clients : [client |-> d, clock |-> clk[d], on |-> FALSE] \in Told
      BY <2>2 DEF Told
    <3>2. \A f \in E : f = [client |-> c, clock |-> clk[c], on |-> FALSE]
      BY <2>2
    <3> QED
      BY <1>0, <2>2, <3>1, <3>2
  <2> HIDE DEF E
  <2>4. clock' = clock /\ here' = here /\ reg \ {k} \in SUBSET Conns /\ {} \in SUBSET Conns
    BY <2>1 DEF client, Unbounded
  <2>5. /\ \A j \in Conns : \A i \in 1..Len(down'[j]) : \A f \in down'[j][i] :
             f.clock <= clock'[f.client]
        /\ \A d \in Clients : Denied(d)' =>
             Denied(d) \/ [client |-> d, clock |-> clock[d], on |-> FALSE] \in E
    BY <2>1, <2>3, <2>4, BroadcastDenies
  <2>6. sock'[k] = "closed" /\ \A j \in Conns \ {k} : sock'[j] = sock[j]
    BY <2>1 DEF Unbounded
  <2>7. ASSUME NEW d \in Clients \ {c} PROVE Bound(d)'
    <3>1. [client |-> d, clock |-> clock[d], on |-> FALSE] \notin E
      BY <2>3
    <3> QED
      BY <2>4, <2>5, <2>6, <3>1, BoundStays DEF ClockInv
  <2>8. Bound(c)'
    <3>1. Lost(c)' = Lost(c) \cup {k} /\ k \notin Lost(c)
      BY <2>1, <2>6 DEF Lost
    <3>2. IsFiniteSet(Lost(c))
      BY ConnsAssumption, FS_Subset DEF Lost
    <3>3. Cardinality(Lost(c)') = Cardinality(Lost(c)) + 1 /\ Cardinality(Lost(c)) \in Nat
      BY <3>1, <3>2, FS_AddElement, FS_CardinalityType
    <3>4. clock[c] <= MaxClock[c] + Cardinality(Lost(c))
      BY <1>0 DEF ClockInv, Bound
    <3> QED
      BY <1>0, <1>1, <2>4, <3>3, <3>4, MaxClockAssumption DEF Bound
  <2>9. \A j \in Conns : SentIsOwn(j)'
    <3>1. up'[k] = <<>> /\ \A j \in Conns \ {k} : up'[j] = up[j]
      BY <2>1 DEF Unbounded
    <3> QED
      BY <2>4, <3>1 DEF ClockInv, SentIsOwn
  <2>10. \A j \in Conns : ctl'[j] \subseteq {OwnerOf[j]}
    BY <2>1 DEF ClockInv, Unbounded
  <2> QED
    BY <1>0, <2>1, <2>4, <2>5, <2>7, <2>8, <2>9, <2>10 DEF ClockInv
<1>9. ASSUME NEW c \in Clients, Outdate(c) PROVE ClockInv'
  <2> DEFINE E == {[client |-> d, clock |-> clk[d], on |-> FALSE] : d \in {c} \cap present}
  <2>1. /\ Open(c) = {} \/ clock[c] < MaxClock[c]
        /\ Broadcast(reg, E, {}) /\ UNCHANGED <<clk, pending, reg, ctl, sock, up, view, client>>
    BY <1>9 DEF Outdate, Remove
  <2>2. \A d \in Clients : clk[d] \in Nat /\ clk[d] <= clock[d]
    BY DEF ClockInv, Unbounded
  <2>3. E \in SUBSET Told /\ \A f \in E : f.client = c /\ f.clock <= clock[f.client]
    <3> DEFINE r == [client |-> c, clock |-> clk[c], on |-> FALSE]
    <3>1. r \in Told /\ r.client = c /\ r.clock = clk[c]
      BY <2>2 DEF Told
    <3>2. \A f \in E : f = r
      OBVIOUS
    <3> HIDE DEF E, r
    <3> QED
      BY <2>2, <3>1, <3>2
  <2> HIDE DEF E
  <2>4. clock' = clock /\ here' = here /\ reg \in SUBSET Conns /\ {} \in SUBSET Conns
    BY <2>1 DEF client, Unbounded
  <2>5. /\ \A j \in Conns : \A i \in 1..Len(down'[j]) : \A f \in down'[j][i] :
             f.clock <= clock'[f.client]
        /\ \A d \in Clients : Denied(d)' =>
             \/ Denied(d)
             \/ /\ [client |-> d, clock |-> clock[d], on |-> FALSE] \in E
                /\ Open(d) # {}
    BY <2>1, <2>3, <2>4, BroadcastDenies
  <2>6. Cardinality(Lost(c)) \in Nat
    <3>1. IsFiniteSet(Lost(c))
      BY ConnsAssumption, FS_Subset DEF Lost
    <3> QED
      BY <3>1, FS_CardinalityType
  <2>7. Open(c) # {} => clock[c] < MaxClock[c] + Cardinality(Lost(c))
    BY <1>1, <2>1, <2>6, MaxClockAssumption
  <2>8. ASSUME NEW d \in Clients PROVE Bound(d)'
    <3>1. [client |-> d, clock |-> clock[d], on |-> FALSE] \in E => d = c
      BY <2>3
    <3>2. Denied(d)' => Denied(d) \/ clock[d] < MaxClock[d] + Cardinality(Lost(d))
      BY <2>5, <2>7, <3>1
    <3> QED
      BY <2>1, <2>4, <3>2, BoundStays DEF ClockInv
  <2> QED
    BY <2>1, <2>4, <2>5, <2>8 DEF ClockInv, SentIsOwn
<1>10. ASSUME NEW c \in Clients, NEW on \in BOOLEAN, SetLocal(c, on) PROVE ClockInv'
  <2>1. /\ clock[c] < MaxClock[c] /\ clock' = [clock EXCEPT ![c] = @ + 1]
        /\ here' = IF on THEN here \cup {c} ELSE here \ {c}
        /\ Send(c, [clock |-> clock[c] + 1, on |-> on])
        /\ UNCHANGED <<server, sock, down, view>>
    BY <1>10 DEF SetLocal
  <2>2. clock'[c] = clock[c] + 1 /\ \A d \in Clients \ {c} : clock'[d] = clock[d]
    BY <2>1 DEF Unbounded
  <2>3. /\ ~Denied(c)'
        /\ \A d \in Clients \ {c} : Denied(d)' => Denied(d)
        /\ \A j \in Conns : \A i \in 1..Len(down'[j]) : \A e \in down'[j][i] :
             e.clock <= clock'[e.client]
    BY <2>1, NextClock
  <2>4. \A j \in Conns : SentIsOwn(j)'
    BY <2>1, SendOwn DEF ClockInv
  <2>5. \A d \in Clients \ {c} : Bound(d)'
    BY <2>1, <2>2, <2>3, BoundStays DEF ClockInv
  <2>6. Bound(c)'
    <3>1. Cardinality(Lost(c)') \in Nat
      <4>1. IsFiniteSet(Lost(c)')
        BY ConnsAssumption, FS_Subset DEF Lost
      <4> QED
        BY <4>1, FS_CardinalityType
    <3> QED
      BY <1>1, <2>1, <2>2, <2>3, <3>1, MaxClockAssumption DEF Bound
  <2>7. \A j \in Conns : \A d \in Clients : view'[j][d].clock <= clock'[d]
    <3>1. \A j \in Conns : \A d \in Clients : view[j][d].clock \in Nat /\ view[j][d].clock <= clock[d]
      BY DEF ViewTypes, Frame, ClockInv
    <3> QED
      BY <1>1, <2>1, <2>2, <3>1
  <2>8. \A d \in Clients : clk'[d] <= clock'[d]
    <3>1. clk' = clk /\ \A d \in Clients : clk[d] \in Nat /\ clk[d] <= clock[d]
      BY <2>1 DEF server, ClockInv, Unbounded
    <3> QED
      BY <1>1, <2>2, <3>1
  <2> QED
    BY <2>1, <2>3, <2>4, <2>5, <2>6, <2>7, <2>8 DEF ClockInv, server
<1>11. CASE UNCHANGED vars
  <2>1. UNCHANGED <<clk, sock, ctl, up, down, view, clock, here>>
    BY <1>11 DEF vars
  <2> QED
    BY <2>1 DEF ClockInv, SentIsOwn, Bound, Lost, Denied
<1> QED
  BY <1>2, <1>3, <1>4, <1>5, <1>6, <1>7, <1>8, <1>9, <1>10, <1>11 DEF Next

\* Every variable keeps its type, and no client ever goes more than one clock per
\* lost connection beyond those it sets itself: it does not answer the answers.
THEOREM TypeCorrect == Spec => []TypeOK
<1>1. Init => ClockInv
  <2> SUFFICES ASSUME Init PROVE ClockInv
    OBVIOUS
  <2>1. \A c \in Clients : Cardinality(Lost(c)) \in Nat /\ ~Denied(c)
    <3>1. \A c \in Clients : IsFiniteSet(Lost(c))
      BY ConnsAssumption, FS_Subset DEF Lost
    <3> QED
      BY <3>1, FS_CardinalityType DEF Init, Denied
  <2>2. \A k \in Conns : OwnerOf[k] \in Clients
    BY OwnerOfAssumption
  <2>3. \A c \in Clients : Bound(c)
    BY <2>1, MaxClockAssumption DEF Init, Bound
  <2> QED
    BY <2>2, <2>3 DEF Init, ClockInv, SentIsOwn, Nothing
<1>2. Init => ViewTypes /\ ViewsInv
  BY InitViews
<1>3. /\ Unbounded /\ Unregistered /\ ViewTypes /\ ViewsInv /\ ClockInv
      /\ [Next]_vars
      => Unbounded' /\ Unregistered' /\ ViewTypes' /\ ViewsInv' /\ ClockInv'
  BY StepUnbounded, StepViews, StepClocks
<1>4. Unbounded /\ Unregistered /\ ViewTypes /\ ViewsInv /\ ClockInv => TypeOK
  <2> SUFFICES ASSUME Unbounded, Unregistered, ViewTypes, ViewsInv, ClockInv PROVE TypeOK
    OBVIOUS
  <2>0. \A k \in Conns : OwnerOf[k] \in Clients
    BY OwnerOfAssumption
  <2>1. ASSUME NEW c \in Clients, NEW n \in Nat, n <= clock[c] PROVE n \in Clocks
    <3>1. /\ IsFiniteSet(Lost(c)) /\ Cardinality(Lost(c)) <= Cardinality(Conns)
          /\ Cardinality(Conns) \in Nat
      BY ConnsAssumption, FS_Subset, FS_CardinalityType DEF Lost
    <3>2. Cardinality(Lost(c)) \in Nat
      BY <3>1, FS_CardinalityType
    <3>3. clock[c] \in Nat /\ MaxClock[c] \in Nat /\ clock[c] <= MaxClock[c] + Cardinality(Lost(c))
      BY MaxClockAssumption DEF Unbounded, ClockInv, Bound
    <3>4. n \in 0..(MaxClock[c] + Cardinality(Conns))
      BY <2>1, <3>1, <3>2, <3>3
    <3> QED
      BY <3>4 DEF Clocks
  <2>2. clk \in [Clients -> Clocks] /\ clock \in [Clients -> Clocks]
    <3>1. \A c \in Clients : clk[c] \in Clocks /\ clock[c] \in Clocks
      BY <2>1 DEF Unbounded, ClockInv
    <3> QED
      BY <3>1 DEF Unbounded
  <2>3. up \in [Conns -> Seq(State)]
    <3>1. ASSUME NEW k \in Conns PROVE up[k] \in Seq(State)
      <4>1. up[k] \in Seq(Frame)
        BY DEF Unbounded
      <4>2. ASSUME NEW i \in 1..Len(up[k]) PROVE up[k][i] \in State
        <5>1. up[k][i] \in Frame /\ up[k][i].clock <= clock[OwnerOf[k]]
          BY <4>1 DEF ClockInv, SentIsOwn
        <5> QED
          BY <2>0, <2>1, <5>1 DEF Frame, State
      <4> QED
        BY <4>1, <4>2, SeqOf
    <3> QED
      BY <3>1 DEF Unbounded
  <2>4. down \in [Conns -> Seq(SUBSET Entry)]
    <3>1. ASSUME NEW k \in Conns PROVE down[k] \in Seq(SUBSET Entry)
      <4>1. down[k] \in Seq(SUBSET Told)
        BY DEF ViewTypes
      <4>2. ASSUME NEW i \in 1..Len(down[k]) PROVE down[k][i] \in SUBSET Entry
        <5>1. ASSUME NEW e \in down[k][i] PROVE e \in Entry
          <6>1. e \in Told /\ e.clock <= clock[e.client]
            BY <4>1 DEF ClockInv
          <6> QED
            BY <2>1, <6>1 DEF Told, Entry
        <5> QED
          BY <5>1
      <4> QED
        BY <4>1, <4>2, SeqOf
    <3> QED
      BY <3>1 DEF ViewTypes
  <2>5. view \in [Conns -> [Clients -> State]]
    <3>1. ASSUME NEW k \in Conns, NEW c \in Clients PROVE view[k][c] \in State
      <4>1. view[k][c] \in Frame /\ view[k][c].clock <= clock[c]
        BY DEF ViewTypes, ClockInv
      <4> QED
        BY <2>1, <4>1 DEF Frame, State
    <3> QED
      BY <3>1 DEF ViewTypes
  <2>6. reg \in SUBSET (Conns \ pending)
    BY DEF Unbounded, ViewsInv, OnlyRegistered
  <2> QED
    BY <2>2, <2>3, <2>4, <2>5, <2>6 DEF Unbounded, Unregistered, TypeOK
<1> QED
  BY <1>1, <1>2, <1>3, <1>4, InitGhost, PTL DEF Spec
=============================================================================
