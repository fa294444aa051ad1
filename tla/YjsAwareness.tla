---------------------------- MODULE YjsAwareness ----------------------------
(***************************************************************************)
(* Awareness in ONE room of YjsService: the cursors and names the clients  *)
(* show of each other.  A client (a page, with the clientID of its Y.Doc)  *)
(* opens one connection after another; the server keeps one state per      *)
(* clientID and, per connection, the clientIDs it controls, which go with  *)
(* it.  Documents are YjsRoom's.                                           *)
(*                                                                         *)
(* The Awareness of y-protocols, on both sides, is external: a state has a *)
(* clock, a newer clock wins, and at equal clocks null wins.  A client     *)
(* sends the state of its own clientID only; what the clients show of each *)
(* other is kept per connection, so a client that reconnects begins with   *)
(* what the server tells it.                                               *)
(*                                                                         *)
(* Env says which behaviours of the surroundings are considered:           *)
(*   "throttle"  a client with an open socket is silent for 30 s           *)
(***************************************************************************)
EXTENDS Naturals, Sequences, FiniteSets

CONSTANTS Clients, Conns, OwnerOf, MaxClock, Env

ASSUME OwnerOfAssumption == OwnerOf \in [Conns -> Clients]
ASSUME MaxClockAssumption == MaxClock \in [Clients -> Nat]
ASSUME ConnsAssumption == IsFiniteSet(Conns)

VARIABLES
  present,  \* room.awareness.states: clients with a state
  clk,      \* room.awareness.meta: [client -> its last clock, 0 when unknown]
  sock,     \* [conn -> "new", "open", "cut" (closed, not noticed), "closed"]
  pending,  \* connections in the awaits of setupConnection
  reg,      \* room.conns
  ctl,      \* room.connAwareness
  up, down, \* [conn -> the awareness frames on their way]
  view,     \* [conn -> what its client shows: [client -> [clock, on]]]
  clock, here, \* [client -> its own clock], the clients with a state of their own
  again     \* history: clients that had a second connection, or set null

vars == <<present, clk, sock, pending, reg, ctl, up, down, view, clock, here, again>>
server == <<present, clk, pending, reg, ctl>>
client == <<clock, here, again>>

-----------------------------------------------------------------------------
\* Bound: a client sets its state up to MaxClock; above it, it only answers, at
\* most once per lost connection.
Clocks == UNION {0..(MaxClock[c] + Cardinality(Conns)) : c \in Clients}
State  == [clock : Clocks, on : BOOLEAN]
Entry  == [client : Clients, clock : Clocks, on : BOOLEAN]

Nothing == [c \in Clients |-> [clock |-> 0, on |-> FALSE]]

TypeOK == /\ present \in SUBSET Clients
          /\ clk \in [Clients -> Clocks]
          /\ sock \in [Conns -> {"new", "open", "cut", "closed"}]
          /\ pending \in SUBSET Conns /\ reg \in SUBSET (Conns \ pending)
          /\ ctl \in [Conns -> SUBSET Clients] /\ \A k \in Conns \ reg : ctl[k] = {}
          /\ up \in [Conns -> Seq(State)] /\ down \in [Conns -> Seq(SUBSET Entry)]
          /\ view \in [Conns -> [Clients -> State]]
          /\ clock \in [Clients -> Clocks] /\ here \in SUBSET Clients
          /\ again \in SUBSET Clients

\* A client may set its state before it connects, so that a room that is new,
\* after a restart, may meet any clock.
Init == /\ present = {} /\ clk = [c \in Clients |-> 0]
        /\ sock = [k \in Conns |-> "new"]
        /\ pending = {} /\ reg = {} /\ ctl = [k \in Conns |-> {}]
        /\ up = [k \in Conns |-> <<>>] /\ down = [k \in Conns |-> <<>>]
        /\ view = [k \in Conns |-> Nothing]
        /\ clock = [c \in Clients |-> 0] /\ here = Clients /\ again = {}

-----------------------------------------------------------------------------
Open(c)  == {k \in Conns : OwnerOf[k] = c /\ sock[k] = "open"}
Own(c)   == [clock |-> clock[c], on |-> c \in here]

\* applyAwarenessUpdate: whether a state at clock m, present or not, gives way
\* to e.
Applies(m, on, e) == m < e.clock \/ (m = e.clock /\ ~e.on /\ on)

\* Mutant: only what a connection has sent is broadcast.
Broadcast_Origin(R, entries, except) ==
  down' = [k \in Conns |-> IF k \in R \ except /\ sock[k] = "open" /\ entries # {} /\ except # {}
                           THEN Append(down[k], entries) ELSE down[k]]

\* broadcastFrame: to every registered connection that is open, except one.
Broadcast(R, entries, except) ==
  down' = [k \in Conns |-> IF k \in R \ except /\ sock[k] = "open" /\ entries # {}
                           THEN Append(down[k], entries) ELSE down[k]]

-----------------------------------------------------------------------------
(* The clients.                                                            *)

\* A client opens one socket at a time and sends its state at once; one that
\* does not is one whose frame is dropped.
Connect(k) ==
  LET c == OwnerOf[k]
  IN  /\ sock[k] = "new" /\ Open(c) = {}
      /\ sock' = [sock EXCEPT ![k] = "open"]
      /\ pending' = pending \cup {k}
      /\ up' = [up EXCEPT ![k] = IF c \in here THEN <<Own(c)>> ELSE <<>>]
      /\ again' = IF \E j \in Conns : OwnerOf[j] = c /\ sock[j] # "new"
                  THEN again \cup {c} ELSE again
      /\ UNCHANGED <<present, clk, reg, ctl, down, view, clock, here>>

Send(c, s) == up' = [k \in Conns |-> IF k \in Open(c) THEN Append(up[k], s) ELSE up[k]]

\* setLocalState: a change or the renewal of the state, or null.
SetLocal(c, on) ==
  /\ clock[c] < MaxClock[c]
  /\ on \/ c \in here
  /\ clock' = [clock EXCEPT ![c] = @ + 1]
  /\ here' = IF on THEN here \cup {c} ELSE here \ {c}
  /\ again' = IF on THEN again ELSE again \cup {c}
  /\ Send(c, [clock |-> clock[c] + 1, on |-> on])
  /\ UNCHANGED <<server, sock, down, view>>

\* A frame arrives at a client.  One who is told that he is gone, and is not,
\* takes the next clock and says so.
Show(k) ==
  LET c == OwnerOf[k]
      told(d) == {e \in Head(down[k]) : e.client = d /\ Applies(view[k][d].clock, view[k][d].on, e)}
      denied == {e \in Head(down[k]) : e.client = c /\ ~e.on /\ c \in here /\ clock[c] <= e.clock}
  IN  /\ sock[k] = "open" /\ down[k] # <<>>
      /\ down' = [down EXCEPT ![k] = Tail(@)]
      /\ view' = [view EXCEPT ![k] = [d \in Clients |->
           IF d # c /\ told(d) # {} THEN LET e == CHOOSE e \in told(d) : TRUE
                                         IN  [clock |-> e.clock, on |-> e.on]
           ELSE view[k][d]]]
      /\ IF denied = {} THEN UNCHANGED <<clock, up>>
         ELSE /\ clock' = [clock EXCEPT ![c] = @ + 1]
              /\ Send(c, [clock |-> clock[c] + 1, on |-> TRUE])
      /\ UNCHANGED <<server, sock, here, again>>

\* The socket ends, on the client's side or between the two.
Cut(k) ==
  /\ sock[k] = "open"
  /\ sock' = [sock EXCEPT ![k] = "cut"]
  /\ down' = [down EXCEPT ![k] = <<>>]
  /\ view' = [view EXCEPT ![k] = Nothing]
  /\ UNCHANGED <<server, client, up>>

-----------------------------------------------------------------------------
(* The server.                                                             *)

\* Mutant: a new connection is not told who is there.
Attach_Silent(k) ==
  /\ k \in pending
  /\ pending' = pending \ {k}
  /\ reg' = reg \cup {k}
  /\ UNCHANGED <<present, clk, ctl, sock, up, down, view, client>>

\* setupConnection after getOrCreateRoom, for a socket that may be gone.
Attach(k) ==
  /\ k \in pending
  /\ pending' = pending \ {k}
  /\ reg' = reg \cup {k}
  /\ down' = IF sock[k] = "open" /\ present # {}
             THEN [down EXCEPT ![k] = <<{[client |-> c, clock |-> clk[c], on |-> TRUE] : c \in present}>>]
             ELSE down
  /\ UNCHANGED <<present, clk, ctl, sock, up, view, client>>

\* Without a listener a frame is dropped.
FrameDropped(k) ==
  /\ sock[k] \in {"open", "cut"} /\ k \notin reg /\ up[k] # <<>>
  /\ up' = [up EXCEPT ![k] = Tail(@)]
  /\ UNCHANGED <<server, sock, down, view, client>>

\* Mutant: nobody adds to the clients a connection controls.
Controlled_Never(k, c, added, removed) == IF removed THEN ctl[k] \ {c} ELSE ctl[k]

\* The listener of the awareness: what is added becomes the connection's, what
\* is removed is nobody's; what is updated stays as it was.
Controlled(k, c, added, removed) ==
  IF added THEN ctl[k] \cup {c} ELSE IF removed THEN ctl[k] \ {c} ELSE ctl[k]

\* handleFrame with an awareness frame, the listener and the broadcast.
HandleAwareness(k) ==
  LET c == OwnerOf[k]
      e == Head(up[k])
      known == clk[c] # 0
      added == ~known /\ e.on
      removed == known /\ ~e.on
  IN  /\ sock[k] \in {"open", "cut"} /\ k \in reg /\ up[k] # <<>>
      /\ up' = [up EXCEPT ![k] = Tail(@)]
      /\ IF Applies(clk[c], c \in present, e)
         THEN /\ clk' = [clk EXCEPT ![c] = e.clock]
              /\ present' = IF e.on THEN present \cup {c} ELSE present \ {c}
              /\ ctl' = [ctl EXCEPT ![k] = Controlled(k, c, added, removed)]
              /\ Broadcast(reg, IF known \/ e.on
                                THEN {[client |-> c, clock |-> e.clock, on |-> e.on]} ELSE {}, {k})
         ELSE UNCHANGED <<clk, present, ctl, down>>
      /\ UNCHANGED <<pending, reg, sock, view, client>>

\* removeAwarenessStates: the states go, the clocks stay, and all are told.
Remove(S, R) ==
  /\ present' = present \ S
  /\ Broadcast(R, {[client |-> c, clock |-> clk[c], on |-> FALSE] : c \in S \cap present}, {})

\* Mutant: connAwareness keeps the connection.
SockClose_Leak(k) ==
  /\ sock[k] = "cut"
  /\ sock' = [sock EXCEPT ![k] = "closed"]
  /\ reg' = reg \ {k}
  /\ up' = [up EXCEPT ![k] = <<>>]
  /\ Remove(ctl[k], reg \ {k})
  /\ UNCHANGED <<clk, ctl, pending, view, client>>

\* onConnectionClose.  A socket that closes before it is registered has no
\* listener yet.
SockClose(k) ==
  /\ sock[k] = "cut"
  /\ sock' = [sock EXCEPT ![k] = "closed"]
  /\ reg' = reg \ {k}
  /\ ctl' = [ctl EXCEPT ![k] = {}]
  /\ up' = [up EXCEPT ![k] = <<>>]
  /\ Remove(ctl[k], reg \ {k})
  /\ UNCHANGED <<clk, pending, view, client>>

\* A state that was not renewed for 30 s is removed; the listener's origin is
\* no connection, so no controlled set changes.
Outdate(c) ==
  /\ c \in present
  /\ Open(c) = {} \/ ("throttle" \in Env /\ clock[c] < MaxClock[c])
  /\ Remove({c}, reg)
  /\ UNCHANGED <<clk, pending, reg, ctl, sock, up, view, client>>

Next ==
  \/ \E k \in Conns : Connect(k) \/ Show(k) \/ Cut(k) \/ Attach(k) \/ FrameDropped(k)
                      \/ HandleAwareness(k) \/ SockClose(k)
  \/ \E c \in Clients : Outdate(c) \/ \E on \in BOOLEAN : SetLocal(c, on)

Spec == Init /\ [][Next]_vars

\* Frames arrive, awaits end, closes are noticed, and the 30 s pass.
FairSpec ==
  /\ Spec
  /\ \A k \in Conns : WF_vars(Show(k)) /\ WF_vars(Attach(k)) /\ WF_vars(FrameDropped(k))
                      /\ WF_vars(HandleAwareness(k)) /\ WF_vars(SockClose(k))
  /\ \A c \in Clients : WF_vars(Open(c) = {} /\ Outdate(c))

-----------------------------------------------------------------------------
(* What awareness must guarantee.                                          *)

\* The state of a client that has had one connection, and never set null, is
\* controlled by that connection until its close is noticed, timeouts included:
\* it cannot stay behind.
NoGhost ==
  \A c \in present \ again :
    \E k \in reg : OwnerOf[k] = c /\ c \in ctl[k] /\ sock[k] # "closed"

\* A client that has read all its frames shows the others as the room has them,
\* whenever it joined and whatever came and went meanwhile.
ViewsAgree ==
  \A k \in reg : sock[k] = "open" /\ down[k] = <<>> =>
    \A c \in Clients \ {OwnerOf[k]} :
      IF c \in present THEN view[k][c] = [clock |-> clk[c], on |-> TRUE] ELSE ~view[k][c].on

Shown(c) == \E k \in Conns : view[k][c].on

\* Nobody goes on showing a client that has left, a ghost that no connection
\* controls included.
GhostGoes ==
  \A c \in Clients :
    Open(c) = {} /\ Shown(c) ~> Open(c) # {} \/ ~Shown(c)

-----------------------------------------------------------------------------
\* What makes NoGhost inductive: a client that has had one connection, and never
\* set null, sends no null; and once the server knows it, either that connection
\* controls it or that connection is closed and the state is gone.
OfOneConnection(c) ==
  /\ \A j, k \in Conns : OwnerOf[j] = c /\ OwnerOf[k] = c /\ sock[j] # "new" /\ sock[k] # "new"
                          => j = k
  /\ \A k \in Conns : OwnerOf[k] = c => \A i \in 1..Len(up[k]) : up[k][i].on
  /\ clk[c] # 0 \/ c \in present =>
       \E k \in Conns : /\ OwnerOf[k] = c
                        /\ \/ k \in reg /\ c \in ctl[k] /\ sock[k] \in {"open", "cut"}
                           \/ c \notin present /\ sock[k] = "closed"

GhostInv == \A c \in Clients \ again : OfOneConnection(c)

\* What makes ViewsAgree inductive.  For client c, a connection shows v and has the
\* frames q on their way; srv is what the room has.  What q tells of c is in the
\* order of the changes, from v on, and ends with srv.
About(F, c) == {e \in F : e.client = c}

Below(a, b) == a.clock < b.clock \/ (a.clock = b.clock /\ (b.on => a.on))

UpToDate(e, srv) == IF srv.on THEN e.on /\ e.clock = srv.clock ELSE ~e.on

Follows(q, v, c, srv) ==
  /\ Below(v, srv)
  /\ \A i \in 1..Len(q) : \A e \in About(q[i], c) :
       /\ \A f \in About(q[i], c) : e = f
       /\ Below(v, e) /\ Below(e, srv)
       /\ \A j \in 1..Len(q) : j < i => \A f \in About(q[j], c) : Below(f, e)
       /\ (\A j \in 1..Len(q) : i < j => About(q[j], c) = {}) => UpToDate(e, srv)
  /\ (\A i \in 1..Len(q) : About(q[i], c) = {}) => UpToDate(v, srv)

Srv(c) == [clock |-> clk[c], on |-> c \in present]

\* A connection that is not registered, or not open, shows nothing and is told nothing.
OnlyRegistered ==
  /\ pending \cap reg = {} /\ \A k \in pending \cup reg : sock[k] # "new"
  /\ \A k \in Conns : k \notin reg \/ sock[k] # "open" => down[k] = <<>> /\ view[k] = Nothing

ViewsInv ==
  /\ OnlyRegistered
  /\ \A c \in present : clk[c] > 0
  /\ \A k \in reg : sock[k] = "open" =>
       \A c \in Clients \ {OwnerOf[k]} : Follows(down[k], view[k][c], c, Srv(c))

\* What makes the bound on the clocks inductive.  A client answers only who denies
\* the last clock it has set: a timeout while it may still set one, or the close
\* of a connection, which is one connection more that is lost.
Lost(c) == {k \in Conns : OwnerOf[k] = c /\ sock[k] = "closed"}

Denied(c) ==
  \E k \in Conns : OwnerOf[k] = c /\
    \E i \in 1..Len(down[k]) : [client |-> c, clock |-> clock[c], on |-> FALSE] \in down[k][i]

Bound(c) ==
  /\ clock[c] <= MaxClock[c] + Cardinality(Lost(c))
  /\ c \in here /\ Denied(c) => clock[c] < MaxClock[c] + Cardinality(Lost(c))

\* A null at the last clock of a client is that of a client with no state.
SentIsOwn(k) ==
  LET c == OwnerOf[k]
  IN  \A i \in 1..Len(up[k]) : /\ up[k][i].clock <= clock[c]
                               /\ up[k][i].clock = clock[c] /\ ~up[k][i].on => c \notin here

ClockInv ==
  /\ \A k \in Conns : ctl[k] \subseteq {OwnerOf[k]} /\ SentIsOwn(k)
  /\ \A k \in Conns : \A d \in Clients : view[k][d].clock <= clock[d]
  /\ \A k \in Conns : \A i \in 1..Len(down[k]) : \A e \in down[k][i] : e.clock <= clock[e.client]
  /\ \A c \in Clients : clk[c] <= clock[c] /\ Bound(c)
=============================================================================
