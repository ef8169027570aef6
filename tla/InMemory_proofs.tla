--------------------------- MODULE InMemory_proofs ---------------------------
(***************************************************************************)
(* Proofs about what the server keeps in memory only: the websocket hub     *)
(* (Hub), the providers of the resolver (ProviderCache) and the responses   *)
(* of the models (ResponseCache).                                           *)
(***************************************************************************)
EXTENDS Hub, ProviderCache, ResponseCache, SequenceTheorems, FiniteSetTheorems, TLAPS

-----------------------------------------------------------------------------
(* Hub, for every number of connections and messages.                       *)
(* Where a connection is, and what walks may hold. *)
RoomOK ==
    /\ \A c \in Clients :
        /\ c \in rooms <=> at[c] \in {"serving", "leaving"}
        /\ c \in closed <=> at[c] = "gone"
        /\ at[c] = "new" <=> pump[c] = "off"
        /\ pump[c] = "writing" <=> inHand[c] # None
        /\ at[c] = "gone" => pump[c] = "done"

WalkOK ==
    \A s \in Senders :
        /\ chosen[s] # None => walk[s].on
        /\ walk[s].left # {} => walk[s].on
        /\ chosen[s] \notin walk[s].left
        /\ \A c \in Clients :
            (c \in walk[s].left \/ chosen[s] = c) =>
                /\ at[c] # "new"
                /\ roomOf[c] = roomOf[s]
                /\ walk[s].calm => c \in rooms

(* A walk belongs to a broadcast that has been counted. *)
BegunOK == \A s \in Senders : walk[s].on => count[s] > 0

CalmInv == TypeOK /\ RoomOK /\ WalkOK /\ BegunOK /\ CalmWalksAreSafe

LEMMA InitCalmInv == Init => CalmInv
  <1> SUFFICES ASSUME Init PROVE CalmInv
    OBVIOUS
  <1>. USE HubAssumption DEF Init
  <1>1. TypeOK
    BY DEF TypeOK, Idle
  <1>2. RoomOK /\ WalkOK /\ BegunOK /\ CalmWalksAreSafe
    BY DEF RoomOK, WalkOK, BegunOK, CalmWalksAreSafe, Idle
  <1>. QED  BY <1>1, <1>2 DEF CalmInv

(* A client comes or goes: the walks of its room are no longer calm. *)
LEMMA RoomChanges ==
    ASSUME CalmInv, NEW c \in Clients, Register(c) \/ Unregister(c), down = "no"
    PROVE  CalmInv'
  <1>. TypeOK /\ RoomOK /\ WalkOK /\ BegunOK
    BY DEF CalmInv
  <1>. PICK some \in SUBSET Walking(roomOf[c]) :
         walk' = [s \in Senders |->
                   [walk[s] EXCEPT
                     !.left = IF s \in some
                              THEN IF at[c] = "new" THEN @ \cup {c} ELSE @ \ {c}
                              ELSE @,
                     !.calm = @ /\ s \notin Walking(roomOf[c])]]
    BY DEF Register, Unregister
  <1>. DEFINE stays(s) == s \notin Walking(roomOf[c])
  <1>1. ASSUME NEW s \in Senders
        PROVE  /\ walk'[s].on = walk[s].on
               /\ walk'[s].to = walk[s].to
               /\ walk'[s].calm = (walk[s].calm /\ stays(s))
               /\ walk'[s].left = IF s \in some
                                  THEN IF at[c] = "new" THEN walk[s].left \cup {c}
                                                        ELSE walk[s].left \ {c}
                                  ELSE walk[s].left
               /\ walk'[s] \in [on : BOOLEAN, calm : BOOLEAN,
                                left : SUBSET Clients, to : SUBSET Clients]
    BY DEF TypeOK
  <1>2. /\ UNCHANGED <<roomOf, send, inHand, received, lost, chosen, count>>
        /\ down' \in {down, "concurrent map iteration and map write"}
        /\ down' # down => Walking(roomOf[c]) # {}
    BY DEF Register, Unregister, MapWrite
  <1>3. \/ /\ at[c] = "new" /\ at' = [at EXCEPT ![c] = "serving"]
           /\ rooms' = rooms \cup {c} /\ closed' = closed
           /\ pump' = [pump EXCEPT ![c] = "running"]
        \/ /\ at[c] = "leaving" /\ at' = [at EXCEPT ![c] = "gone"]
           /\ pump[c] = "done" /\ pump' = pump
           /\ rooms' = rooms \ {c} /\ closed' = closed \cup {c}
    BY DEF Register, Unregister, Goto
  <1>4. TypeOK'
    <2>1. walk' \in [Senders -> [on : BOOLEAN, calm : BOOLEAN,
                                 left : SUBSET Clients, to : SUBSET Clients]]
      BY <1>1
    <2>. QED  BY <1>2, <1>3, <2>1 DEF TypeOK
  <1>5. RoomOK'
    <2>. SUFFICES ASSUME NEW d \in Clients
         PROVE  /\ d \in rooms' <=> at'[d] \in {"serving", "leaving"}
                /\ d \in closed' <=> at'[d] = "gone"
                /\ at'[d] = "new" <=> pump'[d] = "off"
                /\ pump'[d] = "writing" <=> inHand'[d] # None
                /\ at'[d] = "gone" => pump'[d] = "done"
      BY DEF RoomOK
    <2>0. /\ d \in rooms <=> at[d] \in {"serving", "leaving"}
          /\ d \in closed <=> at[d] = "gone"
          /\ at[d] = "new" <=> pump[d] = "off"
          /\ pump[d] = "writing" <=> inHand[d] # None
          /\ at[d] = "gone" => pump[d] = "done"
      BY DEF RoomOK
    <2>1. CASE d # c
      <3>1. at'[d] = at[d] /\ pump'[d] = pump[d] /\ inHand'[d] = inHand[d]
        BY <1>2, <1>3, <2>1 DEF TypeOK
      <3>2. (d \in rooms' <=> d \in rooms) /\ (d \in closed' <=> d \in closed)
        BY <1>3, <2>1
      <3>. QED  BY <2>0, <3>1, <3>2
    <2>2. CASE d = c /\ at[c] = "new"
      <3>1. at'[c] = "serving" /\ pump'[c] = "running" /\ inHand'[c] = inHand[c]
        BY <1>2, <1>3, <2>2 DEF TypeOK
      <3>2. c \in rooms' /\ closed' = closed
        BY <1>3, <2>2
      <3>. QED  BY <2>0, <2>2, <3>1, <3>2
    <2>3. CASE d = c /\ at[c] = "leaving"
      <3>1. at'[c] = "gone" /\ pump'[c] = "done" /\ inHand'[c] = inHand[c] /\ pump[c] = "done"
        BY <1>2, <1>3, <2>3 DEF TypeOK
      <3>2. c \notin rooms' /\ c \in closed'
        BY <1>3, <2>3
      <3>. QED  BY <2>0, <2>3, <3>1, <3>2
    <2>. QED  BY <1>3, <2>1, <2>2, <2>3
  <1>6. WalkOK'
    <2>. SUFFICES ASSUME NEW s \in Senders
         PROVE  /\ chosen'[s] # None => walk'[s].on
                /\ walk'[s].left # {} => walk'[s].on
                /\ chosen'[s] \notin walk'[s].left
                /\ \A d \in Clients :
                    (d \in walk'[s].left \/ chosen'[s] = d) =>
                        /\ at'[d] # "new"
                        /\ roomOf'[d] = roomOf'[s]
                        /\ walk'[s].calm => d \in rooms'
      BY DEF WalkOK
    <2>1. s \in some => walk[s].on /\ roomOf[s] = roomOf[c]
      BY DEF Walking
    <2>2. /\ chosen'[s] # None => walk'[s].on
          /\ walk'[s].left # {} => walk'[s].on
      BY <1>1, <1>2, <2>1 DEF WalkOK
    <2>3. chosen'[s] \notin walk'[s].left
      <3>1. chosen[s] \notin walk[s].left
        BY DEF WalkOK
      <3>2. at[c] = "new" => chosen[s] # c
        BY DEF WalkOK
      <3>. QED  BY <1>1, <1>2, <3>1, <3>2
    <2>4. ASSUME NEW d \in Clients, d \in walk'[s].left \/ chosen'[s] = d
          PROVE  at'[d] # "new" /\ roomOf'[d] = roomOf'[s]
      <3>1. d = c \/ d \in walk[s].left \/ chosen[s] = d
        BY <1>1, <1>2, <2>4
      <3>2. CASE d = c
        <4>1. at'[c] # "new"
          BY <1>3 DEF TypeOK
        <4>2. roomOf[c] = roomOf[s]
          <5>1. s \in some \/ c \in walk[s].left \/ chosen[s] = c
            BY <1>1, <1>2, <2>4, <3>2
          <5>. QED  BY <2>1, <5>1 DEF WalkOK
        <4>. QED  BY <1>2, <3>2, <4>1, <4>2
      <3>3. CASE d # c /\ (d \in walk[s].left \/ chosen[s] = d)
        <4>1. at[d] # "new" /\ roomOf[d] = roomOf[s]
          BY <3>3 DEF WalkOK
        <4>2. at'[d] = at[d]
          BY <1>3, <3>3 DEF TypeOK
        <4>. QED  BY <1>2, <4>1, <4>2
      <3>. QED  BY <3>1, <3>2, <3>3
    <2>5. ASSUME NEW d \in Clients, d \in walk'[s].left \/ chosen'[s] = d, walk'[s].calm
          PROVE  d \in rooms'
      <3>1. walk'[s].left = walk[s].left /\ walk[s].calm
        BY <1>1, <2>1, <2>5 DEF Walking
      <3>2. d \in rooms
        BY <1>2, <2>5, <3>1 DEF WalkOK
      <3>3. walk[s].on
        BY HubAssumption, <1>2, <2>5, <3>1 DEF WalkOK
      <3>4. d # c
        <4>1. roomOf[s] # roomOf[c]
          BY <1>1, <2>5, <3>3 DEF Walking
        <4>2. roomOf[d] = roomOf[s]
          BY <1>2, <2>5, <3>1 DEF WalkOK
        <4>. QED  BY <4>1, <4>2
      <3>. QED  BY <1>3, <3>2, <3>4
    <2>. QED  BY <2>2, <2>3, <2>4, <2>5
  <1>7. CalmWalksAreSafe'
    BY <1>1, <1>2 DEF CalmWalksAreSafe, Walking
  <1>8. BegunOK'
    BY <1>1, <1>2 DEF BegunOK
  <1>. QED  BY <1>4, <1>5, <1>6, <1>7, <1>8 DEF CalmInv

(* A step of a connection that neither comes nor goes.                      *)
LEMMA ConnectionSteps ==
    ASSUME CalmInv, NEW c \in Clients, Pump(c) \/ ReadFails(c), down = "no"
    PROVE  CalmInv'
  <1>. TypeOK /\ RoomOK /\ WalkOK /\ BegunOK
    BY DEF CalmInv
  <1>1. UNCHANGED <<roomOf, rooms, closed, sender, down>>
    BY DEF Pump, Take, WriteMessage, PumpStops, ReadFails
  <1>2. \A d \in Clients \ {c} : at'[d] = at[d] /\ pump'[d] = pump[d] /\ inHand'[d] = inHand[d]
    BY DEF Pump, Take, WriteMessage, PumpStops, ReadFails, Goto, TypeOK
  <1>3. /\ at'[c] = at[c] \/ (at[c] = "serving" /\ at'[c] = "leaving")
        /\ at[c] = "new" => pump[c] = "off"
    BY DEF Pump, Take, WriteMessage, PumpStops, ReadFails, Goto, TypeOK, RoomOK
  <1>4. TypeOK'
    <2>1. CASE Take(c)
      <3>1. send[c] \in Seq(Message) /\ send[c] # <<>>
        BY <2>1 DEF Take, TypeOK
      <3>2. Head(send[c]) \in Message /\ Tail(send[c]) \in Seq(Message)
        BY <3>1, HeadTailProperties
      <3>3. send' \in [Clients -> Seq(Message)] /\ inHand' \in [Clients -> Message \cup {None}]
        BY <2>1, <3>2 DEF Take, TypeOK
      <3>4. at' = at /\ received' = received /\ lost' = lost
        BY <2>1 DEF Take
      <3>5. pump' \in [Clients -> {"off", "running", "writing", "done"}]
        BY <2>1 DEF Take, TypeOK
      <3>6. at' = at /\ received' = received /\ lost' = lost /\ walk' = walk
            /\ chosen' = chosen /\ count' = count /\ down' = down /\ roomOf' = roomOf
            /\ rooms' = rooms /\ closed' = closed
        BY <1>1, <3>4 DEF sender
      <3>. QED  BY <3>3, <3>5, <3>6 DEF TypeOK
    <2>2. CASE WriteMessage(c)
      <3>1. inHand[c] \in Message
        BY <2>2 DEF WriteMessage, TypeOK, RoomOK
      <3>2. Append(received[c], inHand[c]) \in Seq(Message)
        BY <3>1, AppendProperties DEF TypeOK
      <3>3. /\ received' \in [Clients -> Seq(Message)]
            /\ lost' \in [Clients -> SUBSET Message]
        <4>1. CASE received' = [received EXCEPT ![c] = Append(@, inHand[c])] /\ UNCHANGED lost
          BY <3>2, <4>1 DEF TypeOK
        <4>2. CASE lost' = [lost EXCEPT ![c] = @ \cup {inHand[c]}] /\ UNCHANGED received
          BY <3>1, <4>2 DEF TypeOK
        <4>. QED  BY <2>2, <4>1, <4>2 DEF WriteMessage
      <3>4. /\ inHand' \in [Clients -> Message \cup {None}]
            /\ pump' \in [Clients -> {"off", "running", "writing", "done"}]
        <4>1. pump' = [pump EXCEPT ![c] = "running"] \/ pump' = [pump EXCEPT ![c] = "done"]
          BY <2>2 DEF WriteMessage
        <4>2. pump' \in [Clients -> {"off", "running", "writing", "done"}]
          BY <4>1 DEF TypeOK
        <4>. QED  BY <2>2, <4>2 DEF WriteMessage, TypeOK
      <3>5. UNCHANGED <<send, at, walk, chosen, count, down, roomOf, rooms, closed>>
        BY <2>2 DEF WriteMessage, sender
      <3>. QED  BY <3>3, <3>4, <3>5 DEF TypeOK
    <2>3. CASE PumpStops(c) \/ ReadFails(c)
      BY <1>1, <2>3 DEF PumpStops, ReadFails, Goto, TypeOK, sender
    <2>. QED  BY <2>1, <2>2, <2>3 DEF Pump
  <1>5. RoomOK'
    <2>. SUFFICES ASSUME NEW d \in Clients
         PROVE  /\ d \in rooms <=> at'[d] \in {"serving", "leaving"}
                /\ d \in closed <=> at'[d] = "gone"
                /\ at'[d] = "new" <=> pump'[d] = "off"
                /\ pump'[d] = "writing" <=> inHand'[d] # None
                /\ at'[d] = "gone" => pump'[d] = "done"
      BY <1>1 DEF RoomOK
    <2>0. /\ d \in rooms <=> at[d] \in {"serving", "leaving"}
          /\ d \in closed <=> at[d] = "gone"
          /\ at[d] = "new" <=> pump[d] = "off"
          /\ pump[d] = "writing" <=> inHand[d] # None
          /\ at[d] = "gone" => pump[d] = "done"
      BY DEF RoomOK
    <2>1. CASE d # c
      BY <1>2, <2>0, <2>1
    <2>2. CASE d = c /\ Take(c)
      <3>1. Head(send[c]) \in Message
        BY <2>2, HeadTailProperties DEF Take, TypeOK
      <3>2. /\ pump[c] = "running" /\ pump'[c] = "writing"
            /\ inHand'[c] = Head(send[c]) /\ at'[c] = at[c]
        BY <2>2 DEF Take, TypeOK
      <3>. QED  BY HubAssumption, <2>0, <2>2, <3>1, <3>2
    <2>3. CASE d = c /\ WriteMessage(c)
      <3>1. /\ pump[c] = "writing" /\ pump'[c] \in {"running", "done"}
            /\ inHand'[c] = None /\ at'[c] = at[c]
        BY <2>3 DEF WriteMessage, TypeOK
      <3>. QED  BY <2>0, <2>3, <3>1
    <2>4. CASE d = c /\ PumpStops(c)
      <3>1. /\ pump[c] = "running" /\ pump'[c] = "done"
            /\ inHand'[c] = inHand[c] /\ at'[c] = at[c]
        BY <2>4 DEF PumpStops, TypeOK
      <3>. QED  BY <2>0, <2>4, <3>1
    <2>5. CASE d = c /\ ReadFails(c)
      <3>1. /\ at[c] = "serving" /\ at'[c] = "leaving"
            /\ inHand'[c] = inHand[c] /\ pump'[c] = pump[c]
        BY <2>5 DEF ReadFails, Goto, TypeOK
      <3>. QED  BY <2>0, <2>5, <3>1
    <2>. QED  BY <2>1, <2>2, <2>3, <2>4, <2>5 DEF Pump
  <1>6. WalkOK'
    <2>1. \A d \in Clients : at[d] # "new" => at'[d] # "new"
      BY <1>2, <1>3
    <2>. QED  BY <1>1, <2>1 DEF WalkOK, sender
  <1>7. CalmWalksAreSafe'
    BY <1>1 DEF CalmWalksAreSafe, sender
  <1>8. BegunOK'
    BY <1>1 DEF BegunOK, sender
  <1>. QED  BY <1>4, <1>5, <1>6, <1>7, <1>8 DEF CalmInv

(* A step of a broadcast.  Only a send can stop the process, and only one   *)
(* to a client that has left since the walk began.                          *)
LEMMA BroadcastSteps ==
    ASSUME CalmInv, NEW s \in Senders, down = "no",
           Broadcast(s) \/ NextClient(s) \/ SendToClient(s) \/ EndBroadcast(s)
    PROVE  CalmInv'
  <1>. TypeOK /\ RoomOK /\ WalkOK /\ BegunOK
    BY DEF CalmInv
  <1>1. UNCHANGED <<roomOf, rooms, closed, at, pump, inHand, received>>
    BY DEF Broadcast, NextClient, SendToClient, EndBroadcast, connection
  <1>2. RoomOK'
    BY <1>1 DEF RoomOK
  <1>3. \A t \in Senders \ {s} : walk'[t] = walk[t] /\ chosen'[t] = chosen[t]
    BY DEF Broadcast, NextClient, SendToClient, EndBroadcast, TypeOK
  <1>10. BegunOK'
    <2>. SUFFICES ASSUME NEW t \in Senders, walk'[t].on PROVE count'[t] > 0
      BY DEF BegunOK
    <2>1. CASE Broadcast(s)
      <3>1. count[t] \in Nat /\ (t # s => walk'[t] = walk[t])
        BY HubAssumption, <1>3 DEF TypeOK
      <3>2. count'[t] = IF t = s THEN count[t] + 1 ELSE count[t]
        BY <2>1 DEF Broadcast, TypeOK
      <3>. QED  BY <3>1, <3>2 DEF BegunOK
    <2>2. CASE ~Broadcast(s)
      <3>1. count' = count
        BY <2>2 DEF NextClient, SendToClient, EndBroadcast
      <3>2. walk'[s].on => walk[s].on
        BY <2>2 DEF NextClient, SendToClient, EndBroadcast, TypeOK, Idle
      <3>. QED  BY <1>3, <3>1, <3>2 DEF BegunOK
    <2>. QED  BY <2>1, <2>2
  <1>4. ASSUME TypeOK', CalmWalksAreSafe',
               /\ chosen'[s] # None => walk'[s].on
               /\ walk'[s].left # {} => walk'[s].on
               /\ chosen'[s] \notin walk'[s].left
               /\ \A c \in Clients :
                   (c \in walk'[s].left \/ chosen'[s] = c) =>
                       /\ at[c] # "new"
                       /\ roomOf[c] = roomOf[s]
                       /\ walk'[s].calm => c \in rooms
        PROVE  CalmInv'
    <2>1. WalkOK'
      BY <1>1, <1>3, <1>4 DEF WalkOK
    <2>. QED  BY <1>2, <1>4, <1>10, <2>1 DEF CalmInv
  <1>5. /\ chosen[s] # None => walk[s].on
        /\ walk[s].left # {} => walk[s].on
        /\ chosen[s] \notin walk[s].left
        /\ \A c \in Clients :
            (c \in walk[s].left \/ chosen[s] = c) =>
                /\ at[c] # "new"
                /\ roomOf[c] = roomOf[s]
                /\ walk[s].calm => c \in rooms
    BY DEF WalkOK
  <1>6. CASE Broadcast(s)
    <2>1. /\ walk'[s] = [on |-> TRUE, left |-> Room(roomOf[s]), to |-> Room(roomOf[s]), calm |-> TRUE]
          /\ UNCHANGED <<connection, chosen, down>>
      BY <1>6 DEF Broadcast, TypeOK
    <2>2. chosen[s] = None
      BY <1>5, <1>6 DEF Broadcast
    <2>3. Room(roomOf[s]) \in SUBSET Clients
      BY DEF Room, TypeOK
    <2>4. TypeOK'
      BY HubAssumption, <1>6, <2>3 DEF Broadcast, TypeOK, connection
    <2>5. \A c \in Room(roomOf[s]) : c \in rooms /\ at[c] # "new" /\ roomOf[c] = roomOf[s]
      BY DEF Room, RoomOK, TypeOK
    <2>6. CalmWalksAreSafe'
      BY <2>1 DEF CalmWalksAreSafe
    <2>7. chosen[s] \notin Room(roomOf[s])
      BY HubAssumption, <2>2, <2>3
    <2>8. \A c \in Clients : chosen[s] # c
      BY HubAssumption, <2>2
    <2>. QED  BY <1>4, <2>1, <2>2, <2>4, <2>5, <2>6, <2>7, <2>8
  <1>7. CASE NextClient(s)
    <2>1. PICK c \in walk[s].left : /\ chosen' = [chosen EXCEPT ![s] = c]
                                    /\ walk' = [walk EXCEPT ![s].left = @ \ {c}]
      BY <1>7 DEF NextClient
    <2>3. c \in Clients
      BY <2>1 DEF TypeOK
    <2>2. /\ chosen'[s] = c /\ walk'[s].left = walk[s].left \ {c}
          /\ walk'[s].on = walk[s].on /\ walk'[s].calm = walk[s].calm
          /\ walk'[s] \in [on : BOOLEAN, calm : BOOLEAN, left : SUBSET Clients, to : SUBSET Clients]
          /\ UNCHANGED <<connection, count, down>>
      <3>1. chosen'[s] = c /\ UNCHANGED <<connection, count, down>>
        BY <1>7, <2>1 DEF NextClient, TypeOK
      <3>2. walk[s] \in [on : BOOLEAN, calm : BOOLEAN, left : SUBSET Clients, to : SUBSET Clients]
        BY DEF TypeOK
      <3>3. walk'[s] = [walk[s] EXCEPT !.left = @ \ {c}]
        BY <2>1 DEF TypeOK
      <3>. QED  BY <3>1, <3>2, <3>3
    <2>4. TypeOK'
      BY <1>1, <2>1, <2>2, <2>3 DEF TypeOK, connection
    <2>5. CalmWalksAreSafe'
      BY <2>2 DEF CalmWalksAreSafe
    <2>. QED  BY <1>4, <1>5, <2>1, <2>2, <2>3, <2>4, <2>5
  <1>8. CASE SendToClient(s)
    <2>1. /\ chosen[s] # None /\ chosen'[s] = None
          /\ chosen' = [chosen EXCEPT ![s] = None]
          /\ UNCHANGED <<walk, count>>
      BY <1>8 DEF SendToClient, TypeOK
    <2>2. chosen[s] \in Clients
      BY <2>1 DEF TypeOK
    <2>3. [from |-> s, n |-> count[s]] \in Message
      <3>1. count[s] \in 1 .. MaxMessages
        BY <1>5, <2>1 DEF TypeOK, BegunOK, CalmInv
      <3>. QED  BY <3>1 DEF Message
    <2>4. TypeOK'
      <3>1. Append(send[chosen[s]], [from |-> s, n |-> count[s]]) \in Seq(Message)
        BY <2>2, <2>3, AppendProperties DEF TypeOK
      <3>2. send' \in [Clients -> Seq(Message)] /\ lost' \in [Clients -> SUBSET Message]
        <4>1. CASE UNCHANGED <<send, lost>>
          BY <4>1 DEF TypeOK
        <4>2. CASE send' = [send EXCEPT ![chosen[s]] = Append(@, [from |-> s, n |-> count[s]])]
                   /\ UNCHANGED lost
          BY <2>2, <3>1, <4>2 DEF TypeOK
        <4>3. CASE lost' = [lost EXCEPT ![chosen[s]] = @ \cup {[from |-> s, n |-> count[s]]}]
                   /\ UNCHANGED send
          BY <2>2, <2>3, <4>3 DEF TypeOK
        <4>. QED  BY <1>8, <4>1, <4>2, <4>3 DEF SendToClient
      <3>3. down' \in {"no", "send on closed channel"}
        BY <1>8 DEF SendToClient
      <3>4. chosen' \in [Senders -> Clients \cup {None}]
        BY <2>1 DEF TypeOK
      <3>. QED  BY <1>1, <2>1, <3>2, <3>3, <3>4 DEF TypeOK
    <2>5. CalmWalksAreSafe'
      <3>1. CASE chosen[s] \in closed
        <4>1. chosen[s] \notin rooms
          BY <2>2, <3>1 DEF RoomOK
        <4>2. walk[s].on /\ ~walk[s].calm
          BY <1>5, <2>1, <2>2, <4>1
        <4>. QED  BY <2>1, <4>2 DEF CalmWalksAreSafe
      <3>2. CASE chosen[s] \notin closed
        BY <1>8, <3>2 DEF SendToClient, CalmWalksAreSafe
      <3>. QED  BY <3>1, <3>2
    <2>6. \A c \in Clients : chosen'[s] # c
      BY HubAssumption, <2>1
    <2>7. chosen'[s] \notin walk'[s].left
      BY <2>1, <2>6 DEF TypeOK
    <2>. QED  BY <1>4, <1>5, <2>1, <2>4, <2>5, <2>6, <2>7
  <1>9. CASE EndBroadcast(s)
    <2>1. /\ walk'[s] = Idle /\ chosen[s] = None /\ UNCHANGED <<connection, chosen, count, down>>
      BY <1>9 DEF EndBroadcast, TypeOK
    <2>2. TypeOK'
      BY <1>9 DEF EndBroadcast, TypeOK, Idle, connection
    <2>3. CalmWalksAreSafe'
      BY <2>1 DEF CalmWalksAreSafe
    <2>4. \A c \in Clients : chosen'[s] # c
      BY HubAssumption, <2>1
    <2>. QED  BY <1>4, <2>1, <2>2, <2>3, <2>4 DEF Idle
  <1>. QED  BY <1>6, <1>7, <1>8, <1>9

LEMMA NextCalmInv == CalmInv /\ [Next]_vars => CalmInv'
  <1> SUFFICES ASSUME CalmInv, [Next]_vars PROVE CalmInv'
    OBVIOUS
  <1>1. CASE down = "no" /\ \E c \in Clients :
                Register(c) \/ Pump(c) \/ ReadFails(c) \/ Unregister(c)
    BY <1>1, RoomChanges, ConnectionSteps
  <1>2. CASE down = "no" /\ \E s \in Senders :
                Broadcast(s) \/ NextClient(s) \/ SendToClient(s) \/ EndBroadcast(s)
    BY <1>2, BroadcastSteps
  <1>3. CASE UNCHANGED vars
    BY <1>3 DEF vars, connection, sender, CalmInv, TypeOK, RoomOK, WalkOK, BegunOK, CalmWalksAreSafe
  <1>. QED  BY <1>1, <1>2, <1>3 DEF Next

LEMMA AlwaysCalmInv == Spec => []CalmInv
  BY InitCalmInv, NextCalmInv, PTL DEF Spec

(* For any number of connections, senders, rooms and messages, every        *)
(* variable of the hub keeps to the values it is declared for: among them,  *)
(* all a connection is sent are messages of broadcasts.                     *)
THEOREM TypeCorrect == Spec => []TypeOK
  <1>1. CalmInv => TypeOK
    BY DEF CalmInv
  <1>. QED  BY <1>1, AlwaysCalmInv, PTL

(* The process stops only when a client came or went while a walk of its    *)
(* room was under way, however many rooms, senders and connections there    *)
(* are and whatever the size of the buffers.                                *)
THEOREM OnlyRacesStopTheProcess == Spec => []CalmWalksAreSafe
  <1>1. CalmInv => CalmWalksAreSafe
    BY DEF CalmInv
  <1>. QED  BY <1>1, AlwaysCalmInv, PTL

-----------------------------------------------------------------------------
(* The order of messages.                                                   *)

Ordered(q) ==
    \A i, j \in DOMAIN q : (i < j /\ q[i].from = q[j].from) => q[i].n < q[j].n

Holds(q, m) == \E i \in DOMAIN q : q[i] = m

LEMMA MessageFields ==
    ASSUME NEW m \in Message
    PROVE  m.from \in Senders /\ m.n \in 1 .. MaxMessages
  BY DEF Message

LEMMA EmptyAndOne ==
    ASSUME NEW m \in Message
    PROVE  /\ <<>> \in Seq(Message) /\ Len(<<>>) = 0
           /\ <<m>> \in Seq(Message) /\ Len(<<m>>) = 1 /\ <<m>>[1] = m
  BY EmptySeq

(* What is written, what is being written and what waits, in a row. *)
LEMMA InARow ==
    ASSUME NEW r \in Seq(Message), NEW h \in Seq(Message), NEW w \in Seq(Message)
    PROVE  /\ r \o h \o w \in Seq(Message)
           /\ Len(r \o h \o w) = Len(r) + Len(h) + Len(w)
           /\ DOMAIN (r \o h \o w) = 1 .. (Len(r) + Len(h) + Len(w))
           /\ \A i \in 1 .. (Len(r) + Len(h) + Len(w)) :
                (r \o h \o w)[i] = IF i <= Len(r) THEN r[i]
                                   ELSE IF i <= Len(r) + Len(h) THEN h[i - Len(r)]
                                   ELSE w[i - Len(r) - Len(h)]
  <1>1. /\ r \o h \in Seq(Message) /\ Len(r \o h) = Len(r) + Len(h)
        /\ \A i \in 1 .. Len(r) + Len(h) :
             (r \o h)[i] = IF i <= Len(r) THEN r[i] ELSE h[i - Len(r)]
    BY ConcatProperties
  <1>2. /\ r \o h \o w \in Seq(Message) /\ Len(r \o h \o w) = Len(r \o h) + Len(w)
        /\ \A i \in 1 .. Len(r \o h) + Len(w) :
             (r \o h \o w)[i] = IF i <= Len(r \o h) THEN (r \o h)[i] ELSE w[i - Len(r \o h)]
    BY <1>1, ConcatProperties
  <1>3. Len(r) \in Nat /\ Len(h) \in Nat /\ Len(w) \in Nat
    BY LenProperties
  <1>4. DOMAIN (r \o h \o w) = 1 .. (Len(r) + Len(h) + Len(w))
    BY <1>1, <1>2, LenProperties
  <1>5. ASSUME NEW i \in 1 .. (Len(r) + Len(h) + Len(w))
        PROVE  (r \o h \o w)[i] = IF i <= Len(r) THEN r[i]
                                  ELSE IF i <= Len(r) + Len(h) THEN h[i - Len(r)]
                                  ELSE w[i - Len(r) - Len(h)]
    BY <1>1, <1>2, <1>3
  <1>. QED  BY <1>1, <1>2, <1>4, <1>5

(* The pump takes a message: nothing changes. *)
LEMMA TakenInARow ==
    ASSUME NEW r \in Seq(Message), NEW w \in Seq(Message), w # <<>>
    PROVE  r \o <<Head(w)>> \o Tail(w) = r \o <<>> \o w
  <1>1. /\ Head(w) \in Message /\ Tail(w) \in Seq(Message) /\ Len(Tail(w)) = Len(w) - 1
        /\ \A i \in 1 .. Len(Tail(w)) : Tail(w)[i] = w[i + 1]
    BY HeadTailProperties
  <1>2. Head(w) = w[1] /\ Len(r) \in Nat /\ Len(w) \in Nat
    BY LenProperties
  <1>3. /\ <<>> \in Seq(Message) /\ Len(<<>>) = 0
        /\ <<Head(w)>> \in Seq(Message) /\ Len(<<Head(w)>>) = 1 /\ <<Head(w)>>[1] = Head(w)
    BY <1>1, EmptyAndOne
  <1>. DEFINE a == r \o <<Head(w)>> \o Tail(w)
              b == r \o <<>> \o w
  <1>4. a \in Seq(Message) /\ b \in Seq(Message) /\ Len(a) = Len(b) /\ Len(b) = Len(r) + Len(w)
    BY <1>1, <1>2, <1>3, InARow
  <1>5. ASSUME NEW i \in 1 .. Len(a) PROVE a[i] = b[i]
    <2>1. i \in 1 .. (Len(r) + 1 + Len(Tail(w))) /\ i \in 1 .. (Len(r) + 0 + Len(w))
      BY <1>1, <1>2, <1>4
    <2>2. a[i] = IF i <= Len(r) THEN r[i]
                 ELSE IF i <= Len(r) + 1 THEN <<Head(w)>>[i - Len(r)]
                 ELSE Tail(w)[i - Len(r) - 1]
      BY <1>1, <1>3, <2>1, InARow
    <2>3. b[i] = IF i <= Len(r) THEN r[i] ELSE IF i <= Len(r) + 0 THEN <<>>[i - Len(r)]
                 ELSE w[i - Len(r) - 0]
      BY <1>3, <2>1, InARow
    <2>4. CASE i <= Len(r)
      BY <2>2, <2>3, <2>4
    <2>5. CASE i = Len(r) + 1
      BY <1>2, <1>3, <2>2, <2>3, <2>5
    <2>6. CASE i > Len(r) + 1
      <3>1. i - Len(r) - 1 \in 1 .. Len(Tail(w))
        BY <1>1, <1>2, <2>1, <2>6
      <3>2. Tail(w)[i - Len(r) - 1] = w[i - Len(r)]
        BY <1>1, <1>2, <3>1
      <3>. QED  BY <1>2, <2>2, <2>3, <2>6, <3>2
    <2>. QED  BY <1>2, <1>4, <2>4, <2>5, <2>6
  <1>. HIDE DEF a, b
  <1>6. a = b
    BY <1>4, <1>5, SeqEqual
  <1>. QED  BY <1>6 DEF a, b

LEMMA AppendedAtTheEnd ==
    ASSUME NEW q \in Seq(Message), NEW w \in Seq(Message), NEW m \in Message
    PROVE  q \o Append(w, m) = Append(q \o w, m)
  <1>1. <<m>> \in Seq(Message) /\ q \o w \in Seq(Message)
    BY EmptyAndOne, ConcatProperties
  <1>2. Append(w, m) = w \o <<m>> /\ Append(q \o w, m) = (q \o w) \o <<m>>
    BY <1>1, AppendIsConcat
  <1>3. (q \o w) \o <<m>> = q \o (w \o <<m>>)
    BY <1>1, ConcatAssociative
  <1>. QED  BY <1>2, <1>3

(* A message is written: nothing changes. *)
LEMMA WrittenInARow ==
    ASSUME NEW r \in Seq(Message), NEW m \in Message, NEW w \in Seq(Message)
    PROVE  Append(r, m) \o <<>> \o w = r \o <<m>> \o w
  <1>1. Append(r, m) = r \o <<m>> /\ r \o <<m>> \in Seq(Message)
    BY EmptyAndOne, ConcatProperties, AppendIsConcat
  <1>2. Append(r, m) \o <<>> = r \o <<m>>
    BY <1>1, ConcatEmptySeq
  <1>. QED  BY <1>2

(* It is not written, and is missing from the row. *)
LEMMA MissingInARow ==
    ASSUME NEW r \in Seq(Message), NEW m \in Message, NEW w \in Seq(Message)
    PROVE  LET a == r \o <<>> \o w
               b == r \o <<m>> \o w
           IN  /\ Ordered(b) => Ordered(a)
               /\ \A i \in DOMAIN a : \E j \in DOMAIN b : b[j] = a[i]
               /\ \A j \in DOMAIN b : b[j] = m \/ \E i \in DOMAIN a : a[i] = b[j]
  <1>. DEFINE a == r \o <<>> \o w
              b == r \o <<m>> \o w
              back(i) == IF i <= Len(r) THEN i ELSE i + 1
              forth(j) == IF j <= Len(r) THEN j ELSE j - 1
  <1>1. /\ <<>> \in Seq(Message) /\ Len(<<>>) = 0
        /\ <<m>> \in Seq(Message) /\ Len(<<m>>) = 1 /\ <<m>>[1] = m
    BY EmptyAndOne
  <1>2. Len(r) \in Nat /\ Len(w) \in Nat
    BY LenProperties
  <1>3. DOMAIN a = 1 .. (Len(r) + Len(w)) /\ DOMAIN b = 1 .. (Len(r) + 1 + Len(w))
    <2>1. DOMAIN a = 1 .. (Len(r) + 0 + Len(w))
      BY <1>1, InARow
    <2>2. DOMAIN b = 1 .. (Len(r) + 1 + Len(w))
      BY <1>1, InARow
    <2>. QED  BY <1>2, <2>1, <2>2
  <1>4. ASSUME NEW i \in DOMAIN a
        PROVE  a[i] = IF i <= Len(r) THEN r[i] ELSE w[i - Len(r)]
    <2>1. i \in 1 .. (Len(r) + 0 + Len(w))
      BY <1>2, <1>3
    <2>2. a[i] = IF i <= Len(r) THEN r[i] ELSE IF i <= Len(r) + 0 THEN <<>>[i - Len(r)]
                 ELSE w[i - Len(r) - 0]
      BY <1>1, <2>1, InARow
    <2>. QED  BY <1>2, <2>1, <2>2
  <1>5. ASSUME NEW j \in DOMAIN b
        PROVE  b[j] = IF j <= Len(r) THEN r[j] ELSE IF j = Len(r) + 1 THEN m
                      ELSE w[j - Len(r) - 1]
    <2>1. j \in 1 .. (Len(r) + 1 + Len(w))
      BY <1>3
    <2>2. b[j] = IF j <= Len(r) THEN r[j] ELSE IF j <= Len(r) + 1 THEN <<m>>[j - Len(r)]
                 ELSE w[j - Len(r) - 1]
      BY <1>1, <2>1, InARow
    <2>. QED  BY <1>1, <1>2, <2>1, <2>2
  <1>. HIDE DEF a, b
  <1>6. ASSUME NEW i \in DOMAIN a PROVE back(i) \in DOMAIN b /\ b[back(i)] = a[i]
    <2>1. back(i) \in DOMAIN b
      BY <1>2, <1>3
    <2>. QED  BY <1>2, <1>3, <1>4, <1>5, <2>1
  <1>7. ASSUME NEW j \in DOMAIN b, j # Len(r) + 1
        PROVE  forth(j) \in DOMAIN a /\ a[forth(j)] = b[j]
    <2>1. forth(j) \in DOMAIN a
      BY <1>2, <1>3, <1>7
    <2>2. j \in 1 .. (Len(r) + 1 + Len(w))
      BY <1>3
    <2>3. CASE j <= Len(r)
      BY <1>4, <1>5, <2>1, <2>3
    <2>4. CASE j > Len(r) + 1
      <3>1. a[j - 1] = w[j - 1 - Len(r)] /\ b[j] = w[j - Len(r) - 1]
        BY <1>2, <1>4, <1>5, <2>1, <2>2, <2>4
      <3>2. j - 1 - Len(r) = j - Len(r) - 1 /\ forth(j) = j - 1
        BY <1>2, <2>2, <2>4
      <3>. QED  BY <2>1, <3>1, <3>2
    <2>. QED  BY <1>2, <1>7, <2>2, <2>3, <2>4
  <1>8. \A i \in DOMAIN a : \E j \in DOMAIN b : b[j] = a[i]
    BY <1>6
  <1>9. ASSUME NEW j \in DOMAIN b PROVE b[j] = m \/ \E i \in DOMAIN a : a[i] = b[j]
    BY <1>2, <1>5, <1>7
  <1>10. ASSUME Ordered(b) PROVE Ordered(a)
    <2>. SUFFICES ASSUME NEW i \in DOMAIN a, NEW j \in DOMAIN a, i < j, a[i].from = a[j].from
         PROVE  a[i].n < a[j].n
      BY DEF Ordered
    <2>1. back(i) \in DOMAIN b /\ back(j) \in DOMAIN b /\ b[back(i)] = a[i] /\ b[back(j)] = a[j]
      BY <1>6
    <2>2. back(i) < back(j)
      BY <1>2, <1>3
    <2>. HIDE DEF back
    <2>. QED  BY <1>10, <2>1, <2>2 DEF Ordered
  <1>. QED  BY <1>8, <1>9, <1>10 DEF a, b

(* A later message of its sender is appended. *)
LEMMA AppendedInARow ==
    ASSUME NEW q \in Seq(Message), NEW m \in Message, Ordered(q),
           \A i \in DOMAIN q : q[i].from = m.from => q[i].n < m.n
    PROVE  /\ Ordered(Append(q, m))
           /\ \A i \in DOMAIN Append(q, m) : Append(q, m)[i] = m \/ Holds(q, Append(q, m)[i])
           /\ Holds(Append(q, m), m)
           /\ \A o \in Message : Holds(q, o) => Holds(Append(q, m), o)
  <1>. DEFINE a == Append(q, m)
  <1>1. /\ Len(q) \in Nat /\ DOMAIN q = 1 .. Len(q) /\ DOMAIN a = 1 .. (Len(q) + 1)
        /\ a[Len(q) + 1] = m /\ \A i \in DOMAIN q : a[i] = q[i]
    <2>1. a \in Seq(Message) /\ Len(a) = Len(q) + 1 /\ a[Len(q) + 1] = m
          /\ \A i \in 1 .. Len(q) : a[i] = q[i]
      BY AppendProperties
    <2>. QED  BY <2>1, LenProperties
  <1>. HIDE DEF a
  <1>2. Ordered(a)
    <2>. SUFFICES ASSUME NEW i \in DOMAIN a, NEW j \in DOMAIN a, i < j, a[i].from = a[j].from
         PROVE  a[i].n < a[j].n
      BY DEF Ordered
    <2>1. i \in DOMAIN q /\ a[i] = q[i]
      BY <1>1
    <2>2. CASE j \in DOMAIN q
      <3>1. a[j] = q[j]
        BY <1>1, <2>2
      <3>. QED  BY <2>1, <2>2, <3>1 DEF Ordered
    <2>3. CASE j \notin DOMAIN q
      <3>1. a[j] = m
        BY <1>1, <2>3
      <3>. QED  BY <2>1, <3>1
    <2>. QED  BY <2>2, <2>3
  <1>3. \A i \in DOMAIN a : a[i] = m \/ Holds(q, a[i])
    <2>. SUFFICES ASSUME NEW i \in DOMAIN a PROVE a[i] = m \/ Holds(q, a[i])
      OBVIOUS
    <2>1. CASE i \in DOMAIN q
      BY <1>1, <2>1 DEF Holds
    <2>2. CASE i \notin DOMAIN q
      <3>1. i = Len(q) + 1
        BY <1>1, <2>2
      <3>. QED  BY <1>1, <3>1
    <2>. QED  BY <2>1, <2>2
  <1>4. Holds(a, m)
    BY <1>1 DEF Holds
  <1>5. \A o \in Message : Holds(q, o) => Holds(a, o)
    <2>1. DOMAIN q \subseteq DOMAIN a
      BY <1>1
    <2>. QED  BY <1>1, <2>1 DEF Holds
  <1>. QED  BY <1>2, <1>3, <1>4, <1>5 DEF a

-----------------------------------------------------------------------------
(* What is underway to a client is of broadcasts that have begun, and of    *)
(* earlier ones than those that have yet to send to it.                     *)
UnsentTo(s, c) == c \in walk[s].left \/ chosen[s] = c

RowOK(c) ==
    /\ Ordered(Underway(c))
    /\ \A i \in DOMAIN Underway(c) :
        LET m == Underway(c)[i]
        IN  /\ at[c] # "new"
            /\ m.n <= count[m.from]
            /\ UnsentTo(m.from, c) => m.n < count[m.from]

OrderInv == CalmInv /\ \A c \in Clients : RowOK(c)

LEMMA UnderwayType ==
    ASSUME TypeOK, NEW c \in Clients
    PROVE  /\ Underway(c) \in Seq(Message)
           /\ \A i \in DOMAIN Underway(c) :
                /\ Underway(c)[i] \in Message
                /\ Underway(c)[i].from \in Senders
                /\ Underway(c)[i].n \in Nat
  <1>1. received[c] \in Seq(Message) /\ send[c] \in Seq(Message)
    BY DEF TypeOK
  <1>2. (IF inHand[c] = None THEN <<>> ELSE <<inHand[c]>>) \in Seq(Message)
    <2>1. inHand[c] # None => inHand[c] \in Message
      BY DEF TypeOK
    <2>. QED  BY <2>1, EmptyAndOne, EmptySeq
  <1>3. Underway(c) \in Seq(Message)
    BY <1>1, <1>2, InARow DEF Underway
  <1>4. \A i \in DOMAIN Underway(c) : Underway(c)[i] \in Message
    BY <1>3, LenProperties, ElementOfSeq
  <1>. QED  BY <1>3, <1>4, HubAssumption, MessageFields

LEMMA InitOrderInv == Init => OrderInv
  <1> SUFFICES ASSUME Init, NEW c \in Clients PROVE RowOK(c)
    BY InitCalmInv DEF OrderInv
  <1>1. /\ received[c] = <<>> /\ send[c] = <<>> /\ inHand[c] = None
    BY DEF Init
  <1>2. <<>> \in Seq(Message) /\ Len(<<>>) = 0
    BY EmptySeq
  <1>3. DOMAIN Underway(c) = 1 .. 0
    <2>1. DOMAIN (<<>> \o <<>> \o <<>>) = 1 .. (0 + 0 + 0)
      BY <1>2, InARow
    <2>. QED  BY <1>1, <2>1 DEF Underway
  <1>. QED  BY <1>3 DEF RowOK, Ordered

(* What a step of the hub does to the messages that are underway to c.      *)
Same(c) == Underway(c)' = Underway(c) /\ lost'[c] = lost[c]

Loses(c, m) ==
    /\ lost'[c] = lost[c] \cup {m}
    /\ Ordered(Underway(c)) => Ordered(Underway(c)')
    /\ \A i \in DOMAIN Underway(c)' : Holds(Underway(c), Underway(c)'[i])
    /\ \A i \in DOMAIN Underway(c) :
        Underway(c)[i] = m \/ Holds(Underway(c)', Underway(c)[i])

Gains(c, m) == Underway(c)' = Append(Underway(c), m) /\ lost'[c] = lost[c]

LEMMA TakeIsSilent ==
    ASSUME CalmInv, NEW c \in Clients, Take(c)
    PROVE  Same(c)
  <1>1. send[c] \in Seq(Message) /\ send[c] # <<>> /\ received[c] \in Seq(Message)
    BY DEF CalmInv, TypeOK, Take
  <1>2. inHand[c] = None
    BY DEF CalmInv, RoomOK, Take
  <1>3. Head(send[c]) \in Message
    BY <1>1, HeadTailProperties
  <1>4. /\ inHand'[c] = Head(send[c]) /\ send'[c] = Tail(send[c])
        /\ received'[c] = received[c] /\ lost'[c] = lost[c]
    BY DEF Take, CalmInv, TypeOK
  <1>5. Underway(c)' = received[c] \o <<Head(send[c])>> \o Tail(send[c])
    BY HubAssumption, <1>3, <1>4 DEF Underway
  <1>. QED  BY <1>1, <1>2, <1>4, <1>5, TakenInARow DEF Underway, Same

LEMMA WriteMoves ==
    ASSUME CalmInv, NEW c \in Clients, WriteMessage(c)
    PROVE  Same(c) \/ Loses(c, inHand[c])
  <1>1. /\ inHand[c] \in Message /\ inHand[c] # None
        /\ send[c] \in Seq(Message) /\ received[c] \in Seq(Message)
    BY DEF CalmInv, TypeOK, RoomOK, WriteMessage
  <1>2. inHand'[c] = None /\ send'[c] = send[c]
    BY DEF WriteMessage, CalmInv, TypeOK
  <1>3. Underway(c) = received[c] \o <<inHand[c]>> \o send[c]
        /\ Underway(c)' = received'[c] \o <<>> \o send[c]
    BY <1>1, <1>2 DEF Underway
  <1>4. CASE received' = [received EXCEPT ![c] = Append(@, inHand[c])] /\ UNCHANGED lost
    <2>1. received'[c] = Append(received[c], inHand[c]) /\ lost'[c] = lost[c]
      BY <1>4 DEF CalmInv, TypeOK
    <2>. QED  BY <1>1, <1>3, <2>1, WrittenInARow DEF Same
  <1>5. CASE lost' = [lost EXCEPT ![c] = @ \cup {inHand[c]}] /\ UNCHANGED received
    <2>1. received'[c] = received[c] /\ lost'[c] = lost[c] \cup {inHand[c]}
      BY <1>5 DEF CalmInv, TypeOK
    <2>2. LET a == Underway(c)'
              b == Underway(c)
          IN  /\ Ordered(b) => Ordered(a)
              /\ \A i \in DOMAIN a : \E j \in DOMAIN b : b[j] = a[i]
              /\ \A j \in DOMAIN b : b[j] = inHand[c] \/ \E i \in DOMAIN a : a[i] = b[j]
      <3>1. LET a == received[c] \o <<>> \o send[c]
                b == received[c] \o <<inHand[c]>> \o send[c]
            IN  /\ Ordered(b) => Ordered(a)
                /\ \A i \in DOMAIN a : \E j \in DOMAIN b : b[j] = a[i]
                /\ \A j \in DOMAIN b : b[j] = inHand[c] \/ \E i \in DOMAIN a : a[i] = b[j]
        BY <1>1, MissingInARow
      <3>2. Underway(c)' = received[c] \o <<>> \o send[c]
        BY <1>3, <2>1
      <3>. QED  BY ONLY <1>3, <3>1, <3>2
    <2>. QED  BY <2>1, <2>2 DEF Loses, Holds
  <1>. QED  BY <1>4, <1>5 DEF WriteMessage

LEMMA SendMoves ==
    ASSUME CalmInv, NEW s \in Senders, SendToClient(s),
           NEW c, c = chosen[s], NEW m, m = [from |-> s, n |-> count[s]]
    PROVE  /\ m \in Message /\ c \in Clients
           /\ \/ c \in closed /\ Same(c)
              \/ Gains(c, m)
              \/ Loses(c, m) /\ Underway(c)' = Underway(c)
           /\ \A d \in Clients \ {c} : Same(d)
  <1>1. c \in Clients
    BY DEF CalmInv, TypeOK, SendToClient
  <1>2. m \in Message
    <2>1. walk[s].on
      BY DEF CalmInv, WalkOK, SendToClient
    <2>2. count[s] \in 0 .. MaxMessages /\ count[s] > 0
      BY <2>1 DEF CalmInv, TypeOK, BegunOK
    <2>. QED  BY <2>2, HubAssumption DEF Message
  <1>3. received' = received /\ inHand' = inHand
    BY DEF SendToClient
  <1>4. \A d \in Clients \ {c} : send'[d] = send[d] /\ lost'[d] = lost[d]
    BY <1>1 DEF SendToClient, CalmInv, TypeOK
  <1>5. \A d \in Clients \ {c} : Same(d)
    BY <1>3, <1>4 DEF Same, Underway
  <1>6. \/ c \in closed /\ Same(c)
        \/ Gains(c, m)
        \/ Loses(c, m) /\ Underway(c)' = Underway(c)
    <2>1. CASE c \in closed /\ UNCHANGED <<send, lost>>
      BY <1>3, <2>1 DEF Same, Underway
    <2>2. CASE send' = [send EXCEPT ![c] = Append(@, m)] /\ UNCHANGED lost
      <3>1. send'[c] = Append(send[c], m)
        BY <1>1, <2>2 DEF CalmInv, TypeOK
      <3>. DEFINE h == IF inHand[c] = None THEN <<>> ELSE <<inHand[c]>>
      <3>2. h \in Seq(Message) /\ received[c] \in Seq(Message) /\ send[c] \in Seq(Message)
        <4>1. inHand[c] # None => inHand[c] \in Message
          BY <1>1 DEF CalmInv, TypeOK
        <4>2. h \in Seq(Message)
          BY <4>1, EmptyAndOne, EmptySeq
        <4>. QED  BY <1>1, <4>2 DEF CalmInv, TypeOK
      <3>. HIDE DEF h
      <3>3. received[c] \o h \in Seq(Message)
        BY <3>2, ConcatProperties
      <3>4. (received[c] \o h) \o Append(send[c], m) = Append((received[c] \o h) \o send[c], m)
        BY <1>2, <3>2, <3>3, AppendedAtTheEnd
      <3>5. Underway(c) = received[c] \o h \o send[c]
        BY DEF Underway, h
      <3>6. Underway(c)' = received'[c] \o (IF inHand'[c] = None THEN <<>> ELSE <<inHand'[c]>>)
                            \o send'[c]
        BY DEF Underway
      <3>7. Underway(c)' = received[c] \o h \o send'[c]
        BY <1>3, <3>6 DEF h
      <3>8. lost'[c] = lost[c]
        BY <2>2
      <3>9. Underway(c)' = Append(Underway(c), m)
        BY <3>1, <3>4, <3>5, <3>7
      <3>. QED  BY <3>8, <3>9 DEF Gains
    <2>3. CASE lost' = [lost EXCEPT ![c] = @ \cup {m}] /\ UNCHANGED send
      <3>1. lost'[c] = lost[c] \cup {m}
        BY <1>1, <2>3 DEF CalmInv, TypeOK
      <3>2. Underway(c)' = Underway(c)
        BY <1>3, <2>3 DEF Underway
      <3>. QED  BY <3>1, <3>2 DEF Loses, Holds
    <2>. QED  BY <2>1, <2>2, <2>3 DEF SendToClient
  <1>. QED  BY <1>1, <1>2, <1>5, <1>6

(* Nothing that was sent to a client is forgotten. *)
Accounted(c, m) == m \in lost[c] \/ Holds(Underway(c), m)

MessageOf(s) == [from |-> s, n |-> count[s]]

LEMMA AccountedStays ==
    ASSUME CalmInv, NEW c \in Clients, NEW o, Accounted(c, o),
           NEW m \in Message, Same(c) \/ Loses(c, m) \/ Gains(c, m)
    PROVE  Accounted(c, o)'
  <1>1. CASE Same(c)
    BY <1>1 DEF Same, Accounted
  <1>2. CASE Loses(c, m)
    BY <1>2 DEF Loses, Accounted, Holds
  <1>3. CASE Gains(c, m)
    <2>1. CASE o \in lost[c]
      BY <1>3, <2>1 DEF Gains, Accounted
    <2>2. CASE Holds(Underway(c), o)
      <3>1. PICK i \in DOMAIN Underway(c) : Underway(c)[i] = o
        BY <2>2 DEF Holds
      <3>2. Underway(c) \in Seq(Message)
        BY UnderwayType DEF CalmInv
      <3>. DEFINE q == Underway(c)
      <3>. HIDE DEF q
      <3>3. q \in Seq(Message) /\ i \in DOMAIN q /\ q[i] = o
        BY <3>1, <3>2 DEF q
      <3>4. i \in DOMAIN Append(q, m) /\ Append(q, m)[i] = o
        BY <3>3, AppendProperties, LenProperties
      <3>5. Underway(c)' = Append(q, m)
        BY <1>3 DEF Gains, q
      <3>. QED  BY <3>4, <3>5 DEF Accounted, Holds
    <2>. QED  BY <2>1, <2>2 DEF Accounted
  <1>. QED  BY <1>1, <1>2, <1>3

(* The steps of the hub, by what becomes of the messages to a client.       *)
LEMMA ClientMoves ==
    ASSUME CalmInv, [Next]_vars, NEW c \in Clients
    PROVE  /\ \/ Same(c)
              \/ \E m \in Message : Loses(c, m) /\ UNCHANGED count
              \/ \E s \in Senders : /\ SendToClient(s) /\ chosen[s] = c
                                    /\ MessageOf(s) \in Message /\ Gains(c, MessageOf(s))
           /\ at'[c] = "new" => at[c] = "new"
           /\ c \in rooms' => c \in rooms \/ at[c] = "new"
  <1>1. ASSUME NEW d \in Clients, Register(d) \/ Unregister(d)
        PROVE  /\ Same(c)
               /\ at'[c] = "new" => at[c] = "new"
               /\ c \in rooms' => c \in rooms \/ at[c] = "new"
    <2>1. UNCHANGED <<send, inHand, received, lost>>
      BY <1>1 DEF Register, Unregister
    <2>2. Same(c)
      BY <2>1 DEF Same, Underway
    <2>3. \/ /\ at[d] = "new" /\ at' = [at EXCEPT ![d] = "serving"] /\ rooms' = rooms \cup {d}
          \/ /\ at' = [at EXCEPT ![d] = "gone"] /\ rooms' = rooms \ {d}
      BY <1>1 DEF Register, Unregister, Goto
    <2>. QED  BY <2>2, <2>3 DEF CalmInv, TypeOK
  <1>2. ASSUME NEW d \in Clients, Pump(d) \/ ReadFails(d)
        PROVE  /\ \/ Same(c)
                  \/ \E m \in Message : Loses(c, m) /\ UNCHANGED count
               /\ at'[c] = "new" => at[c] = "new"
               /\ rooms' = rooms
    <2>1. UNCHANGED <<rooms, count>> /\ (at'[c] = "new" => at[c] = "new")
      BY <1>2 DEF Pump, Take, WriteMessage, PumpStops, ReadFails, Goto, sender, CalmInv, TypeOK
    <2>2. CASE d = c /\ Take(c)
      BY <2>1, <2>2, TakeIsSilent
    <2>3. CASE d = c /\ WriteMessage(c)
      <3>1. inHand[c] \in Message
        BY <2>3 DEF WriteMessage, CalmInv, TypeOK, RoomOK
      <3>. QED  BY <2>1, <2>3, <3>1, WriteMoves
    <2>4. CASE PumpStops(d) \/ ReadFails(d)
      <3>1. UNCHANGED <<send, inHand, received, lost>>
        BY <2>4 DEF PumpStops, ReadFails
      <3>2. Same(c)
        BY <3>1 DEF Same, Underway
      <3>. QED  BY <2>1, <3>2
    <2>5. CASE d # c
      <3>1. /\ send'[c] = send[c] /\ inHand'[c] = inHand[c]
            /\ received'[c] = received[c] /\ lost'[c] = lost[c]
        <4>1. CASE Take(d)
          BY <2>5, <4>1 DEF Take, CalmInv, TypeOK
        <4>2. CASE WriteMessage(d)
          <5>1. inHand'[c] = inHand[c] /\ send'[c] = send[c]
            BY <2>5, <4>2 DEF WriteMessage, CalmInv, TypeOK
          <5>2. received'[c] = received[c] /\ lost'[c] = lost[c]
            BY <2>5, <4>2 DEF WriteMessage, CalmInv, TypeOK
          <5>. QED  BY <5>1, <5>2
        <4>3. CASE PumpStops(d) \/ ReadFails(d)
          BY <4>3 DEF PumpStops, ReadFails
        <4>. QED  BY <1>2, <4>1, <4>2, <4>3 DEF Pump
      <3>2. Same(c)
        BY <3>1 DEF Same, Underway
      <3>. QED  BY <2>1, <3>2
    <2>. QED  BY <1>2, <2>2, <2>3, <2>4, <2>5 DEF Pump
  <1>3. ASSUME NEW s \in Senders, Broadcast(s) \/ NextClient(s) \/ EndBroadcast(s)
        PROVE  Same(c) /\ at' = at /\ rooms' = rooms
    <2>1. UNCHANGED connection
      BY <1>3 DEF Broadcast, NextClient, EndBroadcast
    <2>. QED  BY <2>1 DEF Same, Underway, connection
  <1>4. ASSUME NEW s \in Senders, SendToClient(s)
        PROVE  /\ \/ Same(c)
                  \/ \E m \in Message : Loses(c, m) /\ UNCHANGED count
                  \/ /\ chosen[s] = c
                     /\ MessageOf(s) \in Message /\ Gains(c, MessageOf(s))
               /\ at' = at /\ rooms' = rooms
    <2>1. at' = at /\ rooms' = rooms /\ count' = count
      BY <1>4 DEF SendToClient
    <2>2. PICK d, m : d = chosen[s] /\ m = MessageOf(s)
      OBVIOUS
    <2>3. /\ m \in Message /\ d \in Clients
          /\ Same(d) \/ Gains(d, m) \/ Loses(d, m)
          /\ \A e \in Clients \ {d} : Same(e)
      BY <1>4, <2>2, SendMoves DEF MessageOf
    <2>4. CASE c # d
      BY <2>1, <2>3, <2>4
    <2>5. CASE c = d
      BY <2>1, <2>2, <2>3, <2>5
    <2>. QED  BY <2>4, <2>5
  <1>5. ASSUME UNCHANGED vars
        PROVE  Same(c) /\ at' = at /\ rooms' = rooms
    BY <1>5 DEF vars, connection, Same, Underway
  <1>. QED  BY <1>1, <1>2, <1>3, <1>4, <1>5 DEF Next

(* The steps of the hub, by what becomes of the broadcast of a sender.      *)
LEMMA WalkMoves ==
    ASSUME CalmInv, [Next]_vars, NEW s \in Senders, NEW c \in Clients
    PROVE  \/ /\ Broadcast(s)
              /\ count'[s] = count[s] + 1 /\ chosen'[s] = None
              /\ walk'[s].left = Room(roomOf[s]) /\ walk'[s].to = Room(roomOf[s])
           \/ /\ EndBroadcast(s) /\ walk[s].on /\ ~walk'[s].on
              /\ count'[s] = count[s] /\ ~UnsentTo(s, c) /\ ~UnsentTo(s, c)'
           \/ /\ walk'[s].on = walk[s].on /\ walk'[s].to = walk[s].to
              /\ count'[s] = count[s]
              /\ UnsentTo(s, c)' => UnsentTo(s, c) \/ at[c] = "new"
              /\ UnsentTo(s, c) => \/ UnsentTo(s, c)'
                                   \/ c \notin rooms'
                                   \/ SendToClient(s) /\ chosen[s] = c
  <1>. DEFINE Stays == /\ walk'[s].on = walk[s].on /\ walk'[s].to = walk[s].to
                       /\ count'[s] = count[s]
                       /\ UnsentTo(s, c)' => UnsentTo(s, c) \/ at[c] = "new"
                       /\ UnsentTo(s, c) => \/ UnsentTo(s, c)'
                                            \/ c \notin rooms'
                                            \/ SendToClient(s) /\ chosen[s] = c
  <1>0. walk[s] \in [on : BOOLEAN, calm : BOOLEAN, left : SUBSET Clients, to : SUBSET Clients]
    BY DEF CalmInv, TypeOK
  <1>1. ASSUME NEW d \in Clients, Register(d) \/ Unregister(d)
        PROVE  Stays
    <2>1. chosen' = chosen /\ count' = count
      BY <1>1 DEF Register, Unregister
    <2>2. CASE Register(d)
      <3>1. PICK some \in SUBSET Walking(roomOf[d]) :
               walk' = [t \in Senders |->
                    [walk[t] EXCEPT !.left = IF t \in some THEN @ \cup {d} ELSE @,
                                    !.calm = @ /\ t \notin Walking(roomOf[d])]]
        BY <2>2 DEF Register
      <3>2. /\ walk'[s].on = walk[s].on /\ walk'[s].to = walk[s].to
            /\ walk'[s].left = IF s \in some THEN walk[s].left \cup {d} ELSE walk[s].left
        BY <1>0, <3>1
      <3>3. at[d] = "new"
        BY <2>2 DEF Register
      <3>. QED  BY <2>1, <3>2, <3>3 DEF UnsentTo
    <2>3. CASE Unregister(d)
      <3>1. PICK some \in SUBSET Walking(roomOf[d]) :
               walk' = [t \in Senders |->
                    [walk[t] EXCEPT !.left = IF t \in some THEN @ \ {d} ELSE @,
                                    !.calm = @ /\ t \notin Walking(roomOf[d])]]
        BY <2>3 DEF Unregister
      <3>2. /\ walk'[s].on = walk[s].on /\ walk'[s].to = walk[s].to
            /\ walk'[s].left = IF s \in some THEN walk[s].left \ {d} ELSE walk[s].left
        BY <1>0, <3>1
      <3>3. d \notin rooms'
        BY <2>3 DEF Unregister
      <3>. QED  BY <2>1, <3>2, <3>3 DEF UnsentTo
    <2>. QED  BY <1>1, <2>2, <2>3
  <1>2. ASSUME NEW d \in Clients, Pump(d) \/ ReadFails(d)
        PROVE  Stays
    <2>1. UNCHANGED sender
      BY <1>2 DEF Pump, Take, WriteMessage, PumpStops, ReadFails
    <2>. QED  BY <2>1 DEF sender, UnsentTo
  <1>3. ASSUME NEW t \in Senders, t # s,
               Broadcast(t) \/ NextClient(t) \/ SendToClient(t) \/ EndBroadcast(t)
        PROVE  Stays
    <2>1. walk'[s] = walk[s] /\ chosen'[s] = chosen[s] /\ count'[s] = count[s]
      BY <1>3 DEF Broadcast, NextClient, SendToClient, EndBroadcast, CalmInv, TypeOK
    <2>. QED  BY <2>1 DEF UnsentTo
  <1>4. CASE Broadcast(s)
    <2>1. chosen[s] = None
      BY <1>4 DEF Broadcast, CalmInv, WalkOK
    <2>2. count'[s] = count[s] + 1 /\ chosen' = chosen
      BY <1>4 DEF Broadcast, CalmInv, TypeOK
    <2>3. walk'[s].left = Room(roomOf[s]) /\ walk'[s].to = Room(roomOf[s])
      BY <1>4 DEF Broadcast, CalmInv, TypeOK
    <2>. QED  BY <1>4, <2>1, <2>2, <2>3
  <1>5. CASE NextClient(s)
    <2>1. PICK d \in walk[s].left : /\ chosen' = [chosen EXCEPT ![s] = d]
                                    /\ walk' = [walk EXCEPT ![s].left = @ \ {d}]
      BY <1>5 DEF NextClient
    <2>2. chosen'[s] = d /\ chosen[s] = None /\ count' = count
      BY <1>5, <2>1 DEF NextClient, CalmInv, TypeOK
    <2>3. walk'[s] = [walk[s] EXCEPT !.left = @ \ {d}]
      BY <2>1 DEF CalmInv, TypeOK
    <2>4. walk'[s].left = walk[s].left \ {d} /\ walk'[s].on = walk[s].on /\ walk'[s].to = walk[s].to
      BY <1>0, <2>3
    <2>5. c # None
      BY HubAssumption
    <2>. QED  BY <2>1, <2>2, <2>4, <2>5 DEF UnsentTo
  <1>6. CASE SendToClient(s)
    <2>1. chosen'[s] = None /\ count' = count /\ walk' = walk
      BY <1>6 DEF SendToClient, CalmInv, TypeOK
    <2>2. c # None
      BY HubAssumption
    <2>. QED  BY <1>6, <2>1, <2>2 DEF UnsentTo
  <1>7. CASE EndBroadcast(s)
    <2>1. /\ walk[s].on /\ walk[s].left = {} /\ chosen[s] = None
          /\ walk'[s] = Idle /\ chosen' = chosen /\ count' = count
      BY <1>7 DEF EndBroadcast, CalmInv, TypeOK
    <2>2. c # None
      BY HubAssumption
    <2>. QED  BY <1>7, <2>1, <2>2 DEF Idle, UnsentTo
  <1>8. CASE UNCHANGED vars
    BY <1>8 DEF vars, sender, UnsentTo
  <1>. QED  BY <1>1, <1>2, <1>3, <1>4, <1>5, <1>6, <1>7, <1>8 DEF Next

-----------------------------------------------------------------------------
LEMMA CountType ==
    ASSUME CalmInv, NEW s \in Senders
    PROVE  count[s] \in Nat
  <1>1. count[s] \in 0 .. MaxMessages
    BY DEF CalmInv, TypeOK
  <1>. QED  BY <1>1, HubAssumption

(* Messages stay in order: a step leaves what is underway to a client as it *)
(* is, takes a message out, or appends one that is later than all of its    *)
(* sender's before it.                                                      *)
LEMMA NextOrderInv == OrderInv /\ [Next]_vars => OrderInv'
  <1> SUFFICES ASSUME OrderInv, [Next]_vars PROVE OrderInv'
    OBVIOUS
  <1>1. CalmInv /\ CalmInv'
    BY NextCalmInv DEF OrderInv
  <1>2. ASSUME NEW c \in Clients PROVE RowOK(c)'
    <2>1. /\ Underway(c) \in Seq(Message)
          /\ \A i \in DOMAIN Underway(c) :
               /\ Underway(c)[i] \in Message
               /\ Underway(c)[i].from \in Senders
               /\ Underway(c)[i].n \in Nat
      BY <1>1, UnderwayType DEF CalmInv
    <2>2. RowOK(c)
      BY DEF OrderInv
    <2>. DEFINE Fits(m) == /\ at'[c] # "new"
                           /\ m.n <= count'[m.from]
                           /\ UnsentTo(m.from, c)' => m.n < count'[m.from]
    <2>3. ASSUME NEW m, Holds(Underway(c), m) PROVE Fits(m)
      <3>1. PICK i \in DOMAIN Underway(c) : Underway(c)[i] = m
        BY <2>3 DEF Holds
      <3>2. m.from \in Senders /\ m.n \in Nat
        BY <2>1, <3>1
      <3>3. /\ at[c] # "new" /\ m.n <= count[m.from]
            /\ UnsentTo(m.from, c) => m.n < count[m.from]
        BY <2>2, <3>1 DEF RowOK
      <3>4. at'[c] # "new"
        BY <1>1, <3>3, ClientMoves
      <3>5. count[m.from] \in Nat
        BY <1>1, <3>2, CountType
      <3>6. \/ count'[m.from] = count[m.from] + 1
            \/ count'[m.from] = count[m.from] /\ (UnsentTo(m.from, c)' => UnsentTo(m.from, c))
        BY <1>1, <3>2, <3>3, WalkMoves
      <3>. QED  BY <3>2, <3>3, <3>4, <3>5, <3>6
    <2>. HIDE DEF Fits
    <2>7. ASSUME Ordered(Underway(c)'), \A m : Holds(Underway(c)', m) => Fits(m)
          PROVE  RowOK(c)'
      BY <2>7 DEF RowOK, Fits, Ordered, Holds, UnsentTo
    <2>4. CASE Same(c)
      <3>1. Underway(c)' = Underway(c) /\ Ordered(Underway(c))
        BY <2>2, <2>4 DEF Same, RowOK
      <3>. QED  BY <2>3, <2>7, <3>1
    <2>5. CASE \E m \in Message : Loses(c, m) /\ UNCHANGED count
      <3>. PICK m \in Message : Loses(c, m)
        BY <2>5
      <3>1. Ordered(Underway(c)')
        BY <2>2 DEF Loses, RowOK
      <3>2. ASSUME NEW o, Holds(Underway(c)', o) PROVE Fits(o)
        <4>1. Holds(Underway(c), o)
          BY <3>2 DEF Loses, Holds
        <4>. QED  BY <2>3, <4>1
      <3>. QED  BY <2>7, <3>1, <3>2
    <2>6. ASSUME NEW s \in Senders, SendToClient(s), chosen[s] = c,
                 MessageOf(s) \in Message, Gains(c, MessageOf(s))
          PROVE  RowOK(c)'
      <3>1. PICK q, m : q = Underway(c) /\ m = MessageOf(s)
        OBVIOUS
      <3>2. Underway(c)' = Append(q, m) /\ q \in Seq(Message) /\ m \in Message /\ Ordered(q)
        BY <2>1, <2>2, <2>6, <3>1 DEF Gains, RowOK
      <3>3. m.from = s /\ m.n = count[s]
        BY <3>1 DEF MessageOf
      <3>4. \A i \in DOMAIN q : q[i].from = m.from => q[i].n < m.n
        BY <2>2, <2>6, <3>1, <3>3 DEF RowOK, UnsentTo
      <3>5. /\ Ordered(Append(q, m))
            /\ \A i \in DOMAIN Append(q, m) : Append(q, m)[i] = m \/ Holds(q, Append(q, m)[i])
        BY <3>2, <3>4, AppendedInARow
      <3>6. Fits(m)
        <4>1. at[c] # "new" /\ c \notin walk[s].left /\ c # None
          BY <1>1, <2>6, HubAssumption DEF CalmInv, WalkOK
        <4>2. at' = at /\ count' = count /\ walk' = walk /\ chosen'[s] = None
          BY <1>1, <2>6 DEF SendToClient, CalmInv, TypeOK
        <4>3. ~UnsentTo(s, c)'
          BY <4>1, <4>2 DEF UnsentTo
        <4>4. count[s] \in Nat
          BY <1>1, CountType
        <4>. QED  BY <3>3, <4>1, <4>2, <4>3, <4>4 DEF Fits
      <3>7. ASSUME NEW o, Holds(Underway(c)', o) PROVE Fits(o)
        <4>1. o = m \/ Holds(q, o)
          BY <3>2, <3>5, <3>7 DEF Holds
        <4>. QED  BY <2>3, <3>1, <3>6, <4>1
      <3>8. Ordered(Underway(c)')
        BY <3>2, <3>5
      <3>. QED  BY <2>7, <3>7, <3>8
    <2>. QED  BY <1>1, <2>4, <2>5, <2>6, ClientMoves
  <1>. QED  BY <1>1, <1>2 DEF OrderInv

(* Whatever connections come, go, are slow or fail, and however many        *)
(* goroutines broadcast, a connection is sent each sender's messages in the *)
(* order of its broadcasts, and none of them twice.                         *)
THEOREM MessagesStayInOrder == Spec => []InOrder
  <1>1. OrderInv => InOrder
    BY DEF OrderInv, RowOK, InOrder, Ordered
  <1>. QED  BY <1>1, InitOrderInv, NextOrderInv, PTL DEF Spec

-----------------------------------------------------------------------------
(* Whom a broadcast under way has dealt with: every client that was in the  *)
(* room when it began, and still is, is yet to be sent the message, or has  *)
(* been.                                                                    *)
DealtWith(s, c) ==
    (walk[s].on /\ c \in walk[s].to) =>
        /\ at[c] # "new"
        /\ c \in rooms => UnsentTo(s, c) \/ Accounted(c, MessageOf(s))

SentInv == CalmInv /\ \A s \in Senders, c \in Clients : DealtWith(s, c)

LEMMA InitSentInv == Init => SentInv
  <1>1. Init => \A s \in Senders, c \in Clients : DealtWith(s, c)
    BY DEF Init, DealtWith, Idle
  <1>. QED  BY <1>1, InitCalmInv DEF SentInv

LEMMA NextSentInv == SentInv /\ [Next]_vars => SentInv'
  <1> SUFFICES ASSUME SentInv, [Next]_vars PROVE SentInv'
    OBVIOUS
  <1>1. CalmInv /\ CalmInv'
    BY NextCalmInv DEF SentInv
  <1>2. ASSUME NEW s \in Senders, NEW c \in Clients, walk'[s].on, c \in walk'[s].to
        PROVE  /\ at'[c] # "new"
               /\ c \in rooms' => UnsentTo(s, c)' \/ Accounted(c, MessageOf(s))'
    <2>1. CASE Broadcast(s) /\ walk'[s].left = Room(roomOf[s]) /\ walk'[s].to = Room(roomOf[s])
      <3>1. c \in rooms /\ at' = at
        BY <1>2, <2>1 DEF Room, Broadcast, connection
      <3>2. at[c] # "new"
        BY <1>1, <3>1 DEF CalmInv, RoomOK
      <3>. QED  BY <1>2, <2>1, <3>1, <3>2 DEF UnsentTo
    <2>2. CASE /\ walk'[s].on = walk[s].on /\ walk'[s].to = walk[s].to
               /\ count'[s] = count[s]
               /\ UnsentTo(s, c) => \/ UnsentTo(s, c)'
                                    \/ c \notin rooms'
                                    \/ SendToClient(s) /\ chosen[s] = c
      <3>1. /\ at[c] # "new"
            /\ c \in rooms => UnsentTo(s, c) \/ Accounted(c, MessageOf(s))
        BY <1>2, <2>2 DEF SentInv, DealtWith
      <3>2. at'[c] # "new" /\ (c \in rooms' => c \in rooms)
        BY <1>1, <3>1, ClientMoves
      <3>3. PICK o : o = MessageOf(s)
        OBVIOUS
      <3>4. o = MessageOf(s)'
        BY <2>2, <3>3 DEF MessageOf
      <3>5. ASSUME Accounted(c, o) PROVE Accounted(c, o)'
        BY <1>1, <3>5, ClientMoves, AccountedStays, HubAssumption DEF Same, Accounted
      <3>6. ASSUME c \in rooms, SendToClient(s), chosen[s] = c PROVE Accounted(c, o)'
        <4>1. /\ o \in Message
              /\ \/ c \in closed
                 \/ Gains(c, o)
                 \/ Loses(c, o)
          BY <1>1, <3>3, <3>6, SendMoves DEF MessageOf
        <4>2. c \notin closed
          BY <1>1, <3>6 DEF CalmInv, RoomOK
        <4>3. CASE Loses(c, o)
          BY <4>3 DEF Loses, Accounted
        <4>4. CASE Gains(c, o)
          <5>1. PICK q : q = Underway(c) /\ q \in Seq(Message)
            BY <1>1, UnderwayType DEF CalmInv
          <5>2. Underway(c)' = Append(q, o)
            BY <4>4, <5>1 DEF Gains
          <5>3. Len(q) + 1 \in DOMAIN Append(q, o) /\ Append(q, o)[Len(q) + 1] = o
            BY <4>1, <5>1, AppendProperties, LenProperties
          <5>. QED  BY <5>2, <5>3 DEF Accounted, Holds
        <4>. QED  BY <4>1, <4>2, <4>3, <4>4
      <3>7. c \in rooms' => UnsentTo(s, c)' \/ Accounted(c, o)'
        BY <2>2, <3>1, <3>2, <3>3, <3>5, <3>6
      <3>8. Accounted(c, o)' => Accounted(c, MessageOf(s))'
        BY <3>4 DEF Accounted, Holds
      <3>. QED  BY <3>2, <3>7, <3>8
    <2>. QED  BY <1>1, <1>2, <2>1, <2>2, WalkMoves
  <1>. QED  BY <1>1, <1>2 DEF SentInv, DealtWith

(* However many clients come, go or are slow meanwhile, when a broadcast    *)
(* ends every connection that was there from its beginning has the message  *)
(* on its way, unless it was dropped or not written.                        *)
THEOREM BroadcastsReachTheRoom == Spec => NobodySkipped
  <1>1. ASSUME SentInv, [Next]_vars, NEW s \in Senders, walk[s].on, ~walk'[s].on,
               NEW c \in walk[s].to \cap rooms
        PROVE  LET m == [from |-> s, n |-> count[s]]
               IN  m \in lost[c] \/ \E i \in DOMAIN Underway(c) : Underway(c)[i] = m
    <2>0. CalmInv /\ rooms \in SUBSET Clients
      BY <1>1 DEF SentInv, CalmInv, TypeOK
    <2>1. c \in Clients /\ CalmInv
      BY <2>0
    <2>2. ~UnsentTo(s, c)
      <3>1. ~Broadcast(s)
        BY <1>1 DEF Broadcast
      <3>. QED  BY <1>1, <2>1, <3>1, WalkMoves
    <2>3. Accounted(c, MessageOf(s))
      BY <1>1, <2>1, <2>2 DEF SentInv, DealtWith
    <2>. QED  BY <2>3 DEF Accounted, Holds, MessageOf
  <1>2. SentInv /\ [Next]_vars =>
            [\A s \in Senders :
                (walk[s].on /\ ~walk'[s].on) =>
                    \A c \in walk[s].to \cap rooms :
                        LET m == [from |-> s, n |-> count[s]]
                        IN  m \in lost[c] \/ \E i \in DOMAIN Underway(c) : Underway(c)[i] = m]_vars
    BY <1>1
  <1>. QED  BY <1>2, InitSentInv, NextSentInv, PTL DEF Spec, NobodySkipped

-----------------------------------------------------------------------------
(* ProviderCache.                                                           *)

(* A request in progress knows what it asks for; only one that is over has  *)
(* an answer, and that is of the level it ended at.                         *)
Asking ==
    \A r \in Requests :
        /\ position[r] # "new" => ask[r] \in Ask
        /\ position[r] \in {"lookup", "hit", "miss", "fill"} => ask[r].level # "server"
        /\ position[r] = "fallback" => ask[r].level = "server"
        /\ position[r] \in {"hit", "fill"} => got[r] \in Configs
        /\ answer[r] # Unset => position[r] = "ok" /\ answer[r].level = ask[r].level

(* What is stored, cached, in hand or answered was once its owner's.        *)
OwnersOwn ==
    /\ \A o \in Owners : config[o] \in had[o]
    /\ \A o \in Owners : \A k \in KeysOf(o) : providers[k] \in had[o] \cup {Unset}
    /\ \A r \in Requests : position[r] \in {"hit", "fill"} => got[r] \in had[OwnerOf(r)]
    /\ \A r \in Requests : answer[r] # Unset =>
          IF answer[r].level = "server" THEN answer[r].provider = Server
                                        ELSE answer[r].provider \in had[OwnerOf(r)]

(* A request has passed a level only if it had no configuration meanwhile.  *)
LevelsPassed ==
    \A r \in Requests : position[r] # "new" =>
        /\ \A o \in Owners : config[o] \in seen[r][o]
        /\ ask[r].level \in {"workspace", "server"} => Unset \in seen[r][ask[r].user]
        /\ ask[r].level = "server" => Unset \in seen[r][ask[r].workspace]

(* Announced are the changes that were made. *)
Announced ==
    \A c \in Changes :
        /\ stage[c] = "new" <=> change[c] = Unset
        /\ c \in pending => stage[c] = "ok"

PInv == ProviderTypeOK /\ Asking /\ OwnersOwn /\ LevelsPassed /\ Announced


(* The key a request looks under is one of the keys of the owner whose      *)
(* configuration decides, and of nobody else.                               *)
LEMMA KeyIsTheOwners ==
    ASSUME NEW r \in Requests, ask[r] \in Ask
    PROVE  /\ OwnerOf(r) \in Owners
           /\ KeyOf(r) \in ProviderKeys
           /\ \A o \in Owners : KeyOf(r) \in KeysOf(o) <=> o = OwnerOf(r)
<1>1. ask[r].user \in Users /\ ask[r].workspace \in Workspaces
  BY DEF Ask
<1>2. CASE ask[r].level = "user"
  BY <1>1, <1>2, ProviderCacheAssumption DEF OwnerOf, KeyOf, KeysOf, Owners, ProviderKeys
<1>3. CASE ask[r].level # "user"
  BY <1>1, <1>3, ProviderCacheAssumption DEF OwnerOf, KeyOf, KeysOf, Owners, ProviderKeys
<1> QED BY <1>2, <1>3

(* The keys of an owner are keys of the map. *)
LEMMA KeysOfOwners == \A o \in Owners : KeysOf(o) \subseteq ProviderKeys
  BY DEF KeysOf, Owners, ProviderKeys

(* The invariant holds initially. *)
LEMMA ProvidersInit == PInit => PInv
<1> SUFFICES ASSUME PInit PROVE PInv
  OBVIOUS
<1> USE DEF PInit
<1>1. ProviderTypeOK
  BY DEF ProviderTypeOK
<1>2. Asking /\ LevelsPassed /\ Announced
  BY DEF Asking, LevelsPassed, Announced, OwnConfigOnly
<1>3. OwnersOwn
  BY KeysOfOwners DEF OwnersOwn
<1> QED BY <1>1, <1>2, <1>3 DEF PInv

(* Type correctness of ProviderCache is preserved. *)
LEMMA ProviderTypes ==
    ASSUME ProviderTypeOK, Asking, Announced, [PNext]_pvars
    PROVE  ProviderTypeOK'
<1> USE DEF ProviderTypeOK
<1>1. ASSUME NEW r \in Requests, Resolve(r)
      PROVE  ProviderTypeOK'
  <2>1. PICK u \in Users, w \in Workspaces :
            ask' = [ask EXCEPT ![r] = [user |-> u, workspace |-> w, level |-> "user"]]
    BY <1>1 DEF Resolve
  <2>2. [user |-> u, workspace |-> w, level |-> "user"] \in Ask
    BY DEF Ask, Level
  <2>3. ask' \in [Requests -> Ask \cup {Unset}]
    BY <2>1, <2>2
  <2>4. seen' \in [Requests -> [Owners -> SUBSET (Configs \cup {Unset})]]
    BY <1>1 DEF Resolve
  <2> QED BY <1>1, <2>3, <2>4 DEF Resolve, Move, changing
<1>2. ASSUME NEW r \in Requests, Lookup(r) \/ ReadConfig(r) \/ NoConfig(r) \/ ReadConfigFails(r)
      PROVE  ProviderTypeOK'
  <2>1. ask[r] \in Ask
    BY <1>2 DEF Lookup, ReadConfig, NoConfig, ReadConfigFails, Asking
  <2>2. OwnerOf(r) \in Owners /\ KeyOf(r) \in ProviderKeys
    BY <2>1, KeyIsTheOwners
  <2>3. [ask[r] EXCEPT !.level = IF @ = "user" THEN "workspace" ELSE "server"] \in Ask
    BY <2>1 DEF Ask, Level
  <2>4. ask' \in [Requests -> Ask \cup {Unset}]
    BY <1>2, <2>3 DEF Lookup, ReadConfig, NoConfig, ReadConfigFails, NextLevel
  <2>5. got' \in [Requests -> Configs \cup {Unset}]
    BY <1>2, <2>2 DEF Lookup, ReadConfig, NoConfig, ReadConfigFails
  <2>6. faults' \in Nat
    BY <1>2 DEF Lookup, ReadConfig, NoConfig, ReadConfigFails, Fault
  <2> QED BY <1>2, <2>4, <2>5, <2>6
          DEF Lookup, ReadConfig, NoConfig, ReadConfigFails, NextLevel, Move, changing, history
<1>3. ASSUME NEW r \in Requests, Hit(r) \/ Fallback(r) \/ CreateAndCache(r)
      PROVE  ProviderTypeOK'
  <2>1. ask[r] \in Ask /\ ask[r].level \in Level
    BY <1>3 DEF Hit, Fallback, CreateAndCache, Asking, Ask
  <2>2. OwnerOf(r) \in Owners /\ KeyOf(r) \in ProviderKeys
    BY <2>1, KeyIsTheOwners
  <2>3. ASSUME NEW p \in Configs \cup {Server}, NEW m \in Configs \cup {Server, Unset}, Return(r, p, m)
        PROVE  answer' \in [Requests -> Answer \cup {Unset}]
    BY <2>1, <2>3 DEF Return, Answer
  <2>4. position[r] \in {"hit", "fill"} => got[r] \in Configs
    BY DEF Asking
  <2>5. answer' \in [Requests -> Answer \cup {Unset}]
    BY <1>3, <2>2, <2>3, <2>4 DEF Hit, Fallback, CreateAndCache
  <2>6. providers' \in [ProviderKeys -> Configs \cup {Unset}] /\ missed' \in SUBSET Owners
    BY <1>3, <2>2 DEF Hit, Fallback, CreateAndCache, history
  <2>7. faults' \in Nat
    BY <1>3 DEF Hit, Fallback, CreateAndCache, Fault
  <2> QED BY <1>3, <2>5, <2>6, <2>7
          DEF Hit, Fallback, CreateAndCache, Return, Move, changing, history
<1>4. ASSUME NEW c \in Changes, StoreConfig(c)
      PROVE  ProviderTypeOK'
  <2>1. PICK o \in Owners, new \in Configs \cup {Unset} :
            /\ config' = [config EXCEPT ![o] = new]
            /\ change' = [change EXCEPT ![c] = [owner |-> o, config |-> new]]
            /\ had' = [had EXCEPT ![o] = had[o] \cup {new}]
            /\ seen' = [r \in Requests |-> IF position[r] = "new" THEN seen[r]
                                           ELSE [seen[r] EXCEPT ![o] = seen[r][o] \cup {new}]]
    BY <1>4 DEF StoreConfig
  <2>2. config' \in [Owners -> Configs \cup {Unset}]
    BY <2>1
  <2>3. change' \in [Changes -> Change \cup {Unset}]
    BY <2>1 DEF Change
  <2>4. had' \in [Owners -> SUBSET (Configs \cup {Unset})]
    BY <2>1
  <2>5. seen' \in [Requests -> [Owners -> SUBSET (Configs \cup {Unset})]]
    BY <2>1
  <2> QED BY <1>4, <2>2, <2>3, <2>4, <2>5 DEF StoreConfig, ToStage, resolving
<1>5. ASSUME NEW c \in Changes, PublishChange(c) \/ Invalidate(c)
      PROVE  ProviderTypeOK'
  <2>1. change[c] \in Change /\ change[c].owner \in Owners
    BY <1>5 DEF PublishChange, Invalidate, Announced, Change
  <2>2. providers' \in [ProviderKeys -> Configs \cup {Unset}]
    BY <1>5 DEF PublishChange, Invalidate
  <2>3. pending' \in SUBSET Changes /\ missed' \in SUBSET Owners
    BY <1>5, <2>1 DEF PublishChange, Invalidate
  <2>4. faults' \in Nat
    BY <1>5 DEF PublishChange, Invalidate, Fault
  <2> QED BY <1>5, <2>2, <2>3, <2>4 DEF PublishChange, Invalidate, ToStage, resolving, changing
<1>6. CASE Crash
  BY <1>6 DEF Crash
<1>7. CASE UNCHANGED pvars
  BY <1>7 DEF pvars, resolving, changing, history
<1> QED BY <1>1, <1>2, <1>3, <1>4, <1>5, <1>6, <1>7 DEF PNext

(* Asking is preserved. *)
LEMMA AskingKept ==
    ASSUME ProviderTypeOK, ProviderTypeOK', Asking, [PNext]_pvars
    PROVE  Asking'
<1> USE DEF ProviderTypeOK, Asking
<1>1. ASSUME NEW r \in Requests, Resolve(r)
      PROVE  Asking'
  <2>1. PICK u \in Users, w \in Workspaces :
            ask' = [ask EXCEPT ![r] = [user |-> u, workspace |-> w, level |-> "user"]]
    BY <1>1 DEF Resolve
  <2>2. ask'[r] \in Ask /\ ask'[r].level # "server"
    BY <2>1 DEF Ask, Level
  <2> QED BY <1>1, <2>1, <2>2 DEF Resolve, Move
<1>2. ASSUME NEW r \in Requests, Lookup(r)
      PROVE  Asking'
  BY <1>2 DEF Lookup, Move
<1>3. ASSUME NEW r \in Requests, ReadConfig(r) \/ ReadConfigFails(r)
      PROVE  Asking'
  BY <1>3 DEF ReadConfig, ReadConfigFails, Move
<1>4. ASSUME NEW r \in Requests, NoConfig(r)
      PROVE  Asking'
  <2>1. ask[r] \in Ask /\ ask[r].level \in {"user", "workspace"}
    BY <1>4 DEF NoConfig, Ask, Level
  <2>2. PICK level \in {"workspace", "server"} :
            /\ level = IF ask[r].level = "user" THEN "workspace" ELSE "server"
            /\ ask' = [ask EXCEPT ![r] = [ask[r] EXCEPT !.level = level]]
    BY <1>4 DEF NoConfig, NextLevel
  <2>3. ask'[r] \in Ask /\ ask'[r].level = level
    BY <2>1, <2>2 DEF Ask, Level
  <2> QED BY <1>4, <2>1, <2>2, <2>3 DEF NoConfig, NextLevel, Move
<1>5. ASSUME NEW r \in Requests, Hit(r) \/ Fallback(r) \/ CreateAndCache(r)
      PROVE  Asking'
  <2>1. ASSUME NEW p, NEW m, Return(r, p, m)
        PROVE  answer'[r].level = ask[r].level /\ position'[r] = "ok"
    BY <2>1 DEF Return, Move
  <2>2. \/ answer'[r].level = ask[r].level /\ position'[r] = "ok"
        \/ answer' = answer /\ position'[r] = "error"
    BY <1>5, <2>1 DEF Hit, Fallback, CreateAndCache, Move
  <2>3. \A q \in Requests \ {r} : answer'[q] = answer[q] /\ position'[q] = position[q]
    BY <1>5 DEF Hit, Fallback, CreateAndCache, Return, Move
  <2>4. ask[r] \in Ask /\ ask' = ask /\ got' = got
    BY <1>5 DEF Hit, Fallback, CreateAndCache
  <2> QED BY <2>2, <2>3, <2>4, <1>5 DEF Hit, Fallback, CreateAndCache
<1>6. ASSUME NEW c \in Changes, StoreConfig(c) \/ PublishChange(c) \/ Invalidate(c)
      PROVE  Asking'
  BY <1>6 DEF StoreConfig, PublishChange, Invalidate, resolving
<1>7. CASE Crash
  BY <1>7 DEF Crash
<1>8. CASE UNCHANGED pvars
  BY <1>8 DEF pvars, resolving
<1> QED BY <1>1, <1>2, <1>3, <1>4, <1>5, <1>6, <1>7, <1>8 DEF PNext

(* Announced is preserved. *)
LEMMA AnnouncedKept ==
    ASSUME ProviderTypeOK, Announced, [PNext]_pvars
    PROVE  Announced'
<1> USE DEF ProviderTypeOK, Announced
<1>1. ASSUME NEW c \in Changes, StoreConfig(c)
      PROVE  Announced'
  <2>1. PICK o \in Owners, new \in Configs \cup {Unset} :
            change' = [change EXCEPT ![c] = [owner |-> o, config |-> new]]
    BY <1>1 DEF StoreConfig
  <2>2. change'[c] # Unset
    BY <2>1, ProviderCacheAssumption DEF Change
  <2> QED BY <1>1, <2>1, <2>2 DEF StoreConfig, ToStage
<1>2. ASSUME NEW c \in Changes, PublishChange(c) \/ Invalidate(c)
      PROVE  Announced'
  BY <1>2 DEF PublishChange, Invalidate, ToStage, changing
<1>3. ASSUME NEW r \in Requests,
             \/ Resolve(r) \/ Lookup(r) \/ Hit(r) \/ ReadConfig(r) \/ NoConfig(r)
             \/ ReadConfigFails(r) \/ Fallback(r) \/ CreateAndCache(r)
      PROVE  Announced'
  BY <1>3 DEF Resolve, Lookup, Hit, ReadConfig, NoConfig, ReadConfigFails, Fallback,
              CreateAndCache, changing
<1>4. CASE Crash
  BY <1>4 DEF Crash
<1>5. CASE UNCHANGED pvars
  BY <1>5 DEF pvars, changing
<1> QED BY <1>1, <1>2, <1>3, <1>4, <1>5 DEF PNext

(* Where a request stands decides whose configurations it may hold: a       *)
(* request that keeps its question keeps its owner.                         *)
LEMMA OwnerKept ==
    ASSUME NEW r \in Requests, ask'[r] = ask[r]
    PROVE  OwnerOf(r)' = OwnerOf(r)
  BY DEF OwnerOf

(* OwnersOwn is preserved. *)
LEMMA OwnKept ==
    ASSUME ProviderTypeOK, ProviderTypeOK', Asking, OwnersOwn, Announced, [PNext]_pvars
    PROVE  OwnersOwn'
<1> USE DEF ProviderTypeOK, OwnersOwn
<1>1. ASSUME NEW r \in Requests,
             Resolve(r) \/ ReadConfigFails(r) \/ NoConfig(r)
      PROVE  OwnersOwn'
  <2>1. config' = config /\ had' = had /\ providers' = providers /\ answer' = answer /\ got' = got
    BY <1>1 DEF Resolve, ReadConfigFails, NoConfig, NextLevel, history
  <2>2. position'[r] \notin {"hit", "fill", "ok"} /\ answer[r] = Unset
    BY <1>1 DEF Resolve, ReadConfigFails, NoConfig, NextLevel, Move, Asking
  <2>3. \A q \in Requests \ {r} : position'[q] = position[q] /\ ask'[q] = ask[q]
    BY <1>1 DEF Resolve, ReadConfigFails, NoConfig, NextLevel, Move
  <2> QED BY <2>1, <2>2, <2>3, OwnerKept
<1>2. ASSUME NEW r \in Requests, Lookup(r) \/ ReadConfig(r)
      PROVE  OwnersOwn'
  <2>1. OwnerOf(r) \in Owners /\ KeyOf(r) \in KeysOf(OwnerOf(r))
    BY <1>2, KeyIsTheOwners DEF Lookup, ReadConfig, Asking
  <2>2. position'[r] \in {"hit", "fill"} => got'[r] \in had[OwnerOf(r)]
    BY <1>2, <2>1 DEF Lookup, ReadConfig, Move
  <2>3. \A q \in Requests \ {r} : position'[q] = position[q] /\ got'[q] = got[q]
    BY <1>2 DEF Lookup, ReadConfig, Move
  <2>4. UNCHANGED <<config, had, providers, answer, ask>>
    BY <1>2 DEF Lookup, ReadConfig, history
  <2> QED BY <2>2, <2>3, <2>4, OwnerKept
<1>3. ASSUME NEW r \in Requests, Hit(r) \/ Fallback(r) \/ CreateAndCache(r)
      PROVE  OwnersOwn'
  <2>1. /\ OwnerOf(r) \in Owners /\ KeyOf(r) \in ProviderKeys
        /\ \A o \in Owners : KeyOf(r) \in KeysOf(o) <=> o = OwnerOf(r)
    BY <1>3, KeyIsTheOwners DEF Hit, Fallback, CreateAndCache, Asking
  <2>2. UNCHANGED <<config, had, ask, got>>
    BY <1>3 DEF Hit, Fallback, CreateAndCache, history
  <2>3. \A o \in Owners : \A k \in KeysOf(o) : providers'[k] \in had[o] \cup {Unset}
    BY <1>3, <2>1, KeysOfOwners DEF Hit, Fallback, CreateAndCache
  <2>4. \A q \in Requests \ {r} : position'[q] = position[q] /\ answer'[q] = answer[q]
    BY <1>3 DEF Hit, Fallback, CreateAndCache, Return, Move
  <2>5. ASSUME NEW p, NEW m, Return(r, p, m)
        PROVE  answer'[r].level = ask[r].level /\ answer'[r].provider = p
    BY <2>5 DEF Return
  <2>6. position'[r] \notin {"hit", "fill"}
    BY <1>3 DEF Hit, Fallback, CreateAndCache, Return, Move
  <2>7. answer'[r] # Unset =>
            IF answer'[r].level = "server" THEN answer'[r].provider = Server
                                           ELSE answer'[r].provider \in had[OwnerOf(r)]
    BY <1>3, <2>5 DEF Hit, Fallback, CreateAndCache, Asking
  <2>8. \A q \in Requests : OwnerOf(q)' = OwnerOf(q)
    BY <2>2, OwnerKept
  <2>9. \A q \in Requests : position'[q] \in {"hit", "fill"} => got'[q] \in had'[OwnerOf(q)']
    BY <2>2, <2>4, <2>6, <2>8
  <2>10. \A q \in Requests : answer'[q] # Unset =>
            IF answer'[q].level = "server" THEN answer'[q].provider = Server
                                           ELSE answer'[q].provider \in had'[OwnerOf(q)']
    BY <2>2, <2>4, <2>7, <2>8
  <2> QED BY <2>2, <2>3, <2>9, <2>10
<1>4. ASSUME NEW c \in Changes, StoreConfig(c)
      PROVE  OwnersOwn'
  <2>1. PICK o \in Owners, new \in Configs \cup {Unset} :
            /\ config' = [config EXCEPT ![o] = new]
            /\ had' = [had EXCEPT ![o] = had[o] \cup {new}]
    BY <1>4 DEF StoreConfig
  <2>2. \A p \in Owners : had[p] \subseteq had'[p] /\ config'[p] \in had'[p]
    BY <2>1
  <2>3. UNCHANGED <<providers, position, ask, got, answer>>
    BY <1>4 DEF StoreConfig, resolving
  <2>4. \A r \in Requests : position[r] \in {"hit", "fill", "ok"} => OwnerOf(r) \in Owners
    BY KeyIsTheOwners DEF Asking
  <2>5. \A r \in Requests : answer[r] # Unset => position[r] = "ok"
    BY DEF Asking
  <2> QED BY <2>2, <2>3, <2>4, <2>5, OwnerKept
<1>5. ASSUME NEW c \in Changes, PublishChange(c) \/ Invalidate(c)
      PROVE  OwnersOwn'
  <2>1. UNCHANGED <<config, had, position, ask, got, answer>>
    BY <1>5 DEF PublishChange, Invalidate, resolving
  <2>2. \A k \in ProviderKeys : providers'[k] \in {Unset, providers[k]}
    BY <1>5 DEF PublishChange, Invalidate
  <2> QED BY <2>1, <2>2, KeysOfOwners, OwnerKept
<1>6. CASE Crash
  <2>1. UNCHANGED <<config, had, ask, got, answer>>
    BY <1>6 DEF Crash
  <2>2. \A k \in ProviderKeys : providers'[k] = Unset
    BY <1>6 DEF Crash
  <2>3. \A r \in Requests : position'[r] \notin {"hit", "fill"}
    BY <1>6 DEF Crash
  <2> QED BY <2>1, <2>2, <2>3, KeysOfOwners, OwnerKept
<1>7. CASE UNCHANGED pvars
  BY <1>7, OwnerKept DEF pvars, resolving, history
<1> QED BY <1>1, <1>2, <1>3, <1>4, <1>5, <1>6, <1>7 DEF PNext

(* LevelsPassed is preserved. *)
LEMMA LevelsKept ==
    ASSUME ProviderTypeOK, ProviderTypeOK', Asking, LevelsPassed, [PNext]_pvars
    PROVE  LevelsPassed'
<1> USE DEF ProviderTypeOK, LevelsPassed
<1>1. ASSUME NEW r \in Requests, Resolve(r)
      PROVE  LevelsPassed'
  <2>1. PICK u \in Users, w \in Workspaces :
            ask' = [ask EXCEPT ![r] = [user |-> u, workspace |-> w, level |-> "user"]]
    BY <1>1 DEF Resolve
  <2>2. ask'[r].level = "user"
    BY <2>1
  <2>3. \A o \in Owners : config[o] \in seen'[r][o]
    BY <1>1 DEF Resolve
  <2>4. config' = config /\ \A q \in Requests \ {r} : UNCHANGED <<position[q], ask[q], seen[q]>>
    BY <1>1 DEF Resolve, Move
  <2> QED BY <2>2, <2>3, <2>4
<1>2. ASSUME NEW r \in Requests, NoConfig(r)
      PROVE  LevelsPassed'
  <2>1. ask[r] \in Ask /\ ask[r].level \in {"user", "workspace"}
    BY <1>2 DEF NoConfig, Ask, Level, Asking
  <2>2. Unset \in seen[r][OwnerOf(r)]
    BY <1>2, <2>1, KeyIsTheOwners DEF NoConfig
  <2>3. PICK level \in {"workspace", "server"} :
            /\ level = IF ask[r].level = "user" THEN "workspace" ELSE "server"
            /\ ask' = [ask EXCEPT ![r] = [ask[r] EXCEPT !.level = level]]
    BY <1>2 DEF NoConfig, NextLevel
  <2>4. /\ ask'[r].level = level /\ ask'[r].user = ask[r].user
        /\ ask'[r].workspace = ask[r].workspace
    BY <2>1, <2>3 DEF Ask
  <2>5. position[r] # "new" /\ seen' = seen /\ config' = config
    BY <1>2 DEF NoConfig, history
  <2>6. \A q \in Requests \ {r} : UNCHANGED <<position[q], ask[q]>>
    BY <1>2, <2>3 DEF NoConfig, NextLevel, Move
  <2>7. /\ level = "workspace" => ask[r].level = "user"
        /\ level = "server" => ask[r].level = "workspace"
    BY <2>1, <2>3
  <2> QED BY <2>2, <2>4, <2>5, <2>6, <2>7 DEF OwnerOf
<1>3. ASSUME NEW r \in Requests,
             \/ Lookup(r) \/ Hit(r) \/ ReadConfig(r) \/ ReadConfigFails(r)
             \/ Fallback(r) \/ CreateAndCache(r)
      PROVE  LevelsPassed'
  <2>1. UNCHANGED <<config, seen, ask>> /\ position[r] # "new"
    BY <1>3 DEF Lookup, Hit, ReadConfig, ReadConfigFails, Fallback, CreateAndCache, history
  <2>2. \A q \in Requests \ {r} : position'[q] = position[q]
    BY <1>3 DEF Lookup, Hit, ReadConfig, ReadConfigFails, Fallback, CreateAndCache, Return, Move
  <2> QED BY <2>1, <2>2
<1>4. ASSUME NEW c \in Changes, StoreConfig(c)
      PROVE  LevelsPassed'
  <2>1. PICK o \in Owners, new \in Configs \cup {Unset} :
            /\ config' = [config EXCEPT ![o] = new]
            /\ seen' = [r \in Requests |-> IF position[r] = "new" THEN seen[r]
                                           ELSE [seen[r] EXCEPT ![o] = seen[r][o] \cup {new}]]
    BY <1>4 DEF StoreConfig
  <2>2. UNCHANGED <<position, ask>>
    BY <1>4 DEF StoreConfig, resolving
  <2>3. ASSUME NEW r \in Requests, position[r] # "new", NEW p \in Owners
        PROVE  seen[r][p] \subseteq seen'[r][p] /\ config'[p] \in seen'[r][p]
    BY <2>1, <2>3
  <2>4. ASSUME NEW r \in Requests, position[r] # "new"
        PROVE  /\ seen'[r] = [seen[r] EXCEPT ![o] = seen[r][o] \cup {new}]
               /\ \A p \in Owners : Unset \in seen[r][p] => Unset \in seen'[r][p]
    <3>1. seen'[r] = [seen[r] EXCEPT ![o] = seen[r][o] \cup {new}]
      BY <2>1, <2>4
    <3>2. DOMAIN seen[r] = Owners /\ DOMAIN seen'[r] = Owners
      BY <3>1
    <3> QED BY <3>1, <3>2
  <2>5. \A r \in Requests : position[r] # "new" => ask[r].user \in Owners /\ ask[r].workspace \in Owners
    BY DEF Asking, Ask, Owners
  <2> QED BY <2>2, <2>3, <2>4, <2>5
<1>5. ASSUME NEW c \in Changes, PublishChange(c) \/ Invalidate(c)
      PROVE  LevelsPassed'
  BY <1>5 DEF PublishChange, Invalidate, resolving
<1>6. CASE Crash
  BY <1>6 DEF Crash
<1>7. CASE UNCHANGED pvars
  BY <1>7 DEF pvars, resolving, history
<1> QED BY <1>1, <1>2, <1>3, <1>4, <1>5, <1>6, <1>7 DEF PNext

(* The invariant holds in every behaviour. *)
LEMMA ProvidersInvariant == PSpec => []PInv
<1>1. PInv /\ [PNext]_pvars => PInv'
  BY ProviderTypes, AskingKept, OwnKept, LevelsKept, AnnouncedKept DEF PInv
<1> QED BY ProvidersInit, <1>1, PTL DEF PSpec

(* Resolving, changing and invalidating keep every variable within its      *)
(* values, whatever fails and whenever the server restarts.                 *)
THEOREM ProvidersWellTyped == PSpec => []ProviderTypeOK
<1>1. PInv => ProviderTypeOK
  BY DEF PInv
<1> QED BY ProvidersInvariant, <1>1, PTL

(* Resolve hands a provider out only on behalf of the user, or in the       *)
(* workspace, whose configuration it was built from, and turns to a lower   *)
(* level only if the level above had no configuration.                      *)
THEOREM ProvidersAreEntitled == PSpec => []ProviderIsEntitled
<1>1. PInv => ProviderIsEntitled
  <2> SUFFICES ASSUME PInv PROVE ProviderIsEntitled
    OBVIOUS
  <2> USE DEF PInv, ProviderTypeOK
  <2>1. ASSUME NEW r \in Requests, answer[r] # Unset
        PROVE  /\ answer[r].level \in Level /\ answer[r].level = ask[r].level
               /\ position[r] # "new"
    BY <2>1 DEF Answer, Asking
  <2>2. OwnConfigOnly
    <3>1. ASSUME NEW r \in Requests, answer[r] # Unset, answer[r].level = "user"
          PROVE  answer[r].provider \in had[ask[r].user]
      BY <2>1, <3>1 DEF OwnersOwn, OwnerOf
    <3>2. ASSUME NEW r \in Requests, answer[r] # Unset, answer[r].level = "workspace"
          PROVE  answer[r].provider \in had[ask[r].workspace]
      BY <2>1, <3>2 DEF OwnersOwn, OwnerOf
    <3>3. ASSUME NEW r \in Requests, answer[r] # Unset, answer[r].level = "server"
          PROVE  answer[r].provider = Server
      BY <3>3 DEF OwnersOwn
    <3> QED BY <2>1, <3>1, <3>2, <3>3 DEF OwnConfigOnly, Level
  <2>3. HierarchyRespected
    BY <2>1 DEF HierarchyRespected, LevelsPassed
  <2> QED BY <2>2, <2>3 DEF ProviderIsEntitled
<1> QED BY ProvidersInvariant, <1>1, PTL

(* SettledCacheIsFresh is preserved. *)
LEMMA FreshKept ==
    ASSUME PInv, SettledCacheIsFresh, [PNext]_pvars
    PROVE  SettledCacheIsFresh'
<1> USE DEF PInv, ProviderTypeOK, SettledCacheIsFresh
<1>1. ASSUME NEW r \in Requests, Resolve(r) \/ Lookup(r) \/ Hit(r) \/ ReadConfig(r) \/ NoConfig(r)
                                 \/ ReadConfigFails(r) \/ Fallback(r)
      PROVE  SettledCacheIsFresh'
  <2>1. UNCHANGED <<config, providers, stage, change, pending, missed>>
    BY <1>1 DEF Resolve, Lookup, Hit, ReadConfig, NoConfig, ReadConfigFails, Fallback,
                changing, history
  <2> QED BY <2>1 DEF Settled
<1>2. ASSUME NEW r \in Requests, CreateAndCache(r)
      PROVE  SettledCacheIsFresh'
  <2>1. /\ OwnerOf(r) \in Owners /\ KeyOf(r) \in ProviderKeys
        /\ \A o \in Owners : KeyOf(r) \in KeysOf(o) <=> o = OwnerOf(r)
    BY <1>2, KeyIsTheOwners DEF CreateAndCache, Asking
  <2>2. UNCHANGED <<config, stage, change, pending>> /\ \A o : Settled(o)' <=> Settled(o)
    BY <1>2 DEF CreateAndCache, changing, Settled
  <2>3. CASE UNCHANGED <<providers, missed>>
    BY <2>2, <2>3
  <2>4. CASE ~UNCHANGED <<providers, missed>>
    <3>1. providers' = [providers EXCEPT ![KeyOf(r)] = got[r]]
      BY <1>2, <2>4 DEF CreateAndCache
    <3>2. /\ missed \subseteq missed'
          /\ (config[OwnerOf(r)] # got[r] /\ Settled(OwnerOf(r))) => OwnerOf(r) \in missed'
      BY <1>2, <2>4 DEF CreateAndCache
    <3>3. ASSUME NEW o \in Owners, Settled(o), o \notin missed', NEW k \in KeysOf(o)
          PROVE  providers'[k] \in {Unset, config[o]}
      <4>1. CASE k = KeyOf(r)
        BY <2>1, <3>1, <3>2, <3>3, <4>1
      <4>2. CASE k # KeyOf(r)
        BY <3>1, <3>2, <3>3, <4>2, KeysOfOwners
      <4> QED BY <4>1, <4>2
    <3> QED BY <2>2, <3>3
  <2> QED BY <2>3, <2>4
<1>3. ASSUME NEW c \in Changes, StoreConfig(c)
      PROVE  SettledCacheIsFresh'
  <2>1. PICK o \in Owners, new \in Configs \cup {Unset} :
            /\ config' = [config EXCEPT ![o] = new]
            /\ change' = [change EXCEPT ![c] = [owner |-> o, config |-> new]]
    BY <1>3 DEF StoreConfig
  <2>2. stage' = [stage EXCEPT ![c] = "stored"] /\ UNCHANGED <<providers, pending, missed>>
    BY <1>3 DEF StoreConfig, ToStage
  <2>3. change'[c] # Unset /\ change'[c].owner = o
    BY <2>1, ProviderCacheAssumption DEF Change
  <2>4. ~Settled(o)'
    BY <2>2, <2>3 DEF Settled
  <2>5. ASSUME NEW p \in Owners \ {o}, Settled(p)'
        PROVE  Settled(p)
    <3>1. change[c] = Unset
      BY <1>3 DEF StoreConfig, Announced
    <3>2. \A d \in Changes \ {c} : change'[d] = change[d] /\ stage'[d] = stage[d]
      BY <2>1, <2>2
    <3> QED BY <2>2, <2>5, <3>1, <3>2 DEF Settled
  <2> QED BY <2>1, <2>2, <2>4, <2>5
<1>4. ASSUME NEW c \in Changes, PublishChange(c)
      PROVE  SettledCacheIsFresh'
  <2>1. change[c] # Unset /\ change' = change
    BY <1>4 DEF PublishChange, Announced
  <2>2. stage' = [stage EXCEPT ![c] = "ok"] /\ UNCHANGED <<config, providers>>
    BY <1>4 DEF PublishChange, ToStage
  <2>3. \/ pending' = pending \cup {c} /\ missed' = missed
        \/ pending' = pending /\ missed' = missed \cup {change[c].owner}
    BY <1>4 DEF PublishChange
  <2>4. ASSUME NEW o \in Owners, Settled(o)', o \notin missed'
        PROVE  Settled(o) /\ o \notin missed
    <3>1. change[c].owner # o
      BY <2>1, <2>3, <2>4 DEF Settled
    <3> QED BY <2>1, <2>2, <2>3, <2>4, <3>1 DEF Settled
  <2> QED BY <2>2, <2>4
<1>5. ASSUME NEW c \in Changes, Invalidate(c)
      PROVE  SettledCacheIsFresh'
  <2>1. change[c] # Unset /\ UNCHANGED <<config, stage, change>>
    BY <1>5 DEF Invalidate, Announced, changing
  <2>2. providers' = [k \in ProviderKeys |->
                        IF k \in KeysOf(change[c].owner) THEN Unset ELSE providers[k]]
    BY <1>5 DEF Invalidate
  <2>3. missed' = missed \ {change[c].owner} /\ (pending' = pending \/ pending' = pending \ {c})
    BY <1>5 DEF Invalidate
  <2>4. ASSUME NEW o \in Owners, o # change[c].owner, Settled(o)', o \notin missed'
        PROVE  Settled(o) /\ o \notin missed
    BY <2>1, <2>3, <2>4 DEF Settled
  <2>5. ASSUME NEW o \in Owners, Settled(o)', o \notin missed', NEW k \in KeysOf(o)
        PROVE  providers'[k] \in {Unset, config[o]}
    BY <2>2, <2>4, <2>5, KeysOfOwners
  <2> QED BY <2>1, <2>5
<1>6. CASE Crash
  BY <1>6, KeysOfOwners DEF Crash
<1>7. CASE UNCHANGED pvars
  BY <1>7 DEF pvars, changing, history, Settled
<1> QED BY <1>1, <1>2, <1>3, <1>4, <1>5, <1>6, <1>7 DEF PNext

(* Once the events of all changes to a configuration are handled, whatever  *)
(* their number and order, what the resolver's map holds was built from the *)
(* configuration as it is; the exceptions are those `missed` records.       *)
THEOREM SettledProvidersAreFresh == PSpec => []SettledCacheIsFresh
<1>1. PInit => SettledCacheIsFresh
  BY KeysOfOwners DEF PInit, SettledCacheIsFresh
<1>2. PInv /\ SettledCacheIsFresh /\ [PNext]_pvars => SettledCacheIsFresh'
  BY FreshKept
<1> QED BY ProvidersInvariant, <1>1, <1>2, PTL DEF PSpec

-----------------------------------------------------------------------------
(* ResponseCache.                                                           *)

Registered == {"calling", "returned", "stored", "cleaning"}

(* Every step of a caller after the first has a request to be about, and a  *)
(* key made of it, unless the caller bypasses the cache; answered are those *)
(* that are over.                                                           *)
RequestsKnown ==
    \A c \in Callers :
        /\ where[c] = "new" => key[c] = Nil
        /\ key[c] # Nil => key[c] = CacheKey(request[c]) /\ request[c].temperature = 0
        /\ where[c] \in {"get", "drop", "missed", "waiting", "returned", "stored", "cleaning"}
              => key[c] \in Keys
        /\ answeredBy[c] # Nil => where[c] \in {"ok", "error"}

(* The table of calls in flight holds exactly the calls being made.         *)
TableSound ==
    /\ \A c \in Callers : (where[c] \in Registered /\ key[c] # Nil) => inflight[key[c]] = c
    /\ \A k \in Keys : inflight[k] # Nil => key[inflight[k]] = k

(* A call has an outcome from its return on, and waiters wait for a call of *)
(* their own request.                                                       *)
OutcomesKnown ==
    \A c \in Callers :
        /\ where[c] \in {"new", "get", "drop", "missed", "waiting", "calling"} => outcome[c] = Nil
        /\ where[c] = "returned" => outcome[c] = "resp"
        /\ where[c] \in {"stored", "cleaning"} => outcome[c] \in {"resp", "error"}
        /\ where[c] = "waiting" => leader[c] \in Callers /\ key[leader[c]] = key[c]
        /\ c \in finished => outcome[c] \in {"resp", "error"}

EntriesSound ==
    \A k \in Keys : entries[k] # Nil =>
        key[entries[k].resp] = k /\ outcome[entries[k].resp] = "resp"

(* AnswersMatch, in terms of keys.                                          *)
AnswersKeyed ==
    \A c \in Callers : answeredBy[c] # Nil =>
        /\ answeredBy[c] = c \/ key[c] # Nil
        /\ key[answeredBy[c]] = key[c]
        /\ outcome[answeredBy[c]] = (IF where[c] = "ok" THEN "resp" ELSE "error")

WithinCapacity == IsFiniteSet(Occupied) /\ Cardinality(Occupied) <= MaxSize

RInv ==
    /\ ResponseTypeOK /\ RequestsKnown /\ TableSound /\ OutcomesKnown
    /\ EntriesSound /\ AnswersKeyed /\ WithinCapacity


(* The invariant holds initially. *)
LEMMA ResponsesInit == RInit => RInv
<1> SUFFICES ASSUME RInit PROVE RInv
  OBVIOUS
<1> USE DEF RInit
<1>1. ResponseTypeOK
  BY DEF ResponseTypeOK, Phase
<1>2. RequestsKnown /\ TableSound /\ OutcomesKnown /\ EntriesSound /\ AnswersKeyed
  BY DEF RequestsKnown, TableSound, OutcomesKnown, EntriesSound, AnswersKeyed, Registered
<1>3. Occupied = {}
  BY DEF Occupied
<1>4. WithinCapacity
  BY <1>3, FS_EmptySet, ResponseCacheAssumption DEF WithinCapacity
<1> QED BY <1>1, <1>2, <1>4 DEF RInv

LEMMA KeysOfPrompts == \A q \in Prompts : CacheKey(q) \in Keys /\ CacheKey(q) # Nil /\ q # Nil
  BY ResponseCacheAssumption DEF Keys

(* Type correctness of ResponseCache is preserved. *)
LEMMA ResponseTypes ==
    ASSUME ResponseTypeOK, RequestsKnown, OutcomesKnown, [RNext]_rvars
    PROVE  ResponseTypeOK'
<1> USE DEF ResponseTypeOK, Phase
<1>1. ASSUME NEW c \in Callers, ChatCompletion(c)
      PROVE  ResponseTypeOK'
  BY <1>1, KeysOfPrompts DEF ChatCompletion, Proceed
<1>2. ASSUME NEW c \in Callers, Get(c)
      PROVE  ResponseTypeOK'
  <2>1. key[c] \in Keys
    BY <1>2 DEF Get, RequestsKnown
  <2>2. key[c] \in Occupied => entries[key[c]].resp \in Callers
    BY <2>1 DEF Occupied, Entry
  <2> QED BY <1>2, <2>2 DEF Get, Proceed, calls
<1>3. ASSUME NEW c \in Callers, Drop(c) \/ Join(c) \/ Lead(c)
      PROVE  ResponseTypeOK'
  <2>1. key[c] \in Keys
    BY <1>3 DEF Drop, Join, Lead, RequestsKnown
  <2> QED BY <1>3, <2>1 DEF Drop, Join, Lead, Proceed, calls
<1>4. ASSUME NEW c \in Callers, ModelReturns(c)
      PROVE  ResponseTypeOK'
  BY <1>4 DEF ModelReturns, Proceed
<1>5. ASSUME NEW c \in Callers, Set(c)
      PROVE  ResponseTypeOK'
  <2>1. PICK kept : entries' = [k \in Keys |->
            CASE k = key[c]               -> [resp |-> c, expiresAt |-> now + TTL]
              [] k # key[c] /\ k \in kept -> entries[k]
              [] OTHER                    -> Nil]
    BY <1>5 DEF Set
  <2>2. [resp |-> c, expiresAt |-> now + TTL] \in Entry
    BY ResponseCacheAssumption DEF Entry
  <2>3. entries' \in [Keys -> Entry \cup {Nil}]
    BY <2>1, <2>2
  <2> QED BY <1>5, <2>3 DEF Set, Proceed, calls
<1>6. ASSUME NEW c \in Callers, Done(c) \/ CleanUp(c) \/ Wake(c)
      PROVE  ResponseTypeOK'
  <2>1. key[c] \in Keys /\ (where[c] = "waiting" => leader[c] \in Callers)
    BY <1>6 DEF Done, CleanUp, Wake, RequestsKnown, OutcomesKnown
  <2> QED BY <1>6, <2>1 DEF Done, CleanUp, Wake, Give, Proceed, calls
<1>7. CASE Tick
  BY <1>7 DEF Tick, calls
<1>8. CASE UNCHANGED rvars
  BY <1>8 DEF rvars, calls
<1> QED BY <1>1, <1>2, <1>3, <1>4, <1>5, <1>6, <1>7, <1>8 DEF RNext, CallStep

(* RequestsKnown is preserved. *)
LEMMA RequestsKept ==
    ASSUME ResponseTypeOK, RequestsKnown, [RNext]_rvars
    PROVE  RequestsKnown'
<1> USE DEF ResponseTypeOK, RequestsKnown
<1>0. ASSUME NEW c \in Callers, ChatCompletion(c)
      PROVE  RequestsKnown'
  <2>1. PICK q \in Prompts :
          /\ request' = [request EXCEPT ![c] = q]
          /\ \/ /\ q.temperature = 0
                /\ key' = [key EXCEPT ![c] = CacheKey(q)]
                /\ where' = [where EXCEPT ![c] = "get"]
             \/ key' = key /\ where' = [where EXCEPT ![c] = "calling"]
    BY <1>0 DEF ChatCompletion, Proceed
  <2>2. where[c] = "new" /\ answeredBy' = answeredBy
    BY <1>0 DEF ChatCompletion
  <2>3. \A d \in Callers \ {c} : where'[d] = where[d] /\ key'[d] = key[d] /\ request'[d] = request[d]
    BY <2>1
  <2>4. key[c] = Nil /\ answeredBy[c] = Nil
    BY <2>2
  <2>5. request'[c] = q /\ where'[c] \in {"get", "calling"}
    BY <2>1
  <2>6. \/ q.temperature = 0 /\ key'[c] = CacheKey(q)
        \/ key'[c] = Nil /\ where'[c] = "calling"
    BY <2>1, <2>4
  <2>7. CacheKey(q) \in Keys
    BY KeysOfPrompts
  <2>8. /\ where'[c] = "new" => key'[c] = Nil
        /\ key'[c] # Nil => key'[c] = CacheKey(request'[c]) /\ request'[c].temperature = 0
        /\ where'[c] \in {"get", "drop", "missed", "waiting", "returned", "stored", "cleaning"}
              => key'[c] \in Keys
        /\ answeredBy'[c] # Nil => where'[c] \in {"ok", "error"}
    BY <2>2, <2>4, <2>5, <2>6, <2>7
  <2> QED BY <2>2, <2>3, <2>8
<1>1. ASSUME NEW c \in Callers, Get(c) \/ Drop(c) \/ Join(c) \/ Lead(c) \/ Set(c) \/ Done(c)
      PROVE  RequestsKnown'
  BY <1>1 DEF Get, Drop, Join, Lead, Set, Done, Proceed, calls
<1>2. ASSUME NEW c \in Callers, ModelReturns(c)
      PROVE  RequestsKnown'
  BY <1>2 DEF ModelReturns, Proceed
<1>3. ASSUME NEW c \in Callers, CleanUp(c) \/ Wake(c)
      PROVE  RequestsKnown'
  BY <1>3 DEF CleanUp, Wake, Give, Proceed, calls
<1>4. CASE Tick \/ UNCHANGED rvars
  BY <1>4 DEF Tick, rvars, calls
<1> QED BY <1>0, <1>1, <1>2, <1>3, <1>4 DEF RNext, CallStep

(* The table of calls in flight is preserved. *)
LEMMA TableKept ==
    ASSUME ResponseTypeOK, RequestsKnown, TableSound, [RNext]_rvars
    PROVE  TableSound'
<1> USE DEF ResponseTypeOK, TableSound, Registered
<1>1. ASSUME NEW c \in Callers, ChatCompletion(c)
      PROVE  TableSound'
  BY <1>1, ResponseCacheAssumption DEF ChatCompletion, Proceed, RequestsKnown
<1>2. ASSUME NEW c \in Callers, Get(c) \/ Drop(c) \/ Join(c) \/ Set(c) \/ Done(c) \/ Wake(c)
      PROVE  TableSound'
  BY <1>2 DEF Get, Drop, Join, Set, Done, Wake, Give, Proceed, calls
<1>3. ASSUME NEW c \in Callers, Lead(c)
      PROVE  TableSound'
  BY <1>3, ResponseCacheAssumption DEF Lead, Proceed, RequestsKnown
<1>4. ASSUME NEW c \in Callers, ModelReturns(c)
      PROVE  TableSound'
  BY <1>4 DEF ModelReturns, Proceed
<1>5. ASSUME NEW c \in Callers, CleanUp(c)
      PROVE  TableSound'
  BY <1>5, ResponseCacheAssumption DEF CleanUp, Give, Proceed, RequestsKnown
<1>6. CASE Tick \/ UNCHANGED rvars
  BY <1>6 DEF Tick, rvars, calls
<1> QED BY <1>1, <1>2, <1>3, <1>4, <1>5, <1>6 DEF RNext, CallStep

(* Whose request a call is and how it ended never changes once it is over.  *)
LEMMA OutcomesStay ==
    ASSUME ResponseTypeOK, RequestsKnown, OutcomesKnown, [RNext]_rvars,
           NEW l \in Callers, outcome[l] # Nil
    PROVE  outcome'[l] = outcome[l] /\ key'[l] = key[l]
<1> USE DEF ResponseTypeOK, OutcomesKnown
<1>1. ASSUME NEW c \in Callers, ChatCompletion(c)
      PROVE  outcome'[l] = outcome[l] /\ key'[l] = key[l]
  BY <1>1 DEF ChatCompletion
<1>2. ASSUME NEW c \in Callers, CallStep(c)
      PROVE  outcome'[l] = outcome[l] /\ key'[l] = key[l]
  BY <1>2 DEF CallStep, Get, Drop, Join, Lead, ModelReturns, Set, Done, CleanUp, Wake, calls
<1>3. CASE Tick \/ UNCHANGED rvars
  BY <1>3 DEF Tick, rvars, calls
<1> QED BY <1>1, <1>2, <1>3 DEF RNext

(* OutcomesKnown is preserved. *)
LEMMA OutcomesKept ==
    ASSUME ResponseTypeOK, RequestsKnown, TableSound, OutcomesKnown, [RNext]_rvars
    PROVE  OutcomesKnown'
<1> USE DEF ResponseTypeOK, OutcomesKnown
<1>1. ASSUME NEW c \in Callers, ChatCompletion(c)
      PROVE  OutcomesKnown'
  BY <1>1, ResponseCacheAssumption DEF ChatCompletion, Proceed, RequestsKnown
<1>2. ASSUME NEW c \in Callers, Get(c) \/ Drop(c) \/ Set(c) \/ Done(c)
      PROVE  OutcomesKnown'
  BY <1>2 DEF Get, Drop, Set, Done, Proceed, calls
<1>3. ASSUME NEW c \in Callers, Join(c) \/ Lead(c)
      PROVE  OutcomesKnown'
  BY <1>3 DEF Join, Lead, Proceed, RequestsKnown, TableSound
<1>4. ASSUME NEW c \in Callers, ModelReturns(c)
      PROVE  OutcomesKnown'
  BY <1>4 DEF ModelReturns, Proceed
<1>5. ASSUME NEW c \in Callers, CleanUp(c) \/ Wake(c)
      PROVE  OutcomesKnown'
  BY <1>5 DEF CleanUp, Wake, Give, Proceed, calls
<1>6. CASE Tick \/ UNCHANGED rvars
  BY <1>6 DEF Tick, rvars, calls
<1> QED BY <1>1, <1>2, <1>3, <1>4, <1>5, <1>6 DEF RNext, CallStep

(* An entry is dropped, replaced by the response of a caller with its key,  *)
(* or left alone.                                                           *)
LEMMA EntriesChange ==
    ASSUME ResponseTypeOK, RequestsKnown, OutcomesKnown, [RNext]_rvars, NEW k \in Keys
    PROVE  \/ entries'[k] \in {Nil, entries[k]}
           \/ key[entries'[k].resp] = k /\ outcome[entries'[k].resp] = "resp"
              /\ entries'[k].resp \in Callers
<1> USE DEF ResponseTypeOK
<1>1. ASSUME NEW c \in Callers, Drop(c)
      PROVE  entries'[k] \in {Nil, entries[k]}
  BY <1>1 DEF Drop
<1>2. ASSUME NEW c \in Callers, Set(c)
      PROVE  \/ entries'[k] \in {Nil, entries[k]}
             \/ key[entries'[k].resp] = k /\ outcome[entries'[k].resp] = "resp"
                /\ entries'[k].resp \in Callers
  <2>1. PICK kept : entries' = [j \in Keys |->
            CASE j = key[c]               -> [resp |-> c, expiresAt |-> now + TTL]
              [] j # key[c] /\ j \in kept -> entries[j]
              [] OTHER                    -> Nil]
    BY <1>2 DEF Set
  <2>2. outcome[c] = "resp"
    BY <1>2 DEF Set, OutcomesKnown
  <2> QED BY <2>1, <2>2
<1>3. CASE UNCHANGED entries
  BY <1>3
<1> QED BY <1>1, <1>2, <1>3 DEF RNext, CallStep, ChatCompletion, Get, Join, Lead, ModelReturns,
                                Done, CleanUp, Wake, Tick, rvars

(* EntriesSound is preserved. *)
LEMMA EntriesKept ==
    ASSUME ResponseTypeOK, RequestsKnown, OutcomesKnown, EntriesSound, [RNext]_rvars
    PROVE  EntriesSound'
<1> SUFFICES ASSUME NEW k \in Keys, entries'[k] # Nil
             PROVE  key'[entries'[k].resp] = k /\ outcome'[entries'[k].resp] = "resp"
  BY DEF EntriesSound
<1>1. /\ key[entries'[k].resp] = k /\ outcome[entries'[k].resp] = "resp"
      /\ entries'[k].resp \in Callers
  BY EntriesChange DEF EntriesSound, ResponseTypeOK, Entry
<1> QED BY <1>1, OutcomesStay, ResponseCacheAssumption

(* AnswersKeyed is preserved. *)
LEMMA AnswersKept ==
    ASSUME ResponseTypeOK, RequestsKnown, OutcomesKnown, EntriesSound, AnswersKeyed, [RNext]_rvars
    PROVE  AnswersKeyed'
<1> USE DEF ResponseTypeOK
<1>1. ASSUME NEW d \in Callers, answeredBy[d] # Nil, UNCHANGED <<answeredBy[d], where[d]>>
      PROVE  /\ answeredBy'[d] = d \/ key'[d] # Nil
             /\ key'[answeredBy'[d]] = key'[d]
             /\ outcome'[answeredBy'[d]] = (IF where'[d] = "ok" THEN "resp" ELSE "error")
  <2> DEFINE l == answeredBy[d]
  <2>1. l \in Callers /\ key[l] = key[d] /\ (l = d \/ key[d] # Nil)
        /\ outcome[l] = (IF where[d] = "ok" THEN "resp" ELSE "error")
    BY <1>1 DEF AnswersKeyed
  <2>2. outcome'[l] = outcome[l] /\ key'[l] = key[l]
    BY <2>1, OutcomesStay, ResponseCacheAssumption
  <2>3. where[d] # "new"
    BY <1>1 DEF RequestsKnown
  <2>4. key'[d] = key[d]
    BY <2>3 DEF RNext, CallStep, ChatCompletion, Get, Drop, Join, Lead, ModelReturns, Set, Done,
                CleanUp, Wake, Tick, rvars
  <2> QED BY <1>1, <2>1, <2>2, <2>4
<1>2. ASSUME NEW c \in Callers, NEW l \in Callers, Give(c, l),
             key' = key, outcome' = outcome, key[l] = key[c], key[c] # Nil, outcome[l] \in {"resp", "error"}
      PROVE  AnswersKeyed'
  <2>1. answeredBy'[c] = l /\ where'[c] = IF outcome[l] = "resp" THEN "ok" ELSE "error"
    BY <1>2 DEF Give, Proceed
  <2>2. \A d \in Callers \ {c} : UNCHANGED <<answeredBy[d], where[d]>>
    BY <1>2 DEF Give, Proceed
  <2> QED BY <1>1, <1>2, <2>1, <2>2 DEF AnswersKeyed
<1>3. ASSUME NEW c \in Callers,
             ChatCompletion(c) \/ Drop(c) \/ Join(c) \/ Lead(c) \/ Set(c) \/ Done(c)
      PROVE  AnswersKeyed'
  <2>1. answeredBy' = answeredBy /\ \A d \in Callers \ {c} : where'[d] = where[d]
    BY <1>3 DEF ChatCompletion, Drop, Join, Lead, Set, Done, Proceed, calls
  <2>2. answeredBy[c] = Nil
    BY <1>3 DEF ChatCompletion, Drop, Join, Lead, Set, Done, RequestsKnown
  <2> QED BY <1>1, <2>1, <2>2 DEF AnswersKeyed
<1>4. ASSUME NEW c \in Callers, Get(c)
      PROVE  AnswersKeyed'
  <2>1. \A d \in Callers \ {c} : UNCHANGED <<answeredBy[d], where[d]>>
    BY <1>4 DEF Get, Proceed
  <2>2. key[c] \in Keys /\ answeredBy[c] = Nil /\ key' = key /\ outcome' = outcome
    BY <1>4 DEF Get, RequestsKnown, calls
  <2>3. CASE key[c] \in Occupied \ Expired
    <3>1. answeredBy'[c] = entries[key[c]].resp /\ where'[c] = "ok"
      BY <1>4, <2>3 DEF Get, Proceed
    <3>2. key[entries[key[c]].resp] = key[c] /\ outcome[entries[key[c]].resp] = "resp"
      BY <2>2, <2>3 DEF EntriesSound, Occupied
    <3> QED BY <1>1, <2>1, <2>2, <3>1, <3>2, ResponseCacheAssumption DEF AnswersKeyed
  <2>4. CASE key[c] \notin Occupied \ Expired
    <3>1. answeredBy' = answeredBy
      BY <1>4, <2>4 DEF Get
    <3> QED BY <1>1, <2>1, <2>2, <3>1 DEF AnswersKeyed
  <2> QED BY <2>3, <2>4
<1>5. ASSUME NEW c \in Callers, ModelReturns(c)
      PROVE  AnswersKeyed'
  <2>1. key' = key /\ answeredBy[c] = Nil
    BY <1>5 DEF ModelReturns, RequestsKnown
  <2>2. \A d \in Callers \ {c} : UNCHANGED <<answeredBy[d], where[d]>>
    BY <1>5 DEF ModelReturns, Proceed
  <2>3. \/ answeredBy' = answeredBy
        \/ answeredBy'[c] = c /\ outcome'[c] = IF where'[c] = "ok" THEN "resp" ELSE "error"
    BY <1>5 DEF ModelReturns, Proceed
  <2> QED BY <1>1, <2>1, <2>2, <2>3 DEF AnswersKeyed
<1>6. ASSUME NEW c \in Callers, CleanUp(c)
      PROVE  AnswersKeyed'
  <2>1. /\ Give(c, c) /\ key' = key /\ outcome' = outcome /\ outcome[c] \in {"resp", "error"}
        /\ key[c] \in Keys
    BY <1>6 DEF CleanUp, OutcomesKnown, RequestsKnown
  <2> QED BY <1>2, <2>1, ResponseCacheAssumption
<1>7. ASSUME NEW c \in Callers, Wake(c)
      PROVE  AnswersKeyed'
  <2>1. /\ leader[c] \in Callers /\ Give(c, leader[c]) /\ key[leader[c]] = key[c]
        /\ outcome[leader[c]] \in {"resp", "error"} /\ key' = key /\ outcome' = outcome
        /\ key[c] \in Keys
    BY <1>7 DEF Wake, OutcomesKnown, RequestsKnown, calls
  <2> QED BY <1>2, <2>1, ResponseCacheAssumption
<1>8. CASE Tick \/ UNCHANGED rvars
  BY <1>1, <1>8 DEF AnswersKeyed, Tick, rvars, calls
<1> QED BY <1>3, <1>4, <1>5, <1>6, <1>7, <1>8 DEF RNext, CallStep

(* Making room leaves at most MaxSize - 1 entries.                          *)
LEMMA SetMakesRoom ==
    ASSUME ResponseTypeOK, WithinCapacity, NEW kept,
           kept \in IF Full(Unexpired) THEN {Unexpired \ {k} : k \in Oldest(Unexpired)}
                                       ELSE {Unexpired}
    PROVE  IsFiniteSet(kept) /\ Cardinality(kept) + 1 <= MaxSize /\ kept \subseteq Occupied
<1>1. Unexpired \subseteq Occupied
  BY DEF Unexpired
<1>2. /\ IsFiniteSet(Unexpired) /\ Cardinality(Unexpired) \in Nat
      /\ Cardinality(Unexpired) <= Cardinality(Occupied) /\ Cardinality(Occupied) \in Nat
  BY <1>1, FS_Subset, FS_CardinalityType DEF WithinCapacity
<1>3. MaxSize \in Nat /\ Cardinality(Unexpired) <= MaxSize
  BY <1>2, ResponseCacheAssumption DEF WithinCapacity
<1>4. CASE Full(Unexpired)
  <2>1. PICK k \in Unexpired : kept = Unexpired \ {k}
    BY <1>4 DEF Oldest
  <2>2. IsFiniteSet(kept) /\ Cardinality(kept) = Cardinality(Unexpired) - 1
    BY <1>2, <2>1, FS_RemoveElement
  <2> QED BY <1>1, <1>2, <1>3, <2>1, <2>2
<1>5. CASE ~Full(Unexpired)
  <2>1. kept = Unexpired
    BY <1>5
  <2>2. ~(Cardinality(Unexpired) >= MaxSize)
    BY <1>5 DEF Full
  <2> QED BY <1>1, <1>2, <1>3, <2>1, <2>2
<1> QED BY <1>4, <1>5

(* WithinCapacity is preserved. *)
LEMMA CapacityKept ==
    ASSUME ResponseTypeOK, RequestsKnown, WithinCapacity, [RNext]_rvars
    PROVE  WithinCapacity'
<1> USE DEF ResponseTypeOK
<1>1. ASSUME NEW S, IsFiniteSet(S), Cardinality(S) <= MaxSize, Occupied' \subseteq S
      PROVE  WithinCapacity'
  <2>1. IsFiniteSet(Occupied') /\ Cardinality(Occupied') <= Cardinality(S)
    BY <1>1, FS_Subset
  <2>2. Cardinality(Occupied') \in Nat /\ Cardinality(S) \in Nat
    BY <1>1, <2>1, FS_CardinalityType
  <2> QED BY <1>1, <2>1, <2>2, ResponseCacheAssumption DEF WithinCapacity
<1>2. ASSUME NEW c \in Callers, Drop(c)
      PROVE  WithinCapacity'
  <2>1. \A k \in Keys : entries'[k] \in {Nil, entries[k]}
    BY <1>2 DEF Drop
  <2>2. Occupied' \subseteq Occupied
    BY <2>1 DEF Occupied
  <2> QED BY <1>1, <2>2 DEF WithinCapacity
<1>3. ASSUME NEW c \in Callers, Set(c)
      PROVE  WithinCapacity'
  <2>1. PICK kept \in IF Full(Unexpired) THEN {Unexpired \ {k} : k \in Oldest(Unexpired)}
                                         ELSE {Unexpired} :
            entries' = [k \in Keys |->
                CASE k = key[c]               -> [resp |-> c, expiresAt |-> now + TTL]
                  [] k # key[c] /\ k \in kept -> entries[k]
                  [] OTHER                    -> Nil]
    BY <1>3 DEF Set
  <2>2. IsFiniteSet(kept) /\ Cardinality(kept) + 1 <= MaxSize
    BY <2>1, SetMakesRoom
  <2>3. \A k \in Keys \ (kept \cup {key[c]}) : entries'[k] = Nil
    BY <2>1
  <2>4. Occupied' \subseteq kept \cup {key[c]}
    BY <2>3 DEF Occupied
  <2>5. /\ IsFiniteSet(kept \cup {key[c]})
        /\ Cardinality(kept \cup {key[c]}) \in {Cardinality(kept), Cardinality(kept) + 1}
    BY <2>2, FS_AddElement
  <2>6. Cardinality(kept \cup {key[c]}) <= MaxSize
    BY <2>2, <2>5, FS_CardinalityType, ResponseCacheAssumption
  <2> QED BY <1>1, <2>4, <2>5, <2>6
<1>4. CASE UNCHANGED entries
  <2>1. Occupied' = Occupied
    BY <1>4 DEF Occupied
  <2> QED BY <2>1 DEF WithinCapacity
<1> QED BY <1>2, <1>3, <1>4 DEF RNext, CallStep, ChatCompletion, Get, Join, Lead, ModelReturns,
                                Done, CleanUp, Wake, Tick, rvars

(* The invariant holds in every behaviour. *)
LEMMA ResponsesInvariant == RSpec => []RInv
<1>1. RInv /\ [RNext]_rvars => RInv'
  BY ResponseTypes, RequestsKept, TableKept, OutcomesKept, EntriesKept, AnswersKept, CapacityKept
     DEF RInv
<1> QED BY ResponsesInit, <1>1, PTL DEF RSpec

(* Looking up, calling, caching and waiting keep every variable within its  *)
(* values.                                                                  *)
THEOREM ResponsesWellTyped == RSpec => []ResponseTypeOK
<1>1. RInv => ResponseTypeOK
  BY DEF RInv
<1> QED BY ResponsesInvariant, <1>1, PTL

(* Two callers with one key that is not Nil have requests that read alike.  *)
LEMMA KeysReadAlike ==
    ASSUME RequestsKnown, NEW c \in Callers, NEW d \in Callers, key[c] = key[d], key[c] # Nil
    PROVE  /\ CacheKey(request[d]) = CacheKey(request[c])
           /\ request[c].temperature = 0 /\ request[d].temperature = 0
<1>1. key[c] = CacheKey(request[c]) /\ request[c].temperature = 0
  BY DEF RequestsKnown
<1>2. key[d] = CacheKey(request[d]) /\ request[d].temperature = 0
  BY DEF RequestsKnown
<1> QED BY <1>1, <1>2

(* MemoryCache stays within its capacity however many callers store at      *)
(* once, and nobody is given the response, or the error, of a request with  *)
(* another key than his own, by whichever of the three ways it reaches him. *)
THEOREM AnswersAreSound == RSpec => []AnswersSound
<1>1. ASSUME RInv PROVE AnswersMatch
  <2> SUFFICES ASSUME NEW c \in Callers, answeredBy[c] # Nil
               PROVE  /\ CacheKey(request[answeredBy[c]]) = CacheKey(request[c])
                      /\ answeredBy[c] # c =>
                            request[c].temperature = 0 /\ request[answeredBy[c]].temperature = 0
                      /\ outcome[answeredBy[c]] = (IF where[c] = "ok" THEN "resp" ELSE "error")
    BY DEF AnswersMatch
  <2>1. /\ answeredBy[c] \in Callers
        /\ answeredBy[c] = c \/ key[c] # Nil
        /\ key[answeredBy[c]] = key[c]
        /\ outcome[answeredBy[c]] = (IF where[c] = "ok" THEN "resp" ELSE "error")
    BY <1>1 DEF RInv, AnswersKeyed, ResponseTypeOK
  <2>2. CASE answeredBy[c] = c
    BY <2>1, <2>2
  <2>3. CASE answeredBy[c] # c
    BY <1>1, <2>1, <2>3, KeysReadAlike DEF RInv
  <2> QED BY <2>2, <2>3
<1>2. RInv => CacheSound
  BY DEF RInv, CacheSound, WithinCapacity, EntriesSound, Occupied
<1>3. RInv => AnswersSound
  BY <1>1, <1>2 DEF AnswersSound
<1> QED BY ResponsesInvariant, <1>3, PTL

(* The table of CachedProvider, looked up and entered in one critical       *)
(* section, keeps a second call for the same key from being made.       *)
THEOREM CallsAreShared == RSpec => []OneFlightPerKey
<1>1. RInv => OneFlightPerKey
  BY DEF RInv, OneFlightPerKey, TableSound, Registered
<1> QED BY ResponsesInvariant, <1>1, PTL
===============================================================================
