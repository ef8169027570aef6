-------------------------------- MODULE Hub --------------------------------
(***************************************************************************)
(* The WebSocket hub: pkg/websocket.                                        *)
(*                                                                          *)
(* ServeConn registers a connection in the room of its workspace, runs a    *)
(* write pump beside the read loop and unregisters it at the end.  A        *)
(* broadcast takes the room's map under the read lock and then walks it     *)
(* without the lock.  Message n of a sender is its n-th broadcast; each     *)
(* sender addresses one room.                                               *)
(*                                                                          *)
(* Writing a Go map while another goroutine walks it is a data race: the    *)
(* runtime may stop the process, or the walk may or may not yield the       *)
(* clients that come and go.                                                *)
(***************************************************************************)
EXTENDS Naturals, Sequences

CONSTANTS
    Clients,         \* connections
    Senders,         \* goroutines that broadcast
    Rooms,           \* workspaces
    None,            \* no message, no client
    SendBufferSize,  \* capacity of a client's send channel
    MaxMessages,     \* bound on the broadcasts of a sender
    Races            \* whether the runtime may detect a racing map write

VARIABLES
    roomOf,     \* the workspace of each client and sender
    rooms,      \* the registered clients
    send,       \* the send channel of each client
    closed,     \* the channels that have been closed
    at,         \* where each connection's ServeConn is
    pump,       \* where its write pump is
    inHand,     \* the message the write pump is writing
    received,   \* what the connection was sent, in order
    lost,       \* history: the messages dropped or not written, per client
    walk,       \* per sender: the clients its walk may still yield, and
                \* (history) those that were in the room when it began and
                \* whether nobody has come or gone since
    chosen,     \* per sender: the client it is about to send to
    count,      \* per sender: the broadcasts begun
    down        \* why the process stopped, if it did

connection == <<rooms, send, closed, at, pump, inHand, received, lost>>
sender == <<walk, chosen, count>>
vars == <<roomOf, connection, sender, down>>

-----------------------------------------------------------------------------
Message == [from : Senders, n : 1 .. MaxMessages]

ASSUME HubAssumption ==
    /\ Clients \cap Senders = {}
    /\ None \notin Clients \cup Message
    /\ SendBufferSize \in Nat
    /\ MaxMessages \in Nat
    /\ Races \in BOOLEAN

Idle == [on |-> FALSE, left |-> {}, to |-> {}, calm |-> TRUE]

Init ==
    /\ roomOf \in [Clients \cup Senders -> Rooms]
    /\ rooms = {}
    /\ send = [c \in Clients |-> <<>>]
    /\ closed = {}
    /\ at = [c \in Clients |-> "new"]
    /\ pump = [c \in Clients |-> "off"]
    /\ inHand = [c \in Clients |-> None]
    /\ received = [c \in Clients |-> <<>>]
    /\ lost = [c \in Clients |-> {}]
    /\ walk = [s \in Senders |-> Idle]
    /\ chosen = [s \in Senders |-> None]
    /\ count = [s \in Senders |-> 0]
    /\ down = "no"

Room(w) == {c \in rooms : roomOf[c] = w}

Walking(w) == {s \in Senders : roomOf[s] = w /\ walk[s].on}

Goto(c, phase) == at' = [at EXCEPT ![c] = phase]

(* The map of a room is written; if it is being walked, that is a race.     *)
MapWrite(w) ==
    \/ UNCHANGED down
    \/ Races /\ Walking(w) # {} /\ down' = "concurrent map iteration and map write"

-----------------------------------------------------------------------------
(* ServeConn. *)

Register(c) ==
    /\ at[c] = "new"
    /\ rooms' = rooms \cup {c}
    /\ MapWrite(roomOf[c])
    /\ Goto(c, "serving")
    /\ pump' = [pump EXCEPT ![c] = "running"]
    /\ \E seen \in SUBSET Walking(roomOf[c]) :
        walk' = [s \in Senders |->
            [walk[s] EXCEPT !.left = IF s \in seen THEN @ \cup {c} ELSE @,
                            !.calm = @ /\ s \notin Walking(roomOf[c])]]
    /\ UNCHANGED <<roomOf, send, closed, inHand, received, lost, chosen, count>>

(* The write pump: take a message, write it.  A failing write ends the pump *)
(* but not the connection.                                                  *)
Take(c) ==
    /\ pump[c] = "running"
    /\ send[c] # <<>>
    /\ inHand' = [inHand EXCEPT ![c] = Head(send[c])]
    /\ send' = [send EXCEPT ![c] = Tail(@)]
    /\ pump' = [pump EXCEPT ![c] = "writing"]
    /\ UNCHANGED <<roomOf, rooms, closed, at, received, lost, sender, down>>

(* Mutant of WriteMessage: a failed write is queued again. *)
WriteAgain(c) ==
    /\ pump[c] = "writing"
    /\ \/ received' = [received EXCEPT ![c] = Append(@, inHand[c])] /\ UNCHANGED send
       \/ send' = [send EXCEPT ![c] = Append(@, inHand[c])] /\ UNCHANGED received
    /\ pump' = [pump EXCEPT ![c] = "running"]
    /\ inHand' = [inHand EXCEPT ![c] = None]
    /\ UNCHANGED <<roomOf, rooms, closed, at, lost, sender, down>>

WriteMessage(c) ==
    /\ pump[c] = "writing"
    /\ \/ /\ received' = [received EXCEPT ![c] = Append(@, inHand[c])]
          /\ pump' = [pump EXCEPT ![c] = "running"]
          /\ UNCHANGED lost
       \/ /\ lost' = [lost EXCEPT ![c] = @ \cup {inHand[c]}]
          /\ pump' = [pump EXCEPT ![c] = "done"]
          /\ UNCHANGED received
    /\ inHand' = [inHand EXCEPT ![c] = None]
    /\ UNCHANGED <<roomOf, rooms, send, closed, at, sender, down>>

(* The read loop ends when the client goes away; cancel tells the pump.     *)
ReadFails(c) ==
    /\ at[c] = "serving"
    /\ Goto(c, "leaving")
    /\ UNCHANGED <<roomOf, rooms, send, closed, pump, inHand, received, lost, sender, down>>

(* Mutant of PumpStops: cancel is deferred to the end of ServeConn. *)
PumpStopsTooLate(c) ==
    /\ at[c] = "gone"
    /\ pump[c] = "running"
    /\ pump' = [pump EXCEPT ![c] = "done"]
    /\ UNCHANGED <<roomOf, rooms, send, closed, at, inHand, received, lost, sender, down>>

PumpStops(c) ==
    /\ at[c] = "leaving"
    /\ pump[c] = "running"
    /\ pump' = [pump EXCEPT ![c] = "done"]
    /\ UNCHANGED <<roomOf, rooms, send, closed, at, inHand, received, lost, sender, down>>

(* Mutant of Unregister: the channel is closed, the client stays listed. *)
UnregisterListed(c) ==
    /\ at[c] = "leaving"
    /\ pump[c] = "done"
    /\ closed' = closed \cup {c}
    /\ Goto(c, "gone")
    /\ UNCHANGED <<roomOf, rooms, send, pump, inHand, received, lost, sender, down>>

(* After <-writeDone: out of the room, and the channel closed, in one       *)
(* critical section.  A walk under way may still yield the client.          *)
Unregister(c) ==
    /\ at[c] = "leaving"
    /\ pump[c] = "done"
    /\ rooms' = rooms \ {c}
    /\ closed' = closed \cup {c}
    /\ MapWrite(roomOf[c])
    /\ \E missed \in SUBSET Walking(roomOf[c]) :
        walk' = [s \in Senders |->
            [walk[s] EXCEPT !.left = IF s \in missed THEN @ \ {c} ELSE @,
                            !.calm = @ /\ s \notin Walking(roomOf[c])]]
    /\ Goto(c, "gone")
    /\ UNCHANGED <<roomOf, send, pump, inHand, received, lost, chosen, count>>

-----------------------------------------------------------------------------
(* Broadcast. *)

Broadcast(s) ==
    /\ ~walk[s].on
    /\ count[s] < MaxMessages
    /\ count' = [count EXCEPT ![s] = @ + 1]
    /\ walk' = [walk EXCEPT ![s] = [on |-> TRUE, left |-> Room(roomOf[s]),
                                    to |-> Room(roomOf[s]), calm |-> TRUE]]
    /\ UNCHANGED <<roomOf, connection, chosen, down>>

NextClient(s) ==
    /\ walk[s].on
    /\ chosen[s] = None
    /\ \E c \in walk[s].left :
        /\ chosen' = [chosen EXCEPT ![s] = c]
        /\ walk' = [walk EXCEPT ![s].left = @ \ {c}]
    /\ UNCHANGED <<roomOf, connection, count, down>>

(* Mutant of SendToClient: a full buffer ends the walk. *)
SendOrGiveUp(s) ==
    /\ chosen[s] # None
    /\ LET c == chosen[s]
           m == [from |-> s, n |-> count[s]]
       IN  \/ /\ Len(send[c]) < SendBufferSize
              /\ send' = [send EXCEPT ![c] = Append(@, m)]
              /\ UNCHANGED <<walk, lost>>
           \/ /\ Len(send[c]) >= SendBufferSize
              /\ lost' = [lost EXCEPT ![c] = @ \cup {m}]
              /\ walk' = [walk EXCEPT ![s].left = {}]
              /\ UNCHANGED send
    /\ chosen' = [chosen EXCEPT ![s] = None]
    /\ UNCHANGED <<roomOf, rooms, closed, at, pump, inHand, received, count, down>>

(* The select: a full buffer drops the message, a closed channel panics.    *)
SendToClient(s) ==
    /\ chosen[s] # None
    /\ LET c == chosen[s]
           m == [from |-> s, n |-> count[s]]
       IN  \/ /\ c \in closed
              /\ down' = "send on closed channel"
              /\ UNCHANGED <<send, lost>>
           \/ /\ c \notin closed
              /\ Len(send[c]) < SendBufferSize
              /\ send' = [send EXCEPT ![c] = Append(@, m)]
              /\ UNCHANGED <<lost, down>>
           \/ /\ c \notin closed
              /\ Len(send[c]) >= SendBufferSize
              /\ lost' = [lost EXCEPT ![c] = @ \cup {m}]
              /\ UNCHANGED <<send, down>>
    /\ chosen' = [chosen EXCEPT ![s] = None]
    /\ UNCHANGED <<roomOf, rooms, closed, at, pump, inHand, received, walk, count>>

EndBroadcast(s) ==
    /\ walk[s].on
    /\ chosen[s] = None
    /\ walk[s].left = {}
    /\ walk' = [walk EXCEPT ![s] = Idle]
    /\ UNCHANGED <<roomOf, connection, chosen, count, down>>

-----------------------------------------------------------------------------
Pump(c) == Take(c) \/ WriteMessage(c) \/ PumpStops(c)

Next ==
    /\ down = "no"
    /\ \/ \E c \in Clients : Register(c) \/ Pump(c) \/ ReadFails(c) \/ Unregister(c)
       \/ \E s \in Senders : Broadcast(s) \/ NextClient(s) \/ SendToClient(s) \/ EndBroadcast(s)

Spec == Init /\ [][Next]_vars

(* Once the context is cancelled the pump reacts to it: strong fairness,    *)
(* because Go's select does not starve a case that is ready time and again. *)
(* A write is bounded by the same context.                                  *)
FairSpec ==
    /\ Spec
    /\ \A c \in Clients :
        /\ WF_vars(down = "no" /\ at[c] = "leaving" /\ Pump(c))
        /\ SF_vars(down = "no" /\ PumpStops(c))
        /\ WF_vars(down = "no" /\ Unregister(c))

-----------------------------------------------------------------------------
(* Type correctness: the values each variable ranges over. *)
TypeOK ==
    /\ roomOf \in [Clients \cup Senders -> Rooms]
    /\ rooms \in SUBSET Clients
    /\ send \in [Clients -> Seq(Message)]
    /\ closed \in SUBSET Clients
    /\ at \in [Clients -> {"new", "serving", "leaving", "gone"}]
    /\ pump \in [Clients -> {"off", "running", "writing", "done"}]
    /\ inHand \in [Clients -> Message \cup {None}]
    /\ received \in [Clients -> Seq(Message)]
    /\ lost \in [Clients -> SUBSET Message]
    /\ walk \in [Senders -> [on : BOOLEAN, calm : BOOLEAN,
                           left : SUBSET Clients, to : SUBSET Clients]]
    /\ chosen \in [Senders -> Clients \cup {None}]
    /\ count \in [Senders -> 0 .. MaxMessages]
    /\ down \in {"no", "send on closed channel", "concurrent map iteration and map write"}

(* Each connection sees the messages of a sender in the order in which they *)
(* were broadcast, none of them twice; some may be missing.                 *)
Underway(c) ==
    received[c] \o (IF inHand[c] = None THEN <<>> ELSE <<inHand[c]>>) \o send[c]

InOrder ==
    \A c \in Clients : LET q == Underway(c) IN
        \A i, j \in DOMAIN q :
            (i < j /\ q[i].from = q[j].from) => q[i].n < q[j].n

(* A connection that is in the room from the beginning of a broadcast to    *)
(* its end is on its way to being sent the message, unless its buffer was   *)
(* full or its connection failed: other clients coming, going or being slow *)
(* do not make the walk miss it.                                            *)
NobodySkipped ==
    [][\A s \in Senders :
        (walk[s].on /\ ~walk'[s].on) =>
            \A c \in walk[s].to \cap rooms :
                LET m == [from |-> s, n |-> count[s]]
                IN  m \in lost[c] \/ \E i \in DOMAIN Underway(c) : Underway(c)[i] = m]_vars

(* A connection that ends is unregistered, whatever its write pump was      *)
(* doing, as long as the process is up.                                     *)
LeavingEnds == \A c \in Clients : at[c] = "leaving" ~> (at[c] = "gone" \/ down # "no")

(* What can stop the process is a client that comes or goes while a walk of *)
(* its room is under way; clients that left before a broadcast began, full  *)
(* buffers and failing connections cannot.                                  *)
CalmWalksAreSafe == down # "no" => \E s \in Senders : walk[s].on /\ ~walk[s].calm

(* unregister takes the client out of its room before it closes the send    *)
(* channel ("remove from room, close send channel"): nobody sends on a      *)
(* closed channel.                                                          *)
NoSendOnClosed == down # "send on closed channel"
=============================================================================
