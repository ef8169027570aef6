------------------------------ MODULE Delivery ------------------------------
(***************************************************************************)
(* What becomes of a published event: the stream of pkg/events, the durable *)
(* consumers that cmd/server subscribes to it, the audit log they write     *)
(* (internal/ledger) and the notifications (internal/notification).         *)
(*                                                                          *)
(* The broker keeps the events in order and hands each of them to every     *)
(* consumer until the consumer acknowledges it; a handler that returns an   *)
(* error asks for the event again (Nak).  A consumer handles one event at a *)
(* time.  Each call to the database or to the broker is a step.             *)
(***************************************************************************)
EXTENDS Naturals, Sequences, Functions

CONSTANTS
    Events,         \* events the services publish, each with its own id
    Users,
    None,           \* an event without an actor
    Actor,          \* who caused an event, where the notification mapping asks
    Members,        \* the members of the workspace
    Auditors,       \* the consumers that write an audit table: of the system,
                    \* which records everything, and of the domain
    Recorded,       \* per auditor, the events it records; for the domain those
                    \* of a type in domainAuditRegistry
    NotifyMapped,   \* events of a workspace, of a type in notificationRegistry
    Requests,       \* requests that mark notifications as read
    MaxFaults,      \* bound on failing calls and lost acknowledgements
    MaxCrashes      \* bound on restarts of the server

Consumers == Auditors \cup {"notification"}

(* The event Send publishes for every notification. *)
SubjectNotificationSent == "notification.sent"

ASSUME DeliveryAssumption ==
    /\ Actor \in [Events -> Users \cup {None}]
    /\ None \notin Users
    /\ Members \subseteq Users
    /\ "notification" \notin Auditors
    /\ Recorded \in [Auditors -> SUBSET (Events \cup {SubjectNotificationSent})]
    /\ NotifyMapped \subseteq Events
    /\ SubjectNotificationSent \notin Events
    /\ MaxFaults \in Nat
    /\ MaxCrashes \in Nat

VARIABLES
    stream,         \* the events of the stream, in order
    reached,        \* per consumer, how many of them it was ever handed
    acked,          \* per consumer, the positions it acknowledged
    at,             \* where each consumer is
    handling,       \* the position of the event it is handling
    ledger,         \* per audit table, the positions its entries are about
    notifications,  \* the table of notifications, in the order of creation
    todo,           \* the members that are still to be notified
    stage,          \* where each request is
    target,         \* the notification it marks
    missed,         \* history: <<position, user>> not notified after a failure
    faults, crashes

consumer == <<reached, acked, at, handling, todo>>
reader == <<stage, target>>
vars == <<stream, consumer, ledger, notifications, reader, missed, faults, crashes>>

Step == {"idle", "delivering", "announcing", "sending", "handled"}
Status == {"pending", "delivered", "read"}
Notification == [user : Users, about : Nat \ {0}, status : Status]
Init ==
    /\ stream = <<>>
    /\ reached = [c \in Consumers |-> 0]
    /\ acked = [c \in Consumers |-> {}]
    /\ at = [c \in Consumers |-> "idle"]
    /\ handling = [c \in Consumers |-> 0]
    /\ ledger = [c \in Auditors |-> <<>>]
    /\ notifications = <<>>
    /\ todo = {}
    /\ stage = [q \in Requests |-> "idle"]
    /\ target = [q \in Requests |-> 0]
    /\ missed = {}
    /\ faults = 0
    /\ crashes = 0

-----------------------------------------------------------------------------
Goto(c, step) == at' = [at EXCEPT ![c] = step]

Fault ==
    /\ faults < MaxFaults
    /\ faults' = faults + 1

(* A service publishes an event after its write; one that is not published  *)
(* (the error is logged) never reaches the stream.                          *)
Publish(e) ==
    /\ e \notin Range(stream)
    /\ stream' = Append(stream, e)
    /\ UNCHANGED <<consumer, ledger, notifications, reader, missed, faults, crashes>>

(* The broker hands consumer c the event at position i: the next one, or    *)
(* again one that was not acknowledged.                                     *)
Consume(c, i) ==
    /\ at[c] = "idle"
    /\ i \in DOMAIN stream \ acked[c]
    /\ i <= reached[c] + 1
    /\ reached' = [reached EXCEPT ![c] = IF i > @ THEN i ELSE @]

Handle(c, i, step) ==
    /\ handling' = [handling EXCEPT ![c] = i]
    /\ Goto(c, step)

Release(c) ==
    /\ Goto(c, "idle")
    /\ handling' = [handling EXCEPT ![c] = 0]

Ack(c) ==
    /\ at[c] = "handled"
    /\ acked' = [acked EXCEPT ![c] = @ \cup {handling[c]}]
    /\ Release(c)
    /\ UNCHANGED <<stream, reached, ledger, notifications, todo, reader, missed, faults, crashes>>

(* The acknowledgement is lost, or comes after the broker's patience ended. *)
AckLost(c) ==
    /\ at[c] = "handled"
    /\ Fault
    /\ Release(c)
    /\ UNCHANGED <<stream, reached, acked, ledger, notifications, todo, reader, missed, crashes>>

-----------------------------------------------------------------------------
(* Audit: an append-only table per auditor. *)

AppendEntry(c, i) ==
    /\ c \in Auditors
    /\ Consume(c, i)
    /\ stream[i] \in Recorded[c]
    /\ ledger' = [ledger EXCEPT ![c] = Append(@, i)]
    /\ Handle(c, i, "handled")
    /\ UNCHANGED <<stream, acked, notifications, todo, reader, missed, faults, crashes>>

(* Mutant of AppendFails: the error is only logged. *)
AppendErrorIgnored(c, i) ==
    /\ c \in Auditors
    /\ Consume(c, i)
    /\ stream[i] \in Recorded[c]
    /\ Fault
    /\ Handle(c, i, "handled")
    /\ UNCHANGED <<stream, acked, ledger, notifications, todo, reader, missed, crashes>>

(* The handler returns the error, and the event is asked for again. *)
AppendFails(c, i) ==
    /\ c \in Auditors
    /\ Consume(c, i)
    /\ stream[i] \in Recorded[c]
    /\ Fault
    /\ UNCHANGED <<stream, acked, at, handling, ledger, notifications, todo, reader, missed, crashes>>

Concerned(c) == IF c = "notification" THEN NotifyMapped ELSE Recorded[c]

(* Mutant of Ignore: the handler returns an error for such an event. *)
IgnoreAsError(c, i) ==
    /\ Consume(c, i)
    /\ stream[i] \notin Concerned(c)
    /\ UNCHANGED <<stream, acked, at, handling, ledger, notifications, todo, reader, missed, faults,
                   crashes>>

(* An event that is in no registry of the consumer is acknowledged. *)
Ignore(c, i) ==
    /\ Consume(c, i)
    /\ stream[i] \notin Concerned(c)
    /\ Handle(c, i, "handled")
    /\ UNCHANGED <<stream, acked, ledger, notifications, todo, reader, missed, faults, crashes>>

-----------------------------------------------------------------------------
(* Notifications: every member but the actor. *)

(* Mutant of Recipients: the loop is left at the actor, who comes first,    *)
(* instead of going on.                                                     *)
RecipientsBeforeActor(e) == IF Actor[e] \in Members THEN {} ELSE Members

Recipients(e) == Members \ {Actor[e]}

FindMembers(i) ==
    /\ Consume("notification", i)
    /\ stream[i] \in NotifyMapped
    /\ todo' = Recipients(stream[i])
    /\ Handle("notification", i, "sending")
    /\ UNCHANGED <<stream, acked, ledger, notifications, reader, missed, faults, crashes>>

(* The event is acknowledged although its members are not known. *)
FindMembersFails(i) ==
    /\ Consume("notification", i)
    /\ stream[i] \in NotifyMapped
    /\ Fault
    /\ missed' = missed \cup ({i} \X Members)
    /\ Handle("notification", i, "handled")
    /\ UNCHANGED <<stream, acked, ledger, notifications, todo, reader, crashes>>

Create(u) ==
    /\ at["notification"] = "sending"
    /\ u \in todo
    /\ notifications' = Append(notifications, [user |-> u,
                                               about |-> handling["notification"],
                                               status |-> "pending"])
    /\ todo' = todo \ {u}
    /\ Goto("notification", "delivering")
    /\ UNCHANGED <<stream, reached, acked, handling, ledger, reader, missed, faults, crashes>>

(* The loop goes on with the next member, and the event is acknowledged in  *)
(* the end.                                                                 *)
CreateFails(u) ==
    /\ at["notification"] = "sending"
    /\ u \in todo
    /\ Fault
    /\ missed' = missed \cup {<<handling["notification"], u>>}
    /\ todo' = todo \ {u}
    /\ UNCHANGED <<stream, reached, acked, at, handling, ledger, notifications, reader, crashes>>

(* Mutant of Deliver: the Update is not restricted to the notification's id. *)
DeliverAll ==
    /\ at["notification"] = "delivering"
    /\ notifications' = [n \in DOMAIN notifications |->
           IF notifications[n].user = notifications[Len(notifications)].user
           THEN [notifications[n] EXCEPT !.status = "delivered"]
           ELSE notifications[n]]
    /\ Goto("notification", "announcing")
    /\ UNCHANGED <<stream, reached, acked, handling, ledger, todo, reader, missed, faults, crashes>>

(* MarkDelivered on the copy that was created, and the Update of its row,   *)
(* the last one of the table.                                               *)
Deliver ==
    /\ at["notification"] = "delivering"
    /\ notifications' = [notifications EXCEPT ![Len(notifications)].status = "delivered"]
    /\ Goto("notification", "announcing")
    /\ UNCHANGED <<stream, reached, acked, handling, ledger, todo, reader, missed, faults, crashes>>

(* The error of the Update is ignored. *)
DeliverFails ==
    /\ at["notification"] = "delivering"
    /\ Fault
    /\ Goto("notification", "announcing")
    /\ UNCHANGED <<stream, reached, acked, handling, ledger, notifications, todo, reader, missed,
                   crashes>>

(* notification.sent goes to the same stream, and comes back to every       *)
(* consumer.  Without the broker it is lost.                                *)
AnnounceSent ==
    /\ at["notification"] = "announcing"
    /\ \/ /\ stream' = Append(stream, SubjectNotificationSent)
          /\ UNCHANGED faults
       \/ Fault /\ UNCHANGED stream
    /\ Goto("notification", "sending")
    /\ UNCHANGED <<reached, acked, handling, ledger, notifications, todo, reader, missed, crashes>>

AllSent ==
    /\ at["notification"] = "sending"
    /\ todo = {}
    /\ Goto("notification", "handled")
    /\ UNCHANGED <<stream, reached, acked, handling, ledger, notifications, todo, reader, missed,
                   faults, crashes>>

-----------------------------------------------------------------------------
(* Readers of notifications. *)

(* MarkRead reads the row; only its user may mark it, and only once. *)
FindByID(q, u, n) ==
    /\ stage[q] = "idle"
    /\ IF notifications[n].user = u /\ notifications[n].status # "read"
       THEN /\ stage' = [stage EXCEPT ![q] = "marking"]
            /\ target' = [target EXCEPT ![q] = n]
       ELSE /\ stage' = [stage EXCEPT ![q] = "done"]
            /\ UNCHANGED target
    /\ UNCHANGED <<stream, consumer, ledger, notifications, missed, faults, crashes>>

MarkRead(q) ==
    /\ stage[q] = "marking"
    /\ notifications' = [notifications EXCEPT ![target[q]].status = "read"]
    /\ stage' = [stage EXCEPT ![q] = "done"]
    /\ target' = [target EXCEPT ![q] = 0]
    /\ UNCHANGED <<stream, consumer, ledger, missed, faults, crashes>>

MarkReadFails(q) ==
    /\ stage[q] = "marking"
    /\ Fault
    /\ stage' = [stage EXCEPT ![q] = "done"]
    /\ target' = [target EXCEPT ![q] = 0]
    /\ UNCHANGED <<stream, consumer, ledger, notifications, missed, crashes>>

MarkAllRead(q, u) ==
    /\ stage[q] = "idle"
    /\ notifications' = [n \in DOMAIN notifications |->
           IF notifications[n].user = u
           THEN [notifications[n] EXCEPT !.status = "read"]
           ELSE notifications[n]]
    /\ stage' = [stage EXCEPT ![q] = "done"]
    /\ UNCHANGED <<stream, consumer, ledger, target, missed, faults, crashes>>

(* A restart: what was being handled was not acknowledged. *)
Crash ==
    /\ crashes < MaxCrashes
    /\ crashes' = crashes + 1
    /\ at' = [c \in Consumers |-> "idle"]
    /\ handling' = [c \in Consumers |-> 0]
    /\ todo' = {}
    /\ stage' = [q \in Requests |-> IF stage[q] = "marking" THEN "done" ELSE stage[q]]
    /\ target' = [q \in Requests |-> 0]
    /\ UNCHANGED <<stream, reached, acked, ledger, notifications, missed, faults>>

-----------------------------------------------------------------------------
Audit(c) == \E i \in DOMAIN stream : AppendEntry(c, i) \/ AppendFails(c, i)

Notify ==
    \/ \E i \in DOMAIN stream : FindMembers(i) \/ FindMembersFails(i)
    \/ \E u \in Users : Create(u) \/ CreateFails(u)
    \/ Deliver \/ DeliverFails \/ AnnounceSent \/ AllSent

Work(c) ==
    \/ Audit(c)
    \/ c = "notification" /\ Notify
    \/ \E i \in DOMAIN stream : Ignore(c, i)
    \/ Ack(c)
    \/ AckLost(c)

Read(q) ==
    \/ \E u \in Users : MarkAllRead(q, u) \/ \E n \in DOMAIN notifications : FindByID(q, u, n)
    \/ MarkRead(q)
    \/ MarkReadFails(q)

Next ==
    \/ \E e \in Events : Publish(e)
    \/ \E c \in Consumers : Work(c)
    \/ \E q \in Requests : Read(q)
    \/ Crash

Spec == Init /\ [][Next]_vars

(* A consumer that was handed an event, or has one waiting, is run. *)
FairSpec == Spec /\ \A c \in Consumers : WF_vars(Work(c))

-----------------------------------------------------------------------------
TypeOK ==
    /\ stream \in Seq(Events \cup {SubjectNotificationSent})
    /\ reached \in [Consumers -> Nat]
    /\ acked \in [Consumers -> SUBSET (Nat \ {0})]
    /\ at \in [Consumers -> Step]
    /\ handling \in [Consumers -> Nat]
    /\ ledger \in [Auditors -> Seq(Nat \ {0})]
    /\ notifications \in Seq(Notification)
    /\ todo \subseteq Users
    /\ stage \in [Requests -> {"idle", "marking", "done"}]
    /\ target \in [Requests -> Nat]
    /\ missed \subseteq (Nat \ {0}) \X Users
    /\ faults \in 0..MaxFaults
    /\ crashes \in 0..MaxCrashes

(* Every event that a consumer will not see again is in its audit table,    *)
(* whatever failed, got lost or was restarted on the way.                   *)
AckedIsWritten ==
    \A c \in Auditors : \A i \in acked[c] :
        stream[i] \in Recorded[c] => i \in Range(ledger[c])

(* When an event is done with, each member but the actor has a notification *)
(* of it, or the call that would have created it failed; the actor has none. *)
MembersNotified ==
    LET Told(i, u) == \E n \in DOMAIN notifications : /\ notifications[n].user = u
                                                      /\ notifications[n].about = i
    IN  \A i \in acked["notification"] : stream[i] \in NotifyMapped =>
            \A u \in Members :
                IF u = Actor[stream[i]]
                THEN ~Told(i, u)
                ELSE Told(i, u) \/ <<i, u>> \in missed

(* A notification that was marked as read stays so, while others are being  *)
(* created and delivered again, unless the mark came before Send was done   *)
(* with it.                                                                 *)
ReadMarkKept ==
    [][\A n \in DOMAIN notifications :
           notifications[n].status = "read" =>
               \/ notifications'[n].status = "read"
               \/ at["notification"] = "delivering" /\ n = Len(notifications)]_vars

(* The stream comes to rest: every event is acknowledged by every consumer, *)
(* the events that notifications beget included.                            *)
EventsSettle == \A c \in Consumers : []<>(acked[c] = DOMAIN stream)
=============================================================================
