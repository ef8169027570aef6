--------------------------- MODULE Delivery_proofs ---------------------------
(* Theorems about Delivery, for every set of events, users and consumers.   *)
EXTENDS Delivery, TLAPS

-----------------------------------------------------------------------------
LEMMA AppendAt ==
    ASSUME NEW S, NEW s \in Seq(S), NEW x \in S
    PROVE  /\ Append(s, x) \in Seq(S)
           /\ Len(s) \in Nat
           /\ DOMAIN s = 1 .. Len(s)
           /\ DOMAIN Append(s, x) = 1 .. Len(s) + 1
           /\ \A i \in 1 .. Len(s) : Append(s, x)[i] = s[i]
           /\ Append(s, x)[Len(s) + 1] = x
  OBVIOUS

LEMMA InRangeAfterAppend ==
    ASSUME NEW S, NEW s \in Seq(S), NEW x \in S
    PROVE  Range(Append(s, x)) = Range(s) \cup {x}
  <1>1. /\ DOMAIN s = 1 .. Len(s)
        /\ DOMAIN Append(s, x) = 1 .. Len(s) + 1
        /\ Len(s) \in Nat
        /\ \A i \in 1 .. Len(s) : Append(s, x)[i] = s[i]
        /\ Append(s, x)[Len(s) + 1] = x
    BY AppendAt
  <1>. QED  BY <1>1 DEF Range

-----------------------------------------------------------------------------
(* Where a consumer is. *)
PlaceOK ==
    /\ \A c \in Consumers :
        /\ at[c] = "idle" <=> handling[c] = 0
        /\ handling[c] # 0 => handling[c] \in DOMAIN stream
        /\ acked[c] \subseteq DOMAIN stream
    /\ \A c \in Auditors : at[c] \in {"idle", "handled"}

TypeInv == TypeOK /\ PlaceOK

Item == Events \cup {SubjectNotificationSent}

LEMMA InitTypeInv == Init => TypeInv
  <1> SUFFICES ASSUME Init PROVE TypeInv
    OBVIOUS
  <1>1. TypeOK
    BY DeliveryAssumption DEF Init, TypeOK, Step
  <1>2. PlaceOK
    BY DEF Init, PlaceOK, Consumers
  <1>. QED  BY <1>1, <1>2 DEF TypeInv

(* A consumer takes an event and goes to a step of its handler. *)
LEMMA ConsumeType ==
    ASSUME TypeInv, NEW c \in Consumers, NEW i \in DOMAIN stream, Consume(c, i)
    PROVE  /\ i \in Nat \ {0}
           /\ stream[i] \in Item
           /\ at[c] = "idle"
           /\ handling[c] = 0
           /\ i \notin acked[c]
           /\ reached' \in [Consumers -> Nat]
  <1>1. stream \in Seq(Item) /\ reached \in [Consumers -> Nat]
    BY DEF TypeInv, TypeOK, Item
  <1>2. i \in Nat \ {0} /\ stream[i] \in Item
    BY <1>1
  <1>. QED  BY <1>1, <1>2 DEF TypeInv, PlaceOK, Consume

LEMMA HandleType ==
    ASSUME TypeInv, NEW c \in Consumers, NEW i \in DOMAIN stream, i \in Nat \ {0},
           NEW step \in Step \ {"idle"}, c \in Auditors => step = "handled",
           Handle(c, i, step), UNCHANGED <<stream, acked>>
    PROVE  /\ at' \in [Consumers -> Step]
           /\ handling' \in [Consumers -> Nat]
           /\ PlaceOK'
  <1>1. at \in [Consumers -> Step] /\ handling \in [Consumers -> Nat] /\ PlaceOK
    BY DEF TypeInv, TypeOK
  <1>2. /\ at' = [at EXCEPT ![c] = step]
        /\ handling' = [handling EXCEPT ![c] = i]
    BY DEF Handle, Goto
  <1>. QED  BY <1>1, <1>2 DEF PlaceOK, Consumers

LEMMA ReleaseType ==
    ASSUME TypeInv, NEW c \in Consumers, Release(c), UNCHANGED stream,
           \A b \in Consumers : acked'[b] \subseteq DOMAIN stream
    PROVE  /\ at' \in [Consumers -> Step]
           /\ handling' \in [Consumers -> Nat]
           /\ PlaceOK'
  <1>1. at \in [Consumers -> Step] /\ handling \in [Consumers -> Nat] /\ PlaceOK
    BY DEF TypeInv, TypeOK
  <1>2. /\ at' = [at EXCEPT ![c] = "idle"]
        /\ handling' = [handling EXCEPT ![c] = 0]
    BY DEF Release, Goto
  <1>. QED  BY <1>1, <1>2 DEF PlaceOK, Consumers, Step

(* The notification consumer goes from one step of its loop to the next. *)
LEMMA LoopType ==
    ASSUME TypeInv, NEW step \in Step \ {"idle"}, at["notification"] # "idle",
           Goto("notification", step), UNCHANGED <<handling, acked>>,
           \A i \in DOMAIN stream : i \in DOMAIN stream'
    PROVE  at' \in [Consumers -> Step] /\ PlaceOK'
  <1>1. at \in [Consumers -> Step] /\ PlaceOK
    BY DEF TypeInv, TypeOK
  <1>. QED  BY <1>1, DeliveryAssumption DEF PlaceOK, Consumers, Goto

LEMMA FaultType ==
    ASSUME TypeInv, Fault
    PROVE  faults' \in 0 .. MaxFaults
  BY DeliveryAssumption DEF TypeInv, TypeOK, Fault

LEMMA PublishType ==
    ASSUME TypeInv, NEW e \in Item, stream' = Append(stream, e)
    PROVE  /\ stream' \in Seq(Item)
           /\ \A i \in DOMAIN stream : i \in DOMAIN stream' /\ stream'[i] = stream[i]
  <1>1. stream \in Seq(Item)
    BY DEF TypeInv, TypeOK, Item
  <1>. QED  BY <1>1, AppendAt


(* The table of notifications grows by a row, or rows change their status.  *)
LEMMA RowsType ==
    ASSUME TypeInv, NEW new, new = [n \in DOMAIN notifications |-> new[n]],
           \A n \in DOMAIN notifications : new[n] \in Notification
    PROVE  new \in Seq(Notification) /\ DOMAIN new = DOMAIN notifications
  <1>1. notifications \in Seq(Notification)
    BY DEF TypeInv, TypeOK
  <1>2. Len(notifications) \in Nat /\ DOMAIN notifications = 1 .. Len(notifications)
    BY <1>1
  <1>. QED  BY <1>2

LEMMA StatusType ==
    ASSUME TypeInv, NEW n \in DOMAIN notifications, NEW status \in Status
    PROVE  /\ [notifications[n] EXCEPT !.status = status] \in Notification
           /\ [notifications[n] EXCEPT !.status = status].user = notifications[n].user
           /\ [notifications[n] EXCEPT !.status = status].about = notifications[n].about
           /\ [notifications[n] EXCEPT !.status = status].status = status
           /\ notifications[n] \in Notification
  <1>1. notifications[n] \in Notification
    BY DEF TypeInv, TypeOK
  <1>. QED  BY <1>1 DEF Notification

(* What the row keeps when the statuses change. *)
SameRows ==
    /\ DOMAIN notifications' = DOMAIN notifications
    /\ \A n \in DOMAIN notifications : /\ notifications'[n].user = notifications[n].user
                                       /\ notifications'[n].about = notifications[n].about

LEMMA OneStatusType ==
    ASSUME TypeInv, NEW k, NEW status \in Status,
           notifications' = [notifications EXCEPT ![k].status = status]
    PROVE  notifications' \in Seq(Notification) /\ SameRows
  <1>1. notifications' = [n \in DOMAIN notifications |-> notifications'[n]]
    OBVIOUS
  <1>2. \A n \in DOMAIN notifications :
          notifications'[n] = IF n = k THEN [notifications[n] EXCEPT !.status = status]
                                       ELSE notifications[n]
    OBVIOUS
  <1>3. \A n \in DOMAIN notifications : notifications'[n] \in Notification
    BY <1>2, StatusType
  <1>4. notifications' \in Seq(Notification) /\ DOMAIN notifications' = DOMAIN notifications
    BY <1>1, <1>3, RowsType
  <1>5. \A n \in DOMAIN notifications : /\ notifications'[n].user = notifications[n].user
                                        /\ notifications'[n].about = notifications[n].about
    BY <1>2, StatusType
  <1>. QED  BY <1>4, <1>5 DEF SameRows

LEMMA AllStatusType ==
    ASSUME TypeInv, NEW u,
           notifications' = [n \in DOMAIN notifications |->
               IF notifications[n].user = u
               THEN [notifications[n] EXCEPT !.status = "read"]
               ELSE notifications[n]]
    PROVE  notifications' \in Seq(Notification) /\ SameRows
  <1>1. notifications' = [n \in DOMAIN notifications |-> notifications'[n]]
    OBVIOUS
  <1>2. "read" \in Status
    BY DEF Status
  <1>3. \A n \in DOMAIN notifications : notifications'[n] \in Notification
    BY <1>2, StatusType
  <1>4. notifications' \in Seq(Notification) /\ DOMAIN notifications' = DOMAIN notifications
    BY <1>1, <1>3, RowsType
  <1>5. \A n \in DOMAIN notifications : /\ notifications'[n].user = notifications[n].user
                                        /\ notifications'[n].about = notifications[n].about
    BY <1>2, StatusType
  <1>. QED  BY <1>4, <1>5 DEF SameRows

LEMMA PublishKeepsType ==
    ASSUME TypeInv, NEW e \in Events, Publish(e)
    PROVE  TypeInv'
  <1>1. /\ stream' \in Seq(Item)
        /\ \A i \in DOMAIN stream : i \in DOMAIN stream'
    BY PublishType DEF Publish, consumer, Item
  <1>2. TypeOK'
    BY <1>1 DEF TypeInv, TypeOK, Publish, consumer, reader, Item
  <1>3. PlaceOK'
    BY <1>1 DEF TypeInv, PlaceOK, Publish, consumer
  <1>. QED  BY <1>2, <1>3 DEF TypeInv

LEMMA AuditKeepsType ==
    ASSUME TypeInv, NEW c \in Auditors, NEW i \in DOMAIN stream,
           AppendEntry(c, i) \/ AppendFails(c, i)
    PROVE  TypeInv'
  <1>1. c \in Consumers /\ "handled" \in Step \ {"idle"}
    BY DEF Consumers, Step
  <1>2. CASE AppendEntry(c, i)
    <2>1. Consume(c, i) /\ Handle(c, i, "handled")
      BY <1>2 DEF AppendEntry
    <2>2. i \in Nat \ {0} /\ reached' \in [Consumers -> Nat]
      BY <1>1, <2>1, ConsumeType
    <2>3. /\ at' \in [Consumers -> Step]
          /\ handling' \in [Consumers -> Nat]
          /\ PlaceOK'
      BY <1>1, <1>2, <2>1, <2>2, HandleType DEF AppendEntry
    <2>4. ledger' \in [Auditors -> Seq(Nat \ {0})]
      BY <1>2, <2>2 DEF AppendEntry, TypeInv, TypeOK
    <2>. QED  BY <1>2, <2>2, <2>3, <2>4 DEF TypeInv, TypeOK, AppendEntry, reader
  <1>3. CASE AppendFails(c, i)
    <2>1. Consume(c, i) /\ Fault
      BY <1>3 DEF AppendFails
    <2>2. reached' \in [Consumers -> Nat] /\ faults' \in 0 .. MaxFaults
      BY <1>1, <2>1, ConsumeType, FaultType
    <2>. QED  BY <1>3, <2>2 DEF TypeInv, TypeOK, PlaceOK, AppendFails, reader
  <1>. QED  BY <1>2, <1>3

LEMMA IgnoreKeepsType ==
    ASSUME TypeInv, NEW c \in Consumers, NEW i \in DOMAIN stream, Ignore(c, i)
    PROVE  TypeInv'
  <1>1. Consume(c, i) /\ Handle(c, i, "handled") /\ "handled" \in Step \ {"idle"}
    BY DEF Ignore, Step
  <1>2. i \in Nat \ {0} /\ reached' \in [Consumers -> Nat]
    BY <1>1, ConsumeType
  <1>3. /\ at' \in [Consumers -> Step]
        /\ handling' \in [Consumers -> Nat]
        /\ PlaceOK'
    BY <1>1, <1>2, HandleType DEF Ignore
  <1>. QED  BY <1>2, <1>3 DEF TypeInv, TypeOK, Ignore, reader

LEMMA AckKeepsType ==
    ASSUME TypeInv, NEW c \in Consumers, Ack(c) \/ AckLost(c)
    PROVE  TypeInv'
  <1>1. /\ Release(c)
        /\ UNCHANGED <<stream, reached, ledger, notifications, todo, stage, target, missed, crashes>>
        /\ faults' = faults \/ Fault
        /\ \/ acked' = acked
           \/ acked' = [acked EXCEPT ![c] = @ \cup {handling[c]}] /\ at[c] = "handled"
    BY DEF Ack, AckLost, reader
  <1>2. handling[c] \in Nat /\ acked \in [Consumers -> SUBSET (Nat \ {0})]
    BY DEF TypeInv, TypeOK
  <1>3. at[c] = "handled" => handling[c] \in DOMAIN stream /\ handling[c] \in Nat \ {0}
    BY <1>2 DEF TypeInv, PlaceOK
  <1>4. \A b \in Consumers : acked'[b] \subseteq DOMAIN stream
    BY <1>1, <1>2, <1>3 DEF TypeInv, PlaceOK
  <1>5. acked' \in [Consumers -> SUBSET (Nat \ {0})]
    BY <1>1, <1>2, <1>3
  <1>6. /\ at' \in [Consumers -> Step]
        /\ handling' \in [Consumers -> Nat]
        /\ PlaceOK'
    BY <1>1, <1>4, ReleaseType
  <1>7. faults' \in 0 .. MaxFaults
    BY <1>1, FaultType DEF TypeInv, TypeOK
  <1>. QED  BY <1>1, <1>5, <1>6, <1>7 DEF TypeInv, TypeOK

LEMMA FindKeepsType ==
    ASSUME TypeInv, NEW i \in DOMAIN stream, FindMembers(i) \/ FindMembersFails(i)
    PROVE  TypeInv'
  <1>1. "notification" \in Consumers /\ "notification" \notin Auditors
    BY DeliveryAssumption DEF Consumers
  <1>2. /\ Consume("notification", i)
        /\ UNCHANGED <<stream, acked, ledger, notifications, stage, target, crashes>>
        /\ faults' = faults \/ Fault
        /\ todo' \in {todo, Recipients(stream[i])}
        /\ missed' = missed \/ missed' = missed \cup ({i} \X Members)
    BY DEF FindMembers, FindMembersFails, reader
  <1>3. PICK step \in Step \ {"idle"} : Handle("notification", i, step)
    BY DEF FindMembers, FindMembersFails, Step
  <1>4. i \in Nat \ {0} /\ reached' \in [Consumers -> Nat]
    BY <1>1, <1>2, ConsumeType
  <1>5. /\ at' \in [Consumers -> Step]
        /\ handling' \in [Consumers -> Nat]
        /\ PlaceOK'
    BY <1>1, <1>2, <1>3, <1>4, HandleType
  <1>6. todo' \subseteq Users
    BY <1>2, DeliveryAssumption DEF Recipients, TypeInv, TypeOK
  <1>7. missed' \subseteq (Nat \ {0}) \X Users
    BY <1>2, <1>4, DeliveryAssumption DEF TypeInv, TypeOK
  <1>8. faults' \in 0 .. MaxFaults
    BY <1>2, FaultType DEF TypeInv, TypeOK
  <1>. QED  BY <1>2, <1>4, <1>5, <1>6, <1>7, <1>8 DEF TypeInv, TypeOK

(* One round of the loop over the members. *)
LEMMA CreateKeepsType ==
    ASSUME TypeInv, NEW u \in Users, Create(u) \/ CreateFails(u)
    PROVE  TypeInv'
  <1>1. "notification" \in Consumers /\ at["notification"] = "sending"
    BY DEF Consumers, Create, CreateFails
  <1>2. handling["notification"] \in Nat \ {0}
    BY <1>1 DEF TypeInv, TypeOK, PlaceOK
  <1>3. CASE Create(u)
    <2>1. [user |-> u, about |-> handling["notification"], status |-> "pending"] \in Notification
      BY <1>2 DEF Notification, Status
    <2>2. notifications' \in Seq(Notification)
      BY <1>3, <2>1, AppendAt DEF TypeInv, TypeOK, Create
    <2>3. at' \in [Consumers -> Step] /\ PlaceOK'
      BY <1>1, <1>3, LoopType DEF Create, Step
    <2>. QED  BY <1>3, <2>2, <2>3 DEF TypeInv, TypeOK, Create, reader
  <1>4. CASE CreateFails(u)
    <2>1. missed' \subseteq (Nat \ {0}) \X Users /\ faults' \in 0 .. MaxFaults
      BY <1>2, <1>4, FaultType DEF CreateFails, TypeInv, TypeOK
    <2>2. PlaceOK'
      BY <1>4 DEF CreateFails, TypeInv, PlaceOK
    <2>. QED  BY <1>4, <2>1, <2>2 DEF TypeInv, TypeOK, CreateFails, reader
  <1>. QED  BY <1>3, <1>4

LEMMA DeliverKeepsType ==
    ASSUME TypeInv, Deliver \/ DeliverFails
    PROVE  TypeInv'
  <1>1. /\ at["notification"] # "idle"
        /\ Goto("notification", "announcing")
        /\ "announcing" \in Step \ {"idle"}
        /\ UNCHANGED <<stream, reached, acked, handling, ledger, todo, stage, target, missed, crashes>>
        /\ faults' = faults \/ Fault
    BY DEF Deliver, DeliverFails, reader, Step
  <1>2. at' \in [Consumers -> Step] /\ PlaceOK'
    BY <1>1, LoopType
  <1>3. notifications' \in Seq(Notification)
    <2>1. "delivered" \in Status
      BY DEF Status
    <2>2. CASE UNCHANGED notifications
      BY <2>2 DEF TypeInv, TypeOK
    <2>3. CASE Deliver
      BY <2>1, <2>3, OneStatusType DEF Deliver
    <2>. QED  BY <2>2, <2>3 DEF DeliverFails
  <1>4. faults' \in 0 .. MaxFaults
    BY <1>1, FaultType DEF TypeInv, TypeOK
  <1>. QED  BY <1>1, <1>2, <1>3, <1>4 DEF TypeInv, TypeOK

LEMMA AnnounceKeepsType ==
    ASSUME TypeInv, AnnounceSent
    PROVE  TypeInv'
  <1>1. /\ at["notification"] # "idle"
        /\ Goto("notification", "sending")
        /\ "sending" \in Step \ {"idle"}
        /\ UNCHANGED <<reached, acked, handling, ledger, notifications, todo, stage, target, missed,
                       crashes>>
        /\ faults' = faults \/ Fault
        /\ stream' = stream \/ stream' = Append(stream, SubjectNotificationSent)
    BY DEF AnnounceSent, reader, Step
  <1>2. /\ stream' \in Seq(Item)
        /\ \A i \in DOMAIN stream : i \in DOMAIN stream'
    BY <1>1, PublishType DEF TypeInv, TypeOK, Item
  <1>3. at' \in [Consumers -> Step] /\ PlaceOK'
    BY <1>1, <1>2, LoopType
  <1>4. faults' \in 0 .. MaxFaults
    BY <1>1, FaultType DEF TypeInv, TypeOK
  <1>. QED  BY <1>1, <1>2, <1>3, <1>4 DEF TypeInv, TypeOK, Item

LEMMA AllSentKeepsType ==
    ASSUME TypeInv, AllSent
    PROVE  TypeInv'
  <1>1. /\ at["notification"] # "idle"
        /\ Goto("notification", "handled")
        /\ "handled" \in Step \ {"idle"}
    BY DEF AllSent, Step
  <1>2. at' \in [Consumers -> Step] /\ PlaceOK'
    BY <1>1, LoopType DEF AllSent
  <1>. QED  BY <1>2 DEF TypeInv, TypeOK, AllSent, reader

LEMMA ReadKeepsType ==
    ASSUME TypeInv, NEW q \in Requests, Read(q)
    PROVE  TypeInv' /\ (SameRows \/ UNCHANGED notifications)
  <1>1. /\ UNCHANGED <<stream, consumer, ledger, missed, crashes>>
        /\ faults' = faults \/ Fault
    BY DEF Read, FindByID, MarkRead, MarkReadFails, MarkAllRead
  <1>2. /\ stage' \in [Requests -> {"idle", "marking", "done"}]
        /\ target' \in [Requests -> Nat]
    <2>1. DOMAIN notifications \subseteq Nat
      BY DEF TypeInv, TypeOK
    <2>2. /\ stage' \in {[stage EXCEPT ![q] = "marking"], [stage EXCEPT ![q] = "done"]}
          /\ \/ target' = target
             \/ \E n \in DOMAIN notifications \cup {0} : target' = [target EXCEPT ![q] = n]
      BY DEF Read, FindByID, MarkRead, MarkReadFails, MarkAllRead
    <2>3. stage \in [Requests -> {"idle", "marking", "done"}] /\ target \in [Requests -> Nat]
      BY DEF TypeInv, TypeOK
    <2>4. stage' \in [Requests -> {"idle", "marking", "done"}]
      BY <2>2, <2>3
    <2>5. target' \in [Requests -> Nat]
      BY <2>1, <2>2, <2>3
    <2>. QED  BY <2>4, <2>5
  <1>3. notifications' \in Seq(Notification) /\ (SameRows \/ UNCHANGED notifications)
    <2>1. CASE UNCHANGED notifications
      BY <2>1 DEF TypeInv, TypeOK
    <2>2. CASE MarkRead(q)
      <3>1. "read" \in Status
        BY DEF Status
      <3>. QED  BY <2>2, <3>1, OneStatusType DEF MarkRead
    <2>3. ASSUME NEW u \in Users, MarkAllRead(q, u)
          PROVE  notifications' \in Seq(Notification) /\ SameRows
      BY <2>3, AllStatusType DEF MarkAllRead
    <2>. QED  BY <2>1, <2>2, <2>3 DEF Read, FindByID, MarkReadFails
  <1>4. PlaceOK'
    BY <1>1 DEF TypeInv, PlaceOK, consumer
  <1>5. faults' \in 0 .. MaxFaults
    BY <1>1, FaultType DEF TypeInv, TypeOK
  <1>. QED  BY <1>1, <1>2, <1>3, <1>4, <1>5 DEF TypeInv, TypeOK, consumer

LEMMA CrashKeepsType ==
    ASSUME TypeInv, Crash
    PROVE  TypeInv'
  <1>1. PlaceOK'
    BY DEF TypeInv, PlaceOK, Crash, Consumers
  <1>2. crashes' \in 0 .. MaxCrashes
    BY DeliveryAssumption DEF TypeInv, TypeOK, Crash
  <1>. QED  BY <1>1, <1>2 DEF TypeInv, TypeOK, Crash, Step

LEMMA NextTypeInv == TypeInv /\ [Next]_vars => TypeInv'
  <1> SUFFICES ASSUME TypeInv, [Next]_vars PROVE TypeInv'
    OBVIOUS
  <1>1. ASSUME NEW e \in Events, Publish(e) PROVE TypeInv'
    BY <1>1, PublishKeepsType
  <1>2. ASSUME NEW c \in Consumers, Audit(c) PROVE TypeInv'
    BY <1>2, AuditKeepsType DEF Audit, AppendEntry, AppendFails
  <1>3. CASE Notify
    BY <1>3, FindKeepsType, CreateKeepsType, DeliverKeepsType, AnnounceKeepsType, AllSentKeepsType
       DEF Notify
  <1>4. ASSUME NEW c \in Consumers, NEW i \in DOMAIN stream, Ignore(c, i) PROVE TypeInv'
    BY <1>4, IgnoreKeepsType
  <1>5. ASSUME NEW c \in Consumers, Ack(c) \/ AckLost(c) PROVE TypeInv'
    BY <1>5, AckKeepsType
  <1>6. ASSUME NEW q \in Requests, Read(q) PROVE TypeInv'
    BY <1>6, ReadKeepsType
  <1>7. CASE Crash
    BY <1>7, CrashKeepsType
  <1>8. CASE UNCHANGED vars
    BY <1>8 DEF TypeInv, TypeOK, PlaceOK, vars, consumer, reader
  <1>. QED  BY <1>1, <1>2, <1>3, <1>4, <1>5, <1>6, <1>7, <1>8 DEF Next, Work

(* Type correctness holds in every behaviour. *)
THEOREM TypeCorrect == Spec => []TypeOK
  <1>1. Spec => []TypeInv
    BY InitTypeInv, NextTypeInv, PTL DEF Spec
  <1>2. TypeInv => TypeOK
    BY DEF TypeInv
  <1>. QED  BY <1>1, <1>2, PTL

-----------------------------------------------------------------------------
(* The audit tables: what is claimed of an acknowledged event already holds *)
(* of the one that is about to be acknowledged.                             *)
AuditOK ==
    \A c \in Auditors : \A i \in acked[c] \cup {handling[c]} :
        (i # 0 /\ stream[i] \in Recorded[c]) => i \in Range(ledger[c])

AuditInv == TypeInv /\ AuditOK

(* Steps that hand no event to an auditor. *)
LEMMA QuietAudit ==
    ASSUME AuditInv, UNCHANGED ledger,
           \A i \in DOMAIN stream : stream'[i] = stream[i],
           \A c \in Auditors : /\ handling'[c] \in {0, handling[c]}
                               /\ acked'[c] \subseteq acked[c] \cup {handling[c]}
    PROVE  AuditOK'
  <1>1. \A c \in Auditors : \A i \in acked[c] \cup {handling[c]} : i # 0 => i \in DOMAIN stream
    BY DEF AuditInv, TypeInv, PlaceOK, Consumers
  <1>. QED  BY <1>1 DEF AuditInv, AuditOK

LEMMA NextAuditInv == AuditInv /\ [Next]_vars => AuditInv'
  <1> SUFFICES ASSUME AuditInv, [Next]_vars PROVE AuditOK'
    BY NextTypeInv DEF AuditInv
  <1>. TypeInv /\ TypeInv' /\ AuditOK
    BY NextTypeInv DEF AuditInv
  <1>. /\ handling \in [Consumers -> Nat]
       /\ acked \in [Consumers -> SUBSET (Nat \ {0})]
       /\ ledger \in [Auditors -> Seq(Nat \ {0})]
       /\ Auditors \subseteq Consumers
       /\ "notification" \notin Auditors
    BY DeliveryAssumption DEF TypeInv, TypeOK, Consumers
  <1>1. ASSUME NEW e \in Events, Publish(e) PROVE AuditOK'
    <2>1. \A i \in DOMAIN stream : stream'[i] = stream[i]
      BY <1>1, PublishType DEF Publish, consumer, Item
    <2>. QED  BY <1>1, <2>1, QuietAudit DEF Publish, consumer
  <1>2. ASSUME NEW c \in Auditors, NEW i \in DOMAIN stream, AppendEntry(c, i) PROVE AuditOK'
    <2>1. /\ handling' = [handling EXCEPT ![c] = i]
          /\ ledger' = [ledger EXCEPT ![c] = Append(@, i)]
          /\ UNCHANGED <<stream, acked>>
      BY <1>2 DEF AppendEntry, Handle
    <2>2. i \in Nat \ {0}
      BY <1>2, ConsumeType DEF AppendEntry
    <2>3. Range(ledger'[c]) = Range(ledger[c]) \cup {i}
      <3>1. ledger[c] \in Seq(Nat \ {0}) /\ ledger'[c] = Append(ledger[c], i)
        BY <2>1
      <3>. QED  BY <2>2, <3>1, InRangeAfterAppend
    <2>4. \A b \in Auditors : b # c => ledger'[b] = ledger[b] /\ handling'[b] = handling[b]
      BY <2>1
    <2>5. handling'[c] = i
      BY <2>1
    <2>. QED  BY <2>1, <2>3, <2>4, <2>5 DEF AuditOK
  <1>3. ASSUME NEW c \in Auditors, NEW i \in DOMAIN stream, AppendFails(c, i) PROVE AuditOK'
    BY <1>3, QuietAudit DEF AppendFails
  <1>4. ASSUME NEW c \in Consumers, NEW i \in DOMAIN stream, Ignore(c, i) PROVE AuditOK'
    <2>1. /\ handling' = [handling EXCEPT ![c] = i]
          /\ UNCHANGED <<stream, acked, ledger>>
          /\ c \in Auditors => stream[i] \notin Recorded[c]
      BY <1>4 DEF Ignore, Handle, Concerned
    <2>. QED  BY <2>1 DEF AuditOK
  <1>5. ASSUME NEW c \in Consumers, Ack(c) \/ AckLost(c) PROVE AuditOK'
    <2>1. /\ handling' = [handling EXCEPT ![c] = 0]
          /\ acked' = acked \/ acked' = [acked EXCEPT ![c] = @ \cup {handling[c]}]
          /\ UNCHANGED <<stream, ledger>>
      BY <1>5 DEF Ack, AckLost, Release
    <2>2. \A b \in Auditors : /\ handling'[b] \in {0, handling[b]}
                              /\ acked'[b] \subseteq acked[b] \cup {handling[b]}
      BY <2>1
    <2>. QED  BY <2>1, <2>2, QuietAudit
  <1>6. CASE Notify
    <2>1. /\ UNCHANGED <<acked, ledger>>
          /\ handling' = handling \/ \E i \in DOMAIN stream :
                                         handling' = [handling EXCEPT !["notification"] = i]
          /\ stream' = stream \/ stream' = Append(stream, SubjectNotificationSent)
      BY <1>6 DEF Notify, FindMembers, FindMembersFails, Handle, Create, CreateFails, Deliver,
                  DeliverFails, AnnounceSent, AllSent
    <2>2. \A i \in DOMAIN stream : stream'[i] = stream[i]
      BY <2>1, PublishType DEF TypeInv, TypeOK, Item
    <2>3. \A b \in Auditors : handling'[b] = handling[b]
      BY <2>1
    <2>. QED  BY <2>1, <2>2, <2>3, QuietAudit
  <1>7. ASSUME NEW q \in Requests, Read(q) PROVE AuditOK'
    BY <1>7, QuietAudit DEF Read, FindByID, MarkRead, MarkReadFails, MarkAllRead, consumer
  <1>8. CASE Crash
    BY <1>8, QuietAudit DEF Crash
  <1>9. CASE UNCHANGED vars
    BY <1>9, QuietAudit DEF vars, consumer
  <1>. QED  BY <1>1, <1>2, <1>3, <1>4, <1>5, <1>6, <1>7, <1>8, <1>9
            DEF Next, Work, Audit, AppendEntry, AppendFails

(* An event that an auditor acknowledged, and is never handed again, is in  *)
(* its table, for any number of failures, lost acknowledgements, restarts.  *)
THEOREM AcknowledgedIsRecorded == Spec => []AckedIsWritten
  <1>1. Init => AuditInv
    BY InitTypeInv, DeliveryAssumption DEF Init, AuditInv, AuditOK, Consumers
  <1>2. AuditInv => AckedIsWritten
    BY DEF AuditInv, AuditOK, AckedIsWritten, TypeInv, TypeOK, Consumers
  <1>3. Spec => []AuditInv
    BY <1>1, NextAuditInv, PTL DEF Spec
  <1>. QED  BY <1>2, <1>3, PTL

-----------------------------------------------------------------------------
(* Only Deliver takes a mark back, and only from the row it created last.   *)
LEMMA NextKeepsMarks ==
    ASSUME TypeInv, [Next]_vars, NEW n \in DOMAIN notifications,
           notifications[n].status = "read"
    PROVE  \/ notifications'[n].status = "read"
           \/ at["notification"] = "delivering" /\ n = Len(notifications)
  <1>1. notifications[n] \in Notification /\ notifications \in Seq(Notification)
    BY DEF TypeInv, TypeOK
  <1>2. CASE UNCHANGED notifications
    BY <1>2
  <1>3. ASSUME NEW u \in Users, Create(u) PROVE notifications'[n] = notifications[n]
    <2>1. /\ "notification" \in Consumers
          /\ at["notification"] = "sending"
      BY <1>3 DEF Create, Consumers
    <2>2. handling["notification"] \in Nat \ {0}
      BY <2>1 DEF TypeInv, TypeOK, PlaceOK
    <2>3. [user |-> u, about |-> handling["notification"], status |-> "pending"] \in Notification
      BY <2>2 DEF Notification, Status
    <2>. QED  BY <1>1, <1>3, <2>3, AppendAt DEF Create
  <1>4. CASE Deliver
    BY <1>4 DEF Deliver
  <1>5. ASSUME NEW q \in Requests, MarkRead(q) PROVE notifications'[n].status = "read"
    BY <1>1, <1>5 DEF MarkRead, Notification
  <1>6. ASSUME NEW q \in Requests, NEW u \in Users, MarkAllRead(q, u)
        PROVE  notifications'[n].status = "read"
    BY <1>1, <1>6 DEF MarkAllRead, Notification
  <1>. QED  BY <1>2, <1>3, <1>4, <1>5, <1>6
            DEF Next, Work, Audit, Notify, Read, vars, Publish, AppendEntry, AppendFails, Ignore,
                Ack, AckLost, FindMembers, FindMembersFails, CreateFails, DeliverFails,
                AnnounceSent, AllSent, FindByID, MarkReadFails, Crash

(* A mark is lost only to the Send that is still delivering the row.        *)
THEOREM MarksStay == Spec => ReadMarkKept
  <1>1. Spec => []TypeInv
    BY InitTypeInv, NextTypeInv, PTL DEF Spec
  <1>2. TypeInv /\ [Next]_vars =>
          [\A n \in DOMAIN notifications :
               notifications[n].status = "read" =>
                   \/ notifications'[n].status = "read"
                   \/ at["notification"] = "delivering" /\ n = Len(notifications)]_vars
    BY NextKeepsMarks
  <1>. QED  BY <1>1, <1>2, PTL DEF Spec, ReadMarkKept

-----------------------------------------------------------------------------
(* Notifications: while the loop over the members is under way, whoever is  *)
(* neither told nor missed is still in todo.                                *)
Told(i, u) == \E n \in DOMAIN notifications : /\ notifications[n].user = u
                                              /\ notifications[n].about = i

Looping == at["notification"] \in {"sending", "delivering", "announcing"}

RowsOK ==
    \A n \in DOMAIN notifications :
        /\ notifications[n].about \in DOMAIN stream
        /\ notifications[n].user # Actor[stream[notifications[n].about]]

LoopOK ==
    /\ todo # {} => Looping
    /\ \A u \in todo : u # Actor[stream[handling["notification"]]]

DoneOK ==
    /\ \A i \in acked["notification"] : stream[i] \in NotifyMapped =>
           \A u \in Members : u # Actor[stream[i]] => Told(i, u) \/ <<i, u>> \in missed
    /\ (at["notification"] # "idle" /\ stream[handling["notification"]] \in NotifyMapped) =>
           \A u \in Members : u # Actor[stream[handling["notification"]]] =>
               \/ Told(handling["notification"], u)
               \/ <<handling["notification"], u>> \in missed
               \/ u \in todo

ToldInv == TypeInv /\ RowsOK /\ LoopOK /\ DoneOK

LEMMA InitToldInv == Init => ToldInv
  <1> SUFFICES ASSUME Init PROVE ToldInv
    OBVIOUS
  <1>1. "notification" \in Consumers
    BY DEF Consumers
  <1>2. RowsOK /\ LoopOK /\ DoneOK
    BY <1>1 DEF Init, RowsOK, LoopOK, DoneOK, Looping
  <1>. QED  BY <1>2, InitTypeInv DEF ToldInv

(* Steps that leave the notification consumer, its rows and what it has     *)
(* done alone; the stream may grow.                                         *)
LEMMA QuietTold ==
    ASSUME ToldInv, UNCHANGED <<todo, missed>>, SameRows \/ UNCHANGED notifications,
           \A i \in DOMAIN stream : i \in DOMAIN stream' /\ stream'[i] = stream[i],
           at'["notification"] = at["notification"],
           handling'["notification"] = handling["notification"],
           acked'["notification"] = acked["notification"]
    PROVE  RowsOK' /\ LoopOK' /\ DoneOK'
  <1>1. /\ acked["notification"] \subseteq DOMAIN stream
        /\ at["notification"] # "idle" => handling["notification"] \in DOMAIN stream
    BY DEF ToldInv, TypeInv, PlaceOK, Consumers
  <1>2. \A i, u : Told(i, u) => Told(i, u)'
    BY DEF SameRows, Told
  <1>3. RowsOK'
    BY DEF ToldInv, RowsOK, SameRows
  <1>4. LoopOK'
    BY <1>1 DEF ToldInv, LoopOK, Looping
  <1>5. DoneOK'
    BY <1>1, <1>2 DEF ToldInv, DoneOK
  <1>. QED  BY <1>3, <1>4, <1>5

(* Steps of the loop: rows and misses are added, members taken from todo    *)
(* when they are told or missed.                                            *)
LEMMA LoopTold ==
    ASSUME ToldInv, UNCHANGED <<acked, handling>>, Looping, at'["notification"] # "idle",
           todo' \subseteq todo, todo' # {} => Looping',
           \A i \in DOMAIN stream : i \in DOMAIN stream' /\ stream'[i] = stream[i],
           \A i, u : Told(i, u) => Told(i, u)',
           missed \subseteq missed',
           \A u \in todo \ todo' : \/ Told(handling["notification"], u)'
                                   \/ <<handling["notification"], u>> \in missed'
    PROVE  LoopOK' /\ DoneOK'
  <1>1. /\ acked["notification"] \subseteq DOMAIN stream
        /\ at["notification"] # "idle"
        /\ handling["notification"] \in DOMAIN stream
    BY DEF ToldInv, TypeInv, PlaceOK, Consumers, Looping
  <1>2. LoopOK'
    BY <1>1 DEF ToldInv, LoopOK
  <1>3. DoneOK'
    BY <1>1 DEF ToldInv, DoneOK
  <1>. QED  BY <1>2, <1>3

(* Steps of the other consumers. *)
LEMMA AuditorTold ==
    ASSUME ToldInv, NEW c \in Auditors,
           \/ Audit(c) \/ Ack(c) \/ AckLost(c)
           \/ \E i \in DOMAIN stream : Ignore(c, i)
    PROVE  RowsOK' /\ LoopOK' /\ DoneOK'
  <1>1. /\ c # "notification"
        /\ "notification" \in Consumers
        /\ at \in [Consumers -> Step]
        /\ handling \in [Consumers -> Nat]
        /\ acked \in [Consumers -> SUBSET (Nat \ {0})]
    BY DeliveryAssumption DEF ToldInv, TypeInv, TypeOK, Consumers
  <1>2. /\ UNCHANGED <<stream, todo, missed, notifications>>
        /\ at' = at \/ \E step : at' = [at EXCEPT ![c] = step]
        /\ handling' = handling \/ \E i : handling' = [handling EXCEPT ![c] = i]
        /\ acked' = acked \/ acked' = [acked EXCEPT ![c] = @ \cup {handling[c]}]
    BY DEF Audit, AppendEntry, AppendFails, Ack, AckLost, Ignore, Handle, Release, Goto
  <1>3. /\ at'["notification"] = at["notification"]
        /\ handling'["notification"] = handling["notification"]
        /\ acked'["notification"] = acked["notification"]
    <2>1. at'["notification"] = at["notification"]
      BY <1>1, <1>2
    <2>2. handling'["notification"] = handling["notification"]
      BY <1>1, <1>2
    <2>3. acked'["notification"] = acked["notification"]
      BY <1>1, <1>2
    <2>. QED  BY <2>1, <2>2, <2>3
  <1>. QED  BY <1>2, <1>3, QuietTold

(* The notification consumer takes an event, or is done with it. *)
LEMMA TakenTold ==
    ASSUME ToldInv,
           \/ Ack("notification") \/ AckLost("notification") \/ Crash
           \/ \E i \in DOMAIN stream : \/ Ignore("notification", i)
                                       \/ FindMembers(i) \/ FindMembersFails(i)
    PROVE  RowsOK' /\ LoopOK' /\ DoneOK'
  <1>. /\ "notification" \in Consumers
       /\ at \in [Consumers -> Step]
       /\ handling \in [Consumers -> Nat]
       /\ acked \in [Consumers -> SUBSET (Nat \ {0})]
       /\ RowsOK /\ LoopOK /\ DoneOK
    BY DEF Consumers, ToldInv, TypeInv, TypeOK
  <1>1. RowsOK'
    <2>1. UNCHANGED <<stream, notifications>>
      BY DEF Ack, AckLost, Crash, Ignore, FindMembers, FindMembersFails
    <2>. QED  BY <2>1 DEF RowsOK
  <1>2. CASE Ack("notification") \/ AckLost("notification") \/ Crash
    <2>1. /\ at'["notification"] = "idle"
          /\ todo' = {}
          /\ UNCHANGED <<stream, notifications, missed>>
          /\ \/ acked'["notification"] = acked["notification"]
             \/ /\ acked'["notification"] = acked["notification"] \cup {handling["notification"]}
                /\ at["notification"] = "handled"
                /\ todo = {}
      BY <1>2 DEF Ack, AckLost, Crash, Release, Goto, LoopOK, Looping
    <2>. QED  BY <1>1, <2>1 DEF LoopOK, DoneOK, Told
  <1>3. ASSUME NEW i \in DOMAIN stream,
               Ignore("notification", i) \/ FindMembers(i) \/ FindMembersFails(i)
        PROVE  LoopOK' /\ DoneOK'
    <2>1. /\ at["notification"] = "idle"
          /\ todo = {}
          /\ handling'["notification"] = i
          /\ UNCHANGED <<stream, acked, notifications>>
      BY <1>3 DEF Ignore, FindMembers, FindMembersFails, Consume, Handle, LoopOK, Looping
    <2>2. \A j, u : Told(j, u)' <=> Told(j, u)
      BY <2>1 DEF Told
    <2>3. CASE Ignore("notification", i)
      <3>1. stream[i] \notin NotifyMapped /\ UNCHANGED <<todo, missed>>
        BY <2>3 DEF Ignore, Concerned
      <3>. QED  BY <2>1, <2>2, <3>1 DEF LoopOK, DoneOK
    <2>4. CASE FindMembers(i)
      <3>1. /\ todo' = Members \ {Actor[stream[i]]}
            /\ at'["notification"] = "sending"
            /\ UNCHANGED missed
        BY <2>4 DEF FindMembers, Recipients, Handle, Goto
      <3>. QED  BY <2>1, <2>2, <3>1 DEF LoopOK, DoneOK, Looping
    <2>5. CASE FindMembersFails(i)
      <3>1. missed' = missed \cup ({i} \X Members) /\ UNCHANGED todo
        BY <2>5 DEF FindMembersFails
      <3>. QED  BY <2>1, <2>2, <3>1 DEF LoopOK, DoneOK
    <2>. QED  BY <1>3, <2>3, <2>4, <2>5
  <1>. QED  BY <1>1, <1>2, <1>3

LEMMA CreateTold ==
    ASSUME ToldInv, NEW u \in Users, Create(u)
    PROVE  RowsOK' /\ LoopOK' /\ DoneOK'
  <1>1. /\ "notification" \in Consumers
        /\ at \in [Consumers -> Step]
        /\ at["notification"] = "sending"
        /\ at'["notification"] = "delivering"
        /\ u \in todo
        /\ todo' = todo \ {u}
        /\ UNCHANGED <<stream, acked, handling, missed>>
    BY DEF Consumers, Create, Goto, ToldInv, TypeInv, TypeOK
  <1>2. PICK row : /\ row = [user |-> u, about |-> handling["notification"], status |-> "pending"]
                   /\ notifications' = Append(notifications, row)
    BY DEF Create
  <1>3. handling["notification"] \in Nat \ {0} /\ handling["notification"] \in DOMAIN stream
    BY <1>1 DEF ToldInv, TypeInv, TypeOK, PlaceOK
  <1>4. row \in Notification /\ notifications \in Seq(Notification)
    BY <1>2, <1>3 DEF Notification, Status, ToldInv, TypeInv, TypeOK
  <1>5. /\ Len(notifications) \in Nat
        /\ DOMAIN notifications = 1 .. Len(notifications)
        /\ DOMAIN notifications' = 1 .. Len(notifications) + 1
        /\ \A n \in 1 .. Len(notifications) : notifications'[n] = notifications[n]
        /\ notifications'[Len(notifications) + 1] = row
    BY <1>2, <1>4, AppendAt
  <1>6. RowsOK'
    <2>1. u # Actor[stream[handling["notification"]]]
      BY <1>1 DEF ToldInv, LoopOK
    <2>. QED  BY <1>1, <1>2, <1>3, <1>5, <2>1 DEF ToldInv, RowsOK
  <1>7. /\ \A i, v : Told(i, v) => Told(i, v)'
        /\ Told(handling["notification"], u)'
    BY <1>1, <1>2, <1>5 DEF Told
  <1>8. LoopOK' /\ DoneOK'
    BY <1>1, <1>7, LoopTold DEF Looping
  <1>. QED  BY <1>6, <1>8

LEMMA RestTold ==
    ASSUME ToldInv, \/ \E u \in Users : CreateFails(u)
                    \/ Deliver \/ DeliverFails \/ AnnounceSent \/ AllSent
    PROVE  RowsOK' /\ LoopOK' /\ DoneOK'
  <1>1. /\ "notification" \in Consumers
        /\ at \in [Consumers -> Step]
        /\ RowsOK
    BY DEF Consumers, ToldInv, TypeInv, TypeOK
  <1>2. /\ Looping
        /\ at'["notification"] # "idle"
        /\ UNCHANGED <<acked, handling>>
        /\ todo' \subseteq todo
        /\ todo' # {} => Looping'
        /\ missed \subseteq missed'
        /\ \A u \in todo \ todo' : <<handling["notification"], u>> \in missed'
    BY <1>1 DEF CreateFails, Deliver, DeliverFails, AnnounceSent, AllSent, Looping, Goto
  <1>3. \A i \in DOMAIN stream : i \in DOMAIN stream' /\ stream'[i] = stream[i]
    BY PublishType DEF CreateFails, Deliver, DeliverFails, AnnounceSent, AllSent, Item, ToldInv
  <1>4. SameRows \/ UNCHANGED notifications
    <2>1. "delivered" \in Status
      BY DEF Status
    <2>. QED  BY <2>1, OneStatusType
              DEF CreateFails, Deliver, DeliverFails, AnnounceSent, AllSent, ToldInv
  <1>5. \A i, u : Told(i, u) => Told(i, u)'
    BY <1>4 DEF SameRows, Told
  <1>6. RowsOK'
    BY <1>1, <1>3, <1>4 DEF RowsOK, SameRows
  <1>7. LoopOK' /\ DoneOK'
    BY <1>2, <1>3, <1>5, LoopTold
  <1>. QED  BY <1>6, <1>7

LEMMA NextToldInv == ToldInv /\ [Next]_vars => ToldInv'
  <1> SUFFICES ASSUME ToldInv, [Next]_vars PROVE RowsOK' /\ LoopOK' /\ DoneOK'
    BY NextTypeInv DEF ToldInv
  <1>1. ASSUME NEW e \in Events, Publish(e) PROVE RowsOK' /\ LoopOK' /\ DoneOK'
    <2>1. \A i \in DOMAIN stream : i \in DOMAIN stream' /\ stream'[i] = stream[i]
      BY <1>1, PublishType DEF Publish, Item, ToldInv
    <2>. QED  BY <1>1, <2>1, QuietTold DEF Publish, consumer
  <1>2. ASSUME NEW c \in Consumers, Work(c) PROVE RowsOK' /\ LoopOK' /\ DoneOK'
    <2>1. CASE c \in Auditors
      <3>1. c # "notification"
        BY <2>1, DeliveryAssumption
      <3>. QED  BY <1>2, <2>1, <3>1, AuditorTold DEF Work
    <2>2. CASE c = "notification"
      BY <1>2, <2>2, TakenTold, CreateTold, RestTold, DeliveryAssumption
         DEF Work, Notify, Audit, AppendEntry, AppendFails
    <2>. QED  BY <2>1, <2>2 DEF Consumers
  <1>3. ASSUME NEW q \in Requests, Read(q) PROVE RowsOK' /\ LoopOK' /\ DoneOK'
    <2>1. SameRows \/ UNCHANGED notifications
      BY <1>3, ReadKeepsType DEF ToldInv
    <2>. QED  BY <1>3, <2>1, QuietTold
              DEF Read, FindByID, MarkRead, MarkReadFails, MarkAllRead, consumer
  <1>4. CASE Crash
    BY <1>4, TakenTold
  <1>5. CASE UNCHANGED vars
    BY <1>5, QuietTold DEF vars, consumer
  <1>. QED  BY <1>1, <1>2, <1>3, <1>4, <1>5 DEF Next

(* Every member but the actor has a notification of an event that is done   *)
(* with, or a failing call explains why not, for workspaces of any size.    *)
THEOREM MembersAreNotified == Spec => []MembersNotified
  <1>1. Spec => []ToldInv
    BY InitToldInv, NextToldInv, PTL DEF Spec
  <1>2. ToldInv => MembersNotified
    <2> SUFFICES ASSUME ToldInv, NEW i \in acked["notification"], stream[i] \in NotifyMapped,
                        NEW u \in Members
                 PROVE  IF u = Actor[stream[i]]
                        THEN ~Told(i, u)
                        ELSE Told(i, u) \/ <<i, u>> \in missed
      BY DEF MembersNotified, Told
    <2>. QED  BY DEF ToldInv, RowsOK, DoneOK, Told
  <1>. QED  BY <1>1, <1>2, PTL
=============================================================================
