--------------------------- MODULE Session_proofs ---------------------------
(* Theorems about Session and ContextWindow, for any requests, sessions,    *)
(* texts and bounds.                                                        *)
EXTENDS ContextWindow, FiniteSetTheorems, WellFoundedInduction, SequenceTheorems, TLAPS

-----------------------------------------------------------------------------
(* What a request in progress holds. *)
RequestOK(r) ==
    /\ at[r] # "new" => job[r] \in Job
    /\ at[r] \in {"found", "spawned", "asking"} => snap[r] \in Row
    /\ at[r] \in {"spawned", "asking", "replied"} => job[r].op = "say"

TypeInv == TypeOK /\ \A r \in Requests : RequestOK(r)

LEMMA AddMessageType ==
    ASSUME NEW row \in Row, NEW m \in Prompt \cup Reply
    PROVE  /\ AddMessage(row, m) \in Row
           /\ AddMessage(row, m).messages = Append(row.messages, m)
           /\ row.messages \in Seq(Prompt \cup Reply)
  BY DEF AddMessage, Row

LEMMA NewSessionType == NewSession \in Row
  <1>1. <<>> \in Seq(Prompt \cup Reply)
    OBVIOUS
  <1>. QED  BY <1>1 DEF NewSession, Row, SessionStatus

LEMMA InitTypeInv == Init => TypeInv
  <1> SUFFICES ASSUME Init PROVE TypeInv
    OBVIOUS
  <1>1. store \in [Sessions -> Row \cup {None}]
    BY NewSessionType DEF Init
  <1>2. sent \in [Sessions -> [StreamType -> Nat]]
    BY DEF Init
  <1>. QED  BY <1>1, <1>2 DEF Init, TypeInv, TypeOK, RequestOK, Phase

(* A step of request r alone: the others keep what they hold. *)
LEMMA OwnStep ==
    ASSUME TypeInv, TypeOK', NEW r \in Requests, RequestOK(r)',
           \A o \in Requests \ {r} : at'[o] = at[o] /\ job'[o] = job[o] /\ snap'[o] = snap[o]
    PROVE  TypeInv'
  BY DEF TypeInv, RequestOK

(* A message more on the stream of the request's session. *)
LEMMA BroadcastType ==
    ASSUME sent \in [Sessions -> [StreamType -> Nat]], NEW r \in Requests,
           NEW type \in StreamType, job[r].session \in Sessions, Broadcast(r, type)
    PROVE  /\ sent' \in [Sessions -> [StreamType -> Nat]]
           /\ \A s \in Sessions, other \in StreamType :
                 sent'[s][other] = IF s = job[r].session /\ other = type
                                   THEN sent[s][other] + 1 ELSE sent[s][other]
  <1>1. PICK x \in Sessions : x = job[r].session
    OBVIOUS
  <1>2. sent' = [sent EXCEPT ![x] = [sent[x] EXCEPT ![type] = sent[x][type] + 1]]
    BY <1>1 DEF Broadcast
  <1>3. [sent[x] EXCEPT ![type] = sent[x][type] + 1] \in [StreamType -> Nat]
    OBVIOUS
  <1>. QED  BY <1>1, <1>2, <1>3

LEMMA NextTypeInv == TypeInv /\ [Next]_vars => TypeInv'
  <1> SUFFICES ASSUME TypeInv, [Next]_vars PROVE TypeInv'
    OBVIOUS
  <1>. USE DEF TypeInv, TypeOK, RequestOK
  <1>1. ASSUME NEW r \in Requests, StartSession(r) PROVE TypeInv'
    <2>1. PICK x \in Sessions : /\ job' = [job EXCEPT ![r] = [op |-> "start", session |-> x]]
                                /\ store' = [store EXCEPT ![x] = NewSession]
      BY <1>1 DEF StartSession
    <2>2. /\ at' = [at EXCEPT ![r] = "announcing"]
          /\ UNCHANGED <<snap, sent, published, overwritten, faults, crashes>>
      BY <1>1 DEF StartSession, Goto
    <2>3. [op |-> "start", session |-> x] \in Job
      BY DEF Job
    <2>. HIDE DEF NewSession
    <2>4. TypeOK'
      BY <2>1, <2>2, <2>3, NewSessionType DEF Phase
    <2>5. RequestOK(r)'
      BY <2>1, <2>2, <2>3
    <2>. QED  BY <2>1, <2>2, <2>4, <2>5, OwnStep
  <1>2. ASSUME NEW r \in Requests, FindByID(r) PROVE TypeInv'
    <2>1. PICK x \in Sessions, j \in Job : /\ store[x] # None
                                           /\ snap' = [snap EXCEPT ![r] = store[x]]
                                           /\ job' = [job EXCEPT ![r] = j]
      <3>1. PICK x \in Sessions :
              /\ store[x] # None
              /\ snap' = [snap EXCEPT ![r] = store[x]]
              /\ \/ \E t \in Texts, streaming \in BOOLEAN :
                      job' = [job EXCEPT ![r] = [op |-> "say", session |-> x, text |-> t,
                                                 streaming |-> streaming]]
                 \/ \E op \in {"checkpoint", "complete"} :
                      job' = [job EXCEPT ![r] = [op |-> op, session |-> x]]
        BY <1>2 DEF FindByID
      <3>. QED  BY <3>1 DEF Job
    <2>2. /\ at' = [at EXCEPT ![r] = "found"]
          /\ UNCHANGED <<store, sent, published, overwritten, faults, crashes>>
      BY <1>2 DEF FindByID, Goto
    <2>3. TypeOK'
      BY <2>1, <2>2 DEF Phase
    <2>4. RequestOK(r)'
      BY <2>1, <2>2
    <2>. QED  BY <2>1, <2>2, <2>3, <2>4, OwnStep
  <1>3. ASSUME NEW r \in Requests, SkipDuplicate(r) \/ Refuse(r) \/ UpdateFails(r) PROVE TypeInv'
    <2>1. /\ at' \in {[at EXCEPT ![r] = "skipped"], [at EXCEPT ![r] = "error"]}
          /\ at[r] = "found"
          /\ faults' \in Nat
          /\ UNCHANGED <<store, job, snap, sent, published, overwritten, crashes>>
      BY <1>3 DEF SkipDuplicate, Refuse, UpdateFails, Goto, Fault
    <2>. QED  BY <2>1 DEF Phase
  <1>4. ASSUME NEW r \in Requests, StorePrompt(r) PROVE TypeInv'
    <2>. DEFINE m == [role |-> "user", by |-> r, text |-> job[r].text]
    <2>1. /\ at[r] = "found"
          /\ job[r].op = "say"
          /\ at' \in {[at EXCEPT ![r] = "spawned"], [at EXCEPT ![r] = "asking"]}
          /\ Write(r, AddMessage(snap[r], m))
          /\ UNCHANGED <<job, sent, published, faults, crashes>>
      BY <1>4 DEF StorePrompt, Goto
    <2>2. m \in Prompt /\ job[r].session \in Sessions
      BY <2>1 DEF Prompt, Job
    <2>. HIDE DEF m
    <2>3. AddMessage(snap[r], m) \in Row
      BY <2>1, <2>2, AddMessageType
    <2>4. TypeOK'
      BY <2>1, <2>2, <2>3 DEF Write, Phase
    <2>5. RequestOK(r)'
      BY <2>1, <2>3 DEF Write
    <2>. QED  BY <2>1, <2>4, <2>5, OwnStep DEF Write
  <1>5. ASSUME NEW r \in Requests, RunStream(r) \/ EndStream(r) PROVE TypeInv'
    <2>1. /\ at[r] \in {"spawned", "replied"}
          /\ at' = [at EXCEPT ![r] = IF at[r] = "spawned" THEN "asking" ELSE "ok"]
          /\ \E type \in StreamType : Broadcast(r, type)
          /\ UNCHANGED <<store, job, snap, published, overwritten, faults, crashes>>
      BY <1>5 DEF RunStream, EndStream, Goto, StreamType
    <2>2. job[r].session \in Sessions /\ sent' \in [Sessions -> [StreamType -> Nat]]
      BY <2>1, BroadcastType DEF Job
    <2>. QED  BY <2>1, <2>2 DEF Phase
  <1>6. ASSUME NEW r \in Requests, StreamChunk(r) PROVE TypeInv'
    <2>1. job[r].session \in Sessions
      BY <1>6 DEF StreamChunk, Job
    <2>2. sent' \in [Sessions -> [StreamType -> Nat]]
      BY <1>6, <2>1, BroadcastType DEF StreamChunk, StreamType
    <2>. QED  BY <1>6, <2>2 DEF StreamChunk
  <1>7. ASSUME NEW r \in Requests, AskFails(r) PROVE TypeInv'
    <2>1. /\ at[r] = "asking"
          /\ at' \in {[at EXCEPT ![r] = "failed"], [at EXCEPT ![r] = "error"]}
          /\ sent' = sent \/ Broadcast(r, "stream.error")
          /\ faults' \in Nat
          /\ UNCHANGED <<store, job, snap, published, overwritten, crashes>>
      BY <1>7 DEF AskFails, Goto, Fault
    <2>2. job[r].session \in Sessions /\ sent' \in [Sessions -> [StreamType -> Nat]]
      BY <2>1, BroadcastType DEF Job, StreamType
    <2>. QED  BY <2>1, <2>2 DEF Phase
  <1>8. ASSUME NEW r \in Requests, PersistReply(r) PROVE TypeInv'
    <2>. DEFINE m == [role |-> "assistant", by |-> r]
    <2>1. /\ at[r] = "asking"
          /\ job[r].op = "say"
          /\ at' \in {[at EXCEPT ![r] = x] : x \in {"replied", "ok", "error"}}
          /\ \/ Write(r, AddMessage(snap[r], m)) /\ UNCHANGED faults
             \/ faults' = faults + 1 /\ UNCHANGED <<store, snap, overwritten>>
          /\ UNCHANGED <<job, sent, published, crashes>>
      BY <1>8 DEF PersistReply, Goto, Fault
    <2>2. m \in Reply /\ job[r].session \in Sessions
      BY <2>1 DEF Reply, Job
    <2>. HIDE DEF m
    <2>3. AddMessage(snap[r], m) \in Row
      BY <2>1, <2>2, AddMessageType
    <2>4. TypeOK'
      <3>1. at' \in [Requests -> Phase]
        BY <2>1 DEF Phase
      <3>2. CASE Write(r, AddMessage(snap[r], m)) /\ UNCHANGED faults
        BY <2>1, <2>2, <2>3, <3>1, <3>2 DEF Write
      <3>3. CASE faults' = faults + 1 /\ UNCHANGED <<store, snap, overwritten>>
        BY <2>1, <3>1, <3>3
      <3>. QED  BY <2>1, <3>2, <3>3
    <2>5. RequestOK(r)'
      BY <2>1
    <2>. QED  BY <2>1, <2>4, <2>5, OwnStep DEF Write
  <1>9. ASSUME NEW r \in Requests, EnterCheckpoint(r) \/ CompleteSession(r) PROVE TypeInv'
    <2>1. PICK status \in SessionStatus :
            /\ at[r] = "found"
            /\ Write(r, [snap[r] EXCEPT !.status = status])
            /\ at' = [at EXCEPT ![r] = "announcing"]
            /\ UNCHANGED <<job, sent, published, faults, crashes>>
      BY <1>9 DEF EnterCheckpoint, CompleteSession, Transition, Goto, SessionStatus
    <2>2. [snap[r] EXCEPT !.status = status] \in Row /\ job[r].session \in Sessions
      BY <2>1 DEF Row, Job
    <2>. QED  BY <2>1, <2>2 DEF Write, Phase
  <1>10. ASSUME NEW r \in Requests, Announce(r) PROVE TypeInv'
    BY <1>10 DEF Announce, Goto, Fault, Phase
  <1>11. CASE Crash
    BY <1>11 DEF Crash, InFlight, Phase
  <1>12. CASE UNCHANGED vars
    BY <1>12 DEF vars
  <1>. QED  BY <1>1, <1>2, <1>3, <1>4, <1>5, <1>6, <1>7, <1>8, <1>9, <1>10, <1>11, <1>12
            DEF Next, Step

(* Type correctness holds in every behaviour. *)
THEOREM TypeCorrect == Spec => []TypeOK
  <1>1. Spec => []TypeInv
    BY InitTypeInv, NextTypeInv, PTL DEF Spec
  <1>2. TypeInv => TypeOK
    BY DEF TypeInv
  <1>. QED  BY <1>1, <1>2, PTL

-----------------------------------------------------------------------------
(* Messages.  Rows are written back from copies that may be stale, so what  *)
(* is claimed of rows is claimed of the copies too; and the copy a request  *)
(* asks the model with ends with that request's own prompt.                 *)

LEMMA AddMessageAt ==
    ASSUME NEW row \in Row, NEW m \in Prompt \cup Reply
    PROVE  LET new == AddMessage(row, m)
           IN  /\ Len(row.messages) \in Nat
               /\ DOMAIN row.messages = 1 .. Len(row.messages)
               /\ Len(new.messages) = Len(row.messages) + 1
               /\ DOMAIN new.messages = 1 .. Len(row.messages) + 1
               /\ \A i \in 1 .. Len(row.messages) : new.messages[i] = row.messages[i]
               /\ new.messages[Len(row.messages) + 1] = m
  <1>1. /\ row.messages \in Seq(Prompt \cup Reply)
        /\ AddMessage(row, m).messages = Append(row.messages, m)
    BY AddMessageType
  <1>. QED  BY <1>1

EndsWithPrompt(row, r) ==
    /\ row.messages # <<>>
    /\ row.messages[Len(row.messages)].role = "user"
    /\ row.messages[Len(row.messages)].by = r

RowOK(row) == NoEcho(row) /\ RepliesInPlace(row)

LEMMA NewSessionOK == RowOK(NewSession)
  BY DEF RowOK, NoEcho, RepliesInPlace, NewSession

(* Only the messages count. *)
LEMMA StatusChangeOK ==
    ASSUME NEW row \in Row, NEW status, RowOK(row)
    PROVE  RowOK([row EXCEPT !.status = status])
  <1>1. [row EXCEPT !.status = status].messages = row.messages
    BY DEF Row
  <1>. QED  BY <1>1 DEF RowOK, NoEcho, RepliesInPlace

LEMMA PromptOK ==
    ASSUME NEW row \in Row, NEW r \in Requests, NEW t \in Texts, RowOK(row), ~IsDuplicate(row, t)
    PROVE  LET new == AddMessage(row, [role |-> "user", by |-> r, text |-> t])
           IN  RowOK(new) /\ EndsWithPrompt(new, r)
  <1>. DEFINE m == [role |-> "user", by |-> r, text |-> t]
              new == AddMessage(row, m)
              n == Len(row.messages)
  <1>1. m \in Prompt
    BY DEF Prompt
  <1>. HIDE DEF m
  <1>2. /\ n \in Nat
        /\ DOMAIN row.messages = 1 .. n
        /\ Len(new.messages) = n + 1
        /\ DOMAIN new.messages = 1 .. n + 1
        /\ \A i \in 1 .. n : new.messages[i] = row.messages[i]
        /\ new.messages[n + 1] = m
    BY <1>1, AddMessageAt
  <1>. HIDE DEF new, n
  <1>3. m.role = "user" /\ m.by = r /\ m.text = t
    BY DEF m
  <1>4. NoEcho(new)
    <2>1. ASSUME NEW i \in 1 .. n + 1, NEW j \in 1 .. n + 1, i < j, j <= i + 2,
                 new.messages[i].role = "user", new.messages[j].role = "user"
          PROVE  new.messages[i].text # new.messages[j].text
      <3>1. CASE j = n + 1
        <4>1. i \in 1 .. n /\ i + 1 >= n
          BY <1>2, <2>1, <3>1
        <4>2. row.messages[i].role = "user" => row.messages[i].text # t
          BY <1>2, <4>1 DEF IsDuplicate, n
        <4>. QED  BY <1>2, <1>3, <2>1, <3>1, <4>1, <4>2
      <3>2. CASE j # n + 1
        <4>1. i \in 1 .. n /\ j \in 1 .. n
          BY <1>2, <2>1, <3>2
        <4>. QED  BY <1>2, <2>1, <4>1 DEF RowOK, NoEcho
      <3>. QED  BY <3>1, <3>2
    <2>. QED  BY <1>2, <2>1 DEF NoEcho
  <1>5. RepliesInPlace(new)
    <2>1. ASSUME NEW i \in 1 .. n + 1, new.messages[i].role = "assistant"
          PROVE  /\ i > 1
                 /\ new.messages[i - 1].role = "user"
                 /\ new.messages[i - 1].by = new.messages[i].by
      <3>1. i \in 1 .. n
        BY <1>2, <1>3, <2>1
      <3>2. /\ i > 1
            /\ row.messages[i - 1].role = "user"
            /\ row.messages[i - 1].by = row.messages[i].by
        BY <1>2, <2>1, <3>1 DEF RowOK, RepliesInPlace
      <3>. QED  BY <1>2, <3>1, <3>2
    <2>. QED  BY <1>2, <2>1 DEF RepliesInPlace
  <1>6. EndsWithPrompt(new, r)
    BY <1>2, <1>3 DEF EndsWithPrompt
  <1>. QED  BY <1>4, <1>5, <1>6 DEF new, RowOK, m

LEMMA ReplyOK ==
    ASSUME NEW row \in Row, NEW r \in Requests, RowOK(row), EndsWithPrompt(row, r)
    PROVE  RowOK(AddMessage(row, [role |-> "assistant", by |-> r]))
  <1>. DEFINE m == [role |-> "assistant", by |-> r]
              new == AddMessage(row, m)
              n == Len(row.messages)
  <1>1. m \in Reply
    BY DEF Reply
  <1>. HIDE DEF m
  <1>2. /\ n \in Nat
        /\ DOMAIN row.messages = 1 .. n
        /\ Len(new.messages) = n + 1
        /\ DOMAIN new.messages = 1 .. n + 1
        /\ \A i \in 1 .. n : new.messages[i] = row.messages[i]
        /\ new.messages[n + 1] = m
    BY <1>1, AddMessageAt
  <1>3. /\ n > 0
        /\ row.messages[n].role = "user"
        /\ row.messages[n].by = r
    <2>1. row.messages \in Seq(Prompt \cup Reply)
      BY DEF Row
    <2>. QED  BY <2>1 DEF EndsWithPrompt
  <1>. HIDE DEF new, n
  <1>4. m.role = "assistant" /\ m.by = r
    BY DEF m
  <1>5. NoEcho(new)
    <2>1. ASSUME NEW i \in 1 .. n + 1, NEW j \in 1 .. n + 1, i < j, j <= i + 2,
                 new.messages[i].role = "user", new.messages[j].role = "user"
          PROVE  new.messages[i].text # new.messages[j].text
      <3>1. i \in 1 .. n /\ j \in 1 .. n
        BY <1>2, <1>4, <2>1
      <3>. QED  BY <1>2, <2>1, <3>1 DEF RowOK, NoEcho
    <2>. QED  BY <1>2, <2>1 DEF NoEcho
  <1>6. RepliesInPlace(new)
    <2>1. ASSUME NEW i \in 1 .. n + 1, new.messages[i].role = "assistant"
          PROVE  /\ i > 1
                 /\ new.messages[i - 1].role = "user"
                 /\ new.messages[i - 1].by = new.messages[i].by
      <3>1. CASE i = n + 1
        BY <1>2, <1>3, <1>4, <3>1
      <3>2. CASE i \in 1 .. n
        <4>1. /\ i > 1
              /\ row.messages[i - 1].role = "user"
              /\ row.messages[i - 1].by = row.messages[i].by
          BY <1>2, <2>1, <3>2 DEF RowOK, RepliesInPlace
        <4>. QED  BY <1>2, <3>2, <4>1
      <3>. QED  BY <1>2, <3>1, <3>2
    <2>. QED  BY <1>2, <2>1 DEF RepliesInPlace
  <1>. QED  BY <1>5, <1>6 DEF new, RowOK, m

MessagesInv ==
    /\ TypeInv
    /\ \A s \in Sessions : store[s] # None => RowOK(store[s])
    /\ \A r \in Requests :
         /\ snap[r] # None => RowOK(snap[r])
         /\ at[r] \in {"spawned", "asking"} => EndsWithPrompt(snap[r], r)

LEMMA InitMessagesInv == Init => MessagesInv
  <1> SUFFICES ASSUME Init PROVE MessagesInv
    OBVIOUS
  <1>. QED  BY InitTypeInv, NewSessionOK DEF Init, MessagesInv

(* A step of request r that writes row, and keeps it as its copy. *)
LEMMA WriteOK ==
    ASSUME MessagesInv, TypeInv', NEW r \in Requests, at[r] # "new", NEW row \in Row,
           RowOK(row), Write(r, row),
           \A o \in Requests \ {r} : at'[o] = at[o],
           at'[r] \in {"spawned", "asking"} => EndsWithPrompt(row, r)
    PROVE  MessagesInv'
  <1>1. job[r].session \in Sessions
    BY DEF MessagesInv, TypeInv, RequestOK, Job
  <1>2. /\ store' = [store EXCEPT ![job[r].session] = row]
        /\ snap' = [snap EXCEPT ![r] = row]
    BY DEF Write
  <1>3. \A s \in Sessions : store'[s] # None => RowOK(store'[s])
    BY <1>1, <1>2 DEF MessagesInv, TypeInv, TypeOK
  <1>4. ASSUME NEW o \in Requests
        PROVE  /\ snap'[o] # None => RowOK(snap'[o])
               /\ at'[o] \in {"spawned", "asking"} => EndsWithPrompt(snap'[o], o)
    BY <1>2 DEF MessagesInv, TypeInv, TypeOK
  <1>. QED  BY <1>3, <1>4 DEF MessagesInv, RowOK, NoEcho, RepliesInPlace, EndsWithPrompt

(* A step of request r that writes no row and asks no new question. *)
LEMMA QuietOK ==
    ASSUME MessagesInv, TypeInv', UNCHANGED <<store, snap>>,
           \A o \in Requests : at'[o] \in {"spawned", "asking"} => at[o] \in {"spawned", "asking"}
    PROVE  MessagesInv'
  BY DEF MessagesInv, RowOK, NoEcho, RepliesInPlace, EndsWithPrompt

LEMMA NextMessagesInv == MessagesInv /\ [Next]_vars => MessagesInv'
  <1> SUFFICES ASSUME MessagesInv, [Next]_vars PROVE MessagesInv'
    OBVIOUS
  <1>0. TypeInv /\ TypeInv'
    BY NextTypeInv DEF MessagesInv
  <1>1. ASSUME NEW r \in Requests, StartSession(r) PROVE MessagesInv'
    <2>1. PICK x \in Sessions : store' = [store EXCEPT ![x] = NewSession]
      BY <1>1 DEF StartSession
    <2>2. \A s \in Sessions : store'[s] # None => RowOK(store'[s])
      BY <1>0, <2>1, NewSessionOK DEF MessagesInv, TypeInv, TypeOK
    <2>3. /\ snap' = snap
          /\ \A o \in Requests : at'[o] \in {"spawned", "asking"} => at[o] \in {"spawned", "asking"}
      BY <1>0, <1>1 DEF StartSession, Goto, TypeInv, TypeOK
    <2>. QED  BY <1>0, <2>2, <2>3 DEF MessagesInv, RowOK, NoEcho, RepliesInPlace, EndsWithPrompt
  <1>2. ASSUME NEW r \in Requests, FindByID(r) PROVE MessagesInv'
    <2>1. PICK x \in Sessions : store[x] # None /\ snap' = [snap EXCEPT ![r] = store[x]]
      BY <1>2 DEF FindByID
    <2>2. /\ store' = store
          /\ at' = [at EXCEPT ![r] = "found"]
      BY <1>2 DEF FindByID, Goto
    <2>3. ASSUME NEW o \in Requests
          PROVE  /\ snap'[o] # None => RowOK(snap'[o])
                 /\ at'[o] \in {"spawned", "asking"} => EndsWithPrompt(snap'[o], o)
      BY <1>0, <2>1, <2>2 DEF MessagesInv, TypeInv, TypeOK
    <2>. QED  BY <1>0, <2>2, <2>3 DEF MessagesInv, RowOK, NoEcho, RepliesInPlace, EndsWithPrompt
  <1>3. ASSUME NEW r \in Requests, StorePrompt(r) PROVE MessagesInv'
    <2>. DEFINE row == AddMessage(snap[r], [role |-> "user", by |-> r, text |-> job[r].text])
    <2>1. /\ at[r] = "found"
          /\ job[r].op = "say"
          /\ ~IsDuplicate(snap[r], job[r].text)
          /\ Write(r, row)
          /\ \A o \in Requests \ {r} : at'[o] = at[o]
      BY <1>0, <1>3 DEF StorePrompt, IsRetry, Goto, TypeInv, TypeOK
    <2>2. snap[r] \in Row /\ job[r].text \in Texts
      BY <1>0, <2>1 DEF TypeInv, RequestOK, Job
    <2>3. RowOK(snap[r])
      BY <2>2, SessionAssumption DEF MessagesInv
    <2>4. RowOK(row) /\ EndsWithPrompt(row, r)
      BY <2>1, <2>2, <2>3, PromptOK
    <2>5. row \in Row
      BY <2>2, AddMessageType DEF Prompt
    <2>. HIDE DEF row
    <2>. QED  BY <1>0, <2>1, <2>4, <2>5, WriteOK
  <1>4. ASSUME NEW r \in Requests, PersistReply(r) PROVE MessagesInv'
    <2>. DEFINE row == AddMessage(snap[r], [role |-> "assistant", by |-> r])
    <2>1. /\ at[r] = "asking"
          /\ \A o \in Requests \ {r} : at'[o] = at[o]
          /\ at'[r] \notin {"spawned", "asking"}
          /\ Write(r, row) \/ UNCHANGED <<store, snap>>
      BY <1>0, <1>4 DEF PersistReply, Goto, TypeInv, TypeOK
    <2>2. snap[r] \in Row
      BY <1>0, <2>1 DEF TypeInv, RequestOK
    <2>3. RowOK(snap[r]) /\ EndsWithPrompt(snap[r], r)
      BY <2>1, <2>2, SessionAssumption DEF MessagesInv
    <2>4. RowOK(row)
      BY <2>2, <2>3, ReplyOK
    <2>5. row \in Row
      BY <2>2, AddMessageType DEF Reply
    <2>. HIDE DEF row
    <2>6. CASE Write(r, row)
      BY <1>0, <2>1, <2>4, <2>5, <2>6, WriteOK
    <2>7. CASE UNCHANGED <<store, snap>>
      BY <1>0, <2>1, <2>7, QuietOK
    <2>. QED  BY <2>1, <2>6, <2>7
  <1>5. ASSUME NEW r \in Requests, EnterCheckpoint(r) \/ CompleteSession(r) PROVE MessagesInv'
    <2>1. PICK status : /\ at[r] = "found"
                        /\ Write(r, [snap[r] EXCEPT !.status = status])
                        /\ at' = [at EXCEPT ![r] = "announcing"]
                        /\ status \in SessionStatus
      BY <1>5 DEF EnterCheckpoint, CompleteSession, Transition, Goto, SessionStatus
    <2>2. snap[r] \in Row
      BY <1>0, <2>1 DEF TypeInv, RequestOK
    <2>3. RowOK(snap[r])
      BY <2>2, SessionAssumption DEF MessagesInv
    <2>4. RowOK([snap[r] EXCEPT !.status = status])
      BY <2>2, <2>3, StatusChangeOK
    <2>5. [snap[r] EXCEPT !.status = status] \in Row
      BY <2>1, <2>2 DEF Row
    <2>6. /\ \A o \in Requests \ {r} : at'[o] = at[o]
          /\ at'[r] \notin {"spawned", "asking"}
      BY <1>0, <2>1 DEF TypeInv, TypeOK
    <2>. QED  BY <1>0, <2>1, <2>4, <2>5, <2>6, WriteOK
  <1>6. ASSUME NEW r \in Requests,
               \/ SkipDuplicate(r) \/ Refuse(r) \/ UpdateFails(r) \/ RunStream(r) \/ StreamChunk(r)
               \/ AskFails(r) \/ EndStream(r) \/ Announce(r)
        PROVE  MessagesInv'
    <2>1. UNCHANGED <<store, snap>>
      BY <1>6 DEF SkipDuplicate, Refuse, UpdateFails, RunStream, StreamChunk, AskFails, EndStream,
                  Announce
    <2>2. \A o \in Requests : at'[o] \in {"spawned", "asking"} => at[o] \in {"spawned", "asking"}
      BY <1>0, <1>6 DEF SkipDuplicate, Refuse, UpdateFails, RunStream, StreamChunk, AskFails,
                        EndStream, Announce, Goto, TypeInv, TypeOK
    <2>. QED  BY <1>0, <2>1, <2>2, QuietOK
  <1>7. CASE Crash
    <2>1. \A o \in Requests : at'[o] \in {"spawned", "asking"} => at[o] \in {"spawned", "asking"}
      BY <1>0, <1>7 DEF Crash, InFlight, TypeInv, TypeOK
    <2>. QED  BY <1>0, <1>7, <2>1, QuietOK DEF Crash
  <1>8. CASE UNCHANGED vars
    BY <1>0, <1>8, QuietOK DEF vars
  <1>. QED  BY <1>1, <1>2, <1>3, <1>4, <1>5, <1>6, <1>7, <1>8 DEF Next, Step

(* Overlapping retries never store a message twice within reach of the      *)
(* guard, for any number of requests, failures and restarts.                *)
THEOREM NoMessageEchoed == Spec => []NoEchoedMessage
  <1>1. Spec => []MessagesInv
    BY InitMessagesInv, NextMessagesInv, PTL DEF Spec
  <1>2. MessagesInv => NoEchoedMessage
    BY DEF MessagesInv, NoEchoedMessage, RowOK
  <1>. QED  BY <1>1, <1>2, PTL

(* A reply stands right after its prompt in every row, however late it      *)
(* arrives and whatever was written meanwhile.                              *)
THEOREM RepliesFollowPrompts == Spec => []ReplyFollowsPrompt
  <1>1. Spec => []MessagesInv
    BY InitMessagesInv, NextMessagesInv, PTL DEF Spec
  <1>2. MessagesInv => ReplyFollowsPrompt
    BY DEF MessagesInv, ReplyFollowsPrompt, RowOK
  <1>. QED  BY <1>1, <1>2, PTL

-----------------------------------------------------------------------------
(* Streams.  What was started and not closed on the stream of a session is  *)
(* what its requests are streaming, and what was lost with the server.      *)

Streaming(s) ==
    {r \in Requests : at[r] \in {"asking", "replied"} /\ job[r].session = s /\ job[r].streaming}

AddsUp(s) ==
    /\ IsFiniteSet(Streaming(s))
    /\ Closed(s) + Cardinality(Streaming(s)) <= Started(s)
    /\ (\A r \in Of(s) : at[r] # "lost") => Closed(s) + Cardinality(Streaming(s)) = Started(s)

OnlyStreamsSpeak == \A r \in Requests : at[r] \in {"spawned", "replied"} => job[r].streaming

StreamsInv == TypeInv /\ OnlyStreamsSpeak /\ \A s \in Sessions : AddsUp(s)

LEMMA InitStreamsInv == Init => StreamsInv
  <1> SUFFICES ASSUME Init PROVE StreamsInv
    OBVIOUS
  <1>1. ASSUME NEW s \in Sessions PROVE AddsUp(s)
    <2>1. Streaming(s) = {} /\ Started(s) = 0 /\ Closed(s) = 0
      BY DEF Init, Streaming, Started, Closed, StreamType
    <2>. QED  BY <2>1, FS_EmptySet DEF AddsUp
  <1>. QED  BY <1>1, InitTypeInv DEF StreamsInv, OnlyStreamsSpeak, Init

(* Who is lost stays lost, and a step of a request leaves the others alone. *)
LEMMA CountsKept ==
    ASSUME StreamsInv, TypeInv', NEW s \in Sessions,
           \A r \in Requests : at[r] = "lost" => at'[r] = "lost" /\ job'[r] = job[r],
           Streaming(s)' = Streaming(s), sent'[s] = sent[s]
    PROVE  AddsUp(s)'
  <1>1. Closed(s)' = Closed(s) /\ Started(s)' = Started(s)
    BY DEF Closed, Started
  <1>2. (\A r \in Of(s)' : at'[r] # "lost") => \A r \in Of(s) : at[r] # "lost"
    BY DEF Of
  <1>3. PICK S : S = Streaming(s) /\ S = Streaming(s)'
    OBVIOUS
  <1>. QED  BY <1>1, <1>2, <1>3 DEF StreamsInv, AddsUp

(* One message of a type on the stream of session x. *)
LEMMA CountsMove ==
    ASSUME StreamsInv, TypeInv', NEW r \in Requests, NEW type \in StreamType,
           at[r] \notin {"new", "lost"}, at'[r] # "lost", Broadcast(r, type), job' = job,
           \A o \in Requests \ {r} : at'[o] = at[o],
           NEW S, S = Streaming(job[r].session),
           \/ type = "stream.start" /\ r \notin S /\ Streaming(job[r].session)' = S \cup {r}
           \/ type = "stream.chunk" /\ Streaming(job[r].session)' = S
           \/ /\ type \in {"stream.end", "stream.error"} /\ r \in S
              /\ Streaming(job[r].session)' = S \ {r}
    PROVE  AddsUp(job[r].session)'
  <1>1. PICK x \in Sessions : x = job[r].session
    BY DEF StreamsInv, TypeInv, RequestOK, Job
  <1>2. PICK n \in Nat, a \in Nat, b \in Nat :
          /\ n = Cardinality(S) /\ a = Started(x) /\ b = Closed(x) /\ IsFiniteSet(S)
    BY <1>1, FS_CardinalityType DEF StreamsInv, AddsUp, TypeInv, TypeOK, Started, Closed, StreamType
  <1>3. /\ b + n <= a
        /\ (\A o \in Of(x) : at[o] # "lost") => b + n = a
    BY <1>1, <1>2 DEF StreamsInv, AddsUp
  <1>4. (\A o \in Of(x)' : at'[o] # "lost") => \A o \in Of(x) : at[o] # "lost"
    BY DEF Of
  <1>5. \A other \in StreamType :
          sent'[x][other] = IF other = type THEN sent[x][other] + 1 ELSE sent[x][other]
    BY <1>1, BroadcastType DEF StreamsInv, TypeInv, TypeOK
  <1>6. sent[x] \in [StreamType -> Nat]
    BY DEF StreamsInv, TypeInv, TypeOK
  <1>7. CASE type = "stream.start"
    <2>1. Started(x)' = a + 1 /\ Closed(x)' = b
      BY <1>2, <1>5, <1>6, <1>7 DEF Started, Closed, StreamType
    <2>2. r \notin S /\ Streaming(x)' = S \cup {r}
      BY <1>1, <1>7
    <2>3. IsFiniteSet(S \cup {r}) /\ Cardinality(S \cup {r}) = n + 1
      BY <1>2, <2>2, FS_AddElement, Zenon
    <2>. QED  BY <1>1, <1>3, <1>4, <2>1, <2>2, <2>3 DEF AddsUp
  <1>8. CASE type = "stream.chunk"
    <2>1. Started(x)' = a /\ Closed(x)' = b
      BY <1>2, <1>5, <1>6, <1>8 DEF Started, Closed, StreamType
    <2>2. IsFiniteSet(Streaming(x)') /\ Cardinality(Streaming(x)') = n
      BY <1>1, <1>2, <1>8
    <2>. QED  BY <1>1, <1>3, <1>4, <2>1, <2>2 DEF AddsUp
  <1>9. CASE type \in {"stream.end", "stream.error"}
    <2>1. Started(x)' = a /\ Closed(x)' = b + 1
      BY <1>2, <1>5, <1>6, <1>9 DEF Started, Closed, StreamType
    <2>2. r \in S /\ Streaming(x)' = S \ {r}
      BY <1>1, <1>9
    <2>3. IsFiniteSet(S \ {r}) /\ Cardinality(S \ {r}) = n - 1
      BY <1>2, <2>2, FS_RemoveElement, Zenon
    <2>. QED  BY <1>1, <1>2, <1>3, <1>4, <2>1, <2>2, <2>3 DEF AddsUp
  <1>. QED  BY <1>7, <1>8, <1>9

(* A step of request r that says nothing on a stream and is not streaming,  *)
(* before it and after it, or is before it and after it.                    *)
LEMMA SilentStep ==
    ASSUME StreamsInv, TypeInv', OnlyStreamsSpeak', NEW r \in Requests, sent' = sent, at[r] # "lost",
           \A o \in Requests \ {r} : at'[o] = at[o] /\ job'[o] = job[o],
           \/ /\ at[r] \notin {"asking", "replied"} \/ ~job[r].streaming
              /\ at'[r] \notin {"asking", "replied"} \/ ~job'[r].streaming
           \/ /\ at[r] \in {"asking", "replied"} /\ at'[r] \in {"asking", "replied"}
              /\ job' = job
    PROVE  StreamsInv'
  <1>1. ASSUME NEW s \in Sessions PROVE AddsUp(s)'
    <2>1. Streaming(s)' = Streaming(s)
      BY DEF Streaming
    <2>. QED  BY <2>1, CountsKept
  <1>. QED  BY <1>1 DEF StreamsInv

(* A step of request r that sends a message on the stream of its session.   *)
LEMMA SpeakingStep ==
    ASSUME StreamsInv, TypeInv', OnlyStreamsSpeak', NEW r \in Requests, NEW type \in StreamType,
           job[r].streaming, Broadcast(r, type), job' = job,
           \A o \in Requests \ {r} : at'[o] = at[o],
           \/ type = "stream.start" /\ at[r] = "spawned" /\ at'[r] = "asking"
           \/ type = "stream.chunk" /\ at[r] = "asking" /\ at'[r] = "asking"
           \/ type = "stream.error" /\ at[r] = "asking" /\ at'[r] = "failed"
           \/ type = "stream.end" /\ at[r] = "replied" /\ at'[r] = "ok"
    PROVE  StreamsInv' /\ SpeaksWhileOpen
  <1>1. PICK x \in Sessions : x = job[r].session
    BY DEF StreamsInv, TypeInv, RequestOK, Job
  <1>2. PICK S : S = Streaming(x)
    OBVIOUS
  <1>3. \A o \in Requests : o \in Streaming(x)' <=> IF o = r THEN at'[r] \in {"asking", "replied"} ELSE o \in S
    BY <1>1, <1>2 DEF Streaming
  <1>4. r \in S <=> at[r] \in {"asking", "replied"}
    BY <1>1, <1>2 DEF Streaming
  <1>5. S \subseteq Requests /\ Streaming(x)' \subseteq Requests
    BY <1>2 DEF Streaming
  <1>6. AddsUp(x)'
    <2>1. \/ type = "stream.start" /\ r \notin S /\ Streaming(x)' = S \cup {r}
          \/ type = "stream.chunk" /\ Streaming(x)' = S
          \/ type \in {"stream.end", "stream.error"} /\ r \in S /\ Streaming(x)' = S \ {r}
      BY <1>3, <1>4, <1>5
    <2>2. AddsUp(job[r].session)'
      BY <1>1, <1>2, <2>1, CountsMove
    <2>. QED  BY <1>1, <2>2
  <1>7. \A s \in Sessions, other \in StreamType :
          sent'[s][other] = IF s = x /\ other = type THEN sent[s][other] + 1 ELSE sent[s][other]
    BY <1>1, BroadcastType DEF StreamsInv, TypeInv, TypeOK
  <1>8. ASSUME NEW s \in Sessions \ {x} PROVE AddsUp(s)'
    <2>1. Streaming(s)' = Streaming(s)
      BY <1>1 DEF Streaming
    <2>2. sent'[s] = sent[s]
      BY <1>1 DEF Broadcast, StreamsInv, TypeInv, TypeOK
    <2>. QED  BY <2>1, <2>2, CountsKept
  <1>9. SpeaksWhileOpen
    <2> SUFFICES ASSUME NEW s \in Sessions, NEW other \in StreamType \ {"stream.start"},
                        sent'[s][other] > sent[s][other]
                 PROVE  Closed(s) < Started(s)
      BY DEF SpeaksWhileOpen
    <2>1. s = x /\ other = type
      <3>1. sent[s][other] \in Nat
        BY DEF StreamsInv, TypeInv, TypeOK
      <3>. QED  BY <1>7, <3>1
    <2>2. r \in S
      BY <1>4, <2>1
    <2>3. IsFiniteSet(S) /\ Closed(x) + Cardinality(S) <= Started(x)
      BY <1>2 DEF StreamsInv, AddsUp
    <2>4. Cardinality(S) \in Nat /\ Cardinality(S) # 0
      BY <2>2, <2>3, FS_CardinalityType, FS_EmptySet
    <2>5. Closed(x) \in Nat /\ Started(x) \in Nat
      BY DEF StreamsInv, TypeInv, TypeOK, Closed, Started, StreamType
    <2>. QED  BY <2>1, <2>3, <2>4, <2>5
  <1>. QED  BY <1>6, <1>8, <1>9 DEF StreamsInv

LEMMA NothingSaid ==
    ASSUME TypeInv, sent' = sent
    PROVE  SpeaksWhileOpen
  BY DEF SpeaksWhileOpen, TypeInv, TypeOK

LEMMA NextStreamsInv == StreamsInv /\ [Next]_vars => StreamsInv' /\ SpeaksWhileOpen
  <1> SUFFICES ASSUME StreamsInv, [Next]_vars PROVE StreamsInv' /\ SpeaksWhileOpen
    OBVIOUS
  <1>0. TypeInv /\ TypeInv'
    BY NextTypeInv DEF StreamsInv
  <1>. USE DEF OnlyStreamsSpeak
  <1>1. ASSUME NEW r \in Requests,
               \/ StartSession(r) \/ FindByID(r) \/ SkipDuplicate(r) \/ Refuse(r) \/ UpdateFails(r)
               \/ EnterCheckpoint(r) \/ CompleteSession(r) \/ Announce(r)
        PROVE  StreamsInv' /\ SpeaksWhileOpen
    <2>1. /\ sent' = sent
          /\ \A o \in Requests \ {r} : at'[o] = at[o] /\ job'[o] = job[o]
          /\ at[r] \in {"new", "found", "announcing"}
          /\ at'[r] \in {"found", "announcing", "skipped", "error", "ok"}
      BY <1>0, <1>1 DEF StartSession, FindByID, SkipDuplicate, Refuse, UpdateFails, EnterCheckpoint,
                        CompleteSession, Transition, Announce, Goto, TypeInv, TypeOK
    <2>2. OnlyStreamsSpeak'
      BY <2>1 DEF StreamsInv
    <2>. QED  BY <1>0, <2>1, <2>2, SilentStep, NothingSaid
  <1>2. ASSUME NEW r \in Requests, StorePrompt(r) PROVE StreamsInv' /\ SpeaksWhileOpen
    <2>1. /\ sent' = sent
          /\ job' = job
          /\ \A o \in Requests \ {r} : at'[o] = at[o]
          /\ at[r] = "found"
          /\ at'[r] = IF job[r].streaming THEN "spawned" ELSE "asking"
      BY <1>0, <1>2 DEF StorePrompt, Goto, TypeInv, TypeOK
    <2>2. OnlyStreamsSpeak'
      BY <2>1 DEF StreamsInv
    <2>. QED  BY <1>0, <2>1, <2>2, SilentStep, NothingSaid
  <1>3. ASSUME NEW r \in Requests, RunStream(r) PROVE StreamsInv' /\ SpeaksWhileOpen
    <2>1. /\ Broadcast(r, "stream.start")
          /\ job' = job
          /\ \A o \in Requests \ {r} : at'[o] = at[o]
          /\ at[r] = "spawned"
          /\ at'[r] = "asking"
      BY <1>0, <1>3 DEF RunStream, Goto, TypeInv, TypeOK
    <2>2. OnlyStreamsSpeak' /\ job[r].streaming
      BY <2>1 DEF StreamsInv
    <2>. QED  BY <1>0, <2>1, <2>2, SpeakingStep DEF StreamType
  <1>4. ASSUME NEW r \in Requests, StreamChunk(r) PROVE StreamsInv' /\ SpeaksWhileOpen
    <2>1. Broadcast(r, "stream.chunk") /\ UNCHANGED <<job, at>> /\ at[r] = "asking" /\ job[r].streaming
      BY <1>4 DEF StreamChunk
    <2>2. OnlyStreamsSpeak'
      BY <2>1 DEF StreamsInv
    <2>. QED  BY <1>0, <2>1, <2>2, SpeakingStep DEF StreamType
  <1>5. ASSUME NEW r \in Requests, AskFails(r) PROVE StreamsInv' /\ SpeaksWhileOpen
    <2>1. /\ job' = job
          /\ \A o \in Requests \ {r} : at'[o] = at[o]
          /\ at[r] = "asking"
          /\ IF job[r].streaming
             THEN Broadcast(r, "stream.error") /\ at'[r] = "failed"
             ELSE sent' = sent /\ at'[r] = "error"
      BY <1>0, <1>5 DEF AskFails, Goto, TypeInv, TypeOK
    <2>2. OnlyStreamsSpeak'
      BY <2>1 DEF StreamsInv
    <2>3. CASE job[r].streaming
      BY <1>0, <2>1, <2>2, <2>3, SpeakingStep DEF StreamType
    <2>4. CASE ~job[r].streaming
      BY <1>0, <2>1, <2>2, <2>4, SilentStep, NothingSaid
    <2>. QED  BY <2>3, <2>4
  <1>6. ASSUME NEW r \in Requests, PersistReply(r) PROVE StreamsInv' /\ SpeaksWhileOpen
    <2>1. /\ UNCHANGED <<job, sent>>
          /\ \A o \in Requests \ {r} : at'[o] = at[o]
          /\ at[r] = "asking"
          /\ IF job[r].streaming THEN at'[r] = "replied" ELSE at'[r] \in {"ok", "error"}
      BY <1>0, <1>6 DEF PersistReply, Goto, TypeInv, TypeOK
    <2>2. OnlyStreamsSpeak'
      BY <2>1 DEF StreamsInv
    <2>. QED  BY <1>0, <2>1, <2>2, SilentStep, NothingSaid
  <1>7. ASSUME NEW r \in Requests, EndStream(r) PROVE StreamsInv' /\ SpeaksWhileOpen
    <2>1. /\ Broadcast(r, "stream.end")
          /\ job' = job
          /\ \A o \in Requests \ {r} : at'[o] = at[o]
          /\ at[r] = "replied"
          /\ at'[r] = "ok"
      BY <1>0, <1>7 DEF EndStream, Goto, TypeInv, TypeOK
    <2>2. OnlyStreamsSpeak' /\ job[r].streaming
      BY <2>1 DEF StreamsInv
    <2>. QED  BY <1>0, <2>1, <2>2, SpeakingStep DEF StreamType
  <1>8. CASE Crash
    <2>1. /\ UNCHANGED <<job, sent>>
          /\ \A r \in Requests : at'[r] = IF at[r] \in InFlight THEN "lost" ELSE at[r]
      BY <1>8 DEF Crash
    <2>2. OnlyStreamsSpeak'
      BY <2>1 DEF StreamsInv, InFlight
    <2>3. ASSUME NEW s \in Sessions PROVE AddsUp(s)'
      <3>1. Streaming(s)' = {}
        BY <2>1 DEF Streaming, InFlight
      <3>2. Closed(s)' = Closed(s) /\ Started(s)' = Started(s) /\ Closed(s) \in Nat /\ Started(s) \in Nat
        BY <1>0, <2>1 DEF Closed, Started, TypeInv, TypeOK, StreamType
      <3>3. IsFiniteSet(Streaming(s)) /\ Cardinality(Streaming(s)) \in Nat
        BY FS_CardinalityType DEF StreamsInv, AddsUp
      <3>4. ASSUME \A r \in Of(s)' : at'[r] # "lost"
            PROVE  Streaming(s) = {} /\ \A r \in Of(s) : at[r] # "lost"
        BY <2>1, <3>4 DEF Of, Streaming, InFlight
      <3>5. Closed(s) <= Started(s)
        BY <3>2, <3>3 DEF StreamsInv, AddsUp
      <3>6. (\A r \in Of(s)' : at'[r] # "lost") => Closed(s) = Started(s)
        BY <3>2, <3>4, FS_EmptySet DEF StreamsInv, AddsUp
      <3>. QED  BY <3>1, <3>2, <3>5, <3>6, FS_EmptySet DEF AddsUp
    <2>. QED  BY <1>0, <2>1, <2>2, <2>3, NothingSaid DEF StreamsInv
  <1>9. CASE UNCHANGED vars
    <2>1. sent' = sent /\ at' = at /\ job' = job
      BY <1>9 DEF vars
    <2>2. OnlyStreamsSpeak' /\ \A s \in Sessions : Streaming(s)' = Streaming(s)
      BY <2>1 DEF StreamsInv, Streaming
    <2>. QED  BY <1>0, <2>1, <2>2, CountsKept, NothingSaid DEF StreamsInv
  <1>. QED  BY <1>1, <1>2, <1>3, <1>4, <1>5, <1>6, <1>7, <1>8, <1>9 DEF Next, Step

(* However many requests stream on a session's one stream, every message    *)
(* but a start comes while something started is not closed, and everything  *)
(* started is closed once no request of the session is under way or lost.   *)
THEOREM EveryStreamAddsUp == Spec => StreamsAddUp
  <1>1. Spec => []StreamsInv /\ [][SpeaksWhileOpen]_vars
    BY InitStreamsInv, NextStreamsInv, PTL DEF Spec
  <1>2. StreamsInv => \A s \in Sessions : Settled(s) => Closed(s) = Started(s)
    <2> SUFFICES ASSUME StreamsInv, NEW s \in Sessions, Settled(s) PROVE Closed(s) = Started(s)
      OBVIOUS
    <2>1. Streaming(s) = {} /\ \A r \in Of(s) : at[r] # "lost"
      BY DEF Settled, Of, Streaming, InFlight
    <2>2. Closed(s) \in Nat
      BY DEF StreamsInv, TypeInv, TypeOK, Closed, StreamType
    <2>. QED  BY <2>1, <2>2, FS_EmptySet DEF StreamsInv, AddsUp
  <1>. QED  BY <1>1, <1>2, PTL DEF StreamsAddUp

-----------------------------------------------------------------------------
(* The sessions implement ConversationPromise.  A request that has stored   *)
(* its prompt works on a copy that is not terminal, so that its reply,      *)
(* written over the row it has read, is said in an open session.            *)

OpenInv ==
    /\ TypeInv
    /\ \A r \in Requests : at[r] \in {"spawned", "asking"} => ~IsTerminal(snap[r].status)

LEMMA InitOpenInv == Init => OpenInv
  BY InitTypeInv DEF Init, OpenInv

(* What the promise sees of a row. *)
StatusOf(row) == IF row = None THEN "absent" ELSE row.status

MessagesOf(row) == IF row = None THEN <<>> ELSE row.messages

LEMMA WriteLapses ==
    ASSUME TypeInv, NEW r \in Requests, NEW row, Write(r, row), NEW s \in Sessions, job[r].session = s,
           store[s] # snap[r]
    PROVE  Promise!Next
  <1>1. overwritten' = overwritten \cup {s} /\ \A o \in Sessions \ {s} : store'[o] = store[o]
    BY DEF Write, TypeInv, TypeOK
  <1>2. Promise!Lapse(s)
    BY <1>1 DEF Promise!Lapse
  <1>. QED  BY <1>2 DEF Promise!Next

LEMMA WriteStands ==
    ASSUME TypeInv, NEW r \in Requests, NEW row \in Row, Write(r, row),
           NEW s \in Sessions, job[r].session = s, snap[r] \in Row, store[s] = snap[r]
    PROVE  /\ UNCHANGED overwritten
           /\ StatusOf(store[s]) = snap[r].status
           /\ MessagesOf(store[s]) = snap[r].messages
           /\ StatusOf(store'[s]) = row.status
           /\ MessagesOf(store'[s]) = row.messages
           /\ \A o \in Sessions \ {s} : store'[o] = store[o]
  <1>1. row # None /\ snap[r] # None
    BY SessionAssumption
  <1>2. /\ UNCHANGED overwritten
        /\ store'[s] = row
        /\ \A o \in Sessions \ {s} : store'[o] = store[o]
    BY DEF Write, TypeInv, TypeOK
  <1>. QED  BY <1>1, <1>2 DEF StatusOf, MessagesOf

LEMMA WriteSays ==
    ASSUME TypeInv, NEW r \in Requests, NEW m \in Prompt \cup Reply,
           Write(r, AddMessage(snap[r], m)),
           NEW s \in Sessions, job[r].session = s, snap[r] \in Row, ~IsTerminal(snap[r].status)
    PROVE  Promise!Next
  <1>. DEFINE new == AddMessage(snap[r], m)
  <1>1. new \in Row /\ new.messages = Append(snap[r].messages, m)
    BY AddMessageType
  <1>2. new.status = snap[r].status /\ snap[r].status \in {"active", "checkpoint"}
    BY DEF AddMessage, Row, SessionStatus, IsTerminal
  <1>. HIDE DEF new
  <1>3. CASE store[s] = snap[r]
    <2>1. /\ UNCHANGED overwritten
          /\ StatusOf(store[s]) \in {"active", "checkpoint"}
          /\ StatusOf(store'[s]) = StatusOf(store[s])
          /\ MessagesOf(store'[s]) = Append(MessagesOf(store[s]), m)
          /\ \A o \in Sessions \ {s} : store'[o] = store[o]
      BY <1>1, <1>2, <1>3, WriteStands DEF new
    <2>2. Promise!Open(s)
      BY <2>1 DEF Promise!Open, StatusOf
    <2>3. [o \in Sessions |-> MessagesOf(store'[o])]
            = [[o \in Sessions |-> MessagesOf(store[o])]
                  EXCEPT ![s] = Append(MessagesOf(store[s]), m)]
      BY <2>1
    <2>4. [o \in Sessions |-> StatusOf(store'[o])] = [o \in Sessions |-> StatusOf(store[o])]
      BY <2>1
    <2>5. Promise!Say(s)
      BY <2>1, <2>2, <2>3, <2>4 DEF Promise!Say, StatusOf, MessagesOf
    <2>. QED  BY <2>5 DEF Promise!Next
  <1>4. CASE store[s] # snap[r]
    BY <1>4, WriteLapses DEF new
  <1>. QED  BY <1>3, <1>4

LEMMA WriteAdvances ==
    ASSUME TypeInv, NEW r \in Requests, NEW status \in {"checkpoint", "completed"},
           Write(r, [snap[r] EXCEPT !.status = status]),
           NEW s \in Sessions, job[r].session = s, snap[r] \in Row, ~IsTerminal(snap[r].status),
           status = "checkpoint" => snap[r].status = "active"
    PROVE  Promise!Next
  <1>. DEFINE new == [snap[r] EXCEPT !.status = status]
  <1>1. /\ new \in Row /\ new.messages = snap[r].messages /\ new.status = status
        /\ snap[r].status \in {"active", "checkpoint"}
    BY DEF Row, SessionStatus, IsTerminal
  <1>2. Write(r, new)
    OBVIOUS
  <1>. HIDE DEF new
  <1>3. CASE store[s] = snap[r]
    <2>1. /\ UNCHANGED overwritten
          /\ StatusOf(store[s]) = snap[r].status
          /\ StatusOf(store'[s]) = status
          /\ MessagesOf(store'[s]) = MessagesOf(store[s])
          /\ \A o \in Sessions \ {s} : store'[o] = store[o]
      BY <1>1, <1>2, <1>3, WriteStands
    <2>2. [o \in Sessions |-> MessagesOf(store'[o])] = [o \in Sessions |-> MessagesOf(store[o])]
      BY <2>1
    <2>3. [o \in Sessions |-> StatusOf(store'[o])]
            = [[o \in Sessions |-> StatusOf(store[o])] EXCEPT ![s] = status]
      BY <2>1
    <2>4. Promise!Advance(s)
      BY <1>1, <2>1, <2>2, <2>3 DEF Promise!Advance, Promise!Open, StatusOf, MessagesOf
    <2>. QED  BY <2>4 DEF Promise!Next
  <1>4. CASE store[s] # snap[r]
    BY <1>2, <1>4, WriteLapses
  <1>. QED  BY <1>3, <1>4

(* A step of request r that leaves it without a copy to reply from, or with *)
(* one that is not terminal.                                                *)
LEMMA OwnOpenStep ==
    ASSUME OpenInv, TypeInv', NEW r \in Requests,
           at'[r] \in {"spawned", "asking"} => ~IsTerminal(snap'[r].status),
           \A o \in Requests \ {r} : at'[o] = at[o] /\ snap'[o] = snap[o]
    PROVE  OpenInv'
  BY DEF OpenInv

LEMMA NextOpenInv == OpenInv /\ [Next]_vars => OpenInv'
  <1> SUFFICES ASSUME OpenInv, [Next]_vars PROVE OpenInv'
    OBVIOUS
  <1>0. TypeInv /\ TypeInv'
    BY NextTypeInv DEF OpenInv
  <1>1. ASSUME NEW r \in Requests, StartSession(r) \/ FindByID(r) PROVE OpenInv'
    <2>1. /\ at'[r] \in {"announcing", "found"}
          /\ \A o \in Requests \ {r} : at'[o] = at[o] /\ snap'[o] = snap[o]
      BY <1>0, <1>1 DEF StartSession, FindByID, Goto, TypeInv, TypeOK
    <2>. QED  BY <1>0, <2>1, OwnOpenStep
  <1>2. ASSUME NEW r \in Requests, SkipDuplicate(r) \/ Refuse(r) \/ UpdateFails(r)
        PROVE  OpenInv'
    <2>1. /\ at'[r] \in {"skipped", "error"}
          /\ \A o \in Requests \ {r} : at'[o] = at[o] /\ snap'[o] = snap[o]
      BY <1>0, <1>2 DEF SkipDuplicate, Refuse, UpdateFails, Goto, TypeInv, TypeOK
    <2>. QED  BY <1>0, <2>1, OwnOpenStep
  <1>3. ASSUME NEW r \in Requests, StorePrompt(r) PROVE OpenInv'
    <2>1. /\ snap'[r].status = snap[r].status
          /\ \A o \in Requests \ {r} : at'[o] = at[o] /\ snap'[o] = snap[o]
      BY <1>0, <1>3 DEF StorePrompt, Write, AddMessage, Goto, TypeInv, TypeOK, RequestOK, Row
    <2>2. ~IsTerminal(snap[r].status)
      BY <1>3 DEF StorePrompt, Allowed
    <2>. QED  BY <1>0, <2>1, <2>2, OwnOpenStep
  <1>4. ASSUME NEW r \in Requests, RunStream(r) \/ StreamChunk(r) PROVE OpenInv'
    <2>1. /\ at[r] \in {"spawned", "asking"}
          /\ snap' = snap
          /\ \A o \in Requests \ {r} : at'[o] = at[o]
      BY <1>0, <1>4 DEF RunStream, StreamChunk, Goto, TypeInv, TypeOK
    <2>2. ~IsTerminal(snap[r].status)
      BY <2>1 DEF OpenInv
    <2>. QED  BY <1>0, <2>1, <2>2, OwnOpenStep
  <1>5. ASSUME NEW r \in Requests,
               AskFails(r) \/ PersistReply(r) \/ EndStream(r) \/ Announce(r)
        PROVE  OpenInv'
    <2>1. /\ at'[r] \in {"failed", "error", "replied", "ok"}
          /\ \A o \in Requests \ {r} : at'[o] = at[o] /\ snap'[o] = snap[o]
      BY <1>0, <1>5
         DEF AskFails, PersistReply, EndStream, Announce, Write, Goto, TypeInv, TypeOK
    <2>. QED  BY <1>0, <2>1, OwnOpenStep
  <1>6. ASSUME NEW r \in Requests, EnterCheckpoint(r) \/ CompleteSession(r) PROVE OpenInv'
    <2>1. /\ at'[r] = "announcing"
          /\ \A o \in Requests \ {r} : at'[o] = at[o] /\ snap'[o] = snap[o]
      BY <1>0, <1>6
         DEF EnterCheckpoint, CompleteSession, Transition, Write, Goto, TypeInv, TypeOK
    <2>. QED  BY <1>0, <2>1, OwnOpenStep
  <1>7. CASE Crash
    BY <1>0, <1>7 DEF Crash, OpenInv, InFlight
  <1>8. CASE UNCHANGED vars
    BY <1>0, <1>8 DEF vars, OpenInv
  <1>. QED  BY <1>1, <1>2, <1>3, <1>4, <1>5, <1>6, <1>7, <1>8 DEF Next, Step

(* The sessions keep ConversationPromise: messages are only ever appended,  *)
(* a session is checkpointed at most once and nothing follows its           *)
(* completion, whatever the requests, the failures and the restarts, until  *)
(* a request overwrites a row it has not read.                              *)
THEOREM SessionsKeepPromise == Spec => KeepsPromise
  <1>1. Init => Promise!Init
    <2> SUFFICES ASSUME Init PROVE Promise!Init
      OBVIOUS
    <2>1. ASSUME NEW s \in Sessions
          PROVE  StatusOf(store[s]) \in {"absent", "active"} /\ MessagesOf(store[s]) = <<>>
      BY DEF Init, NewSession, StatusOf, MessagesOf
    <2>. QED  BY <2>1 DEF Init, Promise!Init, StatusOf, MessagesOf
  <1>2. OpenInv /\ [Next]_vars => [Promise!Next]_(Promise!promiseVars)
    <2> SUFFICES ASSUME OpenInv, [Next]_vars PROVE Promise!Next \/ UNCHANGED <<store, overwritten>>
      BY DEF Promise!promiseVars
    <2>0. TypeInv
      BY DEF OpenInv
    <2>1. ASSUME NEW r \in Requests, StartSession(r) PROVE Promise!Next
      <3>1. PICK s \in Sessions : store[s] = None /\ store' = [store EXCEPT ![s] = NewSession]
        BY <2>1 DEF StartSession
      <3>2. UNCHANGED overwritten
        BY <2>1 DEF StartSession
      <3>3. NewSession # None
        BY NewSessionType, SessionAssumption
      <3>4. [o \in Sessions |-> MessagesOf(store'[o])] = [o \in Sessions |-> MessagesOf(store[o])]
        BY <2>0, <3>1, <3>3 DEF MessagesOf, NewSession, TypeInv, TypeOK
      <3>5. [o \in Sessions |-> StatusOf(store'[o])]
              = [[o \in Sessions |-> StatusOf(store[o])] EXCEPT ![s] = "active"]
        BY <2>0, <3>1, <3>3 DEF StatusOf, NewSession, TypeInv, TypeOK
      <3>6. Promise!Start(s)
        BY <3>1, <3>2, <3>4, <3>5 DEF Promise!Start, StatusOf, MessagesOf
      <3>. QED  BY <3>6 DEF Promise!Next
    <2>2. ASSUME NEW r \in Requests, StorePrompt(r) PROVE Promise!Next
      <3>. DEFINE m == [role |-> "user", by |-> r, text |-> job[r].text]
      <3>1. /\ job[r] \in Job
            /\ job[r].op = "say"
            /\ snap[r] \in Row
            /\ ~IsTerminal(snap[r].status)
            /\ Write(r, AddMessage(snap[r], m))
        BY <2>0, <2>2 DEF StorePrompt, Allowed, TypeInv, RequestOK
      <3>2. job[r].session \in Sessions /\ m \in Prompt
        BY <3>1 DEF Job, Prompt
      <3>3. PICK s \in Sessions : job[r].session = s
        BY <3>2
      <3>. HIDE DEF m
      <3>. QED  BY <2>0, <3>1, <3>2, <3>3, WriteSays
    <2>3. ASSUME NEW r \in Requests, PersistReply(r)
          PROVE  Promise!Next \/ UNCHANGED <<store, overwritten>>
      <3>. DEFINE m == [role |-> "assistant", by |-> r]
      <3>1. /\ job[r] \in Job
            /\ job[r].op = "say"
            /\ snap[r] \in Row
            /\ ~IsTerminal(snap[r].status)
            /\ Write(r, AddMessage(snap[r], m)) \/ UNCHANGED <<store, overwritten>>
        BY <2>0, <2>3 DEF PersistReply, OpenInv, TypeInv, RequestOK
      <3>2. job[r].session \in Sessions /\ m \in Reply
        BY <3>1 DEF Job, Reply
      <3>3. PICK s \in Sessions : job[r].session = s
        BY <3>2
      <3>. HIDE DEF m
      <3>. QED  BY <2>0, <3>1, <3>2, <3>3, WriteSays
    <2>4. ASSUME NEW r \in Requests, EnterCheckpoint(r) \/ CompleteSession(r)
          PROVE  Promise!Next
      <3>1. PICK status \in {"checkpoint", "completed"} :
              /\ Write(r, [snap[r] EXCEPT !.status = status])
              /\ status = "checkpoint" => snap[r].status = "active"
              /\ ~IsTerminal(snap[r].status)
        BY <2>4 DEF EnterCheckpoint, CompleteSession, Transition, Allowed, IsTerminal
      <3>2. job[r] \in Job /\ snap[r] \in Row
        BY <2>0, <2>4
           DEF EnterCheckpoint, CompleteSession, Transition, TypeInv, RequestOK
      <3>3. PICK s \in Sessions : job[r].session = s
        BY <3>2 DEF Job
      <3>. QED  BY <2>0, <3>1, <3>2, <3>3, WriteAdvances
    <2>5. ASSUME NEW r \in Requests,
                 \/ FindByID(r) \/ SkipDuplicate(r) \/ Refuse(r) \/ UpdateFails(r)
                 \/ RunStream(r) \/ StreamChunk(r) \/ AskFails(r) \/ EndStream(r) \/ Announce(r)
          PROVE  UNCHANGED <<store, overwritten>>
      BY <2>5 DEF FindByID, SkipDuplicate, Refuse, UpdateFails, RunStream, StreamChunk,
                  AskFails, EndStream, Announce
    <2>6. CASE Crash
      BY <2>6 DEF Crash
    <2>7. CASE UNCHANGED vars
      BY <2>7 DEF vars
    <2>. QED  BY <2>1, <2>2, <2>3, <2>4, <2>5, <2>6, <2>7 DEF Next, Step
  <1>. QED  BY <1>1, <1>2, InitOpenInv, NextOpenInv, PTL DEF Spec, KeepsPromise, Promise!Spec

-----------------------------------------------------------------------------
(* A text that was cut to a budget of tokens is estimated within it, for    *)
(* all texts and budgets: the two roundings, four tokens for three words    *)
(* and back, never add up against each other.                               *)
THEOREM TruncationFits ==
    ASSUME NEW words, NEW budget \in Nat
    PROVE  EstimateTokens(TruncateToTokenBudget(words, budget)) <= budget
  <1>. DEFINE kept == (budget * 3) \div 4
  <1>1. kept \in Nat /\ 4 * kept <= 3 * budget
    OBVIOUS
  <1>2. EstimateTokens(kept) <= budget
    <2>. HIDE DEF kept
    <2>1. (kept * 4 + 2) \div 3 <= budget
      BY <1>1
    <2>. QED  BY <2>1, <1>1 DEF EstimateTokens
  <1>. QED  BY <1>2 DEF TruncateToTokenBudget

-----------------------------------------------------------------------------
(* Induction over numbers, stated with sets.                                *)

(* A set of natural numbers has a least element. *)
LEMMA LeastNatural ==
    ASSUME NEW S \in SUBSET Nat, S # {}
    PROVE  \E x \in S : \A y \in S : x <= y
<1> DEFINE T == {0 .. x : x \in S}
<1>1. \A x \in Nat : IsFiniteSet(0 .. x) /\ 0 .. x \subseteq Nat
  BY FS_Interval
<1>2. T \subseteq FiniteSubsetsOf(Nat)
  BY <1>1 DEF FiniteSubsetsOf
<1>3. T # {}
  OBVIOUS
<1> HIDE DEF T
<1>4. PICK X \in T : \A Y \in T : ~ (<<Y, X>> \in StrictSubsetOrdering(Nat))
  BY <1>2, <1>3, FS_StrictSubsetOrderingWellFounded, WFMin
<1> USE DEF T
<1>5. PICK x \in S : X = 0 .. x
  OBVIOUS
<1>6. ASSUME NEW y \in S, y < x
      PROVE  FALSE
  <2>1. 0 .. y \in T
    OBVIOUS
  <2>2. 0 .. y \subseteq 0 .. x /\ 0 .. y # 0 .. x
    <3>1. x \in 0 .. x /\ x \notin 0 .. y
      BY <1>6
    <3>2. 0 .. y \subseteq 0 .. x
      BY <1>6
    <3> QED BY <3>1, <3>2
  <2>3. 0 .. y \subseteq Nat /\ 0 .. x \subseteq Nat
    OBVIOUS
  <2>4. <<0 .. y, 0 .. x>> \in StrictSubsetOrdering(Nat)
    BY <2>2, <2>3 DEF StrictSubsetOrdering
  <2> QED BY <1>4, <1>5, <2>1, <2>4
<1> QED BY <1>6

(* A set that holds 0 and every successor of a member holds all numbers.    *)
LEMMA InductionOnSets ==
    ASSUME NEW S \in SUBSET Nat, 0 \in S, \A i \in S : i + 1 \in S
    PROVE  S = Nat
<1> SUFFICES ASSUME Nat \ S # {} PROVE FALSE
  OBVIOUS
<1>1. PICK x \in Nat \ S : \A y \in Nat \ S : x <= y
  BY LeastNatural
<1>2. x - 1 \in Nat /\ x - 1 \notin Nat \ S
  BY <1>1
<1> QED BY <1>1, <1>2

(* A step can be iterated any number of times. *)
Iterates(f, a, step, n) == f[0] = a /\ \A i \in 1 .. n : f[i] = step[<<i, f[i - 1]>>]

LEMMA IteratesExist ==
    ASSUME NEW D, NEW a \in D, NEW step \in [Nat \X D -> D], NEW n \in Nat
    PROVE  \E f \in [0 .. n -> D] : Iterates(f, a, step, n)
<1> DEFINE S == {m \in Nat : \E f \in [0 .. m -> D] : Iterates(f, a, step, m)}
<1>1. 0 \in S
  <2> DEFINE f == [i \in 0 .. 0 |-> a]
  <2>1. f \in [0 .. 0 -> D] /\ f[0] = a
    OBVIOUS
  <2> HIDE DEF f
  <2>2. Iterates(f, a, step, 0)
    BY <2>1 DEF Iterates
  <2> QED BY <2>1, <2>2
<1>2. ASSUME NEW m \in S PROVE m + 1 \in S
  <2>1. PICK f \in [0 .. m -> D] : Iterates(f, a, step, m)
    OBVIOUS
  <2> DEFINE g == [i \in 0 .. m + 1 |-> IF i = m + 1 THEN step[<<m + 1, f[m]>>] ELSE f[i]]
  <2>2. g \in [0 .. m + 1 -> D] /\ g[0] = a
    BY <2>1 DEF Iterates
  <2>3. ASSUME NEW i \in 1 .. m + 1 PROVE g[i] = step[<<i, g[i - 1]>>]
    <3>1. g[i - 1] = f[i - 1]
      OBVIOUS
    <3>2. g[i] = IF i = m + 1 THEN step[<<m + 1, f[m]>>] ELSE f[i]
      OBVIOUS
    <3> HIDE DEF g
    <3>3. CASE i = m + 1
      BY <3>1, <3>2, <3>3
    <3>4. CASE i # m + 1
      BY <2>1, <3>1, <3>2, <3>4 DEF Iterates
    <3> QED BY <3>3, <3>4
  <2> HIDE DEF g
  <2>4. Iterates(g, a, step, m + 1)
    BY <2>2, <2>3 DEF Iterates
  <2> QED BY <2>2, <2>4
<1> HIDE DEF S
<1>3. S = Nat
  BY <1>1, <1>2, InductionOnSets DEF S
<1> QED BY <1>3 DEF S

-----------------------------------------------------------------------------
(* The walk of slidingWindowHistory from the end, step by step.             *)
Walks(start, messages, budget) ==
    LET n == Len(messages)
    IN  /\ start[0] = 1
        /\ \A i \in 1 .. n : start[i] = IF ~Fits(messages, i, budget) /\ i < n
                                        THEN i + 1 ELSE start[i - 1]

LEMMA WindowWalk ==
    ASSUME NEW messages, NEW budget, Len(messages) \in Nat
    PROVE  \E start \in [0 .. Len(messages) -> Nat] :
              /\ Walks(start, messages, budget)
              /\ slidingWindowHistory(messages, budget)
                     = SubSeq(messages, start[Len(messages)], Len(messages))
<1> DEFINE n == Len(messages)
           body(g) == [i \in 0 .. n |->
                          IF i = 0 THEN 1
                          ELSE IF ~Fits(messages, i, budget) /\ i < n THEN i + 1
                          ELSE g[i - 1]]
           start[i \in 0 .. n] == IF i = 0 THEN 1
                                  ELSE IF ~Fits(messages, i, budget) /\ i < n THEN i + 1
                                  ELSE start[i - 1]
<1>1. \E f \in [0 .. n -> Nat] : f = body(f)
  <2> HIDE DEF start
  <2> DEFINE step == [x \in Nat \X Nat |-> IF ~Fits(messages, x[1], budget) /\ x[1] < n
                                           THEN x[1] + 1 ELSE x[2]]
  <2>1. step \in [Nat \X Nat -> Nat] /\ 1 \in Nat
    OBVIOUS
  <2>2. ASSUME NEW i \in Nat, NEW v \in Nat
        PROVE  step[<<i, v>>] = IF ~Fits(messages, i, budget) /\ i < n THEN i + 1 ELSE v
    OBVIOUS
  <2> HIDE DEF step
  <2>3. PICK f \in [0 .. n -> Nat] : Iterates(f, 1, step, n)
    BY <2>1, IteratesExist
  <2>4. ASSUME NEW i \in 1 .. n
        PROVE  f[i] = IF ~Fits(messages, i, budget) /\ i < n THEN i + 1 ELSE f[i - 1]
    <3>1. f[i] = step[<<i, f[i - 1]>>] /\ i \in Nat /\ f[i - 1] \in Nat
      BY <2>3 DEF Iterates
    <3> QED BY <2>2, <3>1
  <2>5. f = body(f)
    BY <2>3, <2>4 DEF Iterates
  <2> QED BY <2>5
<1>2. start = CHOOSE g : g = body(g)
  BY Zenon
<1>3. slidingWindowHistory(messages, budget) = SubSeq(messages, start[n], n)
  BY Zenon DEF slidingWindowHistory
<1> HIDE DEF body, start
<1>4. start = body(start)
  BY <1>1, <1>2, Zenon
<1> USE DEF body
<1>5. Walks(start, messages, budget)
  BY <1>4 DEF Walks
<1>6. start \in [0 .. n -> Nat]
  <2> DEFINE S == {i \in Nat : i <= n => start[i] \in Nat}
  <2>1. 0 \in S
    BY <1>5 DEF Walks
  <2>2. ASSUME NEW i \in S PROVE i + 1 \in S
    BY <1>5 DEF Walks
  <2>3. S = Nat
    <3> HIDE DEF S
    <3> QED BY <2>1, <2>2, InductionOnSets DEF S
  <2>4. \A i \in 0 .. n : start[i] \in Nat
    BY <2>3
  <2>5. start = [i \in 0 .. n |-> start[i]]
    BY <1>4
  <2> QED BY <2>4, <2>5
<1> QED BY <1>3, <1>5, <1>6

(* The window ends with the last message, takes what fits, and stops where  *)
(* the next message does not fit; it is only ever too long by that last one.*)
LEMMA WindowFits ==
    ASSUME NEW messages, NEW budget, NEW n \in Nat \ {0}, n = Len(messages)
    PROVE  \E s \in 1 .. n :
              /\ slidingWindowHistory(messages, budget) = SubSeq(messages, s, n)
              /\ s < n => Fits(messages, s, budget)
              /\ s > 1 => ~Fits(messages, s - 1, budget)
<1>0. PICK start \in [0 .. n -> Nat] :
          /\ Walks(start, messages, budget)
          /\ slidingWindowHistory(messages, budget) = SubSeq(messages, start[n], n)
  BY WindowWalk
<1>1. /\ start[0] = 1
      /\ \A i \in 1 .. n : start[i] = IF ~Fits(messages, i, budget) /\ i < n
                                      THEN i + 1 ELSE start[i - 1]
  BY <1>0 DEF Walks
<1> DEFINE Good(i) == /\ start[i] \in 1 .. i + 1
                      /\ start[i] <= i => Fits(messages, start[i], budget)
                      /\ start[i] > 1 => ~Fits(messages, start[i] - 1, budget)
           S == {i \in Nat : i < n => Good(i)}
<1>2. 0 \in S
  BY <1>1
<1>3. ASSUME NEW i \in S PROVE i + 1 \in S
  <2> SUFFICES ASSUME i + 1 < n PROVE Good(i + 1)
    OBVIOUS
  <2>1. Good(i)
    OBVIOUS
  <2>2. start[i + 1] = IF ~Fits(messages, i + 1, budget) THEN i + 2 ELSE start[i]
    BY <1>1
  <2>3. CASE Fits(messages, i + 1, budget)
    <3>1. start[i + 1] = start[i]
      BY <2>2, <2>3
    <3>2. CASE start[i] = i + 1
      BY <2>1, <2>3, <3>1, <3>2
    <3>3. CASE start[i] <= i
      BY <2>1, <2>3, <3>1, <3>3
    <3> QED BY <2>1, <3>2, <3>3
  <2>4. CASE ~Fits(messages, i + 1, budget)
    BY <2>2, <2>4
  <2> QED BY <2>3, <2>4
<1>4. S = Nat
  <2> HIDE DEF S
  <2> QED BY <1>2, <1>3, InductionOnSets DEF S
<1>5. Good(n - 1)
  BY <1>4
<1>6. start[n] = start[n - 1]
  BY <1>1
<1>7. start[n] \in 1 .. n
  BY <1>5, <1>6
<1>8. /\ start[n] < n => Fits(messages, start[n], budget)
      /\ start[n] > 1 => ~Fits(messages, start[n] - 1, budget)
  BY <1>5, <1>6
<1> HIDE DEF Good, S
<1> QED BY <1>0, <1>7, <1>8

-----------------------------------------------------------------------------
(* What a request is about to ask ends with its own prompt. *)
PromptOf(r) == [role |-> "user", by |-> r, text |-> job[r].text]

EndsWithOwn(r) ==
    LET messages == snap[r].messages
    IN  messages # <<>> /\ messages[Len(messages)] = PromptOf(r)

PromptsLast == \A r \in Requests : at[r] \in {"spawned", "asking"} => EndsWithOwn(r)

LEMMA AppendEndsWith ==
    ASSUME NEW S, NEW s \in Seq(S), NEW m \in S
    PROVE  Append(s, m) # <<>> /\ Append(s, m)[Len(Append(s, m))] = m
<1>1. Len(Append(s, m)) = Len(s) + 1 /\ Append(s, m)[Len(s) + 1] = m
  OBVIOUS
<1> QED BY <1>1

LEMMA PromptsLastKept ==
    ASSUME TypeInv, PromptsLast, [Next]_vars
    PROVE  PromptsLast'
<1> USE DEF TypeInv, TypeOK, PromptsLast
<1>1. ASSUME NEW o \in Requests, at'[o] \in {"spawned", "asking"}, at[o] \in {"spawned", "asking"},
             snap'[o] = snap[o], job'[o] = job[o]
      PROVE  EndsWithOwn(o)'
  <2>1. EndsWithOwn(o)
    BY <1>1
  <2> QED BY <1>1, <2>1 DEF EndsWithOwn, PromptOf
<1>2. ASSUME NEW r \in Requests, StorePrompt(r) PROVE PromptsLast'
  <2>1. /\ at[r] = "found" /\ job[r].op = "say" /\ job' = job
        /\ Write(r, AddMessage(snap[r], PromptOf(r)))
        /\ \A o \in Requests \ {r} : at'[o] = at[o]
    BY <1>2 DEF StorePrompt, Goto, PromptOf
  <2>2. snap[r] \in Row /\ PromptOf(r) \in Prompt
    BY <2>1 DEF RequestOK, Job, Prompt, PromptOf
  <2>3. /\ snap[r].messages \in Seq(Prompt \cup Reply)
        /\ AddMessage(snap[r], PromptOf(r)).messages = Append(snap[r].messages, PromptOf(r))
    BY <2>2, AddMessageType
  <2>4. snap' = [snap EXCEPT ![r] = AddMessage(snap[r], PromptOf(r))]
    BY <2>1 DEF Write
  <2> HIDE DEF PromptOf
  <2>5. snap'[r].messages = Append(snap[r].messages, PromptOf(r))
    BY <2>3, <2>4
  <2>6. /\ snap'[r].messages # <<>>
        /\ snap'[r].messages[Len(snap'[r].messages)] = PromptOf(r)
    <3>1. PromptOf(r) \in Prompt \cup Reply
      BY <2>2
    <3>2. PICK new : new = snap'[r].messages
      OBVIOUS
    <3>3. new = Append(snap[r].messages, PromptOf(r))
      BY <2>5, <3>2
    <3>4. new # <<>> /\ new[Len(new)] = PromptOf(r)
      <4>1. PICK old, m : old = snap[r].messages /\ m = PromptOf(r)
        OBVIOUS
      <4>2. old \in Seq(Prompt \cup Reply) /\ m \in Prompt \cup Reply
        BY <2>3, <3>1, <4>1
      <4>3. Append(old, m) # <<>> /\ Append(old, m)[Len(Append(old, m))] = m
        BY ONLY <4>2, AppendEndsWith
      <4> QED BY <3>3, <4>1, <4>3
    <3> QED BY <3>2, <3>4
  <2>7. PromptOf(r)' = PromptOf(r)
    BY <2>1 DEF PromptOf
  <2>8. EndsWithOwn(r)'
    BY <2>6, <2>7 DEF EndsWithOwn
  <2>9. \A o \in Requests \ {r} : snap'[o] = snap[o]
    BY <2>4
  <2> QED BY <1>1, <2>1, <2>8, <2>9
<1>3. ASSUME NEW r \in Requests, StartSession(r) \/ FindByID(r) PROVE PromptsLast'
  <2>1. /\ at'[r] \notin {"spawned", "asking"}
        /\ \A o \in Requests \ {r} : at'[o] = at[o] /\ snap'[o] = snap[o] /\ job'[o] = job[o]
    BY <1>3 DEF StartSession, FindByID, Goto
  <2> QED BY <1>1, <2>1
<1>4. ASSUME NEW r \in Requests, PersistReply(r) \/ EnterCheckpoint(r) \/ CompleteSession(r)
      PROVE  PromptsLast'
  <2>1. /\ at'[r] \notin {"spawned", "asking"} /\ job' = job
        /\ \A o \in Requests \ {r} : at'[o] = at[o] /\ snap'[o] = snap[o]
    BY <1>4 DEF PersistReply, EnterCheckpoint, CompleteSession, Transition, Write, Goto
  <2> QED BY <1>1, <2>1
<1>5. ASSUME NEW r \in Requests,
             \/ SkipDuplicate(r) \/ Refuse(r) \/ UpdateFails(r) \/ RunStream(r) \/ StreamChunk(r)
             \/ AskFails(r) \/ EndStream(r) \/ Announce(r)
      PROVE  PromptsLast'
  <2>1. UNCHANGED <<snap, job>>
    BY <1>5 DEF SkipDuplicate, Refuse, UpdateFails, RunStream, StreamChunk, AskFails, EndStream,
                Announce
  <2>2. \A o \in Requests : at'[o] \in {"spawned", "asking"} => at[o] \in {"spawned", "asking"}
    BY <1>5 DEF SkipDuplicate, Refuse, UpdateFails, RunStream, StreamChunk, AskFails,
                EndStream, Announce, Goto
  <2> QED BY <1>1, <2>1, <2>2
<1>6. CASE Crash
  <2>1. \A o \in Requests : at'[o] \in {"spawned", "asking"} => at[o] \in {"spawned", "asking"}
    BY <1>6 DEF Crash, InFlight
  <2> QED BY <1>1, <1>6, <2>1 DEF Crash
<1>7. CASE UNCHANGED vars
  BY <1>1, <1>7 DEF vars
<1> QED BY <1>2, <1>3, <1>4, <1>5, <1>6, <1>7 DEF Next, Step

(* What Assemble makes of a history that ends with the prompt m, whatever   *)
(* the kind of session and the parts that were found.                       *)
LEMMA AssembledPrompt ==
    ASSUME NEW messages \in Seq(Prompt \cup Reply), messages # <<>>,
           NEW type \in SessionType, NEW found
    PROVE  LET n == Len(messages)
               b == budgetForSessionType(type)
               asked == Assemble(type, found, messages)
               k == Len(asked.history)
           IN  /\ k > 0
               /\ asked.history = SubSeq(messages, n - k + 1, n)
               /\ asked.history[k] = messages[n]
               /\ k > 1 => Fits(messages, n - k + 1, b.History)
               /\ k < n => ~Fits(messages, n - k, b.History)
               /\ EstimateTokens(asked.system) <= b.SystemPrompt + b.SeedContext + b.LeafContext
<1> DEFINE n == Len(messages)
           b == budgetForSessionType(type)
           total == b.SystemPrompt + b.SeedContext + b.LeafContext
           asked == Assemble(type, found, messages)
           k == Len(asked.history)
<1>1. n \in Nat \ {0}
  OBVIOUS
<1>2. total \in Nat
  BY DEF SessionType, budgetForSessionType, Budget
<1>3. asked.system = TruncateToTokenBudget(PromptWords(type, found), total)
  BY DEF Assemble
<1>4. asked.history = slidingWindowHistory(messages, b.History)
  BY DEF Assemble
<1> HIDE DEF asked, b
<1>5. EstimateTokens(asked.system) <= total
  BY <1>2, <1>3, TruncationFits
<1>6. PICK s \in 1 .. n :
          /\ asked.history = SubSeq(messages, s, n)
          /\ s < n => Fits(messages, s, b.History)
          /\ s > 1 => ~Fits(messages, s - 1, b.History)
  BY <1>1, <1>4, WindowFits
<1>7. /\ Len(SubSeq(messages, s, n)) = n - s + 1
      /\ SubSeq(messages, s, n)[n - s + 1] = messages[n]
  <2>1. s \in Int /\ n \in Int /\ \A i \in s .. n : messages[i] \in Prompt \cup Reply
    BY <1>1
  <2> HIDE DEF n
  <2>2. /\ Len(SubSeq(messages, s, n)) = IF s <= n THEN n - s + 1 ELSE 0
        /\ \A i \in 1 .. n - s + 1 : SubSeq(messages, s, n)[i] = messages[s + i - 1]
    BY <2>1, SubSeqProperties
  <2> QED BY <1>1, <2>1, <2>2
<1>8. k = n - s + 1 /\ s = n - k + 1
  BY <1>1, <1>6, <1>7
<1> QED BY <1>1, <1>5, <1>6, <1>7, <1>8 DEF asked, b

(* Whatever happened to the session meanwhile, the model is asked the       *)
(* prompt of the request, last, after the longest run of messages before it *)
(* that fits the budget, for every history and all texts; and the system    *)
(* prompt keeps to its own.                                                 *)
THEOREM ModelIsAskedThePrompt == Spec => []ModelSeesPrompt
<1>1. Init => TypeInv /\ PromptsLast
  BY InitTypeInv DEF Init, PromptsLast
<1>2. TypeInv /\ PromptsLast /\ [Next]_vars => (TypeInv /\ PromptsLast)'
  BY NextTypeInv, PromptsLastKept
<1>3. TypeInv /\ PromptsLast => ModelSeesPrompt
  <2> SUFFICES ASSUME TypeInv, PromptsLast, NEW r \in Requests, at[r] = "asking",
                      NEW type \in SessionType, NEW found \in Found
               PROVE  LET messages == snap[r].messages
                          n == Len(messages)
                          b == budgetForSessionType(type)
                          asked == Assemble(type, found, messages)
                          k == Len(asked.history)
                      IN  /\ k > 0
                          /\ asked.history = SubSeq(messages, n - k + 1, n)
                          /\ asked.history[k] = [role |-> "user", by |-> r, text |-> job[r].text]
                          /\ k > 1 => Fits(messages, n - k + 1, b.History)
                          /\ k < n => ~Fits(messages, n - k, b.History)
                          /\ EstimateTokens(asked.system)
                                 <= b.SystemPrompt + b.SeedContext + b.LeafContext
    BY DEF ModelSeesPrompt
  <2>1. snap[r].messages \in Seq(Prompt \cup Reply)
    BY DEF TypeInv, RequestOK, Row
  <2>2. /\ snap[r].messages # <<>>
        /\ snap[r].messages[Len(snap[r].messages)] = [role |-> "user", by |-> r, text |-> job[r].text]
    BY DEF PromptsLast, EndsWithOwn, PromptOf
  <2> QED BY <2>1, <2>2, AssembledPrompt
<1> QED BY <1>1, <1>2, <1>3, PTL DEF Spec
=============================================================================
