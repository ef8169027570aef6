------------------------------ MODULE Session ------------------------------
(***************************************************************************)
(* AI-assisted sessions: internal/session.                                  *)
(*                                                                          *)
(* A request reads the session row, changes the copy and writes the whole   *)
(* row (status and message list) back.  For a message the copy lives on: a  *)
(* background goroutine (or, in AddMessage, the request itself) asks the    *)
(* language model, which may take minutes, appends the reply to the copy it *)
(* was given and writes that back.  Requests are one-shot; callers' messages *)
(* have the role "user".  The stream of a reply is named by its session, so *)
(* requests that overlap on a session send on one stream.                   *)
(***************************************************************************)
EXTENDS Naturals, Sequences

CONSTANTS
    Requests,    \* the requests served
    Sessions,    \* session ids
    Texts,       \* contents of user messages
    None,        \* no row, no copy, no job
    MaxChunks,   \* bound on the chunks of one session's stream
    MaxFaults,   \* bound on failing database, broker and model calls
    MaxCrashes   \* bound on restarts of the server

VARIABLES
    store,      \* the sessions table: id -> row
    at,         \* where each request is
    job,        \* what each request was asked to do
    snap,       \* the copy of the session a request works on
    sent,       \* how many stream messages of each type a session's stream got
    published,  \* the events that reached the broker
    overwritten,\* history: the sessions whose row was replaced by a request
                \* that had read an earlier one
    faults, crashes

vars == <<store, at, job, snap, sent, published, overwritten, faults, crashes>>

-----------------------------------------------------------------------------
(* The domain: Session and Message. The author of a message, "by", is not   *)
(* stored; it tells the properties which request a message came from.       *)

SessionStatus == {"active", "checkpoint", "completed", "abandoned"}

IsTerminal(status) == status \in {"completed", "abandoned"}

Prompt == [role : {"user"}, by : Requests, text : Texts]

Reply == [role : {"assistant"}, by : Requests]

Row == [status : SessionStatus, messages : Seq(Prompt \cup Reply)]

ASSUME SessionAssumption ==
    /\ None \notin Row
    /\ MaxChunks \in Nat
    /\ MaxFaults \in Nat
    /\ MaxCrashes \in Nat

NewSession == [status |-> "active", messages |-> <<>>]

AddMessage(row, m) == [row EXCEPT !.messages = Append(@, m)]

(* Mutant of IsDuplicate: only the last message is looked at. *)
IsLastMessage(row, text) ==
    \E i \in DOMAIN row.messages :
        /\ i = Len(row.messages)
        /\ row.messages[i].role = "user"
        /\ row.messages[i].text = text

(* The idempotency guard: one of the last two messages is this one. *)
IsDuplicate(row, text) ==
    \E i \in DOMAIN row.messages :
        /\ i + 1 >= Len(row.messages)
        /\ row.messages[i].role = "user"
        /\ row.messages[i].text = text

-----------------------------------------------------------------------------
Job == [op : {"start"}, session : Sessions]
         \cup [op : {"say"}, session : Sessions, text : Texts, streaming : BOOLEAN]
         \cup [op : {"checkpoint", "complete"}, session : Sessions]

Phase == {"new", "found", "spawned", "asking", "replied", "announcing",
          "ok", "skipped", "failed", "error", "lost"}

InFlight == {"found", "spawned", "asking", "replied", "announcing"}

StreamType == {"stream.start", "stream.chunk", "stream.end", "stream.error"}

Init ==
    /\ store \in [Sessions -> {None, NewSession}]
    /\ at = [r \in Requests |-> "new"]
    /\ job = [r \in Requests |-> None]
    /\ snap = [r \in Requests |-> None]
    /\ sent = [s \in Sessions |-> [type \in StreamType |-> 0]]
    /\ published = {}
    /\ overwritten = {}
    /\ faults = 0
    /\ crashes = 0

(* Update: status and messages of the row become those of the copy,         *)
(* whatever the row has become since the copy was made of it.               *)
Write(r, row) ==
    LET s == job[r].session
    IN  /\ store' = [store EXCEPT ![s] = row]
        /\ overwritten' = IF store[s] = snap[r] THEN overwritten ELSE overwritten \cup {s}
        /\ snap' = [snap EXCEPT ![r] = row]

Goto(r, phase) == at' = [at EXCEPT ![r] = phase]

Broadcast(r, type) == sent' = [sent EXCEPT ![job[r].session][type] = @ + 1]

Fault == faults < MaxFaults /\ faults' = faults + 1

StartSession(r) ==
    /\ at[r] = "new"
    /\ \E s \in Sessions :
        /\ store[s] = None
        /\ job' = [job EXCEPT ![r] = [op |-> "start", session |-> s]]
        /\ store' = [store EXCEPT ![s] = NewSession]
    /\ Goto(r, "announcing")
    /\ UNCHANGED <<snap, sent, published, overwritten, faults, crashes>>

(* Every other request begins by reading the session. *)
FindByID(r) ==
    /\ at[r] = "new"
    /\ \E s \in Sessions :
        /\ store[s] # None
        /\ snap' = [snap EXCEPT ![r] = store[s]]
        /\ \/ \E t \in Texts, streaming \in BOOLEAN :
                job' = [job EXCEPT ![r] = [op |-> "say", session |-> s, text |-> t,
                                           streaming |-> streaming]]
           \/ \E op \in {"checkpoint", "complete"} :
                job' = [job EXCEPT ![r] = [op |-> op, session |-> s]]
    /\ Goto(r, "found")
    /\ UNCHANGED <<store, sent, published, overwritten, faults, crashes>>

(* Mutant of Allowed: a session that has ended still takes messages. *)
AllowedAfterEnd(r) == job[r].op = "say" \/ snap[r].status = "active"

(* The change the request makes to its copy, where the domain allows it. *)
Allowed(r) ==
    CASE job[r].op = "say"        -> ~IsTerminal(snap[r].status)
      [] job[r].op = "checkpoint" -> snap[r].status = "active"
      [] job[r].op = "complete"   -> ~IsTerminal(snap[r].status)

IsRetry(r) == job[r].op = "say" /\ IsDuplicate(snap[r], job[r].text)

(* A duplicate message is answered with the session as it is. *)
SkipDuplicate(r) ==
    /\ at[r] = "found"
    /\ IsRetry(r)
    /\ Goto(r, "skipped")
    /\ UNCHANGED <<store, job, snap, sent, published, overwritten, faults, crashes>>

Refuse(r) ==
    /\ at[r] = "found"
    /\ ~IsRetry(r)
    /\ ~Allowed(r)
    /\ Goto(r, "error")
    /\ UNCHANGED <<store, job, snap, sent, published, overwritten, faults, crashes>>

UpdateFails(r) ==
    /\ at[r] = "found"
    /\ ~IsRetry(r)
    /\ Allowed(r)
    /\ Fault
    /\ Goto(r, "error")
    /\ UNCHANGED <<store, job, snap, sent, published, overwritten, crashes>>

(* AddMessage and AddMessageStreaming: store the user message; streaming    *)
(* answers the client here and goes on in a goroutine.                      *)
StorePrompt(r) ==
    /\ at[r] = "found"
    /\ job[r].op = "say"
    /\ ~IsRetry(r)
    /\ Allowed(r)
    /\ Write(r, AddMessage(snap[r], [role |-> "user", by |-> r, text |-> job[r].text]))
    /\ Goto(r, IF job[r].streaming THEN "spawned" ELSE "asking")
    /\ UNCHANGED <<job, sent, published, faults, crashes>>

RunStream(r) ==
    /\ at[r] = "spawned"
    /\ Broadcast(r, "stream.start")
    /\ Goto(r, "asking")
    /\ UNCHANGED <<store, job, snap, published, overwritten, faults, crashes>>

StreamChunk(r) ==
    /\ at[r] = "asking"
    /\ job[r].streaming
    /\ sent[job[r].session]["stream.chunk"] < MaxChunks
    /\ Broadcast(r, "stream.chunk")
    /\ UNCHANGED <<store, at, job, snap, published, overwritten, faults, crashes>>

(* Mutant of AskFails: the failing stream ends without a word. *)
AskFailsSilently(r) ==
    /\ at[r] = "asking"
    /\ Fault
    /\ Goto(r, "failed")
    /\ UNCHANGED <<store, job, snap, sent, published, overwritten, crashes>>

(* Assemble, Resolve or the model fails, or the three minutes are over. *)
AskFails(r) ==
    /\ at[r] = "asking"
    /\ Fault
    /\ IF job[r].streaming
       THEN Broadcast(r, "stream.error") /\ Goto(r, "failed")
       ELSE UNCHANGED sent /\ Goto(r, "error")
    /\ UNCHANGED <<store, job, snap, published, overwritten, crashes>>

(* Mutant of PersistReply: the row is read again, the prompt not looked for. *)
PersistReplyAfterReread(r) ==
    /\ at[r] = "asking"
    /\ Write(r, AddMessage(store[job[r].session], [role |-> "assistant", by |-> r]))
    /\ Goto(r, IF job[r].streaming THEN "replied" ELSE "ok")
    /\ UNCHANGED <<job, sent, published, faults, crashes>>

(* The reply is appended to the copy made before the model was asked. A     *)
(* stream that cannot store its reply logs that and ends all the same.      *)
PersistReply(r) ==
    /\ at[r] = "asking"
    /\ \/ /\ Write(r, AddMessage(snap[r], [role |-> "assistant", by |-> r]))
          /\ Goto(r, IF job[r].streaming THEN "replied" ELSE "ok")
          /\ UNCHANGED faults
       \/ /\ Fault
          /\ Goto(r, IF job[r].streaming THEN "replied" ELSE "error")
          /\ UNCHANGED <<store, snap, overwritten>>
    /\ UNCHANGED <<job, sent, published, crashes>>

EndStream(r) ==
    /\ at[r] = "replied"
    /\ Broadcast(r, "stream.end")
    /\ Goto(r, "ok")
    /\ UNCHANGED <<store, job, snap, published, overwritten, faults, crashes>>

Transition(r, op, status) ==
    /\ at[r] = "found"
    /\ job[r].op = op
    /\ Allowed(r)
    /\ Write(r, [snap[r] EXCEPT !.status = status])
    /\ Goto(r, "announcing")
    /\ UNCHANGED <<job, sent, published, faults, crashes>>

EnterCheckpoint(r) == Transition(r, "checkpoint", "checkpoint")

CompleteSession(r) == Transition(r, "complete", "completed")

(* Fire-and-forget publishing of session.started, .checkpointed, .completed *)
Announce(r) ==
    /\ at[r] = "announcing"
    /\ \/ published' = published \cup {r} /\ UNCHANGED faults
       \/ Fault /\ UNCHANGED published
    /\ Goto(r, "ok")
    /\ UNCHANGED <<store, job, snap, sent, overwritten, crashes>>

Crash ==
    /\ crashes < MaxCrashes
    /\ crashes' = crashes + 1
    /\ at' = [r \in Requests |-> IF at[r] \in InFlight THEN "lost" ELSE at[r]]
    /\ UNCHANGED <<store, job, snap, sent, published, overwritten, faults>>

Step(r) ==
    \/ SkipDuplicate(r) \/ Refuse(r) \/ UpdateFails(r)
    \/ StorePrompt(r) \/ RunStream(r) \/ StreamChunk(r)
    \/ AskFails(r) \/ PersistReply(r) \/ EndStream(r)
    \/ EnterCheckpoint(r) \/ CompleteSession(r) \/ Announce(r)

Next ==
    \/ \E r \in Requests : StartSession(r) \/ FindByID(r) \/ Step(r)
    \/ Crash

Spec == Init /\ [][Next]_vars

-----------------------------------------------------------------------------
(* Type correctness: the values each variable ranges over. *)
TypeOK ==
    /\ store \in [Sessions -> Row \cup {None}]
    /\ at \in [Requests -> Phase]
    /\ job \in [Requests -> Job \cup {None}]
    /\ snap \in [Requests -> Row \cup {None}]
    /\ sent \in [Sessions -> [StreamType -> Nat]]
    /\ published \in SUBSET Requests
    /\ overwritten \in SUBSET Sessions
    /\ faults \in Nat
    /\ crashes \in Nat

(* No user message is stored twice within two places of itself, however     *)
(* many retries overlap: the guard looks at a copy that may be stale, but   *)
(* what is written is that same copy.                                       *)
NoEcho(row) ==
    \A i, j \in DOMAIN row.messages :
        (/\ i < j
         /\ j <= i + 2
         /\ row.messages[i].role = "user"
         /\ row.messages[j].role = "user") => row.messages[i].text # row.messages[j].text

NoEchoedMessage == \A s \in Sessions : store[s] # None => NoEcho(store[s])

(* A reply stands right after the message it answers, in every row ever     *)
(* stored: a reply that arrives late is never attached to a later message.  *)
RepliesInPlace(row) ==
    \A i \in DOMAIN row.messages :
        row.messages[i].role = "assistant" =>
            /\ i > 1
            /\ row.messages[i - 1].role = "user"
            /\ row.messages[i - 1].by = row.messages[i].by

ReplyFollowsPrompt == \A s \in Sessions : store[s] # None => RepliesInPlace(store[s])

(* What a session's stream tells its clients adds up, however many replies  *)
(* are streamed on it at once: a chunk, an end or an error only comes while *)
(* something that was started is not yet closed, and when no request of the *)
(* session is under way (none was lost with the server) every stream.start  *)
(* has had its stream.end or stream.error.                                  *)
Started(s) == sent[s]["stream.start"]

Closed(s) == sent[s]["stream.end"] + sent[s]["stream.error"]

Of(s) == {r \in Requests : at[r] # "new" /\ job[r].session = s}

Settled(s) == \A r \in Of(s) : at[r] \notin InFlight \cup {"lost"}

SpeaksWhileOpen ==
    \A s \in Sessions, type \in StreamType \ {"stream.start"} :
        sent'[s][type] > sent[s][type] => Closed(s) < Started(s)

StreamsAddUp ==
    /\ [][SpeaksWhileOpen]_vars
    /\ [](\A s \in Sessions : Settled(s) => Closed(s) = Started(s))

(* A session is a conversation that only grows and ends for good, until a   *)
(* request overwrites what it has not read: completed and abandoned are     *)
(* final ("IsTerminal reports whether the session is in a final state").    *)
Promise == INSTANCE ConversationPromise WITH
    status   <- [s \in Sessions |-> IF store[s] = None THEN "absent" ELSE store[s].status],
    messages <- [s \in Sessions |-> IF store[s] = None THEN <<>> ELSE store[s].messages],
    void     <- overwritten,
    Messages <- Prompt \cup Reply

KeepsPromise == Promise!Spec
=============================================================================
