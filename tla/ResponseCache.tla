--------------------------- MODULE ResponseCache ---------------------------
(***************************************************************************)
(* Answering model requests once: CachedProvider and MemoryCache of         *)
(* pkg/llm.                                                                 *)
(*                                                                          *)
(* Callers of one CachedProvider look their request up in the cache, then   *)
(* in the table of calls in flight, and only then call the model.  Each of  *)
(* these is a critical section of its own.  A response is named after the   *)
(* caller whose call produced it.  The clock is a number that grows.        *)
(*                                                                          *)
(* What is looked up is not the request but its key, and the key is made of *)
(* a text in which different requests may read alike.                       *)
(***************************************************************************)
EXTENDS Naturals, Sequences, FiniteSets

LOCAL INSTANCE SequencesExt

CONSTANTS
    Callers,     \* the goroutines that need a response, one request each
    Prompts,     \* the requests: ChatRequest
    Nil,         \* no request, no key, no entry, no call, no answer
    MaxSize,     \* the capacity of the cache
    TTL,         \* how long a response remains cached
    MaxTime,     \* bound on the clock
    MaxFailures  \* bound on model calls that fail

VARIABLES
    entries,    \* the cache: key -> entry
    inflight,   \* key -> the caller whose call is registered
    where,      \* where each caller is
    request,    \* the request of each caller
    key,        \* the key made of it; Nil if the cache is bypassed
    leader,     \* the call a caller makes or waits for
    outcome,    \* the calls that have returned: "resp" or "error"
    finished,   \* the calls whose wait group is done
    answeredBy, \* the call that answered a caller
    now, failures

calls == <<inflight, leader, outcome, finished>>
rvars == <<entries, where, request, key, calls, answeredBy, now, failures>>

-----------------------------------------------------------------------------
(* A request has a temperature, further settings (the model, top_p, the     *)
(* number of tokens), stop sequences in the order in which sort.Strings     *)
(* leaves them, each cut at its commas, and messages with a role and a      *)
(* content, cut into lines and these into words.                            *)

(* A message starts with its role; the lines after the first stand as they  *)
(* are, also those that look like the start of another message.             *)
Lines(m) == [i \in DOMAIN m.content |->
                IF i = 1 THEN <<m.role>> \o m.content[1] ELSE m.content[i]]

(* The stop sequences are joined by commas, on a line that is left out when *)
(* there are none.                                                          *)
StopLine(stop) == IF stop = <<>> THEN <<>> ELSE << <<"stop">> \o FlattenSeq(stop) >>

(* The text that is hashed; SHA-256 is taken to tell texts apart.           *)
CacheKey(p) ==
    << <<p.temperature, p.settings>> >>
      \o StopLine(p.stop)
      \o FlattenSeq([i \in DOMAIN p.messages |-> Lines(p.messages[i])])

Keys == {CacheKey(p) : p \in Prompts}

Entry == [resp : Callers, expiresAt : Nat]

ASSUME ResponseCacheAssumption ==
    /\ Nil \notin Prompts /\ Nil \notin Keys
    /\ Nil \notin Callers \cup Entry \cup {"resp", "error"}
    /\ MaxSize \in Nat \ {0}
    /\ TTL \in Nat
    /\ MaxTime \in Nat
    /\ MaxFailures \in Nat

Phase == {"new", "get", "drop", "missed", "waiting", "calling", "returned",
          "stored", "cleaning", "ok", "error"}

RInit ==
    /\ entries = [k \in Keys |-> Nil]
    /\ inflight = [k \in Keys |-> Nil]
    /\ where = [c \in Callers |-> "new"]
    /\ request = [c \in Callers |-> Nil]
    /\ key = [c \in Callers |-> Nil]
    /\ leader = [c \in Callers |-> Nil]
    /\ outcome = [c \in Callers |-> Nil]
    /\ finished = {}
    /\ answeredBy = [c \in Callers |-> Nil]
    /\ now = 0
    /\ failures = 0

Proceed(c, to) == where' = [where EXCEPT ![c] = to]

(* The keys of the cache, and those whose entry is no longer served.        *)
Occupied == {k \in Keys : entries[k] # Nil}

Expired == {k \in Occupied : now > entries[k].expiresAt}

(* What a caller is given once the call of l is over: its response or error. *)
Give(c, l) ==
    /\ answeredBy' = [answeredBy EXCEPT ![c] = l]
    /\ Proceed(c, IF outcome[l] = "resp" THEN "ok" ELSE "error")

-----------------------------------------------------------------------------
(* ChatCompletion begins; with a temperature the cache is bypassed. *)
ChatCompletion(c) ==
    /\ where[c] = "new"
    /\ \E p \in Prompts :
        /\ request' = [request EXCEPT ![c] = p]
        /\ \/ /\ p.temperature = 0
              /\ key' = [key EXCEPT ![c] = CacheKey(p)]
              /\ Proceed(c, "get")
              /\ UNCHANGED leader
           \/ /\ p.temperature > 0
              /\ leader' = [leader EXCEPT ![c] = c]
              /\ Proceed(c, "calling")
              /\ UNCHANGED key
    /\ UNCHANGED <<entries, inflight, outcome, finished, answeredBy, now, failures>>

(* MemoryCache.Get under the read lock. *)
Get(c) ==
    /\ where[c] = "get"
    /\ IF key[c] \in Occupied \ Expired
       THEN /\ answeredBy' = [answeredBy EXCEPT ![c] = entries[key[c]].resp]
            /\ Proceed(c, "ok")
       ELSE /\ UNCHANGED answeredBy
            /\ Proceed(c, IF key[c] \in Expired THEN "drop" ELSE "missed")
    /\ UNCHANGED <<entries, request, key, calls, now, failures>>

(* Get removes the expired entry it saw, and whatever replaced it since. *)
Drop(c) ==
    /\ where[c] = "drop"
    /\ entries' = [entries EXCEPT ![key[c]] = Nil]
    /\ Proceed(c, "missed")
    /\ UNCHANGED <<request, key, calls, answeredBy, now, failures>>

(* Under the mutex: wait for the call in flight, or register one's own. *)
Join(c) ==
    /\ where[c] = "missed"
    /\ inflight[key[c]] # Nil
    /\ leader' = [leader EXCEPT ![c] = inflight[key[c]]]
    /\ Proceed(c, "waiting")
    /\ UNCHANGED <<entries, request, key, inflight, outcome, finished, answeredBy, now, failures>>

(* Mutant of Lead: the table of calls in flight is not looked up. *)
LeadAnyway(c) ==
    /\ where[c] = "missed"
    /\ inflight' = [inflight EXCEPT ![key[c]] = c]
    /\ leader' = [leader EXCEPT ![c] = c]
    /\ Proceed(c, "calling")
    /\ UNCHANGED <<entries, request, key, outcome, finished, answeredBy, now, failures>>

Lead(c) ==
    /\ where[c] = "missed"
    /\ inflight[key[c]] = Nil
    /\ inflight' = [inflight EXCEPT ![key[c]] = c]
    /\ leader' = [leader EXCEPT ![c] = c]
    /\ Proceed(c, "calling")
    /\ UNCHANGED <<entries, request, key, outcome, finished, answeredBy, now, failures>>

(* The model answers or fails; a bypassing call is over at once. *)
ModelReturns(c) ==
    /\ where[c] = "calling"
    /\ \E o \in {"resp", "error"} :
        /\ IF o = "error" THEN failures < MaxFailures /\ failures' = failures + 1
                          ELSE UNCHANGED failures
        /\ outcome' = [outcome EXCEPT ![c] = o]
        /\ IF key[c] = Nil
           THEN /\ answeredBy' = [answeredBy EXCEPT ![c] = c]
                /\ Proceed(c, IF o = "resp" THEN "ok" ELSE "error")
           ELSE /\ UNCHANGED answeredBy
                /\ Proceed(c, IF o = "resp" THEN "returned" ELSE "stored")
    /\ UNCHANGED <<entries, request, key, inflight, leader, finished, now>>

(* MemoryCache.Set: at capacity drop what has expired, and if that is not   *)
(* enough the entry that expires first; then replace or add the key's.      *)
Full(kept) == Cardinality(kept) >= MaxSize

Oldest(kept) == {k \in kept : \A j \in kept : entries[k].expiresAt <= entries[j].expiresAt}

Unexpired == IF Full(Occupied) THEN Occupied \ Expired ELSE Occupied

Set(c) ==
    /\ where[c] = "returned"
    /\ \E kept \in IF Full(Unexpired) THEN {Unexpired \ {k} : k \in Oldest(Unexpired)}
                                      ELSE {Unexpired} :
        entries' = [k \in Keys |->
            CASE k = key[c]               -> [resp |-> c, expiresAt |-> now + TTL]
              [] k # key[c] /\ k \in kept -> entries[k]
              [] OTHER                    -> Nil]
    /\ Proceed(c, "stored")
    /\ UNCHANGED <<request, key, calls, answeredBy, now, failures>>

(* Mutant of Done: an early return after an error skips it. *)
DoneIfAnswered(c) ==
    /\ where[c] = "stored"
    /\ finished' = IF outcome[c] = "resp" THEN finished \cup {c} ELSE finished
    /\ Proceed(c, "cleaning")
    /\ UNCHANGED <<entries, request, key, inflight, leader, outcome, answeredBy, now, failures>>

(* wg.Done releases the waiters; then the call is taken out of the table.   *)
Done(c) ==
    /\ where[c] = "stored"
    /\ finished' = finished \cup {c}
    /\ Proceed(c, "cleaning")
    /\ UNCHANGED <<entries, request, key, inflight, leader, outcome, answeredBy, now, failures>>

CleanUp(c) ==
    /\ where[c] = "cleaning"
    /\ inflight' = [inflight EXCEPT ![key[c]] = Nil]
    /\ Give(c, c)
    /\ UNCHANGED <<entries, request, key, leader, outcome, finished, now, failures>>

(* Mutant of Wake: nobody waits for the call to be over. *)
WakeEarly(c) ==
    /\ where[c] = "waiting"
    /\ Give(c, leader[c])
    /\ UNCHANGED <<entries, request, key, calls, now, failures>>

Wake(c) ==
    /\ where[c] = "waiting"
    /\ leader[c] \in finished
    /\ Give(c, leader[c])
    /\ UNCHANGED <<entries, request, key, calls, now, failures>>

(* Time passes, and with it the entries expire. *)
Tick ==
    /\ now < MaxTime
    /\ now' = now + 1
    /\ UNCHANGED <<entries, where, request, key, calls, answeredBy, failures>>

CallStep(c) ==
    \/ Get(c) \/ Drop(c) \/ Join(c) \/ Lead(c) \/ ModelReturns(c)
    \/ Set(c) \/ Done(c) \/ CleanUp(c) \/ Wake(c)

RNext == Tick \/ \E c \in Callers : ChatCompletion(c) \/ CallStep(c)

RSpec == RInit /\ [][RNext]_rvars

(* Goroutines run on and the model answers: its client has a timeout. *)
RFairSpec == RSpec /\ \A c \in Callers : WF_rvars(CallStep(c))

-----------------------------------------------------------------------------
(* Type correctness: the values each variable ranges over. *)
ResponseTypeOK ==
    /\ entries \in [Keys -> Entry \cup {Nil}]
    /\ inflight \in [Keys -> Callers \cup {Nil}]
    /\ where \in [Callers -> Phase]
    /\ request \in [Callers -> Prompts \cup {Nil}]
    /\ key \in [Callers -> Keys \cup {Nil}]
    /\ leader \in [Callers -> Callers \cup {Nil}]
    /\ outcome \in [Callers -> {"resp", "error", Nil}]
    /\ finished \in SUBSET Callers
    /\ answeredBy \in [Callers -> Callers \cup {Nil}]
    /\ now \in Nat
    /\ failures \in Nat

(* The cache never outgrows its capacity, and keeps only responses of calls *)
(* that succeeded for the key.                                              *)
CacheSound ==
    /\ Cardinality(Occupied) <= MaxSize
    /\ \A k \in Occupied : key[entries[k].resp] = k /\ outcome[entries[k].resp] = "resp"

(* Whoever answered a caller was asked a request that reads the same (the   *)
(* same request, if its key tells it from all others), and the caller       *)
(* reports an error exactly if that call failed.  A request that bypasses   *)
(* the cache is answered by its own call.                                   *)
AnswersMatch ==
    \A c \in Callers : answeredBy[c] # Nil =>
        LET d == answeredBy[c]
        IN  /\ CacheKey(request[d]) = CacheKey(request[c])
            /\ d # c => request[c].temperature = 0 /\ request[d].temperature = 0
            /\ outcome[d] = (IF where[c] = "ok" THEN "resp" ELSE "error")

(* From the cache, from a call of one's own or from somebody else's: what   *)
(* is kept and what is answered belongs to a request with the same key.     *)
AnswersSound == CacheSound /\ AnswersMatch

(* Of the callers with the same key at most one is calling the model at     *)
(* any time.                                                                *)
OneFlightPerKey ==
    \A c, d \in Callers :
        (where[c] = "calling" /\ where[d] = "calling" /\ key[c] = key[d] /\ key[c] # Nil)
            => c = d

(* Nobody waits forever for somebody else's call. *)
WaitersReleased == \A c \in Callers : where[c] = "waiting" ~> where[c] \in {"ok", "error"}
=============================================================================
