----------------------------- MODULE TokenKeys -----------------------------
(***************************************************************************)
(* Who is calling: pkg/auth.  A request presents a token signed with a key  *)
(* of the identity provider; JWKSValidator keeps a copy of the provider's   *)
(* published keys and fetches them again for a key it does not know, or     *)
(* when the copy is older than an hour.                                     *)
(*                                                                          *)
(* Looking up, fetching, storing and looking up again are separate steps,   *)
(* and any number of requests may be fetching at once.                      *)
(***************************************************************************)
EXTENDS Naturals

CONSTANTS
    Requests,   \* the requests served, one goroutine each
    Keys,       \* the keys of the identity provider
    None,       \* nothing
    MaxFaults   \* bound on failing calls

VARIABLES
    published,  \* the keys the provider publishes
    retired,    \* the keys it has taken back
    keys,       \* the copy
    stale,      \* whether the copy is too old
    at,         \* where each request is
    token,      \* the key each request's token is signed with
    doc,        \* the document each request has fetched
    faults,
    assured,    \* history: requests whose key has been published ever since
                \* they came, and before any document still on its way
    gone        \* history: keys retired before the copy expired, of which no
                \* request was still holding a document

kvars == <<published, retired, keys, stale, at, token, doc, faults, assured, gone>>

-----------------------------------------------------------------------------
ASSUME TokenKeysAssumption ==
    /\ None \notin Keys
    /\ MaxFaults \in Nat

ToStep(r, s) == at' = [at EXCEPT ![r] = s]

(* The validator starts with an empty copy that counts as too old. *)
KInit ==
    /\ published = {}
    /\ retired = {}
    /\ keys = {}
    /\ stale = TRUE
    /\ at = [r \in Requests |-> "new"]
    /\ token = [r \in Requests |-> None]
    /\ doc = [r \in Requests |-> {}]
    /\ faults = 0
    /\ assured = {}
    /\ gone = {}

(* With the key, jwt.Parse verifies signature, issuer, audience and expiry. *)
Verify(r) ==
    /\ \E verdict \in {"admitted", "ended"} : ToStep(r, verdict)
    /\ token' = [token EXCEPT ![r] = None]
    /\ assured' = assured \ {r}

(* 401 *)
Refuse(r) ==
    /\ ToStep(r, "ended")
    /\ token' = [token EXCEPT ![r] = None]
    /\ assured' = assured \ {r}

Unknown(r) == ToStep(r, "unknown") /\ UNCHANGED <<token, assured>>

(* Middleware and the WebSocket handler begin alike: without a token, or    *)
(* when the token names no key, the answer is 401.                          *)
Present(r, k) ==
    /\ at[r] = "new"
    /\ token' = [token EXCEPT ![r] = k]
    /\ assured' = IF k \in published /\ \A q \in Requests : at[q] = "fetched" => k \in doc[q]
                  THEN assured \cup {r}
                  ELSE assured
    /\ ToStep(r, "validating")
    /\ UNCHANGED <<published, retired, keys, stale, doc, faults, gone>>

PresentNothing(r) ==
    /\ at[r] = "new"
    /\ Refuse(r)
    /\ UNCHANGED <<published, retired, keys, stale, doc, faults, gone>>

(* Mutant of GetKey: an old copy will do. *)
GetKeyOfAnyAge(r) ==
    /\ at[r] = "validating"
    /\ \/ token[r] \in keys /\ Verify(r)
       \/ token[r] \notin keys /\ ToStep(r, "fetching") /\ UNCHANGED <<token, assured>>
    /\ UNCHANGED <<published, retired, keys, stale, doc, faults, gone>>

(* Mutant of GetKey: a recent copy is complete. *)
GetKeyOnceAnHour(r) ==
    /\ at[r] = "validating"
    /\ \/ token[r] \in keys /\ ~stale /\ Verify(r)
       \/ token[r] \notin keys /\ ~stale /\ Unknown(r)
       \/ stale /\ ToStep(r, "fetching") /\ UNCHANGED <<token, assured>>
    /\ UNCHANGED <<published, retired, keys, stale, doc, faults, gone>>

GetKey(r) ==
    /\ at[r] = "validating"
    /\ \/ token[r] \in keys /\ ~stale /\ Verify(r)
       \/ (token[r] \notin keys \/ stale) /\ ToStep(r, "fetching")
          /\ UNCHANGED <<token, assured>>
    /\ UNCHANGED <<published, retired, keys, stale, doc, faults, gone>>

(* The endpoint answers with the keys it publishes now, *)
FetchKeys(r) ==
    /\ at[r] = "fetching"
    /\ doc' = [doc EXCEPT ![r] = published]
    /\ ToStep(r, "fetched")
    /\ UNCHANGED <<published, retired, keys, stale, token, faults, assured, gone>>

(* or not at all, or not in time. *)
FetchFails(r) ==
    /\ at[r] = "fetching"
    /\ faults < MaxFaults
    /\ faults' = faults + 1
    /\ Refuse(r)
    /\ UNCHANGED <<published, retired, keys, stale, doc, gone>>

StoreKeys(r) ==
    /\ at[r] = "fetched"
    /\ keys' = doc[r]
    /\ stale' = FALSE
    /\ doc' = [doc EXCEPT ![r] = {}]
    /\ ToStep(r, "stored")
    /\ UNCHANGED <<published, retired, token, faults, assured, gone>>

LookUpAgain(r) ==
    /\ at[r] = "stored"
    /\ \/ token[r] \in keys /\ Verify(r)
       \/ token[r] \notin keys /\ Unknown(r)
    /\ UNCHANGED <<published, retired, keys, stale, doc, faults, gone>>

Validate(r) ==
    \/ GetKey(r) \/ FetchKeys(r) \/ FetchFails(r) \/ StoreKeys(r) \/ LookUpAgain(r)

-----------------------------------------------------------------------------
(* The identity provider, and the clock. *)

Publish(k) ==
    /\ k \notin published \cup retired
    /\ published' = published \cup {k}
    /\ UNCHANGED <<retired, keys, stale, at, token, doc, faults, assured, gone>>

Retire(k) ==
    /\ k \in published
    /\ published' = published \ {k}
    /\ retired' = retired \cup {k}
    /\ assured' = {r \in assured : token[r] # k}
    /\ UNCHANGED <<keys, stale, at, token, doc, faults, gone>>

Holding(r, k) ==
    \/ at[r] = "fetched" /\ k \in doc[r]
    \/ at[r] = "stored" /\ token[r] = k

Lapsed == {k \in retired : \A r \in Requests : ~Holding(r, k)}

Expire ==
    /\ ~stale
    /\ stale' = TRUE
    /\ gone' = gone \cup Lapsed
    /\ UNCHANGED <<published, retired, keys, at, token, doc, faults, assured>>

ProviderStep == (\E k \in Keys : Publish(k) \/ Retire(k)) \/ Expire

-----------------------------------------------------------------------------
(* Type correctness of the keys. *)
KeysTypeOK ==
    /\ published \in SUBSET Keys
    /\ retired \in SUBSET Keys
    /\ keys \in SUBSET Keys
    /\ stale \in BOOLEAN
    /\ token \in [Requests -> Keys \cup {None}]
    /\ doc \in [Requests -> SUBSET Keys]
    /\ faults \in 0 .. MaxFaults
    /\ assured \in SUBSET Requests
    /\ gone \in SUBSET Keys

(* A token whose key has been published since before the request came is    *)
(* not refused as signed with an unknown key, whatever others fetch and     *)
(* store meanwhile, unless a document older than the key was on its way     *)
(* when the request came.                                                   *)
PublishedKeyIsKnown == \A r \in assured : at[r] # "unknown"

(* A key that was taken back is accepted until the copy expires, or a       *)
(* document fetched before does, and never after.                           *)
RetiredKeyIsRefused ==
    [][\A r \in Requests :
        (at[r] # "admitted" /\ at'[r] = "admitted") => token[r] \notin gone]_kvars
=============================================================================
