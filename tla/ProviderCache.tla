--------------------------- MODULE ProviderCache ---------------------------
(***************************************************************************)
(* Choosing a language model provider: llmProviderResolver of cmd/server,   *)
(* the configurations of internal/identity and internal/workspace it reads, *)
(* and the subscribers that invalidate its cache.                           *)
(*                                                                          *)
(* A provider is built from a configuration and kept in memory under a key  *)
(* of the user or the workspace.  Whoever changes a configuration stores it *)
(* and then publishes an event; a subscriber deletes the cached providers   *)
(* when the event arrives.  A provider is named here by the configuration   *)
(* it was built from, a model by the configuration it was selected for.     *)
(***************************************************************************)
EXTENDS Naturals

CONSTANTS
    Requests,    \* the requests that need a provider
    Changes,     \* the requests that set or delete a configuration
    Users, Workspaces,
    Configs,     \* configurations: provider name, model and key
    Unset,        \* no configuration, nothing cached
    Server,      \* the server's own provider
    MaxFaults,   \* bound on failing calls, publishes and acknowledgements
    MaxCrashes   \* bound on restarts of the server

VARIABLES
    config,     \* the configuration tables: owner -> configuration
    providers,  \* the resolver's map: key -> provider
    position,   \* where each request is
    ask,        \* the user, workspace and level a request is asking for
    got,        \* the provider or configuration it has in hand
    answer,     \* what it was given
    stage,      \* where each change is
    change,     \* the owner and the new configuration
    pending,    \* the events of changes that are yet to be acknowledged
    seen,       \* history: per request, the configurations since it began
    had,        \* history: the configurations each owner ever had
    missed,     \* history: the owners for whom an outdated provider may be
                \* cached although no event is on its way to remove it
    faults, crashes

resolving == <<position, ask, got, answer>>
changing == <<stage, change>>
history == <<seen, had, missed>>
pvars == <<config, providers, resolving, changing, pending, history, faults, crashes>>

-----------------------------------------------------------------------------
Owners == Users \cup Workspaces

ProviderKeys == (Users \X Workspaces) \cup Workspaces

Level == {"user", "workspace", "server"}

Ask == [user : Users, workspace : Workspaces, level : Level]

Answer == [level : Level, provider : Configs \cup {Server},
           model : Configs \cup {Server, Unset}]

Change == [owner : Owners, config : Configs \cup {Unset}]

ASSUME ProviderCacheAssumption ==
    /\ Users \cap Workspaces = {}
    /\ (Users \X Workspaces) \cap Workspaces = {}
    /\ {Unset, Server} \cap Configs = {}
    /\ Unset # Server
    /\ Unset \notin Ask \cup Answer \cup Change
    /\ MaxFaults \in Nat
    /\ MaxCrashes \in Nat

(* The owner whose configuration decides at the level a request has reached, *)
(* and the key its provider is cached under.                                *)
OwnerOf(r) == IF ask[r].level = "user" THEN ask[r].user ELSE ask[r].workspace

(* Mutant of KeyOf: the user is not part of the key. *)
KeyOfWorkspace(r) == ask[r].workspace

KeyOf(r) == IF ask[r].level = "user" THEN <<ask[r].user, ask[r].workspace>>
                                     ELSE ask[r].workspace

KeysOf(o) == IF o \in Users THEN {o} \X Workspaces ELSE {o}

PInit ==
    /\ config \in [Owners -> Configs \cup {Unset}]
    /\ providers = [k \in ProviderKeys |-> Unset]
    /\ position = [r \in Requests |-> "new"]
    /\ ask = [r \in Requests |-> Unset]
    /\ got = [r \in Requests |-> Unset]
    /\ answer = [r \in Requests |-> Unset]
    /\ stage = [c \in Changes |-> "new"]
    /\ change = [c \in Changes |-> Unset]
    /\ pending = {}
    /\ seen = [r \in Requests |-> [o \in Owners |-> {}]]
    /\ had = [o \in Owners |-> {config[o]}]
    /\ missed = {}
    /\ faults = 0
    /\ crashes = 0

Move(r, to) == position' = [position EXCEPT ![r] = to]

Fault == faults < MaxFaults /\ faults' = faults + 1

Return(r, provider, model) ==
    /\ answer' = [answer EXCEPT ![r] = [level |-> ask[r].level,
                                        provider |-> provider, model |-> model]]
    /\ Move(r, "ok")

-----------------------------------------------------------------------------
(* Resolve. *)

Resolve(r) ==
    /\ position[r] = "new"
    /\ \E u \in Users, w \in Workspaces :
        ask' = [ask EXCEPT ![r] = [user |-> u, workspace |-> w, level |-> "user"]]
    /\ seen' = [seen EXCEPT ![r] = [o \in Owners |-> {config[o]}]]
    /\ Move(r, "lookup")
    /\ UNCHANGED <<config, providers, got, answer, changing, pending, had, missed, faults, crashes>>

(* The cache is looked up under the read lock. *)
Lookup(r) ==
    /\ position[r] = "lookup"
    /\ got' = [got EXCEPT ![r] = providers[KeyOf(r)]]
    /\ Move(r, IF providers[KeyOf(r)] # Unset THEN "hit" ELSE "miss")
    /\ UNCHANGED <<config, providers, ask, answer, changing, pending, history, faults, crashes>>

(* A hit: the model is selected for the configuration read now, whose error *)
(* (Unset) is ignored.                                                       *)
Hit(r) ==
    /\ position[r] = "hit"
    /\ \/ Return(r, got[r], config[OwnerOf(r)]) /\ UNCHANGED faults
       \/ Fault /\ Return(r, got[r], Unset)
    /\ UNCHANGED <<config, providers, ask, got, changing, pending, history, crashes>>

(* A miss: the configuration is read; without one the next level decides.   *)
ReadConfig(r) ==
    /\ position[r] = "miss"
    /\ config[OwnerOf(r)] # Unset
    /\ got' = [got EXCEPT ![r] = config[OwnerOf(r)]]
    /\ Move(r, "fill")
    /\ UNCHANGED <<config, providers, ask, answer, changing, pending, history, faults, crashes>>

NextLevel(r) ==
    /\ ask' = [ask EXCEPT ![r].level = IF @ = "user" THEN "workspace" ELSE "server"]
    /\ Move(r, IF ask[r].level = "user" THEN "lookup" ELSE "fallback")

NoConfig(r) ==
    /\ position[r] = "miss"
    /\ config[OwnerOf(r)] = Unset
    /\ NextLevel(r)
    /\ UNCHANGED <<config, providers, got, answer, changing, pending, history, faults, crashes>>

(* Any other error than "not found" ends the request. *)
ReadConfigFails(r) ==
    /\ position[r] = "miss"
    /\ Fault
    /\ Move(r, "error")
    /\ UNCHANGED <<config, providers, ask, got, answer, changing, pending, history, crashes>>

Fallback(r) ==
    /\ position[r] = "fallback"
    /\ Return(r, Server, Server)
    /\ UNCHANGED <<config, providers, ask, got, changing, pending, history, faults, crashes>>

(* No change to the configuration of o is still to be announced or handled. *)
Settled(o) ==
    \A c \in Changes : (change[c] # Unset /\ change[c].owner = o) =>
        stage[c] # "stored" /\ c \notin pending

(* createAndCache: decrypt the key, build the provider, store it under the  *)
(* write lock, whatever has become of the configuration meanwhile.          *)
CreateAndCache(r) ==
    /\ position[r] = "fill"
    /\ \/ /\ providers' = [providers EXCEPT ![KeyOf(r)] = got[r]]
          /\ Return(r, got[r], got[r])
          /\ LET o == OwnerOf(r) IN
                missed' = IF config[o] # got[r] /\ Settled(o) THEN missed \cup {o} ELSE missed
          /\ UNCHANGED faults
       \/ Fault /\ Move(r, "error") /\ UNCHANGED <<providers, answer, missed>>
    /\ UNCHANGED <<config, ask, got, changing, pending, seen, had, crashes>>

-----------------------------------------------------------------------------
(* SetLLMConfig and DeleteLLMConfig, of users and of workspaces. *)

ToStage(c, s) == stage' = [stage EXCEPT ![c] = s]

(* Upsert or DELETE; deleting what is not there is an error. *)
StoreConfig(c) ==
    /\ stage[c] = "new"
    /\ \E o \in Owners, new \in Configs \cup {Unset} :
        /\ ~(new = Unset /\ config[o] = Unset)
        /\ config' = [config EXCEPT ![o] = new]
        /\ change' = [change EXCEPT ![c] = [owner |-> o, config |-> new]]
        /\ had' = [had EXCEPT ![o] = @ \cup {new}]
        /\ seen' = [r \in Requests |-> IF position[r] = "new" THEN seen[r]
                                       ELSE [seen[r] EXCEPT ![o] = @ \cup {new}]]
    /\ ToStage(c, "stored")
    /\ UNCHANGED <<providers, resolving, pending, missed, faults, crashes>>

(* Fire-and-forget publishing. *)
PublishChange(c) ==
    /\ stage[c] = "stored"
    /\ \/ pending' = pending \cup {c} /\ UNCHANGED <<missed, faults>>
       \/ Fault /\ missed' = missed \cup {change[c].owner} /\ UNCHANGED pending
    /\ ToStage(c, "ok")
    /\ UNCHANGED <<config, providers, resolving, change, seen, had, crashes>>

(* Mutant of Invalidate: only the key of a workspace is ever deleted. *)
InvalidateWorkspace(c) ==
    /\ c \in pending
    /\ providers' = [k \in ProviderKeys |-> IF k = change[c].owner THEN Unset ELSE providers[k]]
    /\ pending' = pending \ {c}
    /\ missed' = missed \ {change[c].owner}
    /\ UNCHANGED <<config, resolving, changing, seen, had, faults, crashes>>

(* The subscriber's InvalidateCache or InvalidateUserCache.  The event is   *)
(* delivered again when its acknowledgement is lost.                        *)
Invalidate(c) ==
    /\ c \in pending
    /\ providers' = [k \in ProviderKeys |->
            IF k \in KeysOf(change[c].owner) THEN Unset ELSE providers[k]]
    /\ \/ pending' = pending \ {c} /\ UNCHANGED faults
       \/ Fault /\ UNCHANGED pending
    /\ missed' = missed \ {change[c].owner}
    /\ UNCHANGED <<config, resolving, changing, seen, had, crashes>>

(* The cache is lost with the process, the events are not. *)
Crash ==
    /\ crashes < MaxCrashes
    /\ crashes' = crashes + 1
    /\ providers' = [k \in ProviderKeys |-> Unset]
    /\ position' = [r \in Requests |->
            IF position[r] \in {"new", "ok", "error"} THEN position[r] ELSE "lost"]
    /\ stage' = [c \in Changes |-> IF stage[c] = "stored" THEN "lost" ELSE stage[c]]
    /\ missed' = {}
    /\ UNCHANGED <<config, ask, got, answer, change, pending, seen, had, faults>>

PNext ==
    \/ \E r \in Requests :
        \/ Resolve(r) \/ Lookup(r) \/ Hit(r) \/ ReadConfig(r) \/ NoConfig(r)
        \/ ReadConfigFails(r) \/ Fallback(r) \/ CreateAndCache(r)
    \/ \E c \in Changes : StoreConfig(c) \/ PublishChange(c) \/ Invalidate(c)
    \/ Crash

PSpec == PInit /\ [][PNext]_pvars

-----------------------------------------------------------------------------
(* Type correctness: the values each variable ranges over. *)
ProviderTypeOK ==
    /\ config \in [Owners -> Configs \cup {Unset}]
    /\ providers \in [ProviderKeys -> Configs \cup {Unset}]
    /\ position \in [Requests -> {"new", "lookup", "hit", "miss", "fill", "fallback",
                            "ok", "error", "lost"}]
    /\ ask \in [Requests -> Ask \cup {Unset}]
    /\ got \in [Requests -> Configs \cup {Unset}]
    /\ answer \in [Requests -> Answer \cup {Unset}]
    /\ stage \in [Changes -> {"new", "stored", "ok", "lost"}]
    /\ change \in [Changes -> Change \cup {Unset}]
    /\ pending \in SUBSET Changes
    /\ seen \in [Requests -> [Owners -> SUBSET (Configs \cup {Unset})]]
    /\ had \in [Owners -> SUBSET (Configs \cup {Unset})]
    /\ missed \in SUBSET Owners
    /\ faults \in Nat
    /\ crashes \in Nat

(* Stale or not, a provider built from somebody's key is only ever handed   *)
(* out on behalf of that user, or in that workspace.                        *)
OwnConfigOnly ==
    \A r \in Requests : answer[r] # Unset =>
        CASE answer[r].level = "user"      -> answer[r].provider \in had[ask[r].user]
          [] answer[r].level = "workspace" -> answer[r].provider \in had[ask[r].workspace]
          [] answer[r].level = "server"    -> answer[r].provider = Server

(* "User > Workspace > Server": a lower level decides only if the level     *)
(* above had no configuration at some moment of the request; a failing read *)
(* does not count as having none.                                           *)
HierarchyRespected ==
    \A r \in Requests : answer[r] # Unset =>
        /\ answer[r].level \in {"workspace", "server"} => Unset \in seen[r][ask[r].user]
        /\ answer[r].level = "server" => Unset \in seen[r][ask[r].workspace]

(* A request is given the provider it is entitled to, by owner and level.   *)
ProviderIsEntitled == OwnConfigOnly /\ HierarchyRespected

(* Once every change to a configuration has been announced and its event    *)
(* handled, however often and in whatever order, no provider of an older    *)
(* configuration is cached ("This ensures the resolver re-reads the config  *)
(* from the database on the next request"): unless a change could not be    *)
(* announced, or a provider was still being built when its event was        *)
(* handled.                                                                 *)
SettledCacheIsFresh ==
    \A o \in Owners : (Settled(o) /\ o \notin missed) =>
        \A k \in KeysOf(o) : providers[k] \in {Unset, config[o]}
=============================================================================
