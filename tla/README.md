# A TLA+ model of canopy-backend

`canopy-backend` is the server of a collaborative world-building tool: people explore ideas as *leaves* of a graph,
talk to a language model in *sessions*, agree on leaves at consensus *checkpoints*, and let the model *synthesize* new
leaves out of old ones. This directory models its concurrent core in TLA+, checks it with TLC and proves the safety of
its main modules, for instances of any size, with TLAPS.

- [The system](#the-system): components, state, operations, interactions, and what is hard about them
- [The modules](#the-modules): what models what, and how to read it against the code
- [The runs](#the-runs): what TLC checks, within which bounds, under which fairness
- [The proofs](#the-proofs): what holds for all values of the constants, and why
- [Where code and documents disagree](#where-code-and-documents-disagree)
- [What is not modelled](#what-is-not-modelled)
- [The plan](#the-plan)

To repeat a check: `tlc -workers 2 -config MCSession.cfg MCSession`; a proof: `tlapm Convergence_proofs.tla`.

## The system

One Go process serves HTTP and WebSocket requests. `cmd/server` wires it; every bounded context under `internal/` has
the same layers (`domain`, `service`, `adapter/postgres`, `interface/http/v1`); `pkg/` holds the libraries. State that
survives a restart is in PostgreSQL and in the JetStream streams of NATS. Everything else is in memory.

**The pattern that matters most.** Nearly every operation that changes something reads a whole row (`FindByID`), calls
a domain method on the copy, and writes the whole row back (`Update`). There is no transaction around the two, no lock
and no version column. Each request is a goroutine of its own, so any other request may come between the read and the
write. Afterwards the operation publishes an event and ignores (logs) an error of the broker.

| Component | State | Operations | Hard because | Correct if |
|---|---|---|---|---|
| **convergence** `internal/convergence` | checkpoints (status, signals as JSON in one row), leaf signals | create a checkpoint, record a position, resolve | whole-row writes overlap; resolving decides on its own copy; promotion is a loop of calls after the answer is decided | one position per user; consensus and promotion only with an agreed row behind them; accepted positions stay |
| **exploration** `internal/exploration` | leaves, branches, connections, positions on the canvas | grow, branch, connect, move, promote, walk the graph | a walk asks once per hop while others extend the graph; recursive queries have no check for cycles; promotion writes the same column as convergence | a walk ends, misses nothing that was there and invents nothing; a leaf in the canopy has a reason to be there |
| **sessions** `internal/session` | sessions (status, messages in one row) | start, add a message (waiting or streaming), checkpoint, complete | the copy read before asking the model is written minutes later; goroutines nobody waits for share a stream; retries | no echo of a retry, replies in their place, as many ends as begins on the stream of a session |
| **synthesis** `internal/synthesis` | workflows | start, complete or fail by hand | a background run with a deadline, overridden by hand meanwhile; two transactions for leaf and workflow | coherent, final outcomes; results exist, but for those set by hand; events and stream tell what was stored; workflows settle |
| **workspaces** `internal/workspace` | workspace row, members, LLM configuration | create, join, leave, add, remove, change role; transition phase, edit settings; set LLM configuration | check and write are separate calls; settings share one row | entry only through the organization; authority descends; no phase skipped |
| **organizations** `internal/organization` | organizations, members, teams | the same for members | as above | as above |
| **provider resolver** `cmd/server/adapters.go`, `subscribers.go` | map of providers built from user and workspace configurations | resolve, invalidate on an event | cache filled after a slow read while events invalidate it; at-least-once delivery | own configuration only; hierarchy respected; no stale provider once events were handled |
| **identity** `internal/identity` | users, personal LLM configurations | register, profile, set or delete configuration | two first requests at a time; a user has two names, the subject of the token and an id | one user per subject, told to all who ask |
| **response cache** `pkg/llm` | map of responses; table of calls in flight | ChatCompletion | two critical sections; waiters; expiry and eviction; requests with the same key | one call per key at a time, answers are to requests with the same key, waiters released, capacity |
| **WebSocket hub** `pkg/websocket` | rooms of connections, their send channels | register, broadcast, unregister | the room is walked without its lock; channels are closed while a walk holds them | order, own room only, nobody skipped, connections end |
| **event delivery** `pkg/events` | streams, durable consumers | publish, deliver, ack, nak | lost acknowledgements, repeated events, restarts between handling and acknowledging | every event settles with every consumer |
| **ledger** `internal/ledger` | append-only audit tables | written by event subscribers | redelivery; an insert that fails | acknowledged means recorded |
| **notifications** `internal/notification` | notifications, subscriptions | fan-out to members, mark read, subscribe | a loop of calls whose errors are only logged; a reader overtakes the sender; the sent event comes back to the consumers | each member is notified or the failure is known; read marks stay |
| **discussion**, **deliverables**, **seeds** | one row per aggregate | comment; draft, generate, edit, finalise; plant, constrain, move | whole-row writes | every edit as if atomic, until a row is overwritten |
| **context assembly** `cmd/server/context_assembler.go` | none | cut a session's history and its system prompt to a budget of tokens | the history is a copy that others may have overtaken; estimates are rounded | the model is asked the prompt, after all of the history that fits and no gap |
| **authentication** `pkg/auth` | a copy of the identity provider's keys | validate a token, fetch the keys again | any number of requests fetch and store at once; keys come and go | a published key is known, a key that was taken back is refused once the copy has expired |
| **migrations** `pkg/database`, `cmd/migrate` | version tables | run all files that are not recorded | nothing keeps two migrators apart; a migrator may die anywhere; a file may never be accepted | a version is recorded exactly when its file has taken effect, in order; started again, all that can be applied is |
| **startup and shutdown** `cmd/server/main.go`, `pkg/httpserver`, `pkg/database` | the process, its resources, the pool's connections | open, listen, stop on a signal, close | requests under way when the signal comes, which may take longer than the server waits; a pool that waits for its connections; tables that may not be there | requests keep database and broker to the end, calls their connection; the process ends if the calls of the database do |
| configuration, health checks, model clients, demos | | | | see [below](#what-is-not-modelled) |

How they interact:

- HTTP handlers call services. Services call repositories, other contexts through small adapters of `cmd/server`
  (convergence and synthesis write leaves of exploration; sessions and synthesis ask the resolver for a provider), and
  the broker.
- Sessions and synthesis stream to clients through the hub (`streamBroadcasterAdapter`).
- A change of an LLM configuration is published, and a durable consumer invalidates the resolver's cache.
- Other consumers write the audit log and notifications. Sending a notification publishes an event of its own, on the
  stream the consumers read.
- Workspaces read the members of their organization when somebody joins or is added.
- The server neither migrates the database nor asks whether it has been migrated: a call on a table that is missing fails.
  Every request to the API passes the validation
  of its token first, and so does every WebSocket before it is handed to the hub.

## The modules

A module models one component. A request is a process with a program counter (`at`, `stage`); **every database,
broker and model call is a step of its own**, everything between two calls is part of the step. Requests are one-shot:
the set `Requests` bounds how many are served. A call may fail (`faults`, bounded by `MaxFaults`) and the process may
die (`Crash`, bounded by `MaxCrashes`), which ends every request in progress and keeps the tables. Names follow the
code. `PROJECT.json` maps each definition to the lines it stands for. Variables marked *history* exist for the
properties; no guard reads them. A definition under the comment "Mutant of X" is X with a plausible bug: it is used by
no specification, and shows that the property named with it in `PROJECT.json` can fail.

- **Convergence** models the checkpoints. `FindByID` is the read that recording and resolving begin with;
  `RecordConsensusPosition` and `ResolveCheckpoint` are the change and the `Update`; `UpdateLayer`,
  `AnnouncePromotion` and `PromotionDone` are the promotion loop, with its `continue` on errors; `PromoteLeaf` is the
  promotion endpoint of exploration, which asks for no checkpoint.
- **Session** models sessions. For a message, the copy (`snap`) lives on through `StorePrompt`, `RunStream`,
  `StreamChunk`, `AskFails` or `PersistReply`, and `EndStream`. The request without streaming takes the same path
  without the stream messages. A stream is named after its session (`sent`), so that the requests of a session share one.
  Assembling the context, resolving a provider and the model's call are one step that
  may fail; what the model is asked is the matter of ContextWindow. The author of a message (`by`) is not stored by the code; it tells properties who wrote what. Clients'
  messages have the role `user`; the handler passes on whatever it is given.
- **ContextWindow** extends Session with what is computed between the stored prompt and the model's call:
  `EstimateTokens`, `TruncateToTokenBudget`, `budgetForSessionType` with the code's numbers, `slidingWindowHistory` as
  a recursive function in the order of the code's loop, and `Assemble`. It adds no step. Texts are the numbers of their
  words: constants that the run chooses so that, by type of session, all, some or only the last of the messages fit.
- **Synthesis** models workflows. The steps of a run follow `runSynthesisStream`; `Expire` is the three-minute
  deadline, after which every call on the run's context fails, the one that stores the failure included.
  `CompleteSynthesis` and `FailSynthesis` are the overrides by hand: the first stores whatever id it is given, as neither
  the service nor the table looks for the leaf (`Unknown` are ids of no leaf), the second whatever reason, and an empty
  one is stored as none. A source list may name a leaf twice or a leaf that does not exist.
- **Membership** models the members and teams of one organization and the members of one workspace of it: `Authorize` (the role check),
  `Vet` (what is read about the target) and the write are three steps. `SetOrg`, `SetMember` and `SetTeams` are the
  repositories, `Conflict` the statement that changes no row.
- **Workspace** extends Membership with the settings: phase, lore keeper, details, configuration. An edit is
  `RequireLoreKeeper`, `FindByID`, `Update`, `AnnounceEdit`.
- **ProviderCache** models `llmProviderResolver`. A request tries the level of the user, of the workspace, of the
  server; `Lookup` is the read lock, `CreateAndCache` the write lock. A change stores a configuration, publishes, and
  `Invalidate` is the subscriber, whose event comes again when the acknowledgement is lost. Callers are authenticated,
  as all callers are. A provider is named by the configuration it was built from.
- **ResponseCache** models `CachedProvider` and `MemoryCache`: `Get`, `Drop` (deleting an expired entry), `Join` or
  `Lead`, `ModelReturns`, `Set`, `Done`, `CleanUp`, `Wake`. `Tick` is the clock, which entries expire by and eviction
  goes by: first what has expired (`Unexpired`), then one of those that expire first (`Oldest`). A request (`Prompts`) is
  what `CacheKey` reads of it: lines of words, in which a message may hold a line that looks like another message, and
  stop sequences that may hold commas. The text made of them is kept, as the code makes it; only the hash over it is taken
  to tell texts apart. Settings are model values that the key tells apart, although numbers that differ in the fifth decimal only
  are printed alike. With a temperature the cache is bypassed. The callers of the module share one `CachedProvider`. In the server each `Resolve` wraps the provider in a new one (`withResponseCache`), so that
  deduplication works among the calls of one request only, while the cache below is shared by all users and workspaces.
- **Hub** models `Hub`, `ServeConn` and `Broadcast`. The walk over a room holds the set of clients it may still yield.
  Writing a Go map while it is walked is a data race: the model lets the runtime stop the process, or lets the walk
  yield or miss the client that came or went. A send on a closed channel stops the process.

- **Delivery** models the stream, its durable consumers, and what two kinds of them write. `Consume` is the part common
  to all handlers: the consumer is handed the next event or one it has not acknowledged. `AppendEntry` and `AppendFails`
  are the audit subscribers; `FindMembers`, `Create`, `Deliver`, `AnnounceSent` and `AllSent` are the notification
  subscriber's loop, with its `continue` on errors; `Ack` and `AckLost` end a handler. `MarkRead` and `MarkAllRead` are
  the readers'. The broker is external: it is what `pkg/events` configures and relies on.
- **Exploration** models the graph: `StartBranch`, `CreateLeaf`, `CreateSynthesisLeaf`, `CreateConnection`, the two
  queries that ask the database once per hop (`Hop` then `FetchNeighbors`, `FetchSources`), and those that ask once
  (`Ancestors`, `Descendants`), which are operators: they see one state. What the walks should answer is defined apart
  from them: `Neighbors` by the paths of a number of hops, what recursive queries reach (`Reached`) as the least set
  closed under a step, `Lineage` by that. `Grown` says of the graph at the start that it was grown leaf by leaf, as
  every graph of the code is.
- **Documents** extends Exploration with what hangs off the graph: threads, deliverables, seeds, signals on leaves,
  positions on the canvas, and, beside it, subscriptions to notifications. `FindBy...`/`FindFor...`/`FindSubscription`
  is the read, `AddComment`, `Update`, `WriteFinal`, `SaveSubscription` the whole-row write of the copy;
  constraints and positions are columns, signals rows, written on their own.
- **Migrations** models the migrators: `OpenSchema` reads the recorded versions once per schema; a file is `Begin`,
  `Execute`, `Record`, `Commit`, as one transaction. The locks of the database are in the guards: the statements of a
  file wait for another transaction that executes the same file, and fail once it has committed. `Abort` is a failing
  call or a killed process, and may come after the commit was done unheard. A file may be one that the database refuses on
  every run (`refused`): which of the `Doubtful` files are is fixed by the initial state. Only `cmd/migrate` is modelled here.
- **TokenKeys** models `JWKSValidator`: `GetKey` is the first lookup, `FetchKeys` the request to the provider,
  `StoreKeys` the exchange of the copy, `LookUpAgain` the second lookup. `Publish`, `Retire` and `Expire` are the
  provider and the clock. What a signature and the claims say is a nondeterministic verdict.
- **Accounts** extends TokenKeys with identity: an admitted request registers, edits a profile, asks who it is, or sets
  or deletes a configuration. A row of `users` is found by the subject of the token and has an id of its own.
- **Server** extends Accounts with the process: `OpenNext`, `Listen`, `Signal`, `BeginShutdown`,
  `FinishShutdown` or `ShutdownTimesOut`, `CloseLast`, `ClosePool`, and `Exit`, which is the end of `main` (`Return`), an
  `os.Exit` or a kill. A call of the database borrows a connection (`Acquire`, `holding`) and returns it with its result
  or its error (`Query`); a pool that is being closed lends no more, and `main` returns when it has all of them back.
  `MakeTable` is whoever applies the files of identity, at any time. A request that finds the database closed, or its
  table missing, gets an error.

Four modules state what a component promises, with every operation atomic: **CheckpointPromise**,
**ConversationPromise**, **WorkspacePromise**, **DocumentsPromise**. The detailed module instantiates its promise with
a refinement mapping (`KeepsPromise`). The code keeps a promise only until two requests overlap badly, and the promises say so: they have a
variable `void`, the objects of which nothing is promised any more. It is mapped to the history variable
`overwritten`: **the objects whose row was replaced by a request that had read an earlier one.** So `KeepsPromise`
says that lost updates are the *only* way in which the promise is broken — overlapping requests that happen not to
overwrite one another, failures and restarts do not break it. Other properties use the same condition.

## The runs

The longest run takes about two minutes, most take less than one. `CHECK_DEADLOCK FALSE` is set everywhere: requests are one-shot, so the
models come to rest when all were served (the hub also when the process has stopped).

| Run | Module | States | What it asks |
|---|---|---|---|
| `convergence` | Convergence | 235 000 | Safety of three overlapping requests by members and a stranger, with a failing call and a restart |
| `session` | ContextWindow | 515 000 | Safety of three overlapping requests on a session, and what the model is asked, with a failing call and a restart |
| `synthesis` | Synthesis | 814 000 | A run, two overrides with any leaf or reason, the deadline, a failing call, a restart |
| `workspace` | Workspace, with Membership | 1 605 000 | Two changes of membership of any kind and two edits, at most three of the four, and a failing call |
| `server` | Server, with Accounts and TokenKeys | 400 000 | A server started twice, tables that appear at any time, two requests, a rotating key, a failing call |
| `migrations` | Migrations | 5 600 | Two migrators, two aborts, three schemas, a file that may be refused |
| `provider_cache` | ProviderCache | 2 700 000 | Two requests of two users, two changes, a failing call, a restart |
| `response_cache` | ResponseCache | 321 000 | Three callers, four requests of which two share a key and one bypasses the cache, a cache of one entry, a clock that entries expire by, a failing call |
| `hub` | Hub | 256 000 | A broadcaster with three messages, two clients, two rooms, a buffer of one, racing map writes |
| `delivery` | Delivery | 549 000 | Two events, an auditor and the notifications, a failing call or lost acknowledgement, a restart, a reader |
| `documents` | Documents | 418 000 | Three requests that extend and walk the graph, edit documents, signal and subscribe, a failing call |
| `hub_panic` | Hub | | finds the counterexample of [Where code and documents disagree](#where-code-and-documents-disagree) |

What the properties say:

- *convergence* — `OneSignalPerUser`: the duplicate check is made on a copy that may be stale and still protects the
  row. `AgreementBehind`: behind every announced consensus and every promoted leaf there is a
  stored, agreed row (or, for a leaf, a direct promotion). `PromotionPursued`: until a call fails or the process dies,
  a checkpoint that was stored with consensus has each of its leaves promoted, or a request under way that will
  promote it. `KeepsPromise`: until a row is overwritten.
- *session* — `NoEchoedMessage`: overlapping retries never store a message twice within the guard's reach.
  `ReplyFollowsPrompt`: a late reply is never attached to somebody else's message. `StreamsAddUp`: on the
  stream that the requests of a session share, nothing is sent while none of them has begun and not ended; and once none
  is under way (and none was lost with the server) there are as many ends and errors as starts. It does not say that an
  end is that of the request that began last: two that overlap interleave on one stream, and a client cannot tell
  whose `stream.end` it sees. `ModelSeesPrompt`:
  whatever has overtaken the copy, the model is asked the prompt of this request, last, after the longest part of the
  history before it that the budget has room for. `KeepsPromise`.
- *synthesis* — `ResultsSound`: runs and overrides write over one another, never a mix, and a result exists; a workflow
  that names a leaf that does not, or fails without a reason, was given them by hand.
  `OutcomeTold`: events and stream agree with what was stored; who is told of
  an error finds the workflow settled, unless a call failed or the time was over. `TerminalIsFinal`: only an
  overwrite changes an outcome. `WorkflowSettles`.
- *workspace* — `MembershipSound`: nobody is in a workspace without having been in its organization, and events of
  arrivals and departures are true. `RemovalIsNotUndone`: a role change does not bring a deleted row back.
  `KeeperMadeByKeeper`: a lore keeper is made by somebody who was one. `NoPhaseSkipped`: although edits overwrite one
  another, a workspace has been in every phase below its own. `KeepsPromise`.
- *migrations* — `MigrationsSound`: however migrators overlap and wherever they are killed, what is recorded has taken
  effect, once, in its own schema and after the files before it. `MigrationsFinish`: interrupted and started again, they
  come to rest with every file applied, or exactly those before the first one that the database refuses.
- *server* — `PublishedKeyIsKnown`: a key that
  was published before a request came is not unknown to it, whatever others fetch and store meanwhile; the exception
  (a document older than the key that was on its way when the request came) is what the history variable `assured` leaves
  out.
  `RetiredKeyIsRefused`: a key is accepted until the copy that has it expires, or a document that has it is no longer on its way.
  `OneUserPerSubject`: all who ask are told of one user. `ServedToTheEnd`: requests find
  the database and the broker open, unless the server has stopped waiting, and a call that holds a connection finds the
  database open even then. `ShutdownEnds`: a server that is told to stop ends, whatever its requests wait for, provided
  that every call of the database returns its connection in the end. Without that it need not: the timeout ends the
  waiting for requests, and then the pool waits for its connections, without one.
- *provider_cache* — `ProviderIsEntitled`: nobody gets a provider built from somebody else's configuration, and a lower
  level decides only if the higher one was empty. `SettledCacheIsFresh`: once every change was announced
  and handled, in whatever order and however often, no older provider is cached, except through the two ways the
  history variable `missed` records (an event that was never published; a provider that was still being built when
  its event was handled). A restart heals both.
- *response_cache* — `AnswersSound`: the cache stays within its capacity, and what is stored or answered under a key
  is the answer to a request with that key — the same request only if the key tells it from others, which it does not always
  (the run has two that it confuses); a request with a temperature is answered by its own call. `OneFlightPerKey`, `WaitersReleased`.
- *hub* — `InOrder`, `NobodySkipped`, `CalmWalksAreSafe`, `LeavingEnds`.
- *delivery* — `AckedIsWritten`: whatever failed, got lost or was restarted, an event that a consumer will not see again
  is in its audit table. `MembersNotified`: each member but the actor is told of each event, or a call failed (these
  failures are logged only, and nobody comes back to them: the history variable `missed`). `ReadMarkKept`: the mark
  survives redelivery and other deliveries. `EventsSettle`: notifications beget events, and still the stream comes to
  rest again and again, acknowledged by everyone.
- *documents* — `WalksAreSound`: a walk whose hops see different graphs answers with all that was within reach when it
  began, and with nothing that is not when it ends; and no leaf is ever its own ancestor, so that the recursive queries
  end. `KeepsPromise`.

**Bounds, and why they are enough.** A lost update takes two requests, and a third to observe or to compound it; so
three requests, of which `workspace` lets any three of two edits and two changes of membership be taken (`MaxTaken`). One failing call and one restart, at any point, reach
every error path: no error handler of the code makes more than one call whose failure matters. Two leaves make the
promotion loop go round. A buffer and a cache of one entry are full at once. Two users (and in `convergence` a
stranger), two rooms and two keys let one be confused with the other. `provider_cache` has one configuration, present
or absent for each owner: providers of two users differ then by whether the owner ever had it. One workflow, checkpoint
or session suffices, because rows do not refer to one another; each is read and written by its id. Chunks of a stream
are bounded by one, as they only lengthen it. In `delivery` one auditor stands for all, because consumers share nothing
but the stream; of its two events one is recorded and notified, caused by a member, and one is neither. In `documents`
the graph starts with a branch of two leaves, a connection and a synthesis; a fourth leaf can join it during a walk of
one or two hops, and both may lie inside the lists a client sends, one of which repeats an id and one is empty. Of the
two wishes for a subscription one is about channels and one about the digest, so that one can undo the other. In
`migrations` three schemas of one, two and one files make the order within and between them matter, with the doubtful file
neither first nor last; two aborts (`MaxAborts`) can hit both migrators or one twice. In `synthesis` one id of no leaf
stands for all. In `server` one start is followed by another (`MaxStarts`), and one key is published and taken back,
which is a rotation as a request sees it, as requests meet in the copy and in the documents on their way.

Symmetry is used for requests, callers and edits that are interchangeable, and only in runs without liveness.

The words of the texts in `session` are chosen beside the code's budgets for the history (1000, 3000 and 4000 tokens):
a long message alone exceeds the smaller two, a long message and a reply exceed all, and two short messages with the
reply between them fill the smallest exactly. `workspace` has one team.

**Fairness.** Liveness is asked in `synthesis`, `response_cache`, `hub`, `delivery`, `migrations` and `server`; the other runs assume no
fairness. Weak fairness is assumed for the steps of a goroutine that has started: the Go scheduler runs it on, the
database driver and the model client have timeouts, and the models let each call fail. A consumer that has an event
waiting is run, as the broker redelivers without limit (`MaxDeliver` is not set) and the client runs a goroutine per
consumer; calls and acknowledgements fail finitely often (`MaxFaults`). Nothing is assumed of clients:
they need not send another request. In the hub a connection that is leaving has its pump, and its `unregister`,
treated fairly; `PumpStops` is strongly fair, because Go's `select` chooses uniformly among ready cases and does not
ignore a cancelled context forever in favour of queued messages. A write is bounded by the same context.
In `migrations` a migrator is started again until it has ended well (somebody deploys), for ever if a file is refused.
In `server` a process that starts or stops goes on. Nothing is assumed of its requests: they may take for ever, which is
why shutting down needs its timeout. Of the calls of the database `ShutdownEnds` assumes, as its own premise, that each
connection comes back; nothing in the code sees to that but the driver.

## The proofs

TLAPS proves what follows for every value of the constants: any sets of requests, users, edits, runs, leaves and
connections, any number of failing calls and restarts, any size of a buffer.

| Module | Theorem | Property | Along |
|---|---|---|---|
| `Convergence_proofs` | `TypeCorrect` | `TypeOK` | `TypeInv`: with `RequestOK`, what a request holds at each of its steps |
| | `OnePositionPerUser` | `OneSignalPerUser` | `SignalInv`: what is written comes from a copy, so the copies must be free of duplicates too (`CopiesUnique`) |
| | `AcceptedPositionsStay` | (not in a run) `AcceptedPositionKept` | `KeptInv`: the checkpoint of an accepted position exists, hence cannot be created anew (`AcceptedExists`); `WriteStep` is the argument common to both operations that write |
| | `ConsensusIsPursued` | `PromotionPursued` | `PursuedInv`: a leaf is taken off the list of a promoting request only when it is in the canopy (`HeadPromoted`) |
| | `AgreementIsBehind`, from `ConsensusIsJustified` and `CanopyIsJustified` | `AgreementBehind` | `JustifiedInv`: what a request promotes and announces is backed by an agreed row that was stored (`ResolversBacked`) |
| | `CheckpointsKeepPromise` | `KeepsPromise` | `SignalInv`: with one position per user, a row is a function from users to positions; a write over the row that was read is a step of the promise (`WriteStands`), any other makes it void (`WriteLapses`) |
| `Session_proofs` | `TypeCorrect` | `TypeOK` | `TypeInv` |
| | `NoMessageEchoed`, `RepliesFollowPrompts` | `NoEchoedMessage`, `ReplyFollowsPrompt` | `MessagesInv`: copies are as well-formed as rows, and the copy of a request that asks the model ends with its prompt |
| | `EveryStreamAddsUp` | `StreamsAddUp` | `StreamsInv`: the starts of a session's stream exceed its ends and errors by the number of its requests that have begun and not ended (`AddsUp`), and those lost with the server |
| | `ModelIsAskedThePrompt` | `ModelSeesPrompt` | `PromptsLast`: the copy of a request that asks the model ends with its prompt; `WindowFits`: the window of any history is the longest that fits, by induction over the code's loop |
| | `TruncationFits` | (a lemma for all texts and budgets) | arithmetic: the words kept, counted in tokens again, stay within the budget |
| | `SessionsKeepPromise` | `KeepsPromise` | `OpenInv`: a request that will still append a reply holds a copy that is not terminal |
| `Synthesis_proofs` | `StoredResultsAreSound` | `ResultsSound` | `OutcomeInv`: a row is as it was started, failed or completed (`Outcome`), and what no run can have written was asked by hand (`ByHand`, which stays true: `HandsKept`); copies of overrides were rows once (`OverrideOK`); what is announced next was stored (`RunOK`, `OverrideOK`) |
| | `OutcomesAreTold` | `OutcomeTold` | the same, with what a run has sent (`SentOK`) |
| | `FinishedStaysFinished` | `TerminalIsFinal` | the same; only a write that was not read from the present row replaces an outcome |
| `Workspace_proofs` | `MembershipIsSound`, from `EnteredThroughOrg` and `EventsTellTheTruth` | `MembershipSound` | `BelongingInv`: a check that was passed was true at some time, and stays true of the history (`CheckedOK`, `EverOK`); what is announced next was written (`WrittenOK`); who is in a team joined it (`TeamsOK`) |
| | `RemovalStays`, `KeepersMakeKeepers` | `RemovalIsNotUndone`, `KeeperMadeByKeeper` | the same, step by step |
| | `EveryPhaseInTurn` | `NoPhaseSkipped` | `SettingsInv`: a copy holds a phase that was reached, so its successor may be reached (`EditOK`, `RowOK`), on top of `BelongingInv` |
| | `KeepersEdit` | (not in a run) `EditedByKeeper` | the same; an edit past its check has a caller who was lore keeper |
| | `SettingsKeepPromise` | `KeepsPromise` | the same; an edit over the row it has read changes one setting or advances the phase (`UpdateKeepsPromise`) |
| `Delivery_proofs` | `TypeCorrect` | `TypeOK` | `TypeInv`: what a consumer handles is in the stream and was handed to it |
| | `AcknowledgedIsRecorded` | `AckedIsWritten` | `AuditInv`: an auditor that has handled an event has written it |
| | `MembersAreNotified` | `MembersNotified` | `ToldInv`: at each step of the loop a recipient is told, missed or still to come |
| | `MarksStay` | `ReadMarkKept` | `TypeInv`: only the last notification is being delivered |
| `InMemory_proofs` (Hub) | `OnlyRacesStopTheProcess` | `CalmWalksAreSafe` | `CalmInv`: as long as nobody came or went, all a walk may still yield is registered (`WalkOK`), and what is registered has an open channel (`RoomOK`) |
| | `MessagesStayInOrder` | `InOrder` | `OrderInv`: what is on its way to a client is of broadcasts that have begun, and of earlier ones than those that have yet to send to it (`RowOK`) |
| | `BroadcastsReachTheRoom` | `NobodySkipped` | `SentInv`: a client that was in the room when a walk began and still is, is yet to be sent the message, or has been (`DealtWith`) |
| (ProviderCache) | `ProvidersAreEntitled` | `ProviderIsEntitled` | `PInv`: what is cached or in hand was its owner's at some time (`OwnersOwn`), under keys that no two owners share (`KeyIsTheOwners`); a level is passed only where there was no configuration (`LevelsPassed`) |
| | `SettledProvidersAreFresh` | `SettledCacheIsFresh` | itself, on `PInv`: a change is announced once, after it was stored (`Announced`) |
| (ResponseCache) | `AnswersAreSound`, `CallsAreShared` | `AnswersSound`, `OneFlightPerKey` | `RInv`: the table of calls in flight holds exactly the calls being made (`TableSound`), waiters wait for a call with their own key (`OutcomesKnown`), as do those that were answered (`AnswersKeyed`), a key reads like its request (`KeysReadAlike`), and eviction leaves room for what is added (`SetMakesRoom`) |
| `Server_proofs` (Migrations) | `MigrationsAreSound` | `MigrationsSound` | `MigrationsInv`: all files before a migrator's position are recorded (`PassedOK`), its transaction has the path of its schema (`CurrentOK`), and no two are executing the same file (`LocksOK`) |
| (Server) | `PublishedKeysAreKnown`, `RetiredKeysAreRefused` | `PublishedKeyIsKnown`, `RetiredKeyIsRefused` | `KeysInv`: an assured request's key is published and in every document on its way, and in the copy once its own document is stored (`AssuredOK`); a key that lapsed is in no document, and in the copy only while nobody may look at it (`GoneOK`) |
| | `SubjectsHaveOneUser` | `OneUserPerSubject` | `AccountsInv`: the copy a profile is edited on has the id of the row (`JobOK`), and no write changes an id |
| | `RequestsAreServedToTheEnd` | `ServedToTheEnd` | `ProcessInv`: while it serves or drains a process has all resources open, and the database until it is gone; nobody is active before and, without a timeout, after; whoever holds a connection is in a call (`ProcessOK`) |
| `Documents_proofs` | `TypeCorrect` | `TypeOK` | `TypeInv`: a request that has read what it will change holds a job and a copy that fit one another (`JobsOK`) |
| | `WalksStaySound` | `WalksAreSound` | `WalksInv`: of a walk under way, the graph it began with is covered by what it has seen, and it has seen nothing beyond its hops (`Walking`, `Tracing`); of the graph, each leaf has others that were there before it, those it grew from among them (`Rooted`) |
| | `DocumentsKeepPromise` | `KeepsPromise` | `TypeInv` and `CommentsDone`: a request has a comment in a thread, or in a copy of one, only once it is done |


Each invariant is inductive: initial states satisfy it (`Init...`), each action keeps it (one step or lemma per
action), and it implies the property. The properties by themselves are not: they speak of rows, events and rooms, while
what is written next sits in the copies and program counters of requests. That is what the strengthenings add.

Some of these invariants are worth a second look, because the property alone gives no hint of them. A walk asks the
database once per hop, and others extend the graph between two hops. What it has seen is then within reach in no single
state before its end, so `Walking` speaks of two graphs: there are connections, those known when it began or more, all of
whose paths of as many hops as were made end in what was seen; and what was seen is within as many hops in the graph of
now. That the graph has no cycles is not inductive either: a new leaf could close one if old leaves could name it
before it exists. `Rooted` excludes that, and needs no order of creation. In the hub, `InOrder` alone allows a broadcast
to send to a client that already has a later message; `RowOK` says that no such client is left in its walk. In
the response cache two callers make the same call unless both are in the table of calls in flight, and the table has
one entry per key: hence `TableSound`.

Four of the theorems are refinements: `Spec => KeepsPromise` says that the detailed module implements its promise, with
initial states mapped to initial states and every step to a step of the promise or to none. They make precise that lost
updates are the only way in which checkpoints, sessions, workspace settings and documents break what they promise.

The modules also prove type correctness (`TypeCorrect`, `MembersTypeCorrect`, `SettingsTypeCorrect`, `ServerTypes`, `MigrationTypes`,
`ProvidersWellTyped`, `ResponsesWellTyped`). Where it is proved for all values, the run does not repeat it.

The assumptions are those of the modules and no others, and TLC evaluates them in the runs: `ConvergenceAssumption`
(members are users, leaf lists are non-empty sequences of leaves), `SessionAssumption`, `SynthesisAssumption`,
`ContextAssumption` (texts have numbers
of words), `MembershipAssumption`, `WorkspaceAssumption`, `HubAssumption`,
`ProviderCacheAssumption` (no user is a workspace, no pair of both is one), `ResponseCacheAssumption` (a cache has room
for an entry), `ExplorationAssumption` (the graph at the start has grown leaf by leaf: `Grown`), `DocumentsAssumption`, `DeliveryAssumption` (members are users, an event has at
most one actor, the notification consumer is no auditor), `MigrationsAssumption`, `TokenKeysAssumption`,
`AccountsAssumption`, `ServerAssumption`; all say that `None` is none of the values it stands beside,
and that bounds are natural numbers.

The theorems go beyond the runs where those are small. The run `workspace`, for instance, takes three requests;
`KeepersEdit` covers any number of edits and changes of membership. The run `server` has one key; `KeysInv` covers any number.

So every safety property that a run checks is a theorem. Only model-checked is liveness (`WorkflowSettles`,
`WaitersReleased`, `LeavingEnds`, `EventsSettle`, `MigrationsFinish`, `ShutdownEnds`), which is out of the prover's
reach, as is `ENABLED`. The violation is a counterexample that TLC finds.

The library's theorems of induction take an operator, which no prover here can instantiate. Where a proof needs
induction over numbers it is made with sets: a set of numbers that is not empty has a least one (`LeastNatural`, from
the well-foundedness of the subsets of a finite set), so a set with 0 and all successors has all numbers
(`InductionOnSets`), and a function that is defined by its predecessor exists (`IteratesExist`). From these follow that
`slidingWindowHistory` computes what it should for every history (`WindowFits`), and that a set closed under
connections contains all paths that begin in it (`PathStays`).

## Where code and documents disagree

The run `hub_panic` shows a sentence of the repository violated by the code: "remove from room, close send channel"
(`pkg/websocket/hub.go:152`). `Broadcast` walks the room after releasing the lock. A client that leaves meanwhile has
its channel closed; sending on it panics, and takes the server down. `CalmWalksAreSafe` shows that this needs a client
that comes or goes during the walk.

The condition `overwritten` in the properties marks where further sentences hold only without lost updates:

- "Resolve marks the checkpoint as resolved. Cannot be undone" (`convergence/domain/checkpoint.go:164`): a position
  recorded from an earlier copy opens it again.
- "IsTerminal reports whether the session is in a final state" (`session/domain/session.go:47`): a reply that arrives
  after completion makes the session active again.
- "A workspace can only move forward in this sequence, never backward" (`workspace/domain/workspace.go:21`): any
  overlapping edit writes back the phase it read.

Other sentences fail in so few steps that no run is needed to see it:

- "Only members of the owning organization can be workspace members" (`internal/workspace/domain/member.go:28`): removing
  somebody from the organization leaves their rows in its workspaces, roles included. `MembershipSound` therefore speaks
  of who *has been* in the organization.
- "Run applies all unapplied migrations" (`pkg/database/migration.go:31`): the column that
  `internal/exploration/adapter/postgres/migrations/003_add_leaf_search.sql:5` generates calls `array_to_string`, which
  PostgreSQL declares stable and so refuses in a generated column, on every run. `cmd/migrate` never gets past
  exploration. `MigrationsFinish` says where it comes to rest.
- "The composition root uses this to run all bounded-context migrations at startup" (`pkg/database/migration.go:182`):
  `cmd/server/main.go` runs no migration and checks none. The image holds `migrate.sh` beside the server, which nothing
  starts (`Dockerfile:42,49`); it passes every file to `psql`, goes on whatever happens (`|| true`) and records nothing.

And some behaviour is worth knowing:

- Different prompts can have the same key. `CacheKey` (`pkg/llm/cache.go:30-39`) writes role and content without escapes
  and joins stop sequences with a comma, so that a message of the user that has a line `user:y` reads like two, and the
  stop sequence `a,b` like `a` and `b`. Such a request is given the answer to the other, from the cache that all users
  share. `AnswersSound` allows for it.
- Closing the pool (`pkg/database/database.go:88`) waits until every connection has been returned: a call that does not
  end keeps the process alive past the timeout of the shutdown. `ShutdownEnds` has the contrary as its premise.
- `PromoteLeaf` reaches the canopy without a checkpoint; `exploration/domain/leaf.go:57` says leaves "can only be
  promoted to the canopy through the convergence context". `AgreementBehind` therefore allows for it.
- A leaf whose `UpdateLayer` fails is skipped, and no later request promotes it.
- The retry of a message whose reply failed is skipped as a duplicate, and no reply is made.
- A run that is out of time writes its failure on the expired context: the clients get `stream.error` and the workflow
  stays in `processing` (`OutcomeTold` and `WorkflowSettles` allow for it).
- The last owner of an organization and the last lore keeper of a workspace can go.
- On a hit in the provider cache the model is selected by the configuration read now, the provider by an earlier one.
- `CachedProvider` is no `StreamProvider`: with the response cache configured, streaming always falls back to one call.
- Subscriptions to notifications can be edited, and sending asks for none of them, although a subscription is described
  as "controlling which event types trigger notifications" (`internal/notification/domain/subscription.go:28`).
- A lost acknowledgement doubles audit entries and notifications: neither carries the id of its event as a key.
- A member whose notification could not be created is never told; `Send` may take back a read mark that a quick reader
  set before it was done (`ReadMarkKept` allows for both).
- Two overlapping comments on a leaf can lose one; an edit from an earlier copy opens a finalized deliverable again.
- A connection may name leaves that do not exist, and graph queries ask for no membership.
- Nobody asks whether a user who is added to a team belongs to the organization, nor takes somebody who leaves it out of
  its teams, although a team is described as "an optional functional grouping within an organization"
  (`internal/organization/domain/team.go:10`).
- "Caller must be the signal owner" (`internal/convergence/service/service.go:95`): the service looks for a caller and
  deletes the signal by its id, whoever the caller is.
- The system prompt is cut at its end, where the role of the model is described, and by one budget for all its parts.
- Nothing calls `EnsureThread`, which is described as called by event subscribers.
- Nobody can set a personal LLM configuration. The row refers to `users(id)`
  (`internal/identity/adapter/postgres/migrations/002_add_user_llm_configs.sql:2`), an id that `NewUser` generates; the
  service writes the subject of the token there (`internal/identity/service/service.go:153`), and the database refuses.
  The comment says "SetLLMConfig sets or updates the authenticated user's personal LLM configuration" (line 149). In the
  run `server` the table `configs` stays empty for this reason. The level of the user in ProviderCache presupposes a
  subject that is an id of `users`; that level is reached for no other.
- "If the user already exists (by external ID), the existing record is returned" (`identity/service/service.go:47`): of
  two first requests at the same time, the second is told of a conflict.
- "Empty strings are ignored (no change)" (`identity/domain/user.go:71`): an empty avatar removes the avatar. Two edits of
  a profile at the same time can lose one, as the whole row is written.
- A key document that comes late replaces a newer copy (`pkg/auth/jwks.go:142`); the next unknown key repairs it.
- `make migrate`, which `make dev` runs before the server, promises to "apply all context migrations in order" (`Makefile:54`): it applies the first file of each
  context, outside of the contexts' schemas, and records no version. `cmd/migrate` is what Migrations models.
- `stream.end` and `stream.error` name the session only: of two overlapping requests, the first to end ends the stream for
  the clients, and chunks of the other follow. `StreamsAddUp` allows for it.
- A workflow can be completed by hand with the id of no leaf, and failed without a reason (`ResultsSound` allows for both).
- A server that cannot listen shuts down in order and exits with code 0.
- "Close drains the connection (finishes in-flight messages) and closes" (`pkg/events/broker.go:97`): `Drain` returns at
  once, and the database is closed next. Background runs of sessions and syntheses are not waited for either.
- A change of a subscription asks for no membership in its workspace.
- Events of users (configurations, registrations, profiles) carry no workspace; the models assume that the broker accepts such a subject.

## What is not modelled

- **Ambiguous outcomes**: a write that is done while its caller is told it failed.
- **Lists and searches**: they read one snapshot and change nothing. (Ancestors and descendants are modelled, as
  recursion that has to end.)
- **The size of the pool**, and the connections that consumers and background goroutines hold: `holding` is of requests only.
- `EnsureThread`, `ChangeFormat`, `AddSourceLeaf`, and the update and deletion of teams: called by nothing.
- **The age limit of the stream** (seven days): a consumer that is away for longer loses events.
- **Static tokens** of development (`pkg/auth/static.go`): a constant table.
- **Model clients** (`pkg/llm`, other than the cache): HTTP clients of remote services; external, they are the answers
  and failures of other modules. The choice of a model by task is a constant table.
- **Configuration, health checks, logging, encryption, demo programs**: wiring, pure functions or tools. The
  background work that outlives its request (syntheses, streams) ends with the process: `Crash` of the other modules.
- **Other modules within Server**: the requests of Server are those of identity. That every other request, too, passes
  the same validation and has the same resources is how `main` wires them; composing all tables would add states and no
  interaction, as they share none.

## The plan

Built so far, in this order: Convergence with its promise; Session and ContextWindow; Synthesis; Membership; Workspace; ProviderCache;
ResponseCache; Hub; Delivery; Exploration; Documents; Migrations; TokenKeys, Accounts and Server; proofs of the safety
of all of them and of the refinements of the four promises.

Next modules:

1. **Streaming**: sessions, hub and delivery composed: what a client that stays connected is told of a session.
2. **Retention**: the age limit of the stream, which lets a consumer that is away too long lose events.

Theorems worth proving next:

1. The safety half of what only liveness says so far: a waiter of the response cache always has a call under way that will wake it;
   a migrator that is not done has no migrator before it that holds a lock for good; an event that is not acknowledged
   is pending with its consumer.
2. That each promise implies what a reader takes from it: of CheckpointPromise, one position per user and no way back
   from resolved; of WorkspacePromise, phases in turn.
3. What the refinements say of a history without overlap: `overwritten` stays empty if no two requests change the same
   row at a time.
