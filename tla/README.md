# A verification development of a2a-gateway-mcp

The gateway is an MCP server that lets an MCP client talk to A2A agents. Its
tools (`connect_agent`, `send_message`, `broadcast_message`, ...) share a handful
of in-memory stores. Every tool call runs in a goroutine of its own; some start
more of them (one per agent of a broadcast, one per asynchronous send). Nothing
but the history files survives a restart.

This directory models that program in TLA+, checks the models with TLC and
proves theorems about them with TLAPS. Paths below are relative to `src/`.

## Inventory

| Component | State | Operations | Interacts with |
|---|---|---|---|
| agent registry (`registry/agent_registry.go`) | alias -> URL, headers, card | Connect, Disconnect, SetCard, Lookup, List | every tool; header providers of cached clients |
| context store (`registry/context_store.go`) | alias -> context id | Get, Set, Delete | send, connect, disconnect |
| client resolver (`registry/client_resolver.go`, `http.go`) | URL -> client; a client holds a transport and a header provider | Resolve, Evict | registry (card by URL, headers by alias at request time) |
| rate limiters (`registry/rate_limiter.go`) | alias -> token bucket | Set, Remove, Allow, CheckRateLimit | connect, disconnect, send, broadcast |
| health tracker (`health/`) | alias -> status, consecutive failures | Reset, RecordSuccess, RecordFailure, IsHealthy, Delete | connect, disconnect, send, broadcast, ping |
| history (`history/`) | alias -> last *depth* interactions, in memory or in files | Append, List, Clear, Delete | send, broadcast, get/clear_history, disconnect |
| inbox (`registry/inbox.go`) | a sequence of entries with a TTL | Deposit, Peek, Pop | background sends deposit, check/read_inbox read |
| caller card (`registry/caller_card_store.go`) | one card and its key | Set, Get, Remove, InjectCallerCard | send, broadcast |
| connect / disconnect (`internal/tool/tool_connect.go`, `tool_disconnect.go`) | none | one handler each | six of the stores, one after another |
| send (`internal/tool/tool_send.go`, `auth_retry.go`, `helpers.go`) | none | direct, streaming, asynchronous; 401/403 retry; task polling | most stores, the agent |
| broadcast (`internal/tool/tool_broadcast.go`) | outcomes of one broadcast | fan-out, collection, asynchronous variant | most stores, the agents |
| ping, get_task, cancel_task, list, card, history, inbox tools | none | one handler each | the store they are about |
| directory (`directory/`) | name -> card | Register, Unregister, List, ServeHTTP with a cursor, ListenAndServe | discover_agents, other HTTP clients |
| discover_agents (`internal/tool/tool_discover.go`, `gateway/tools.go`) | none | one page, of the hosted directory in process or of another one over HTTP | directory |
| server (`gateway/`) | options | NewServer, Run, timeouts | builds everything above |

**What is hard here.** Each store is guarded by its own mutex and is correct by
itself; nothing guards them together. A handler visits several stores, so any
two calls interleave between any two critical sections, and a send waits for a
remote agent in the middle. It acts afterwards on what it resolved before:
health, context and history are updated by alias, although the alias may have
been reconnected meanwhile. Clients are cached by URL while headers are
looked up by alias. Retries (401/403), timeouts and polling run inside the call.
The background goroutines of asynchronous calls outlive their call. The file
history is written in place and can be torn by a crash. `PROJECT.json` lists these
hazards one by one, with the line where each bites.

**What makes each component correct.**

- *registry and the stores that follow it*: after disconnect nothing of the old agent
  serves the next one under the alias, an entry shows its own card, health speaks of the
  registered agent, a context goes only to the agent that issued it - but for what a call that overlapped the change
  leaves behind; health is tracked as long as an agent is registered, whatever overlaps.
- *client resolver*: requests carry the headers of their alias and
  only reach the URL that alias is registered at; a known card is what the client is built from.
- *rate limiter*: never more than burst + rate * time; the limit that was asked for.
- *send and tasks*: every call with a deadline returns; polling ends at terminal states; every
  call has one outcome, which an asynchronous one leaves in the inbox; an outcome tells how the task really ended; a stream
  ends when its task is settled.
- *inbox*: per alias a FIFO queue; nothing is lost before its TTL, nothing is read twice.
- *history*: the last *depth* interactions per alias, in the order of their recording; after a crash
  all of them or an error, never a part.
- *broadcast*: the answer waits for all and agrees with the history; no agent gets more messages than its bucket
  allows; what was dispatched ends in the inbox; a client that leaves is not held against an agent.
- *directory*: a client that follows the cursors comes to an end; the pages of an unchanged, ordered registry list every card once, and
  what changes between two pages costs no more than it must; the server stops when told to and cuts nobody off.

## Modules

| Module | What it is |
|---|---|
| `Gateway` | the six per-agent stores and the calls that share them |
| `MCGateway` | its instances for TLC |
| `GatewayProofs` | theorems about `Gateway`, for all values of the constants |
| `OverlapProofs` | theorems about what overlapping calls can leave in the stores and in the client cache of `Gateway`, for all values of the constants |
| `Tasks`, `MCTasks`, `TasksProofs` | send_message and the task an agent makes of it: answers, polling, streams, deadlines, the inbox entry |
| `Inbox`, `MCInbox` | the asynchronous inbox: one sequence for all agents, lazy expiry, the merge of a limited read |
| `Mailboxes` | what the inbox promises: a queue per agent |
| `InboxProofs` | `Inbox` implements `Mailboxes`, for all values of the constants |
| `Lists`, `ListProofs` | the loop that filters a list, and what it computes |
| `History`, `MCHistory` | the history of an agent, with the memory and the file backend, crashes and full disks |
| `HistoryLog` | what the history promises: a bounded log that is whole or unreadable |
| `HistoryProofs` | `History` implements `HistoryLog`, for all values of the constants |
| `Broadcast`, `MCBroadcast`, `BroadcastProofs` | one broadcast_message call: its goroutines, token buckets, deadlines and reports |
| `Directory`, `MCDirectory`, `DirectoryProofs` | the directory, its HTTP server, and a client that reads it page by page with discover_agents |

`Gateway` has every handler that visits several stores, with the agents reduced to how a
send ends. The other modules open what it leaves closed: `Tasks` the exchange behind
a send, `Broadcast` the goroutines of one call, `Inbox` and `History` the inside of a store that
`Gateway` has as a set or not at all. `Directory` stands alone: what a client finds there it connects to by connect_agent. They meet at the operations: `Tasks` and `Broadcast` deposit
entries one by one, which `Inbox` stores; each `recordHistory` of `Gateway` is a `Record` of `History`.

### Gateway

*State.* `registry`, `context`, `clients`, `limiter`, `health`, `history` are the
stores. `call[p]` is a tool call in flight: its program counter `pc` and
the handler's local variables (the resolved URL and headers, the client it resolved `first` and the one it resolved last,
the context id, whether it has retried). `background` has the goroutines of asynchronous sends, which outlive their calls. `setup` is
what the server was told (histories, health tracking) and what the client makes use of; it never changes.

*Actions.* One action is one critical section of one handler, or one exchange
with the agent; the next critical section is the next value of `pc`.
`StartX` is a handler up to its first shared access, the rest is named after
the call it makes (`ConnectRegister`, `DisconnectDropHealth`,
`DirectSetContext`, ...). `Resolve` is one action although it reads the registry
(`findCard`) while it holds the client cache's write lock: a registry update in between cannot see
the cache, so it may as well come after. `ClearHistory` is the whole of
clear_history. `Poll` is the polling of a task; nothing says that it ends.

*Data.* An agent is its URL. A card is the URL it was fetched from. A context id is
the agent that issued it. A client is the alias it was made for, whether its provider reads the headers of that alias, and whether it was built with a card
(`NewClient`); which transport it speaks is left open, as a card that `NewFromCard` refuses gives the JSON-RPC fallback that no card gives.
History is the set of identifiers something is recorded under; `Notice(a)`
is the record of a broadcast to an alias that nobody registered, kept apart because it speaks of no agent, and `Undeleted(a)` what is left when `Delete` fails
and disconnect_agent drops the error.
A limiter is the limit it was made with; whether it has a token is left open (`CheckLimit`).
Failure counts saturate at `Threshold`, the only value they are compared with.

*Operations.* `op` is "connect", "disconnect", "send" (send_message), "query"
(get_task and cancel_task), "broadcast" (the goroutine of broadcast_message for
one agent) or "ping". A direct send ends in an answer or a polled task with or without a context id, an error that is recorded as a failure,
or one that is not (a cancelled request). An asynchronous one (`SendAsync`) returns and leaves an element of `background`: it touches none of these stores but makes requests
for as long as it sends and polls, and their headers are looked up when each is made (`Attached`).

*Overlaps.* Nothing orders two calls. What the stores are worth is therefore stated with two history variables, which no guard reads:
`strays[a]`, the agents that were spoken to or connected by the calls which overlapped a connect_agent or disconnect_agent of `a`, since `a` was last taken from an agent; and `changed`, of a
call, a background send or (`stray`) a cached client, the aliases that were changed while it, or the call that made it, was at work. A property that excepts them says that the code leaves the
wrong thing behind through such a call and in no other way. The exceptions are needed: a slow send stores the context and the health of the agent that had the alias before, a late `SetCard` gives the
new entry the card of the old URL, a client built while headers change is cached without them. The `health[a].agent` component is a history variable too: whose outcome was recorded last.

*Properties.* `TypeOK`; `NoResidue` (the cleanup of disconnect is complete);
`ContextGoesHome` (a stored context goes only to its issuer); `HeadersApplied` and `HeadersStayHome` (the URL-keyed cache against headers
by alias, for calls and background sends); `ClientKnowsCard` (no client outlives the arrival of a card); `CardOfEntry`; `HealthOfAgent`;
`TrackedWhileRegistered`, without an exception; `StepsRunOut` (each step of a call is one nearer to its return, whatever the others do and
though a 401/403 sends it back to evict, resolve and invoke once more; `StepsLeft` is the measure). That each step is taken is not claimed: a rejected task is polled for ever (`TasksRejected`).

### Tasks

*State.* `task[t]` is the state the agent has for a task, `call[p]` a send_message call, `inbox[p]` the entries that
its background goroutine deposited. A call keeps the latest task object it received (`task`, `last`) as the code does
in `currentTask`.

*Actions.* `Send` starts a call, direct, streaming or asynchronous, with the timeout asked for or the server's (`EffectiveTimeout`, `HasDeadline`), perhaps about a
task the client knows from an earlier outcome. `AnswerTask`, `AnswerMessage` and `SendFails` are the agent's response and what
`handleTaskResult` or `backgroundSendAndPoll` makes of it. `PollSees`, `PollFails`, `PollTimeout` and `CancelRequest` are the
branches of `pollTaskCompletion`. `StreamOpens` and `StreamEvent` are the events that `consumeStream` reads, a task object (`TaskEvent`), a status
(`StatusEvent`) or an artifact, `StreamMessage`, `StreamFails` and `StreamTimeout` the other ways a stream ends. `AgentMoves` and `CancelTask` change the task from outside.

*Data.* A task is its state; "unknown" is any state the SDK adds later. `named` is FALSE for a task without an id,
which a direct send rejects and an asynchronous one polls in vain. The deadline is a flag that `TimePasses` raises. A stream buffers one event: an agent moves a task on when the
streams about it have shown its state (`Delivered`), so that each shows every state from its opening on. Artifacts and progress notifications leave no trace in an outcome's state.

*Properties.* `OneOutcome`; `OutcomeIsSettled` (an outcome that says a task ended tells how it really ended, whoever else
was working on it; a stream ended by a task object may be answered with an unfinished one); `GivenUpIsResumable` (giving up hands over the task id, to those who get it: see below); `LimitedEnds`; `EndedTaskEndsPolling`;
`SettledTaskEndsStream` (no stream that stays open keeps its call); `TerminalEndsPolling` (violated).

*Callers.* A handler that gives up polling returns the task beside the error. `Server.SendMessage` hands both to an in-process caller (`inProcess`), and the background goroutine has both for its
inbox entry; the handler that `mcp.AddTool` registers drops the output when there is an error, so an MCP client is told the error alone (`AnswerTo`), and a stream returns none in the first place. `GivenUpIsResumable` speaks of the first two (`HandsOver`).

### Inbox and Mailboxes

*State.* `entries` is the slice of `registry/inbox.go`, `answer` what the last Peek or Pop returned; `now` is the clock.

*Actions.* One per operation, each a single critical section: `Deposit`, `Peek` for one agent or all, and `Pop` in its four outcomes
(`PopNothing`, `PopLatest`, `PopLength`, `PopAll`). Every reader prunes first. `Merged` is the merge of `Pop`'s limited read; `Taken`
says, round by round, how many entries the loop has taken from `remaining`. `Only` of `Lists` is the loop that filters the slice. Deposits take
their timestamp under the lock, which is why the slice is in order and the merge is right (`Chronological`).

*Abstraction.* `Mailboxes` has one queue per agent from which entries vanish on time. The mapping shows of `entries` what a reader could
still see: expired entries that nobody pruned are not in the box. `ImplementsMailboxes` then says that nothing is lost, read twice or overtaken.

### History and HistoryLog

*State.* `stored` is what one backend holds of one alias: the memory backend's slice or the parsed file, `Torn` for a file that was truncated and not
written. `lock` is the file backend's write lock, `call[p]` a `Recorder.Record` in progress with the entries it is about to write. One alias is enough:
locks and files are per alias, and the memory backend's operations are one critical section each.

*Actions.* `Record` makes the entry, before any lock. `MemoryAppend` is atomic; the file backend has `ReadForAppend`,
`Truncate` and `Write` (the two halves of `os.WriteFile`) or `WriteFails`, with the lock held from read to write. `List(limit)` is get_history
(0 is no limit), `Clear` is clear_history and the cleanup of disconnect, `Crash` ends the process with its memory.

*Abstraction.* A record counts from the truncation on, when its writer alone can see the file: `Log` is what will be in the file. `ImplementsLog` says that
readers get the entries stored last in the order in which they were stored, or an error, never a part; that this need not be the order of their timestamps is `OldestFirst` (violated); `LockIsHeldToWrite` that the lock is held by the one call at work on the file, which will write what is stored by
then and its own entry, and `RecordsEnd` that every recording gets done.

### Broadcast

*State.* `input` is the request, `request` and `next` the handler's progress, `job[i]` the goroutine of the i-th alias, `results` the map it
reports to. `tokens` and `failures` are the rate limiter's buckets and the health tracker; `inbox`, `history` and `answer` receive the reports.
`keyed` and `down` are about the metadata map that the goroutines share when the message is a structured one.

*Actions.* `FanOut` and `BuildResponse` are the waiting call, `StartDispatching` to `AnswerDispatched` the asynchronous one.
A goroutine goes through `NotRegistered` or `CheckHealth`, `Allow`, `PrepareFails` or `Inject`, the exchange (`AgentAnswers`, `Breaks`, `Retry`, `Refuses`,
`TimesOut`, `IsCancelled`), `Record` and `Collect` or `Deposit`. `CheckRateLimit` is a reservation and, if it would have to wait, its cancellation: two actions,
between which others find the bucket overdrawn. `OtherSend` is other traffic to the same agents.

*Data.* An outcome is its status; `cause` remembers why an exchange failed until that is on record. Local steps (lookup, resolving the client, building the
message) are merged with the next shared one. Agents stay registered during the call: `Gateway` has the overlaps with connect and
disconnect. Stream events before the last only accumulate text and are left out. A map access that races with a write may do nothing or kill the process
(`Race`), so the liveness properties are "or the process is down".

*Properties.* `ResponsesAreAnswered` (the answer waits for all goroutines and has what the agents responded; `EveryAliasIsAnswered`, that it says something of each alias, is violated), `HistoryAgrees`, `AdmittedWithinLimit` (an asynchronous call pays two tokens per agent),
`DispatchedIsDeposited`, and the safety in it, `DepositsAgree` (one entry for each goroutine that ended, and one at least for every alias that the client was told of once its goroutines have);
`CallAnswers`; `CancellingBlamesNobody` and `NoRace` (violated).

### Directory

*State.* `registry` is the registry's listing, in the order in which its owner first registered the cards; `ordered` says whether `List` keeps that order (a custom
registry, which may also fail) or gives each listing an order of its own (`MemoryRegistry` ranges over a map). `reader` is one client from its first call of
discover_agents to the last page: the cursor it holds, the cards it saw, and history variables for what it should have seen (`kept`, `removed`, `added`, `repeats`). `server` is
`ListenAndServe`: its listener, the error channel (`exited`), the context (`cancelled`) and the function itself (`main`, `result`). `others` counts requests the client does not wait for.

*Actions.* `Register` and `Unregister` change the cards. `Discover` is the handler up to its source: an explicit URL, the hosted directory, or the default URL (`Source`).
`HandleInProcess` is a whole query of the hosted directory; over HTTP the query is `AcceptRequest`, `ServeRequest` and `ReceiveAnswer`, each of which `RequestFails` may
forestall. `ServeHTTP` gives the possible answers to a request, one per listing, cut by `Page`. `Continue` and `Retry` are the client, which may also stop anywhere. `Listen`,
`AcceptBreaks` and `ListenerExits` are the listener's goroutine; `Shutdown`, `Drained`, `ShutdownExpires`, `ShutdownReturns` and `ListenerReturns` the two branches of the select.

*Data.* A card is its name and whether the client's filter matches it. `Resolve` is the filter loop of the default resolver, `Only` again. A cursor is its offset; `Garbled` is one that does not decode. A page without a limit is never cut.

*Properties.* `MissesAreRemovals` and `RepeatsAreAdditions` bound what changes between two pages can cost a client of an ordered registry, one card for each; `PagesAddUp` is what remains
without an order: as many misses as repetitions. The exception in `MissesAreRemovals` and `PagesAddUp` (`misled`) is an error response over HTTP, which discover_agents takes for an empty last page. `ReadingEnds`: calls
are answered and cursors run out, because each next page starts further on and within the number of names (`PagesRunOut`). `GracefulReturn`: a return without an error was asked for and cut no request off. `ServerReturns`: a cancelled server ends though a handler hangs.

## Runs

| Run | Instance | Shows |
|---|---|---|
| `GatewayRaces` | 2 slots, 1 alias, 2 agents (one streams), 6 setups, any overlap | what one agent leaves for the next is what an overlapping call left, and each call goes on |
| `GatewayRawHeaders` | 1 call at a time, 1 alias, raw URLs | **violated**: a client cached for a raw URL serves an alias without its headers |
| `Tasks` | 2 calls (polled, streamed or asynchronous), 1 task, fair | one outcome per call, which tells the truth about the task; calls with a deadline end, others when the task does |
| `TasksRejected` | 1 call, 1 task, fair | **violated**: a rejected task is polled on |
| `Inbox` | 2 agents, 4 entries, lifetime 2, clock up to 5 | the shared slice is a queue per agent |
| `History` | both backends, 2 calls, depth 2, 5 records | each backend is a bounded log, through crashes and full disks; records end |
| `HistoryOrder` | 2 calls, 2 records | **violated**: of two concurrent interactions the later one is listed first |
| `Broadcast` | lists of 2 (two agents; one twice; one unregistered), bucket of 1, fair | answer, history, limits and inbox agree; the call answers |
| `BroadcastMissing` | the same | **violated**: an agent that fails, or is skipped, limited or unknown, is missing from the answer |
| `BroadcastCancel` | the same | **violated**: a cancelled stream counts as a failure of its agent |
| `BroadcastRace` | the same | **violated**: concurrent goroutines write one metadata map |
| `Directory` | 3 names, limits 1 and 2, 2 changes, 1 retry, 1 other request, fair | what paging can miss or repeat is accounted for; pages lead on and reading ends; the server stops gracefully |

*Bounds.* Two URLs are an old and a new agent; a third would be another new one. Two slots
are the slow call and the one that overtakes it, or two changes; the properties relate one call to a store, or two stores, of one alias, and what another alias does to a shared URL a raw URL does too.
One header set is enough because None is the other. `Threshold = 1` makes every status reachable. Everything at once has too many states; each of the six setups of
`EachSetup` turns on what may have to do with one another: health; histories and limits; headers; headers and raw URLs; two changes that overlap each other; one call at a time
beside one background send (`maxBackground`), raw URLs included. The tools of each slot are part of it. Together they have 3.8 million states. The theorems have none of these bounds. No counter needs
a bound of its own: a call slot is reused, and the failure count saturates.

In `Tasks` two calls about one task suffice for one to settle, cancel or reopen what the other polls; the properties name one task.
In `Inbox` the lifetime is shorter than the clock, so that entries expire both before and between reads, and four entries of
two agents reach every case of the merge: kept entries before, between and after the others, with equal timestamps. In `History` five records
overflow a depth of two several times, with one writer at work and another waiting. In `Broadcast` a list of two has two goroutines race, for two agents or for one alias named twice;
`MaxAliases` is 2 there for the code's 20, a bucket holds one token and gains at most one more (`MaxRefills`), and one failure makes an agent unhealthy, some being so from the start.

In `Directory` three cards and limits of one and two give readings of one to three pages, cut evenly and not; two changes (`MaxChanges`) can both remove, both add or do one of each, before or behind the
offset. Changes before the first listing are in `Init`, and those while a request waits for its listing come before it, so `Change` is only enabled between two listings that the client gets. To keep the product of
the two halves small, cards change only while the server is open and has not been told to stop, and it stops or breaks only where no card changed (`changes = 0`): the
paging does not look at the server, nor the server at the cards. `MaxOthers` is 1, which suffices for a handler that outlives its client and hangs through the shutdown.

*Fairness.* `Gateway` assumes none: its properties are safety. Elsewhere `FairSpec` asks that a call in flight eventually takes its next step: the Go scheduler runs every
runnable goroutine, and mutexes are held for one critical section. Starting a call is not fair.
`Tasks` asks it of the exchange (`Answer`, which the HTTP client's timeout ends), the poll ticker (`PollSees`) and the clock (`TimePasses`, `PollTimeout`), and nothing of the agent, which may never
settle its task; a stream delivers the states the task takes (`StreamEvent`) but may stay silent otherwise, so its deadline (`StreamTimeout`) ends it. `History` asks for strong fairness of a recording call, because the lock it waits for comes and goes: a Go mutex hands itself to a waiter that starves.
`Broadcast` asks it of the handler and of each goroutine, whose deadline (`TimesOut`) is the only thing that ends a silent agent's exchange; agents need not answer.
`Directory` asks it of the client's request (`Request`, which the 30 s of discover_agents end if nothing else does) and of the goroutines of `ListenAndServe` (`Serving`, with the 30 s of its shutdown), not of
handlers, which may hang, nor of the client, which need not read on.

*Deadlock* is checked in every run but those of `Broadcast`, which models a single call that ends. In `Tasks` and `Directory` the end of everything is a step of its own (`Over`); elsewhere
there is always something to start.

## Findings

- `GatewayRawHeaders`: `ClientResolver.Resolve` (`registry/client_resolver.go:38`) returns whatever client is cached for the URL;
  one built for a raw-URL message has no header provider, so an alias connected to that URL, before or after, is served without its
  headers, "sent with every request to this agent" (`registry/agent_registry.go:14`). connect_agent evicts
  only the client of the URL the alias had before, not the one cached for the new URL.
- `TasksRejected`: `pollTaskCompletion` (`internal/tool/tool_send.go:490`) does not know the state rejected, which `internal/tool/helpers.go:108`
  counts as terminal. A send that polls such a task goes on until its deadline, if it has one, although "pollTaskCompletion polls the agent for task status every 2s until a terminal
  state is reached or the given timeout elapses." (`internal/tool/tool_send.go:458-459`).
- `BroadcastMissing`: `buildResponse` (`internal/tool/tool_broadcast.go:138`) leaves out every agent without a response, whether it failed, was skipped as unhealthy, had no token left or is not
  registered; `README.md:169` says "Returns per-agent results with success/error status for each", and `gateway/doc.go:65-66` "attributing success or error status to each individual agent".
- `HistoryOrder`: the timestamp of an entry (`history/history_record.go:35`) is taken before the lock under which it is stored, and `List` does not sort: of two concurrent interactions the
  later may be listed first, although `README.md:258` and `history/history_backend.go:42-43` say "in chronological order (oldest first)".
- `BroadcastCancel`: the health tracker gets only the text of a stream's error (`internal/tool/tool_broadcast.go:223`), so a stream that ended because the client went
  away counts against the agent, although `health/health_classify.go:42` says cancellation is no failure.
- `BroadcastRace`: the goroutines share the metadata map of a structured message and `InjectCallerCard` writes it
  (`internal/tool/tool_broadcast.go:197`, `registry/caller_card_store.go:79`), while broadcasts promise concurrent delivery (`README.md:159`).

Met while modelling, without a run of their own:

- disconnect_agent drops the error of `HistoryBackend.Delete` (`internal/tool/tool_disconnect.go:57`): if the file cannot be removed, the next agent under the alias inherits the history, although
  "History for the agent is also automatically deleted when `disconnect_agent` is called" (`README.md:270`). `Undeleted` models it; `NoResidue` excepts it.
- The client of a background send reads the headers of its alias at each request, so after the alias was connected elsewhere the task of the old agent is polled, at the old URL, with the headers given for
  "all requests to this agent" (`gateway/api/types.go:38-39`), the new one. `HeadersStayHome` excepts it: requests that go on after their alias changed.
- `internal/tool/tool_send.go:413-414` and `461-462` return the task with the error "so callers can extract the task ID for later resumption via GetTask"; the handler made by `mcp.AddTool`
  (`internal/tool/tool.go:57-58`) hands an MCP client the error without the output.
- An entry can show the card of another URL: `SetCard` is by alias and comes after a fetch (`internal/tool/tool_connect.go:63`). `CardOfEntry` says when.
- `NewConnectAgentTool` (`internal/tool/tool_connect.go:22`) never sets `DefaultRateLimit`, so the limit given to `WithRateLimit` is not applied
  when connect_agent omits one, contrary to `README.md:125`; a single step shows it, and the models take the default as absent.
- `MemoryRegistry.List` has a new order for each page (`directory/registry.go:109`), so even an unchanged directory may show a card twice and another never (`PagesAddUp`).
- discover_agents does not look at the HTTP status (`internal/tool/tool_discover.go:199`), so an error body of a directory is an empty last page; in process the same error is told.
- `consumeStream` ends at the first task object, whatever its state (`internal/tool/helpers.go:324`): a caller may be answered a submitted task. A stream that breaks or times out
  is answered without the task id it had (line 216), and a failed or canceled task on a stream is no error, while it is one for a direct send.
- The default HTTP client's 30 s (`gateway/server.go:244`) cut streams off before the default stream timeout of 60 s.
- `ClassifyError` gets the error of an exchange, not its response: an agent that answers with an HTTP or protocol error counts as failing on a direct send (`health/health_classify.go:78`), and
  as healthy on a stream, whose error is a result, although `OutcomeSuccess` is "an HTTP response was received (any status code)" (line 16).
- disconnect_agent leaves the inbox alone, so its entries may be read under the next agent of that alias.
- read_inbox hands a negative length to `Pop`, which slices with it (`registry/inbox.go`); get_history and clear_history call a nil backend
  when history is disabled (`gateway/tools.go:133`).

## Proofs

Every safety property of a passing run, invariant or action property, is a theorem, for any number of calls, aliases, agents, cards, entries, limits and depths.
The theorems use the assumptions of the modules they are about (`GatewayAssumption`, `NoneAssumption`, ...), which give the constants their types
and keep None and other markers apart from real values, and which TLC evaluates in every run. No theorem assumes anything of how calls overlap.

| Property | Theorem |
|---|---|
| `Gateway!TypeOK`, `TrackedWhileRegistered`, `StepsRunOut` | `GatewayProofs!TypeCorrect`, `HealthIsTracked`, `CallsGoOn` |
| `NoResidue`, `CardOfEntry`, `HealthOfAgent`, `ContextGoesHome` | `OverlapProofs!NothingIsLeft`, `CardIsOwn`, `HealthIsOwn`, `ContextStaysHome` |
| `HeadersApplied`, `HeadersStayHome`, `ClientKnowsCard` | `OverlapProofs!HeadersAreApplied`, `HeadersGoNowhereElse`, `ClientIsOfCard` |
| `Tasks!TypeOK`, `OneOutcome`, `OutcomeIsSettled`, `GivenUpIsResumable` | `TasksProofs!TypeCorrect`, `OneOutcomeHolds`, `OutcomeSettled`, `GivenUpResumable` |
| `Inbox!TypeOK`, `Chronological`, `ImplementsMailboxes` | `InboxProofs!InboxTypes`, `InboxIsChronological`, `InboxIsMailboxes` |
| `History!TypeOK`, `ImplementsLog`, `LockIsHeldToWrite` | `HistoryProofs!TypeCorrect`, `BackendsKeepTheLog`, `LockGoesWithWriting` |
| `Broadcast!TypeOK`, `ResponsesAreAnswered`, `HistoryAgrees`, `AdmittedWithinLimit`, `DepositsAgree` | `BroadcastProofs!BroadcastTypes`, `ResponsesAnswered`, `HistoriesAgree`, `LimitIsKept`, `InboxAgrees` |
| `Directory!TypeOK`, `MissesAreRemovals`, `RepeatsAreAdditions`, `PagesAddUp`, `GracefulReturn`, `PagesRunOut` | `DirectoryProofs!DirectoryTypes`, `MissesHaveCauses`, `RepeatsHaveCauses`, `PagesAreComplete`, `ReturnIsGraceful`, `PagesLeadOn` |

**GatewayProofs.**

- `TypeCorrect`: `Spec => [](TypeOK /\ Shape)`. `TypeOK` alone is not inductive: `RecordHistory`, say, would be free to add None. `Shape`
  says what a call holds at each value of its pc (a call about to invoke has a client and a URL, a disconnect has
  the URL it removed, ...). The lemmas `ShapeGoto`, `ShapeReturn`, `ShapeResolve` and `ShapeStep` say that the four ways a call moves keep it.
- `HealthIsTracked`. The strengthening is `UntrackedIsRegistering`: an alias without a
  tracker entry that is registered has a connect call past `register`, which will create the entry. `TrackerKept` (no step removes
  an entry) and `RegisteringEnds` (only resetHealth ends such a call) carry the induction.
- `CallsGoOn`: no step of a handler goes back. `StepsOn` goes through the steps of a call: each leaves fewer before it than `StepsLeft` gave. `StartsAlone` says that
  only an idle slot starts a call. So a call takes fourteen steps at most, each as long as the exchange or the polling in it.

**OverlapProofs.** `OverlapInv` speaks of one alias at a time: it is `StoresKnown(a)` and `MessagesKnown(a)` for every `a`. The properties say what holds between changes of `a`; the invariant adds what holds during one.

- *The stores kept by alias* (`StoresKnown`). A store of `a` has what it should, or something of a stray, or a change that has begun will still deal with it: `WillDropContext`, `WillResetHealth` and `WillDropLimiter` say,
  by the pc of that change, what is still before it. What such a change may come too late for is a call that overlaps it, and that call speaks to a stray from then on (`UsersKnown`: a call on `a` speaks to
  the registered agent and no change is under way, or to a stray; `ChangesKnown` says the same of a connect that overlaps another change). `StraysOfChange` and `StraysOfUse` say what a starting call does to the history variables,
  `StoresElsewhere` and `Locality` that a call on another alias leaves all of it alone, `StoresAtUserStep` and `StoresAtChangerStep` go through the critical sections.
- *Calls, background sends and the client cache* (`MessagesKnown`). As long as `a` has not changed since a call or a background send began, what it knows of `a` is still so: the entry, the headers, the context it will send, the clients
  it holds for `a` (`CallKept`, `SendKept`). A cached client for `a` suits the entry (`Suits`: it is cached at the entry's URL, and has a header provider and a card if the entry has headers and a card), or a change that has begun will
  evict it (`CacheSuits`, `WillEvict`). `NewClientSuits` is where a client is built, `EntryHeld` why the entry stays put for whoever has not seen `a` change. Raw URLs and aliases that share a URL are no special case: the cache may
  hand anyone a client of `a`, and what it holds for `a` suits `a`.

**TasksProofs.** `IInv` is `TypeOK` and `CallOK` for every call: a call that is not over has no outcome, an outcome has what `OutcomeIsSettled` and `GivenUpIsResumable` ask,
and (`LastIsTrue`) the last state a call received is the state of its task if it is terminal. That an outcome stays true needs `EndsStay`: no step of
anyone moves a task that is over. Each step of a call is shown to be `Steps(p)`, which is all the induction needs to know of it.

**HistoryProofs.** `BackendsKeepTheLog` is the refinement of `HistoryLog` by both backends. `TypeOK` does not
suffice: that a truncation maps to the abstract `Record` needs to know that its writer read what is still stored. `IInv` adds that memory is never torn, that a call at
truncate or write holds the lock, that what it will write is `Added(stored, entry)` as long as it has not truncated, and that the file is torn while it writes. The lemmas
`AddedType`, `AddedIsLatest` and `LimitedType` do the arithmetic of the slices: making room and then appending is
appending and then keeping the latest.

**ListProofs.** `Only` is the filter loop of `Peek`, `Pop`, `pruneExpiredLocked` and the directory's resolver, as a recursive function. What it computes (`OnlyPicks`: the elements that are in the set, at increasing places)
is proved for lists of any length, by `Induction`: the induction theorems of the library take an operator, which the provers cannot instantiate, but a set of numbers serves
as well, and that every such set has a least element is a fact about well-founded relations that does not take an operator. `MCInbox` also has TLC compare `Only` with `SelectSeq` on all short lists.

**InboxProofs.** `InboxInv`: the slice and the last answer are in order of time and, for each agent, of deposit; ids and times are ones that were given out. `SameList` says that two lists of one agent
with the same entries in order of deposit are equal, so that the boxes that the mapping shows can be compared as sets. The merge of a limited read is proved along its loop: its indices stay within the lists and
never go back, so every entry of both lists has its place (`MergedAll`), and the comparisons put them in order (`MergedKeeps`). Each operation then maps to the operation of `Mailboxes`, and expiry to `Tick`.

**BroadcastProofs.** `BroadcastInv`: how far the call is bounds how far its goroutines are (`PhaseOK`); the results are those of the goroutines that have reported (`CollectedOK`) and the history has those that have recorded (`RecordedOK`); and
`TokensOK` accounts for every token: what the bucket has and what was spent (`Spent`: dispatches, admissions, a reservation being refused) is no more than its size and what was refilled. `GoesOn` summarises the steps of a goroutine.
`DepositsOK` counts the inbox: the entries of an alias are as many as its goroutines that ended (none if the call waits), and an alias is only said to be dispatched when a goroutine of it has begun; most steps leave all of that alone
(`DepositsStay`), and the one that ends a goroutine adds one to both sides (`DepositsOnce`). What `DispatchedIsDeposited` adds is that the goroutine ends.

**DirectoryProofs.** A page is an interval of ranks among the cards that match (`ResolveLists`, `PageIsInterval`), and a change lets at most one name cross an offset, one that came or went (`OffsetShift`). `Ledger` is the invariant of a
reading: what it missed so far and what it is going to see again is covered by removals and additions, and where there were none it is where it has counted to. It holds at the client's cursor and at the one that the answer on its way takes it to (`ReadingOK`). `ServerOK`
relates the branches of `ListenAndServe` to the listener, the error channel and the requests at work; it gives `GracefulReturn`. `Onward` says of an answer that is on its way that the
cursor it brings is further on than the one the client holds, and below the number of names; whatever the directory becomes before the answer is received, it `Leads` on, which gives `PagesRunOut`.

*What the proofs found in the models.* A refused reservation of `Broadcast` gave its token back also when the bucket had been refilled in between, and could overfill it with sizes and refills the run does not have; now it does so
only while the bucket is overdrawn, as a cancelled reservation restores nothing once its time has come (`golang.org/x/time/rate`). `Directory` had two overlapping arms in a CASE, which leaves the choice to the reader (TLC takes the first); it is an IF now. `SelectSeq` and a merge of its own hid the loops of the inbox behind definitions with nothing to induct over: they are
written as the loops they are.

*Model-checked only.* `LimitedEnds`, `EndedTaskEndsPolling`, `SettledTaskEndsStream`, `ReadingEnds`, `ServerReturns`, `RecordsEnd`, `DispatchedIsDeposited` and `CallAnswers` are liveness under fairness, which needs ENABLED and is out of the
prover's reach. The safety some of them rest on is proved: `PagesRunOut` is behind `ReadingEnds`, `LockIsHeldToWrite` behind `RecordsEnd` and `DepositsAgree` behind `DispatchedIsDeposited`; TLC
checks the conclusion. The properties of the runs that are violated are false.

## Not modelled

Listed in `PROJECT.json` with the reason: input validation (stateless predicates), JSON schemas and registration,
wire formats (the A2A SDK's), the mock servers and `main`, logging. list_agents and get_agent_card only read; the caller card's three tools are one critical section each, and what
goroutines do with the card is in `Broadcast`. Of the directory, a registry that answers queries itself (`Querier`, `Filterer`) is user code, and filter help is a text. Artifacts and progress notifications of
a stream. The token bucket's arithmetic on real time (`golang.org/x/time/rate`).
Payloads, names and wording are abstracted everywhere.

## Plan

Done: `Gateway`, `Tasks` with streams, `Inbox` with `Mailboxes`, `History` with `HistoryLog`, `Broadcast`, `Directory`, and a theorem for each safety property of a passing run. Left:

1. The step lemmas behind the liveness of `Tasks` and of the directory's server: what an enabled `PollTimeout` or `ShutdownExpires` leads to and that nothing but its own call disables it. The conclusions from fairness stay with TLC.
2. Hazards without a property, as `PROJECT.json` lists them.
