------------------------------ MODULE Gateway ------------------------------
(***************************************************************************)
(* The per-agent state of the gateway and the tool calls that share it.    *)
(*                                                                         *)
(* The state of one agent is spread over six stores, each a map behind its *)
(* own mutex: the registry, the context store, the client cache (keyed by  *)
(* URL, not by alias), the rate limiters, the health tracker and the       *)
(* history.  A tool call is a goroutine that visits several of them; the   *)
(* only atomic step is one critical section.  An action here is one        *)
(* critical section, or one exchange with the remote agent, of one call.   *)
(***************************************************************************)
EXTENDS Naturals, FiniteSets

CONSTANTS
  Calls,            \* slots for tool calls that may be in flight together
  Aliases,          \* aliases given to connect_agent
  Urls,             \* agent URLs; an agent is identified with its URL
  RawUrls,          \* URLs the client also passes to send_message directly
  UrlsOf,           \* UrlsOf[a]: the URLs alias a may be connected to
  Headers,          \* non-empty header sets given to connect_agent
  Limits,           \* rate limits with a positive rate and burst
  StreamingUrls,    \* agents whose card advertises streaming
  ExplicitContexts, \* context ids a client passes explicitly
  Threshold,        \* consecutive failures that make an agent unhealthy
  Setups,           \* the setups to consider
  None              \* nil, or the empty string

ASSUME GatewayAssumption ==
  /\ RawUrls \subseteq Urls
  /\ StreamingUrls \subseteq Urls
  /\ UrlsOf \in [Aliases -> SUBSET Urls]
  /\ Threshold \in Nat \ {0}
  /\ None \notin Aliases \cup Urls \cup Headers \cup Limits \cup ExplicitContexts
  /\ Urls \cap ExplicitContexts = {}
  /\ Urls \cap Aliases = {}

Tools == {"connect", "disconnect", "send", "query", "broadcast", "ping"}

\* What NewServer was told of histories and health tracking, and what the client
\* makes use of: raw URLs, headers, limits, the tools of each slot, and how many
\* asynchronous sends may be at work together (a bound).
Setup == [history : BOOLEAN, tracking : BOOLEAN, raw : SUBSET RawUrls, headers : SUBSET Headers,
          limits : SUBSET Limits, tools : [Calls -> SUBSET Tools], maxBackground : Nat]

ASSUME SetupAssumption == Setups \subseteq Setup

VARIABLES
  setup,     \* the setup, which stays as it is
  registry,  \* alias -> RegisteredAgent or None
  context,   \* alias -> stored context id (the agent that issued it) or None
  clients,   \* URL -> cached client or None
  limiter,   \* alias -> configured limit or None
  health,    \* alias -> tracker entry or None
  history,   \* the keys under which some interaction is recorded, and the notices
  call,      \* slot -> the call in it
  background, \* the goroutines of asynchronous sends, whose calls have returned
  strays     \* history variable, read by no guard: see "Overlaps"

stores == <<registry, context, clients, limiter, health, history>>
vars == <<setup, registry, context, clients, limiter, health, history, call, background, strays>>

\* rate_limit_rps and rate_limit_burst of connect_agent: omitted (None),
\* zero ("off"), or positive.
LimitInputs == setup.limits \cup {None, "off"}

\* A context id is told apart by who issued it: an agent, or the client.
ContextIds == Urls \cup ExplicitContexts \cup {None}

\* A card is identified with the URL it was fetched from.
RegisteredAgent == [url : Urls, hdr : Headers \cup {None}, card : Urls \cup {None}]

\* What a cached client was built from: the alias it was made for (None: a raw
\* URL), whether it got a header provider, which reads the registry entry of that
\* alias on every request, and whether it was given a card.  A card leaves the
\* transport open: when NewFromCard refuses it, the client is the JSON-RPC fallback
\* too.  stray is a history variable: the alias changed under the call that made it.
Client == [alias : Aliases \cup {None}, dynamic : BOOLEAN, carded : BOOLEAN, stray : BOOLEAN]

\* failures saturates at Threshold, the only value it is compared with;
\* agent is a history variable: whose outcome was recorded last.
HealthState == [failures : 0..Threshold,
                status   : {"unknown", "healthy", "unhealthy"},
                agent    : Urls \cup {None}]

\* nil is no entry, client or tracker state.
ASSUME NoneAssumption == None \notin RegisteredAgent \cup Client \cup HealthState

ConnectSteps == {"evictOld", "dropContext", "register", "configureLimit", "setCard", "resetHealth"}
DisconnectSteps == {"evictRemoved", "dropLimiter", "dropHealth", "dropStoredContext", "dropHistory"}
SendSteps == {"checkHealth", "checkLimit", "getContext", "resolve", "route", "resolveDirect", "invoke",
              "evictAuth", "recordSuccess", "poll", "setContext", "recordFailure", "recordHistory",
              "stream", "streamSetContext", "streamRecordSuccess"}

Call == [pc     : {"idle", "ping"} \cup ConnectSteps \cup DisconnectSteps \cup SendSteps,
         op     : {"none"} \cup Tools,
         alias  : Aliases \cup {None},
         url    : Urls \cup {None},     \* input of connect, else the resolved URL
         hdr    : Headers \cup {None},  \* the resolved headers
         old    : Urls \cup {None},     \* the URL of the entry replaced or removed
         client : Client \cup {None},   \* the one resolved last
         first  : Client \cup {None},   \* the one a send resolved first: it polls with it
         ctx    : ContextIds,           \* the context sent
         retried : BOOLEAN,
         changed : SUBSET Aliases]      \* history variable, see "Overlaps"

Idle == [pc |-> "idle", op |-> "none", alias |-> None, url |-> None, hdr |-> None,
         old |-> None, client |-> None, first |-> None, ctx |-> None,
         retried |-> FALSE, changed |-> {}]

\* What the goroutine of an asynchronous send keeps of its call.
Background == [alias : Aliases \cup {None}, url : Urls, client : Client, ctx : ContextIds,
               changed : SUBSET Aliases]

\* The entry of a broadcast to an alias that is not registered.
Notice(a) == [unregistered |-> a]

\* What is left of a history whose deletion failed.
Undeleted(a) == [undeleted |-> a]

HistoryOf(a) == {a, Notice(a), Undeleted(a)}

\* No alias is taken for a notice or a leftover.
ASSUME NoticeAssumption == \A a, b \in Aliases : Notice(a) # b /\ Undeleted(a) # b

TypeOK ==
  /\ setup \in Setups
  /\ registry \in [Aliases -> RegisteredAgent \cup {None}]
  /\ context \in [Aliases -> Urls \cup {None}]
  /\ clients \in [Urls -> Client \cup {None}]
  /\ limiter \in [Aliases -> Limits \cup {None}]
  /\ health \in [Aliases -> HealthState \cup {None}]
  /\ history \subseteq Urls \cup UNION {HistoryOf(a) : a \in Aliases}
  /\ call \in [Calls -> Call]
  /\ background \subseteq Background
  /\ strays \in [Aliases -> SUBSET Urls]

Init ==
  /\ setup \in Setups
  /\ registry = [a \in Aliases |-> None]
  /\ context = [a \in Aliases |-> None]
  /\ clients = [u \in Urls |-> None]
  /\ limiter = [a \in Aliases |-> None]
  /\ health = [a \in Aliases |-> None]
  /\ history = {}
  /\ call = [p \in Calls |-> Idle]
  /\ background = {}
  /\ strays = [a \in Aliases |-> {}]

-----------------------------------------------------------------------------
(* Calls: any two of them may overlap.                                     *)

Active(a) == {p \in Calls : call[p].alias = a}

Changing(a) == \E p \in Active(a) : call[p].op \in {"connect", "disconnect"}

At(p, step) == call[p].pc = step
MayCall(p, tool) == At(p, "idle") /\ tool \in setup.tools[p]
Goto(p, step) == call' = [call EXCEPT ![p].pc = step]
Return(p) == call' = [call EXCEPT ![p] = Idle]

-----------------------------------------------------------------------------
(* Overlaps.  Two history variables tell which calls a change of an alias, *)
(* that is a connect_agent or disconnect_agent, overlapped: call[p].changed *)
(* (and that of a background send) is the aliases that were changed during *)
(* the call, strays[a] the agents that were spoken to or connected by the  *)
(* calls which overlapped a change of a, since a was last taken from an    *)
(* agent.                                                                  *)

TakenAway(c) == c.op = "disconnect" \/ c.old \notin {None, c.url}

\* A change c of its alias starts in slot p.
BeginChange(p, c) ==
  LET a == c.alias
      others == {call[q].url : q \in Active(a)} \ {None}
  IN  /\ call' = [q \in Calls |-> IF q = p THEN c
                                  ELSE IF call[q].op \in {"none", "connect", "disconnect"} THEN call[q]
                                  ELSE [call[q] EXCEPT !.changed = @ \cup {a}]]
      /\ background' = {[b EXCEPT !.changed = @ \cup {a}] : b \in background}
      /\ strays' = [strays EXCEPT ![a] = IF Changing(a) THEN @ \cup others \cup ({c.url} \ {None})
                                         ELSE IF TakenAway(c) THEN others ELSE @ \cup others]

\* A call c that changes no alias starts in slot p.
BeginUse(p, c) ==
  /\ call' = [call EXCEPT ![p] = [c EXCEPT !.changed = {a \in Aliases : Changing(a)}]]
  /\ strays' = [a \in Aliases |-> IF a = c.alias /\ Changing(a) THEN strays[a] \cup ({c.url} \ {None})
                                  ELSE strays[a]]
  /\ UNCHANGED background

-----------------------------------------------------------------------------
(* The stores.                                                             *)

\* Variant of Evict: the cached client stays.
KeepClient(u) == UNCHANGED clients

Evict(u) == clients' = [clients EXCEPT ![u] = None]

\* findCard: any entry with this URL and a card will do.
CardKnown(u) == \E a \in Aliases : registry[a] # None /\ registry[a].url = u /\ registry[a].card # None

\* A client for call c: a header provider only if headers were set when resolved.
NewClient(c) ==
  [alias |-> c.alias, dynamic |-> c.hdr # None, carded |-> c.alias # None /\ CardKnown(c.url),
   stray |-> c.alias \in c.changed]

\* Resolve: the cached client of the URL if there is one, else a new one, cached.
Resolve(p, next) ==
  LET u == call[p].url
      c == IF clients[u] # None THEN clients[u] ELSE NewClient(call[p])
  IN  /\ clients' = [clients EXCEPT ![u] = c]
      /\ call' = [call EXCEPT ![p].client = c, ![p].pc = next,
                             ![p].first = IF next = "route" /\ call[p].op = "send" THEN c ELSE @]

\* The headers a request made through client c carries: read at request time.
Attached(c) ==
  IF ~c.dynamic THEN None ELSE IF registry[c.alias] = None THEN None ELSE registry[c.alias].hdr

UnknownHealth == [failures |-> 0, status |-> "unknown", agent |-> None]

\* Variant of ResetHealth: an entry is made, but never reset.
EnsureHealth(a) ==
  health' = IF ~setup.tracking \/ health[a] # None THEN health
            ELSE [health EXCEPT ![a] = UnknownHealth]

ResetHealth(a) ==
  health' = IF ~setup.tracking THEN health ELSE [health EXCEPT ![a] = UnknownHealth]

RecordSuccess(a, u) ==
  health' = IF a = None \/ ~setup.tracking THEN health
            ELSE IF health[a] = None THEN health
            ELSE [health EXCEPT ![a] = [failures |-> 0, status |-> "healthy", agent |-> u]]

RecordFailure(a, u) ==
  health' = IF a = None \/ ~setup.tracking THEN health
            ELSE IF health[a] = None THEN health
            ELSE LET n == IF health[a].failures < Threshold THEN health[a].failures + 1 ELSE Threshold
                 IN  [health EXCEPT ![a] = [failures |-> n, agent |-> u,
                        status |-> IF n = Threshold THEN "unhealthy" ELSE health[a].status]]

StoreContext(a, c) == context' = IF a = None \/ c = None THEN context ELSE [context EXCEPT ![a] = c]

-----------------------------------------------------------------------------
(* connect_agent.  Its headers and its limit are chosen at the steps that  *)
(* use them.                                                               *)

\* Handle up to the Lookup of the existing entry.
ConnectCall(a, u) ==
  LET old == IF registry[a] = None THEN None ELSE registry[a].url
  IN  [Idle EXCEPT !.pc = IF old = None THEN "register" ELSE "evictOld", !.op = "connect",
                   !.alias = a, !.url = u, !.old = old]

StartConnect(p) ==
  \E a \in Aliases : \E u \in UrlsOf[a] :
    /\ MayCall(p, "connect")
    /\ BeginChange(p, ConnectCall(a, u))
    /\ UNCHANGED stores

\* Variant of UrlChanged: the context survives every reconnect.
UrlNeverChanged(c) == FALSE

UrlChanged(c) == c.old # c.url

ConnectEvict(p) ==
  /\ At(p, "evictOld")
  /\ Evict(call[p].old)
  /\ Goto(p, IF UrlChanged(call[p]) THEN "dropContext" ELSE "register")
  /\ UNCHANGED <<registry, context, limiter, health, history>>

ConnectDropContext(p) ==
  /\ At(p, "dropContext")
  /\ context' = [context EXCEPT ![call[p].alias] = None]
  /\ Goto(p, "register")
  /\ UNCHANGED <<registry, clients, limiter, health, history>>

\* Variant of ConnectRegister: the existing entry is updated in place.
ConnectUpdate(p) ==
  /\ At(p, "register")
  /\ \E h \in setup.headers \cup {None} : LET a == call[p].alias IN
       registry' = [registry EXCEPT ![a] = [url |-> call[p].url, hdr |-> h,
                      card |-> IF registry[a] = None THEN None ELSE registry[a].card]]
  /\ Goto(p, "configureLimit")
  /\ UNCHANGED <<context, clients, limiter, health, history>>

\* A fresh entry: the card of the previous one is gone.
ConnectRegister(p) ==
  /\ At(p, "register")
  /\ \E h \in setup.headers \cup {None} :
       registry' = [registry EXCEPT ![call[p].alias] = [url |-> call[p].url, hdr |-> h, card |-> None]]
  /\ Goto(p, "configureLimit")
  /\ UNCHANGED <<context, clients, limiter, health, history>>

\* The DefaultRateLimit of the tool: its constructor leaves the field unset,
\* whatever gateway.WithRateLimit was given.
ToolDefault == None

\* Variant of LimitFor: a zero rate is stored like any other.
LimitAsGiven(current, input) == IF input = None THEN current ELSE input

LimitFor(current, input) ==
  CASE input = "off" -> None
    [] input \in setup.limits -> input
    [] OTHER -> IF ToolDefault = None THEN current ELSE ToolDefault

ConnectConfigureLimit(p) ==
  /\ At(p, "configureLimit")
  /\ \E l \in LimitInputs : limiter' = [limiter EXCEPT ![call[p].alias] = LimitFor(@, l)]
  /\ Goto(p, "setCard")
  /\ UNCHANGED <<registry, context, clients, health, history>>

\* The fetched card, if there is one, goes to whatever entry the alias has now.
ConnectSetCard(p) ==
  /\ At(p, "setCard")
  /\ \/ UNCHANGED registry  \* the fetch failed, or SetCard found no entry
     \/ /\ registry[call[p].alias] # None
        /\ registry' = [registry EXCEPT ![call[p].alias].card = call[p].url]
  /\ Goto(p, "resetHealth")
  /\ UNCHANGED <<context, clients, limiter, health, history>>

ConnectResetHealth(p) ==
  /\ At(p, "resetHealth")
  /\ ResetHealth(call[p].alias)
  /\ Return(p)
  /\ UNCHANGED <<registry, context, clients, limiter, history>>

-----------------------------------------------------------------------------
(* disconnect_agent                                                        *)

DisconnectCall(a) ==
  [Idle EXCEPT !.pc = "evictRemoved", !.op = "disconnect", !.alias = a, !.old = registry[a].url]

StartDisconnect(p) ==
  \E a \in Aliases :
    /\ MayCall(p, "disconnect")
    /\ registry[a] # None
    /\ registry' = [registry EXCEPT ![a] = None]
    /\ BeginChange(p, DisconnectCall(a))
    /\ UNCHANGED <<context, clients, limiter, health, history>>

DisconnectEvict(p) ==
  /\ At(p, "evictRemoved")
  /\ Evict(call[p].old)
  /\ Goto(p, "dropLimiter")
  /\ UNCHANGED <<registry, context, limiter, health, history>>

\* Variant of DisconnectDropLimiter: the limiter is forgotten.
DisconnectKeepLimiter(p) ==
  /\ At(p, "dropLimiter")
  /\ Goto(p, "dropHealth")
  /\ UNCHANGED stores

DisconnectDropLimiter(p) ==
  /\ At(p, "dropLimiter")
  /\ limiter' = [limiter EXCEPT ![call[p].alias] = None]
  /\ Goto(p, "dropHealth")
  /\ UNCHANGED <<registry, context, clients, health, history>>

\* Variant of DisconnectDropHealth: HealthTracker.Delete instead of Reset.
DisconnectDeleteHealth(p) ==
  /\ At(p, "dropHealth")
  /\ health' = [health EXCEPT ![call[p].alias] = None]
  /\ Goto(p, "dropStoredContext")
  /\ UNCHANGED <<registry, context, clients, limiter, history>>

\* Reset, not Delete: the alias keeps an "unknown" entry.
DisconnectDropHealth(p) ==
  /\ At(p, "dropHealth")
  /\ ResetHealth(call[p].alias)
  /\ Goto(p, "dropStoredContext")
  /\ UNCHANGED <<registry, context, clients, limiter, history>>

DisconnectDropContext(p) ==
  /\ At(p, "dropStoredContext")
  /\ context' = [context EXCEPT ![call[p].alias] = None]
  /\ Goto(p, "dropHistory")
  /\ UNCHANGED <<registry, clients, limiter, health, history>>

\* Delete.  The file backend may fail to remove the file.
DeleteHistory(a) ==
  \/ history' = history \ HistoryOf(a)
  \/ history' = IF a \in history THEN (history \ {a}) \cup {Undeleted(a)} ELSE history

\* An error of Delete is dropped.
DisconnectDropHistory(p) ==
  /\ At(p, "dropHistory")
  /\ DeleteHistory(call[p].alias)
  /\ Return(p)
  /\ UNCHANGED <<registry, context, clients, limiter, health>>

-----------------------------------------------------------------------------
(* send_message, get_task and cancel_task ("query"), by alias or raw URL,  *)
(* and broadcast_message, by alias                                         *)

\* ResolveAgent: the alias's entry if it is registered, else a raw URL.
RequestCall(op, a, u, h) ==
  [Idle EXCEPT !.pc = CASE op = "query" -> "resolveDirect"
                        [] op = "send" /\ a = None -> "getContext"
                        [] op = "send" /\ a # None -> "checkLimit",
               !.op = op, !.alias = a, !.url = u, !.hdr = h]

StartRequest(p) ==
  \E op \in {"send", "query"} :
    /\ MayCall(p, op)
    /\ \/ \E a \in Aliases :
            /\ registry[a] # None
            /\ BeginUse(p, RequestCall(op, a, registry[a].url, registry[a].hdr))
       \/ \E u \in setup.raw : BeginUse(p, RequestCall(op, None, u, None))
    /\ UNCHANGED stores

\* One agent of a broadcast_message: the tool starts a goroutine for each, and
\* an alias that is not registered only leaves a notice in the history.
BroadcastCall(a) ==
  LET c == [Idle EXCEPT !.op = "broadcast", !.alias = a]
  IN  IF registry[a] = None THEN [c EXCEPT !.pc = "recordHistory"]
      ELSE [c EXCEPT !.pc = "checkHealth", !.url = registry[a].url, !.hdr = registry[a].hdr]

StartBroadcast(p) ==
  \E a \in Aliases :
    /\ MayCall(p, "broadcast")
    /\ BeginUse(p, BroadcastCall(a))
    /\ UNCHANGED stores

\* A broadcast skips an unhealthy agent.
CheckHealth(p) ==
  /\ At(p, "checkHealth")
  /\ LET h == health[call[p].alias]
     IN  IF h # None /\ h.status = "unhealthy" THEN Goto(p, "recordHistory") ELSE Goto(p, "checkLimit")
  /\ UNCHANGED stores

\* Whether a limited alias has a token left is the rate limiter's affair.
CheckLimit(p) ==
  /\ At(p, "checkLimit")
  /\ \/ Goto(p, IF call[p].op = "broadcast" THEN "resolve" ELSE "getContext")
     \/ /\ limiter[call[p].alias] # None
        /\ IF call[p].op = "broadcast" THEN Goto(p, "recordHistory") ELSE Return(p)
  /\ UNCHANGED stores

\* Explicit context before stored context before none.
GetContext(p) ==
  /\ At(p, "getContext")
  /\ \E c \in ExplicitContexts \cup {IF call[p].alias = None THEN None ELSE context[call[p].alias]} :
       call' = [call EXCEPT ![p].ctx = c, ![p].pc = "resolve"]
  /\ UNCHANGED stores

ResolveForSend(p) ==
  /\ At(p, "resolve")
  /\ Resolve(p, "route")
  /\ UNCHANGED <<registry, context, limiter, health, history>>

SupportsStreaming(a) ==
  /\ a # None
  /\ registry[a] # None
  /\ registry[a].card \in StreamingUrls

\* Streaming or direct.  A broadcast invokes the client it has, once its message
\* could be built.
Route(p) ==
  /\ At(p, "route")
  /\ IF call[p].op = "broadcast" THEN Goto(p, "invoke") \/ Goto(p, "recordHistory")
     ELSE Goto(p, IF SupportsStreaming(call[p].alias) THEN "stream" ELSE "resolveDirect")
  /\ UNCHANGED stores

\* Asynchronous: the call returns, and a goroutine goes on with its client.
SendAsync(p) ==
  /\ At(p, "route")
  /\ call[p].op = "send"
  /\ Cardinality(background) < setup.maxBackground
  /\ background' = background \cup {[alias |-> call[p].alias, url |-> call[p].url, client |-> call[p].client,
                                     ctx |-> call[p].ctx, changed |-> call[p].changed]}
  /\ Return(p)
  /\ UNCHANGED stores

\* The goroutine sends and polls, as long as that takes, and leaves the outcome in
\* the inbox: what it does is to make requests, and it updates none of these stores.
BackgroundEnds(b) == background' = background \ {b} /\ UNCHANGED <<setup, stores, call, strays>>

ResolveDirect(p) ==
  /\ At(p, "resolveDirect")
  /\ Resolve(p, "invoke")
  /\ UNCHANGED <<registry, context, limiter, health, history>>

\* No client can be made: nothing is cached, and the call ends as its op has it.
ResolveFails(p) ==
  /\ call[p].pc \in {"resolve", "resolveDirect"}
  /\ clients[call[p].url] = None
  /\ \/ call[p].op # "broadcast" /\ (At(p, "resolve") \/ call[p].op = "query") /\ Return(p)
     \/ call[p].op # "query" /\ At(p, "resolveDirect") /\ Goto(p, "recordFailure")
     \/ call[p].op = "send" /\ At(p, "resolveDirect") /\ Goto(p, "recordHistory")
     \/ call[p].op = "broadcast" /\ At(p, "resolve") /\ Goto(p, "recordHistory")
  /\ UNCHANGED stores

\* The exchange with the agent is over.  Of its context and clients only the one to
\* poll with may be used again; it is kept out of a state that does not need it.
Answered(p, step) ==
  call' = [call EXCEPT ![p].pc = step, ![p].ctx = None, ![p].client = None,
                       ![p].first = IF step = "recordSuccess" THEN @ ELSE None]

\* One request to the agent.
InvokeSucceeds(p) ==
  /\ At(p, "invoke")
  /\ IF call[p].op = "query" THEN Return(p) ELSE Answered(p, "recordSuccess")
  /\ UNCHANGED stores

\* Variant of InvokeUnauthorized: a 401/403 is retried however often it comes.
InvokeAlwaysRetried(p) == At(p, "invoke") /\ Goto(p, "evictAuth") /\ UNCHANGED stores

\* 401/403: evict and try once more.
InvokeUnauthorized(p) ==
  /\ At(p, "invoke")
  /\ ~call[p].retried
  /\ Goto(p, "evictAuth")
  /\ UNCHANGED stores

\* Any other error, or 401/403 again.  A cancelled request is not a failure.
InvokeFails(p) ==
  /\ At(p, "invoke")
  /\ IF call[p].op = "query" THEN Return(p)
     ELSE Answered(p, "recordFailure") \/ Answered(p, "recordHistory")
  /\ UNCHANGED stores

EvictAuth(p) ==
  /\ At(p, "evictAuth")
  /\ Evict(call[p].url)
  /\ call' = [call EXCEPT ![p].retried = TRUE, ![p].pc = "resolveDirect"]
  /\ UNCHANGED <<registry, context, limiter, health, history>>

\* The answer to a send is final, or a task that goes on.
DirectRecordSuccess(p) ==
  /\ At(p, "recordSuccess")
  /\ RecordSuccess(call[p].alias, call[p].url)
  /\ IF call[p].op = "broadcast" THEN Goto(p, "recordHistory") ELSE Goto(p, "setContext") \/ Goto(p, "poll")
  /\ UNCHANGED <<registry, context, clients, limiter, history>>

DirectRecordFailure(p) ==
  /\ At(p, "recordFailure")
  /\ RecordFailure(call[p].alias, call[p].url)
  /\ Goto(p, "recordHistory")
  /\ UNCHANGED <<registry, context, clients, limiter, history>>

\* get_task every two seconds, with the client resolved first: this may take for
\* ever.  It ends with the task or with an error.
Poll(p) ==
  /\ At(p, "poll")
  /\ Answered(p, "setContext") \/ Answered(p, "recordHistory")
  /\ UNCHANGED stores

\* The context id of the answer, if it has one.
SetContext(p, next) ==
  /\ \E c \in {None, call[p].url} : StoreContext(call[p].alias, c)
  /\ Goto(p, next)
  /\ UNCHANGED <<registry, clients, limiter, health, history>>

DirectSetContext(p) == At(p, "setContext") /\ SetContext(p, "recordHistory")

\* The stream's errors become results, so success is recorded either way.
Stream(p) ==
  /\ At(p, "stream")
  /\ Answered(p, "streamSetContext") \/ Answered(p, "streamRecordSuccess")
  /\ UNCHANGED stores

StreamSetContext(p) == At(p, "streamSetContext") /\ SetContext(p, "streamRecordSuccess")

StreamRecordSuccess(p) ==
  /\ At(p, "streamRecordSuccess")
  /\ RecordSuccess(call[p].alias, call[p].url)
  /\ Goto(p, "recordHistory")
  /\ UNCHANGED <<registry, context, clients, limiter, history>>

\* Recorded under the agent identifier of the input, alias or URL, unless the
\* backend fails, which is only logged.
RecordHistory(p) ==
  /\ At(p, "recordHistory")
  /\ \/ UNCHANGED history
     \/ /\ setup.history
        /\ history' = history \cup {IF call[p].alias = None THEN call[p].url
                                   ELSE IF call[p].url = None THEN Notice(call[p].alias)
                                   ELSE call[p].alias}
  /\ Return(p)
  /\ UNCHANGED <<registry, context, clients, limiter, health>>

-----------------------------------------------------------------------------
(* ping_agent and clear_history                                            *)

PingCall(a) == [Idle EXCEPT !.pc = "ping", !.op = "ping", !.alias = a, !.url = registry[a].url]

StartPing(p) ==
  \E a \in Aliases :
    /\ MayCall(p, "ping")
    /\ registry[a] # None
    /\ BeginUse(p, PingCall(a))
    /\ UNCHANGED stores

PingUpdateHealth(p) ==
  /\ At(p, "ping")
  /\ \/ RecordSuccess(call[p].alias, call[p].url)
     \/ RecordFailure(call[p].alias, call[p].url)
     \/ UNCHANGED health
  /\ Return(p)
  /\ UNCHANGED <<registry, context, clients, limiter, history>>

ClearHistory(a) ==
  /\ setup.history
  /\ registry[a] # None
  /\ history' = history \ HistoryOf(a) \/ UNCHANGED history
  /\ UNCHANGED <<registry, context, clients, limiter, health, call, background, strays, setup>>

-----------------------------------------------------------------------------
ConnectStep(p) ==
  \/ ConnectEvict(p) \/ ConnectDropContext(p) \/ ConnectRegister(p)
  \/ ConnectConfigureLimit(p) \/ ConnectSetCard(p) \/ ConnectResetHealth(p)

DisconnectStep(p) ==
  \/ DisconnectEvict(p) \/ DisconnectDropLimiter(p) \/ DisconnectDropHealth(p)
  \/ DisconnectDropContext(p) \/ DisconnectDropHistory(p)

RequestStep(p) ==
  \/ CheckHealth(p) \/ CheckLimit(p) \/ GetContext(p) \/ ResolveForSend(p) \/ Route(p)
  \/ ResolveDirect(p) \/ ResolveFails(p) \/ InvokeSucceeds(p) \/ InvokeUnauthorized(p) \/ InvokeFails(p)
  \/ EvictAuth(p) \/ DirectRecordSuccess(p) \/ DirectRecordFailure(p) \/ Poll(p) \/ DirectSetContext(p)
  \/ Stream(p) \/ StreamSetContext(p) \/ StreamRecordSuccess(p) \/ RecordHistory(p)

Step(p) == ConnectStep(p) \/ DisconnectStep(p) \/ RequestStep(p) \/ PingUpdateHealth(p)

\* A call in flight takes its next step.
Continue(p) == ((Step(p) /\ UNCHANGED background) \/ SendAsync(p)) /\ UNCHANGED <<setup, strays>>

Start(p) ==
  /\ StartConnect(p) \/ StartDisconnect(p) \/ StartRequest(p) \/ StartBroadcast(p) \/ StartPing(p)
  /\ UNCHANGED setup

Next ==
  \/ \E p \in Calls : Start(p) \/ Continue(p)
  \/ \E b \in background : BackgroundEnds(b)
  \/ \E a \in Aliases : ClearHistory(a)

Spec == Init /\ [][Next]_vars

-----------------------------------------------------------------------------
(* Properties.  They hold however calls overlap: where the code lets a call *)
(* that overlapped a change of an alias leave something behind, the        *)
(* property says that nothing else can.                                    *)

\* Nothing of a disconnected agent is left for the next one that gets its alias,
\* no context, limiter, health or history, unless a call that overlapped the
\* change left it (disconnect_agent's cleanup comes after the registry entry is
\* gone, and slow calls write by alias) or the history could not be deleted.
NoResidue ==
  \A a \in Aliases :
    registry[a] = None /\ ~Changing(a) =>
      /\ context[a] \in strays[a] \cup {None}
      /\ health[a] # None => health[a].agent \in strays[a] \cup {None}
      /\ limiter[a] # None \/ a \in history => strays[a] # {}

\* What is sent: a task is polled with the client that its send resolved first.
Sent(p) == IF At(p, "poll") THEN [call[p] EXCEPT !.client = call[p].first] ELSE call[p]

Messages == {call[p] : p \in {q \in Calls : call[q].op = "send" /\ call[q].pc \in {"invoke", "stream"}}} \cup background

Requests == {Sent(p) : p \in {q \in Calls : call[q].pc \in {"invoke", "stream", "poll"}}} \cup background

\* A message whose alias did not change meanwhile carries a stored context only to
\* the agent that issued it, however the alias was reconnected before (connect_agent
\* clears the context when the URL changes); but for the contexts of agents that a
\* call overlapping such a change was still speaking to.
ContextGoesHome ==
  \A m \in Messages : \A a \in Aliases \ m.changed :
    m.alias = a /\ m.ctx \in Urls => m.ctx \in strays[a] \cup {m.url}

\* A request by alias carries the headers the alias is registered with, although
\* clients are cached by URL and outlive the calls that built them: each change
\* evicts the client it makes wrong, but for those that a call overlapping the
\* change built, and those made for a raw URL or for another alias.
HeadersApplied ==
  \A r \in Requests : \A a \in Aliases \ r.changed :
    r.alias = a /\ r.client.alias = a /\ ~r.client.stray /\ registry[a] # None =>
      Attached(r.client) = registry[a].hdr

\* The headers of an alias travel only to the URL the alias is registered at,
\* although they are looked up by alias at each request of a client that may
\* serve other aliases and raw URLs too; but for requests that go on after a
\* change of the alias (a background send may poll for long), and the clients
\* that a call overlapping a change built.
HeadersStayHome ==
  \A r \in Requests : \A a \in Aliases \ r.changed :
    r.client.alias = a /\ r.client.dynamic /\ ~r.client.stray /\ registry[a] # None =>
      registry[a].url = r.url

\* When the card of an agent is known, requests by alias go through a client that
\* was built from a card, not through one cached before the card arrived; with the
\* exceptions of HeadersApplied.
ClientKnowsCard ==
  \A r \in Requests : \A a \in Aliases \ r.changed :
    r.alias = a /\ r.client.alias = a /\ ~r.client.stray /\ registry[a] # None =>
      (registry[a].card # None => r.client.carded)

\* An entry shows the card of an agent at another URL only when the connect_agent
\* that fetched it overlapped a change of the alias (SetCard is by alias).
CardOfEntry ==
  \A a \in Aliases :
    registry[a] # None /\ ~Changing(a) =>
      registry[a].card \in strays[a] \cup {None, registry[a].url}

\* The health of an alias speaks of the agent registered under it, or of one that a
\* call overlapping a change of the alias was still speaking to: every change
\* resets it, after the registry has changed.
HealthOfAgent ==
  \A a \in Aliases :
    registry[a] # None /\ health[a] # None /\ ~Changing(a) =>
      health[a].agent \in strays[a] \cup {None, registry[a].url}

Connecting(a) == \E p \in Active(a) : call[p].op = "connect"

\* Whatever overlaps, a registered agent is tracked: RecordFailure and
\* RecordSuccess ignore an alias without an entry, so losing the entry would turn
\* its health tracking off silently.
TrackedWhileRegistered ==
  setup.tracking => \A a \in Aliases : registry[a] # None /\ ~Connecting(a) => health[a] # None

\* How many steps a call that is at c has before it, at most.
StepsLeft(c) ==
  CASE c.pc = "idle" -> 0
    [] c.pc \in {"resetHealth", "dropHistory", "recordHistory", "ping"} -> 1
    [] c.pc \in {"setCard", "dropStoredContext", "setContext", "recordFailure", "streamRecordSuccess"} -> 2
    [] c.pc \in {"configureLimit", "dropHealth", "poll", "streamSetContext"} -> 3
    [] c.pc \in {"register", "dropLimiter", "recordSuccess", "stream"} -> 4
    [] c.pc \in {"dropContext", "evictRemoved"} -> 5
    [] c.pc = "evictOld" -> 6
    [] c.pc = "evictAuth" -> 7
    [] c.pc = "invoke" -> IF c.retried THEN 5 ELSE 8
    [] c.pc = "resolveDirect" -> IF c.retried THEN 6 ELSE 9
    [] c.pc = "route" -> 10
    [] c.pc = "resolve" -> 11
    [] c.pc = "getContext" -> 12
    [] c.pc = "checkLimit" -> 13
    [] c.pc = "checkHealth" -> 14

\* Whatever the others do to the stores, a call only goes on: each of its steps
\* brings it nearer to its return, also after a 401/403, which it answers by
\* evicting the client, resolving it again and sending the message once more.
\* How long it stays at one step is another matter: a task may be polled for ever.
StepsRunOut ==
  [][\A p \in Calls :
       call'[p].pc # call[p].pc /\ ~At(p, "idle") => StepsLeft(call'[p]) < StepsLeft(call[p])]_vars

\* Headers are "sent with every request to this agent", as the registry has it: no
\* exceptions.
HeadersOnEveryRequest ==
  \A r \in Requests : \A a \in Aliases :
    r.alias = a /\ registry[a] # None =>
      (registry[a].url = r.url => Attached(r.client) = registry[a].hdr)
=============================================================================
