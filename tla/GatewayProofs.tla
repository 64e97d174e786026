--------------------------- MODULE GatewayProofs ---------------------------
(***************************************************************************)
(* Proofs about Gateway, for every set of calls, aliases, URLs, headers    *)
(* and limits.                                                             *)
(***************************************************************************)
EXTENDS Gateway, TLAPS

Steps == {"idle", "ping"} \cup ConnectSteps \cup DisconnectSteps \cup SendSteps

-----------------------------------------------------------------------------
(* Moving a call along keeps its type.                                     *)

LEMMA IdleType == Idle \in Call
  BY DEF Idle, Call, ContextIds

\* A setup speaks of the constants.
LEMMA SetupType ==
  ASSUME TypeOK
  PROVE  setup.raw \subseteq Urls /\ setup.headers \subseteq Headers /\ setup.limits \subseteq Limits
  BY GatewayAssumption, SetupAssumption DEF TypeOK, Setup

-----------------------------------------------------------------------------
(* The shape of a call: what its fields hold at each of its steps.         *)

ShapeOf(c) ==
  /\ c.pc = "idle" => c = Idle
  /\ c.pc \in ConnectSteps =>
       c.op = "connect" /\ c.alias \in Aliases /\ c.url \in Urls
  /\ c.pc \in {"evictOld", "dropContext"} => c.old \in Urls
  /\ c.pc \in DisconnectSteps => c.op = "disconnect" /\ c.alias \in Aliases /\ c.old \in Urls
  /\ c.pc \in SendSteps => c.op \in {"send", "query", "broadcast"}
  /\ c.pc \in SendSteps \ {"recordHistory"} => c.url \in Urls
  /\ c.pc = "recordHistory" => c.url \in Urls \/ c.alias \in Aliases
  /\ c.pc \in {"checkHealth", "checkLimit"} => c.alias \in Aliases
  /\ c.pc \in {"route", "invoke", "stream"} => c.client \in Client
  /\ c.op = "send" /\ c.pc \in {"route", "resolveDirect", "invoke", "evictAuth", "recordSuccess"} =>
       c.first \in Client
  /\ c.pc = "poll" => c.first \in Client
  /\ c.pc \in {"getContext", "stream", "poll"} => c.op = "send"
  /\ c.op = "query" => c.pc \in {"resolveDirect", "invoke", "evictAuth"}
  /\ c.pc = "ping" => c.op = "ping" /\ c.alias \in Aliases /\ c.url \in Urls

Shape == \A p \in Calls : ShapeOf(call[p])

\* A call that is not in flight has every part of the shape, whatever the others do.
LEMMA ShapeIdle == ShapeOf(Idle)
  BY DEF ShapeOf, Idle, ConnectSteps, DisconnectSteps, SendSteps

\* A step that changes one call preserves the shape of all when that call keeps its.
LEMMA ShapeStep ==
  ASSUME TypeOK, Shape, NEW p \in Calls, NEW c \in Call, ShapeOf(c),
         call' = [call EXCEPT ![p] = c]
  PROVE  Shape' /\ call' \in [Calls -> Call]
<1>1. call' \in [Calls -> Call]
  BY DEF TypeOK
<1>2. ASSUME NEW q \in Calls PROVE ShapeOf(call'[q])
  <2>1. CASE q = p
    BY <2>1 DEF TypeOK
  <2>2. CASE q # p
    <3>1. call'[q] = call[q]
      BY <2>2 DEF TypeOK
    <3>2. QED
      BY <3>1 DEF Shape
  <2>3. QED
    BY <2>1, <2>2
<1>3. QED
  BY <1>1, <1>2 DEF Shape

\* A call that only goes on to its next step keeps the shape of all calls,
\* if what it carries suits that step.
LEMMA ShapeGoto ==
  ASSUME TypeOK, Shape, NEW p \in Calls, NEW step \in Steps, Goto(p, step),
         ShapeOf([call[p] EXCEPT !.pc = step])
  PROVE  Shape' /\ call' \in [Calls -> Call]
<1>1. [call[p] EXCEPT !.pc = step] \in Call
  BY DEF TypeOK, Call, Steps
<1>2. call' = [call EXCEPT ![p] = [call[p] EXCEPT !.pc = step]]
  BY DEF TypeOK, Goto
<1>3. QED
  BY <1>1, <1>2, ShapeStep

\* A call that returns keeps the shape of all calls.
LEMMA ShapeReturn ==
  ASSUME TypeOK, Shape, NEW p \in Calls, Return(p)
  PROVE  Shape' /\ call' \in [Calls -> Call]
  BY ShapeStep, ShapeIdle, IdleType DEF Return

\* ClientResolver.Resolve hands the call a client, and the cache holds clients only,
\* for a send as well as for a query.
LEMMA ShapeResolve ==
  ASSUME TypeOK, Shape, NEW p \in Calls, NEW step \in {"route", "invoke"},
         call[p].pc = (IF step = "route" THEN "resolve" ELSE "resolveDirect"),
         step = "route" => call[p].op \in {"send", "broadcast"}, Resolve(p, step)
  PROVE  Shape' /\ call' \in [Calls -> Call] /\ clients' \in [Urls -> Client \cup {None}]
<1>0. call[p] \in Call /\ call[p].url \in Urls /\ ShapeOf(call[p])
  BY DEF TypeOK, Shape, ShapeOf, SendSteps
<1>1. NewClient(call[p]) \in Client
  BY <1>0 DEF NewClient, Client, Call
<1> DEFINE next(c) == [call[p] EXCEPT !.client = c, !.pc = step,
                         !.first = IF step = "route" /\ call[p].op = "send" THEN c ELSE @]
<1>2. PICK c \in Client : /\ clients' = [clients EXCEPT ![call[p].url] = c]
                          /\ call' = [call EXCEPT ![p] = next(c)]
  <2> DEFINE c == IF clients[call[p].url] # None THEN clients[call[p].url] ELSE NewClient(call[p])
  <2>1. c \in Client
    BY <1>0, <1>1 DEF TypeOK
  <2>2. /\ clients' = [clients EXCEPT ![call[p].url] = c]
        /\ call' = [call EXCEPT ![p].client = c, ![p].pc = step,
                             ![p].first = IF step = "route" /\ call[p].op = "send" THEN c ELSE @]
    BY DEF Resolve
  <2> HIDE DEF c
  <2>3. call' = [call EXCEPT ![p] = next(c)]
    BY <1>0, <2>2 DEF TypeOK, Call
  <2> QED
    BY <2>1, <2>2, <2>3
<1>3. clients' \in [Urls -> Client \cup {None}]
  BY <1>2 DEF TypeOK
<1>4. next(c) \in Call
  <2> DEFINE f == IF step = "route" /\ call[p].op = "send" THEN c ELSE call[p].first
             d == next(c)
  <2>1. f \in Client \cup {None}
    BY <1>0 DEF Call
  <2>2. d = [call[p] EXCEPT !.client = c, !.pc = step, !.first = f]
    BY <1>0 DEF Call
  <2> HIDE DEF d, f
  <2>3. d \in Call
    BY <1>0, <2>1, <2>2 DEF Call, SendSteps
  <2> QED
    BY <2>3 DEF d
<1>6. ShapeOf(next(c))
  BY <1>0 DEF ShapeOf, Call, ConnectSteps, DisconnectSteps, SendSteps, Idle
<1> QED
  BY <1>2, <1>3, <1>4, <1>6, ShapeStep

-----------------------------------------------------------------------------
(* Type correctness.                                                       *)

LEMMA StoreTypes ==
  ASSUME TypeOK, NEW a \in Aliases \cup {None}, NEW u \in Urls
  PROVE  /\ a # None /\ ResetHealth(a) => health' \in [Aliases -> HealthState \cup {None}]
         /\ RecordSuccess(a, u) => health' \in [Aliases -> HealthState \cup {None}]
         /\ RecordFailure(a, u) => health' \in [Aliases -> HealthState \cup {None}]
         /\ StoreContext(a, u) => context' \in [Aliases -> Urls \cup {None}]
         /\ StoreContext(a, None) => context' \in [Aliases -> Urls \cup {None}]
<1> USE GatewayAssumption DEF TypeOK, HealthState
<1>1. a # None /\ ResetHealth(a) => health' \in [Aliases -> HealthState \cup {None}]
  BY DEF ResetHealth, UnknownHealth
<1>2. RecordSuccess(a, u) => health' \in [Aliases -> HealthState \cup {None}]
  BY DEF RecordSuccess
<1>3. ASSUME RecordFailure(a, u)
      PROVE  health' \in [Aliases -> HealthState \cup {None}]
  <2>1. CASE a = None \/ ~setup.tracking
    BY <1>3, <2>1 DEF RecordFailure
  <2>2. CASE a \in Aliases /\ setup.tracking /\ health[a] = None
    BY <1>3, <2>2 DEF RecordFailure
  <2>3. CASE a \in Aliases /\ setup.tracking /\ health[a] # None
    <3>1. a # None /\ health[a] \in HealthState
      BY <2>3
    <3> DEFINE n == IF health[a].failures < Threshold THEN health[a].failures + 1 ELSE Threshold
    <3>2. n \in 0..Threshold
      BY <3>1
    <3> HIDE DEF n
    <3> DEFINE h == [failures |-> n, agent |-> u,
                     status |-> IF n = Threshold THEN "unhealthy" ELSE health[a].status]
    <3>3. h \in HealthState
      BY <3>1, <3>2
    <3>4. health' = [health EXCEPT ![a] = h]
      BY <1>3, <2>3, <3>1 DEF RecordFailure, n
    <3>5. QED
      BY <3>3, <3>4
  <2>4. QED
    BY <2>1, <2>2, <2>3
<1>4. StoreContext(a, u) => context' \in [Aliases -> Urls \cup {None}]
  BY DEF StoreContext
<1>5. StoreContext(a, None) => context' \in [Aliases -> Urls \cup {None}]
  BY DEF StoreContext
<1>6. QED
  BY <1>1, <1>2, <1>3, <1>4, <1>5

\* What the registry says of a registered alias.
LEMMA EntryType ==
  ASSUME TypeOK, NEW a \in Aliases, registry[a] # None
  PROVE  registry[a].url \in Urls /\ registry[a].hdr \in Headers \cup {None}
  BY DEF TypeOK, RegisteredAgent

\* A call with its inputs filled in.
LEMMA NewCall ==
  ASSUME NEW step \in Steps, NEW op \in Tools,
         NEW a \in Aliases \cup {None}, NEW u \in Urls \cup {None}, NEW h \in Headers \cup {None},
         NEW o \in Urls \cup {None}, NEW c,
         c = [pc |-> step, op |-> op, alias |-> a, url |-> u, hdr |-> h, old |-> o,
              client |-> None, first |-> None, ctx |-> None, retried |-> FALSE, changed |-> {}]
  PROVE  /\ c \in Call
         /\ c.pc = step /\ c.op = op /\ c.alias = a /\ c.url = u /\ c.old = o /\ c.hdr = h
<1>1. None \in ContextIds
  BY DEF ContextIds
<1>2. QED
  BY <1>1 DEF Call, Steps

ChangeOps == {"connect", "disconnect"}

Uses(c) == c.op \in {"send", "query", "broadcast", "ping"}

Entry(a, u) == registry[a] # None /\ registry[a].url = u

\* How a call c starts in slot p: what it is about, and what its start changes.
BeginsConnect(p, c) ==
  /\ c.op = "connect" /\ c.alias \in Aliases
  /\ c.old = IF registry[c.alias] = None THEN None ELSE registry[c.alias].url
  /\ c.pc = IF registry[c.alias] = None THEN "register" ELSE "evictOld"
  /\ BeginChange(p, c)
  /\ UNCHANGED registry

BeginsDisconnect(p, c) ==
  /\ c.op = "disconnect" /\ c.alias \in Aliases /\ Entry(c.alias, c.old) /\ c.url = None
  /\ c.pc = "evictRemoved"
  /\ BeginChange(p, c)
  /\ registry' = [registry EXCEPT ![c.alias] = None]

BeginsUse(p, c) ==
  /\ Uses(c)
  /\ c.alias # None /\ c.url # None => Entry(c.alias, c.url) /\ (c.pc # "ping" => registry[c.alias].hdr = c.hdr)
  /\ BeginUse(p, c)
  /\ UNCHANGED registry

Begins(p, c) ==
  /\ c.pc # "idle" /\ c.changed = {} /\ c.client = None /\ c.first = None /\ c.ctx = None
  /\ BeginsConnect(p, c) \/ BeginsDisconnect(p, c) \/ BeginsUse(p, c)

\* A call that starts is of its type and has its shape.
LEMMA StartShape ==
  ASSUME TypeOK, NEW p \in Calls, Start(p)
  PROVE  /\ call[p].pc = "idle" /\ UNCHANGED <<setup, context, clients, limiter, health, history>>
         /\ \E c \in Call : ShapeOf(c) /\ Begins(p, c)
<1>0. At(p, "idle") /\ UNCHANGED <<setup, context, clients, limiter, health, history>>
  BY DEF Start, StartConnect, StartDisconnect, StartRequest, StartBroadcast, StartPing, stores, MayCall
<1> SUFFICES \E c \in Call : ShapeOf(c) /\ Begins(p, c)
  BY <1>0 DEF At
<1>1. CASE StartConnect(p)
  <2>0. PICK a \in Aliases : \E u \in UrlsOf[a] : BeginChange(p, ConnectCall(a, u)) /\ UNCHANGED registry
    BY <1>1 DEF StartConnect, stores
  <2>1. PICK u \in UrlsOf[a] : BeginChange(p, ConnectCall(a, u)) /\ UNCHANGED registry
    BY <2>0
  <2>3. u \in Urls
    BY GatewayAssumption
  <2> DEFINE old == IF registry[a] = None THEN None ELSE registry[a].url
             step == IF old = None THEN "register" ELSE "evictOld"
             c == ConnectCall(a, u)
  <2>4. old \in Urls \cup {None} /\ (old # None => old \in Urls)
    BY EntryType
  <2>5. c = [Idle EXCEPT !.pc = step, !.op = "connect", !.alias = a, !.url = u, !.old = old]
    BY DEF ConnectCall
  <2> HIDE DEF old, c
  <2>6. step \in Steps /\ step \in {"register", "evictOld"} /\ (step = "evictOld" => old # None)
    BY DEF Steps, ConnectSteps
  <2> HIDE DEF step
  <2>7. c = [pc |-> step, op |-> "connect", alias |-> a, url |-> u, hdr |-> None, old |-> old,
             client |-> None, first |-> None, ctx |-> None, retried |-> FALSE, changed |-> {}]
    BY <2>5 DEF Idle
  <2>8. c \in Call /\ c.pc = step /\ c.op = "connect" /\ c.alias = a /\ c.url = u /\ c.old = old
    BY <2>3, <2>4, <2>6, <2>7, NewCall DEF Tools
  <2>9. ShapeOf(c)
    BY <2>3, <2>4, <2>6, <2>8 DEF ShapeOf, DisconnectSteps, SendSteps
  <2>10. c.changed = {} /\ c.pc # "idle" /\ c.client = None /\ c.first = None /\ c.ctx = None
    BY <2>6, <2>7
  <2>11. BeginsConnect(p, c)
    <3>1. c.old = (IF registry[a] = None THEN None ELSE registry[a].url)
      BY <2>8 DEF old
    <3>2. c.pc = (IF registry[a] = None THEN "register" ELSE "evictOld")
      <4>1. registry[a] # None => registry[a].url # None
        BY EntryType, GatewayAssumption
      <4> QED
        BY <2>8, <4>1 DEF old, step
    <3> QED
      BY <2>1, <2>8, <3>1, <3>2 DEF c, BeginsConnect
  <2>12. QED
    BY <2>8, <2>9, <2>10, <2>11 DEF Begins
<1>2. CASE StartDisconnect(p)
  <2>1. PICK a \in Aliases : registry[a] # None /\ BeginChange(p, DisconnectCall(a))
                              /\ registry' = [registry EXCEPT ![a] = None]
    BY <1>2 DEF StartDisconnect
  <2> DEFINE c == DisconnectCall(a)
             old == registry[a].url
  <2>2. old \in Urls /\ "evictRemoved" \in Steps
    BY <2>1, EntryType DEF Steps, DisconnectSteps
  <2>a. c = [Idle EXCEPT !.pc = "evictRemoved", !.op = "disconnect", !.alias = a, !.old = old]
    BY DEF DisconnectCall
  <2> HIDE DEF c, old
  <2>3. c = [pc |-> "evictRemoved", op |-> "disconnect", alias |-> a, url |-> None, hdr |-> None, old |-> old,
             client |-> None, first |-> None, ctx |-> None, retried |-> FALSE, changed |-> {}]
    BY <2>a DEF Idle
  <2>4. /\ c \in Call /\ c.pc = "evictRemoved" /\ c.op = "disconnect" /\ c.alias = a /\ c.old = old
    BY <2>2, <2>3, NewCall DEF Tools
  <2>5. ShapeOf(c)
    BY <2>2, <2>4 DEF ShapeOf, ConnectSteps, SendSteps
  <2>6. c.changed = {} /\ c.client = None /\ c.first = None /\ c.ctx = None
    BY <2>3
  <2>7. BeginsDisconnect(p, c)
    <3>1. BeginChange(p, c) /\ Entry(a, old) /\ registry' = [registry EXCEPT ![a] = None]
      BY <2>1 DEF c, old, Entry
    <3>2. c.url = None
      BY <2>3
    <3> QED
      BY <2>4, <3>1, <3>2 DEF BeginsDisconnect
  <2> QED
    BY <2>4, <2>5, <2>6, <2>7 DEF Begins
<1>3. CASE StartRequest(p)
  <2>1. PICK op \in {"send", "query"}, a \in Aliases \cup {None}, u \in Urls, h \in Headers \cup {None} :
          /\ BeginUse(p, RequestCall(op, a, u, h)) /\ UNCHANGED registry
          /\ a # None => Entry(a, u) /\ registry[a].hdr = h
    <3>1. PICK op \in {"send", "query"} :
            /\ UNCHANGED registry
            /\ \/ \E a \in Aliases : registry[a] # None /\ BeginUse(p, RequestCall(op, a, registry[a].url, registry[a].hdr))
               \/ \E u \in setup.raw : BeginUse(p, RequestCall(op, None, u, None))
      BY <1>3 DEF StartRequest, stores
    <3>2. ASSUME NEW a \in Aliases, registry[a] # None, BeginUse(p, RequestCall(op, a, registry[a].url, registry[a].hdr))
          PROVE  \E u \in Urls, h \in Headers \cup {None} :
                   BeginUse(p, RequestCall(op, a, u, h)) /\ Entry(a, u) /\ registry[a].hdr = h
      BY <3>2, EntryType DEF Entry
    <3> QED
      BY <3>1, <3>2, SetupType
  <2> DEFINE c == RequestCall(op, a, u, h)
             step == IF op = "query" THEN "resolveDirect" ELSE IF a = None THEN "getContext" ELSE "checkLimit"
  <2>2. step \in Steps /\ op \in Tools
    BY DEF Steps, SendSteps, Tools
  <2>a. c = [Idle EXCEPT !.pc = step, !.op = op, !.alias = a, !.url = u, !.hdr = h]
    BY DEF RequestCall
  <2> HIDE DEF c
  <2>3. c = [pc |-> step, op |-> op, alias |-> a, url |-> u, hdr |-> h, old |-> None,
             client |-> None, first |-> None, ctx |-> None, retried |-> FALSE, changed |-> {}]
    BY <2>a DEF Idle
  <2>4. c \in Call /\ c.pc = step /\ c.op = op /\ c.alias = a /\ c.url = u /\ c.hdr = h
    <3> HIDE DEF step
    <3> QED
      BY <2>2, <2>3, NewCall
  <2>5. ShapeOf(c)
    BY <2>4 DEF ShapeOf, ConnectSteps, DisconnectSteps, SendSteps
  <2>6. c.changed = {} /\ c.client = None /\ c.first = None /\ c.ctx = None
    BY <2>3
  <2>7. BeginsUse(p, c)
    <3>1. BeginUse(p, c)
      BY <2>1 DEF c
    <3> QED
      BY <2>1, <2>4, <3>1 DEF BeginsUse, Uses
  <2> QED
    BY <2>4, <2>5, <2>6, <2>7 DEF Begins
<1>4. CASE StartPing(p)
  <2>1. PICK a \in Aliases : registry[a] # None /\ BeginUse(p, PingCall(a)) /\ UNCHANGED registry
    BY <1>4 DEF StartPing, stores
  <2> DEFINE c == PingCall(a)
             u == registry[a].url
  <2>2. u \in Urls /\ "ping" \in Steps
    BY <2>1, EntryType DEF Steps
  <2>a. c = [Idle EXCEPT !.pc = "ping", !.op = "ping", !.alias = a, !.url = u]
    BY DEF PingCall
  <2> HIDE DEF c, u
  <2>3. c = [pc |-> "ping", op |-> "ping", alias |-> a, url |-> u, hdr |-> None, old |-> None,
             client |-> None, first |-> None, ctx |-> None, retried |-> FALSE, changed |-> {}]
    BY <2>a DEF Idle
  <2>4. c \in Call /\ c.pc = "ping" /\ c.op = "ping" /\ c.alias = a /\ c.url = u
    BY <2>2, <2>3, NewCall DEF Tools
  <2>5. ShapeOf(c)
    BY <2>2, <2>4 DEF ShapeOf, ConnectSteps, DisconnectSteps, SendSteps
  <2>6. c.changed = {} /\ c.client = None /\ c.first = None /\ c.ctx = None
    BY <2>3
  <2>7. BeginsUse(p, c)
    <3>1. BeginUse(p, c) /\ Entry(a, u)
      BY <2>1 DEF c, u, Entry
    <3> QED
      BY <2>1, <2>4, <3>1 DEF BeginsUse, Uses
  <2> QED
    BY <2>4, <2>5, <2>6, <2>7 DEF Begins
<1>5. CASE StartBroadcast(p)
  <2>1. PICK a \in Aliases : BeginUse(p, BroadcastCall(a)) /\ UNCHANGED registry
    BY <1>5 DEF StartBroadcast, stores
  <2> DEFINE c == BroadcastCall(a)
             r == registry[a]
             step == IF r = None THEN "recordHistory" ELSE "checkHealth"
             u == IF r = None THEN None ELSE r.url
             h == IF r = None THEN None ELSE r.hdr
  <2>2. /\ step \in Steps /\ step \in {"recordHistory", "checkHealth"}
        /\ u \in Urls \cup {None} /\ h \in Headers \cup {None}
        /\ step = "checkHealth" => u \in Urls
    BY EntryType DEF Steps, SendSteps
  <2>3. c = [pc |-> step, op |-> "broadcast", alias |-> a, url |-> u, hdr |-> h, old |-> None,
             client |-> None, first |-> None, ctx |-> None, retried |-> FALSE, changed |-> {}]
    BY DEF BroadcastCall, Idle
  <2> HIDE DEF c, step, u, h
  <2>4. c \in Call /\ c.pc = step /\ c.op = "broadcast" /\ c.alias = a /\ c.url = u /\ c.hdr = h
    BY <2>2, <2>3, NewCall DEF Tools
  <2>5. ShapeOf(c)
    BY <2>2, <2>4 DEF ShapeOf, ConnectSteps, DisconnectSteps, SendSteps
  <2>6. c.changed = {} /\ c.client = None /\ c.first = None /\ c.ctx = None
    BY <2>3
  <2>7. BeginsUse(p, c)
    <3>1. BeginUse(p, c)
      BY <2>1 DEF c
    <3>2. u # None => Entry(a, u) /\ registry[a].hdr = h
      BY DEF u, h, Entry
    <3> QED
      BY <2>1, <2>4, <3>1, <3>2 DEF BeginsUse, Uses
  <2> QED
    BY <2>2, <2>4, <2>5, <2>6, <2>7 DEF Begins
<1>6. QED
  BY <1>1, <1>2, <1>3, <1>4, <1>5 DEF Start

\* What the start of a call leaves of another one: all but which aliases changed.
Marked(c, d) == d \in Call /\ d = [c EXCEPT !.changed = d.changed] /\ (c.pc = "idle" => d = c)

LEMMA MarkedShape ==
  ASSUME NEW c \in Call, ShapeOf(c), NEW d, Marked(c, d)
  PROVE  /\ ShapeOf(d)
         /\ d.pc = c.pc /\ d.op = c.op /\ d.alias = c.alias /\ d.url = c.url /\ d.hdr = c.hdr /\ d.old = c.old
         /\ d.client = c.client /\ d.first = c.first /\ d.ctx = c.ctx /\ d.retried = c.retried
<1>1. /\ d.pc = c.pc /\ d.op = c.op /\ d.alias = c.alias /\ d.url = c.url /\ d.hdr = c.hdr /\ d.old = c.old
      /\ d.client = c.client /\ d.first = c.first /\ d.ctx = c.ctx /\ d.retried = c.retried
  BY DEF Marked, Call
<1> QED
  BY <1>1 DEF ShapeOf, Marked

\* A change of an alias that starts marks the calls and background sends under way.
LEMMA ChangeBegins ==
  ASSUME TypeOK, NEW p \in Calls, NEW c \in Call, c.alias \in Aliases, BeginChange(p, c), Shape
  PROVE  /\ call' \in [Calls -> Call] /\ background' \subseteq Background /\ strays' \in [Aliases -> SUBSET Urls]
         /\ call'[p] = c /\ \A q \in Calls \ {p} : Marked(call[q], call'[q])
<1>1. ASSUME NEW q \in Calls, q # p
      PROVE  Marked(call[q], call'[q]) /\ call'[q] \in Call
  <2>1. call[q] \in Call
    BY DEF TypeOK
  <2>2. call'[q] = call[q] \/ call'[q] = [call[q] EXCEPT !.changed = @ \cup {c.alias}]
    BY <1>1 DEF BeginChange
  <2>3. ASSUME call'[q] = [call[q] EXCEPT !.changed = @ \cup {c.alias}]
        PROVE  call'[q] \in Call /\ call'[q] = [call[q] EXCEPT !.changed = call'[q].changed]
    <3>1. [call[q] EXCEPT !.changed = @ \cup {c.alias}] \in Call
      BY <2>1 DEF Call
    <3> QED
      BY <2>1, <2>3, <3>1 DEF Call
  <2>4. call[q] = [call[q] EXCEPT !.changed = call[q].changed]
    BY <2>1 DEF Call
  <2>5. call[q].pc = "idle" => call'[q] = call[q]
    <3>1. call[q].pc = "idle" => call[q].op = "none"
      BY DEF Shape, ShapeOf, Idle
    <3> QED
      BY <1>1, <3>1 DEF BeginChange
  <2> QED
    BY <2>1, <2>2, <2>3, <2>4, <2>5 DEF Marked
<1>2. call'[p] = c
  BY DEF BeginChange
<1>3. call' \in [Calls -> Call]
  BY <1>1, <1>2 DEF BeginChange
<1>4. background' \subseteq Background
  BY DEF BeginChange, TypeOK, Background
<1>5. strays' \in [Aliases -> SUBSET Urls]
  <2> DEFINE others == {call[q].url : q \in Active(c.alias)} \ {None}
             spoken == {c.url} \ {None}
  <2>1. others \subseteq Urls /\ spoken \subseteq Urls
    BY DEF TypeOK, Call, Active
  <2>2. \E s \in {strays[c.alias] \cup others \cup spoken, others, strays[c.alias] \cup others} :
          strays' = [strays EXCEPT ![c.alias] = s]
    <3> HIDE DEF others, spoken
    <3> QED
      BY DEF BeginChange, others, spoken
  <2> HIDE DEF others, spoken
  <2> QED
    BY <2>1, <2>2 DEF TypeOK
<1> QED
  BY <1>1, <1>2, <1>3, <1>4, <1>5

\* Any other call that starts leaves the others as they are.
LEMMA UseBegins ==
  ASSUME TypeOK, NEW p \in Calls, NEW c \in Call, BeginUse(p, c)
  PROVE  /\ call' \in [Calls -> Call] /\ UNCHANGED background /\ strays' \in [Aliases -> SUBSET Urls]
         /\ call'[p] = [c EXCEPT !.changed = {a \in Aliases : Changing(a)}]
         /\ \A q \in Calls \ {p} : call'[q] = call[q]
<1> DEFINE d == [c EXCEPT !.changed = {a \in Aliases : Changing(a)}]
<1>1. d \in Call
  BY DEF Call
<1>2. call' = [call EXCEPT ![p] = d]
  BY DEF BeginUse
<1> HIDE DEF d
<1>3. {c.url} \ {None} \subseteq Urls
  BY DEF Call
<1>4. strays' \in [Aliases -> SUBSET Urls]
  BY <1>3 DEF BeginUse, TypeOK
<1> QED
  BY <1>1, <1>2, <1>4 DEF BeginUse, TypeOK, d

\* Two calls that are the same but for which aliases changed during them, and the retry.
Alike(c, d) ==
  /\ d.pc = c.pc /\ d.op = c.op /\ d.alias = c.alias /\ d.url = c.url /\ d.hdr = c.hdr /\ d.old = c.old
  /\ d.client = c.client /\ d.first = c.first /\ d.ctx = c.ctx

\* The calls after one of them has started.
LEMMA CallsAfterStart ==
  ASSUME TypeOK, Shape, NEW p \in Calls, NEW c \in Call, ShapeOf(c), Begins(p, c)
  PROVE  /\ call' \in [Calls -> Call] /\ background' \subseteq Background /\ strays' \in [Aliases -> SUBSET Urls]
         /\ Shape'
         /\ Alike(c, call'[p])
         /\ \A q \in Calls \ {p} : Marked(call[q], call'[q]) /\ Alike(call[q], call'[q])
<1>1. \A q \in Calls : call[q] \in Call /\ ShapeOf(call[q])
  BY DEF TypeOK, Shape
<1>2. Marked(c, c) /\ \A q \in Calls : Marked(call[q], call[q])
  BY <1>1 DEF Marked, Call
<1>3. /\ call' \in [Calls -> Call] /\ background' \subseteq Background /\ strays' \in [Aliases -> SUBSET Urls]
      /\ Marked(c, call'[p])
      /\ \A q \in Calls \ {p} : Marked(call[q], call'[q])
  <2>1. CASE c.alias \in Aliases /\ BeginChange(p, c)
    BY <1>2, <2>1, ChangeBegins
  <2>2. CASE BeginUse(p, c)
    <3> DEFINE m == {a \in Aliases : Changing(a)}
               d == [c EXCEPT !.changed = m]
    <3>1. /\ call' \in [Calls -> Call] /\ background' \subseteq Background /\ strays' \in [Aliases -> SUBSET Urls]
          /\ call'[p] = d /\ \A q \in Calls \ {p} : call'[q] = call[q]
      <4> HIDE DEF d
      <4> QED
        BY <2>2, UseBegins DEF TypeOK, d
    <3> HIDE DEF m
    <3>2. d.changed = m
      BY DEF Call
    <3>3. Marked(c, call'[p])
      <4> HIDE DEF d
      <4>1. d = [c EXCEPT !.changed = d.changed]
        BY <3>2 DEF d
      <4>2. c.pc # "idle"
        BY DEF Begins
      <4> QED
        BY <3>1, <4>1, <4>2 DEF Marked
    <3> QED
      BY <1>2, <3>1, <3>3
  <2> QED
    BY <2>1, <2>2 DEF Begins, BeginsConnect, BeginsDisconnect, BeginsUse
<1>4. /\ Alike(c, call'[p]) /\ ShapeOf(call'[p])
      /\ \A q \in Calls \ {p} : Alike(call[q], call'[q]) /\ ShapeOf(call'[q])
  BY <1>1, <1>3, MarkedShape DEF Alike
<1> QED
  BY <1>3, <1>4 DEF Shape

\* The start of a tool call, up to its first shared access.
LEMMA TypeStart ==
  ASSUME TypeOK, Shape, NEW p \in Calls, Start(p)
  PROVE  /\ (TypeOK /\ Shape)'
         /\ call[p].pc = "idle" /\ \A q \in Calls \ {p} : Alike(call[q], call'[q])
<1>1. PICK c \in Call : ShapeOf(c) /\ Begins(p, c)
  BY StartShape
<1>2. registry' \in [Aliases -> RegisteredAgent \cup {None}]
  BY <1>1 DEF Begins, BeginsConnect, BeginsDisconnect, BeginsUse, TypeOK
<1> QED
  BY <1>1, <1>2, StartShape, CallsAfterStart DEF TypeOK

\* What is known of the call that takes a step.
LEMMA CallShape ==
  ASSUME TypeOK, Shape, NEW p \in Calls
  PROVE  call[p] \in Call /\ ShapeOf(call[p])
  BY DEF TypeOK, Shape

\* The critical sections of connect_agent.
LEMMA TypeConnect ==
  ASSUME TypeOK, Shape, NEW p \in Calls, ConnectStep(p), UNCHANGED <<setup, background, strays>>
  PROVE  (TypeOK /\ Shape)'
<1> DEFINE a == call[p].alias
<1>0. call[p] \in Call /\ ShapeOf(call[p])
  BY CallShape
<1>1. CASE ConnectEvict(p)
  <2> DEFINE step == IF UrlChanged(call[p]) THEN "dropContext" ELSE "register"
  <2>1. step \in Steps /\ ShapeOf([call[p] EXCEPT !.pc = step])
    BY <1>0, <1>1 DEF ConnectEvict, At, Call, ShapeOf, Steps, ConnectSteps, DisconnectSteps, SendSteps, Idle
  <2>2. Shape' /\ call' \in [Calls -> Call]
    BY <1>1, <2>1, ShapeGoto DEF ConnectEvict
  <2>3. clients' \in [Urls -> Client \cup {None}]
    BY <1>1 DEF ConnectEvict, Evict, TypeOK
  <2>4. QED
    BY <1>1, <2>2, <2>3 DEF ConnectEvict, TypeOK
<1>2. CASE ConnectDropContext(p)
  <2>1. ShapeOf([call[p] EXCEPT !.pc = "register"])
    BY <1>0, <1>2 DEF ConnectDropContext, At, Call, ShapeOf, Steps, ConnectSteps, DisconnectSteps, SendSteps, Idle
  <2>2. Shape' /\ call' \in [Calls -> Call]
    BY <1>2, <2>1, ShapeGoto DEF ConnectDropContext, Steps, ConnectSteps
  <2>3. context' \in [Aliases -> Urls \cup {None}]
    BY <1>2 DEF ConnectDropContext, TypeOK
  <2>4. QED
    BY <1>2, <2>2, <2>3 DEF ConnectDropContext, TypeOK
<1>3. CASE ConnectRegister(p)
  <2>1. ShapeOf([call[p] EXCEPT !.pc = "configureLimit"])
    BY <1>0, <1>3 DEF ConnectRegister, At, Call, ShapeOf, Steps, ConnectSteps, DisconnectSteps, SendSteps, Idle
  <2>2. Shape' /\ call' \in [Calls -> Call]
    BY <1>3, <2>1, ShapeGoto DEF ConnectRegister, Steps, ConnectSteps
  <2>3. call[p].url \in Urls /\ setup.headers \subseteq Headers
    BY <1>0, <1>3, SetupType DEF ConnectRegister, At, ShapeOf, ConnectSteps
  <2>4. PICK h \in Headers \cup {None} :
          registry' = [registry EXCEPT ![a] = [url |-> call[p].url, hdr |-> h, card |-> None]]
    BY <1>3, <2>3 DEF ConnectRegister
  <2>6. [url |-> call[p].url, hdr |-> h, card |-> None] \in RegisteredAgent
    BY <2>3 DEF RegisteredAgent
  <2>7. registry' \in [Aliases -> RegisteredAgent \cup {None}]
    BY <2>4, <2>6 DEF TypeOK
  <2>5. QED
    BY <1>3, <2>2, <2>7 DEF ConnectRegister, TypeOK
<1>4. CASE ConnectConfigureLimit(p)
  <2>1. ShapeOf([call[p] EXCEPT !.pc = "setCard"])
    BY <1>0, <1>4 DEF ConnectConfigureLimit, At, Call, ShapeOf, Steps, ConnectSteps, DisconnectSteps, SendSteps, Idle
  <2>2. Shape' /\ call' \in [Calls -> Call]
    BY <1>4, <2>1, ShapeGoto DEF ConnectConfigureLimit, Steps, ConnectSteps
  <2>3. a \in Aliases /\ setup.limits \subseteq Limits
    BY <1>0, <1>4, SetupType DEF ConnectConfigureLimit, At, ShapeOf, ConnectSteps
  <2>4. \A l \in LimitInputs : LimitFor(limiter[a], l) \in Limits \cup {None}
    BY <2>3 DEF LimitFor, LimitInputs, ToolDefault, TypeOK
  <2>5. limiter' \in [Aliases -> Limits \cup {None}]
    BY <1>4, <2>4 DEF ConnectConfigureLimit, TypeOK
  <2>6. QED
    BY <1>4, <2>2, <2>5 DEF ConnectConfigureLimit, TypeOK
<1>5. CASE ConnectSetCard(p)
  <2>1. ShapeOf([call[p] EXCEPT !.pc = "resetHealth"])
    BY <1>0, <1>5 DEF ConnectSetCard, At, Call, ShapeOf, Steps, ConnectSteps, DisconnectSteps, SendSteps, Idle
  <2>2. Shape' /\ call' \in [Calls -> Call]
    BY <1>5, <2>1, ShapeGoto DEF ConnectSetCard, Steps, ConnectSteps
  <2>3. a \in Aliases /\ call[p].url \in Urls
    BY <1>0, <1>5 DEF ConnectSetCard, At, ShapeOf, ConnectSteps
  <2>4. registry' \in [Aliases -> RegisteredAgent \cup {None}]
    BY <1>5, <2>3 DEF ConnectSetCard, TypeOK, RegisteredAgent
  <2>5. QED
    BY <1>5, <2>2, <2>4 DEF ConnectSetCard, TypeOK
<1>6. CASE ConnectResetHealth(p)
  <2>1. Shape' /\ call' \in [Calls -> Call]
    BY <1>6, ShapeReturn DEF ConnectResetHealth
  <2>2. a \in Aliases
    BY <1>0, <1>6 DEF ConnectResetHealth, At, ShapeOf, ConnectSteps
  <2>3. health' \in [Aliases -> HealthState \cup {None}]
    BY <1>6, <2>2, GatewayAssumption
       DEF ConnectResetHealth, ResetHealth, UnknownHealth, TypeOK, HealthState
  <2>4. QED
    BY <1>6, <2>1, <2>3 DEF ConnectResetHealth, TypeOK
<1>7. QED
  BY <1>1, <1>2, <1>3, <1>4, <1>5, <1>6 DEF ConnectStep

\* The critical sections of disconnect_agent.
LEMMA TypeDisconnect ==
  ASSUME TypeOK, Shape, NEW p \in Calls, DisconnectStep(p), UNCHANGED <<setup, background, strays>>
  PROVE  (TypeOK /\ Shape)'
<1> DEFINE a == call[p].alias
<1>0. call[p] \in Call /\ ShapeOf(call[p])
  BY CallShape
<1>1. CASE DisconnectEvict(p)
  <2>1. ShapeOf([call[p] EXCEPT !.pc = "dropLimiter"])
    BY <1>0, <1>1 DEF DisconnectEvict, At, Call, ShapeOf, Steps, ConnectSteps, DisconnectSteps, SendSteps, Idle
  <2>2. Shape' /\ call' \in [Calls -> Call]
    BY <1>1, <2>1, ShapeGoto DEF DisconnectEvict, Steps, DisconnectSteps
  <2>3. clients' \in [Urls -> Client \cup {None}]
    BY <1>1 DEF DisconnectEvict, Evict, TypeOK
  <2>4. QED
    BY <1>1, <2>2, <2>3 DEF DisconnectEvict, TypeOK
<1>2. CASE DisconnectDropLimiter(p)
  <2>1. ShapeOf([call[p] EXCEPT !.pc = "dropHealth"])
    BY <1>0, <1>2 DEF DisconnectDropLimiter, At, Call, ShapeOf, Steps, ConnectSteps, DisconnectSteps, SendSteps, Idle
  <2>2. Shape' /\ call' \in [Calls -> Call]
    BY <1>2, <2>1, ShapeGoto DEF DisconnectDropLimiter, Steps, DisconnectSteps
  <2>3. limiter' \in [Aliases -> Limits \cup {None}]
    BY <1>2 DEF DisconnectDropLimiter, TypeOK
  <2>4. QED
    BY <1>2, <2>2, <2>3 DEF DisconnectDropLimiter, TypeOK
<1>3. CASE DisconnectDropHealth(p)
  <2>1. ShapeOf([call[p] EXCEPT !.pc = "dropStoredContext"])
    BY <1>0, <1>3 DEF DisconnectDropHealth, At, Call, ShapeOf, Steps, ConnectSteps, DisconnectSteps, SendSteps, Idle
  <2>2. Shape' /\ call' \in [Calls -> Call]
    BY <1>3, <2>1, ShapeGoto DEF DisconnectDropHealth, Steps, DisconnectSteps
  <2>3. a \in Aliases
    BY <1>0, <1>3 DEF DisconnectDropHealth, At, ShapeOf, DisconnectSteps
  <2>4. health' \in [Aliases -> HealthState \cup {None}]
    BY <1>3, <2>3, GatewayAssumption
       DEF DisconnectDropHealth, ResetHealth, UnknownHealth, TypeOK, HealthState
  <2>5. QED
    BY <1>3, <2>2, <2>4 DEF DisconnectDropHealth, TypeOK
<1>4. CASE DisconnectDropContext(p)
  <2>1. ShapeOf([call[p] EXCEPT !.pc = "dropHistory"])
    BY <1>0, <1>4 DEF DisconnectDropContext, At, Call, ShapeOf, Steps, ConnectSteps, DisconnectSteps, SendSteps, Idle
  <2>2. Shape' /\ call' \in [Calls -> Call]
    BY <1>4, <2>1, ShapeGoto DEF DisconnectDropContext, Steps, DisconnectSteps
  <2>3. context' \in [Aliases -> Urls \cup {None}]
    BY <1>4 DEF DisconnectDropContext, TypeOK
  <2>4. QED
    BY <1>4, <2>2, <2>3 DEF DisconnectDropContext, TypeOK
<1>5. CASE DisconnectDropHistory(p)
  <2>1. Shape' /\ call' \in [Calls -> Call]
    BY <1>5, ShapeReturn DEF DisconnectDropHistory
  <2>2. history' \subseteq Urls \cup UNION {HistoryOf(b) : b \in Aliases}
    BY <1>0, <1>5 DEF DisconnectDropHistory, DeleteHistory, HistoryOf, At, ShapeOf, DisconnectSteps, TypeOK
  <2> QED
    BY <1>5, <2>1, <2>2 DEF DisconnectDropHistory, TypeOK
<1>6. QED
  BY <1>1, <1>2, <1>3, <1>4, <1>5 DEF DisconnectStep

\* Once the exchange with the agent is over a call keeps the shape of all.
LEMMA ShapeAnswered ==
  ASSUME TypeOK, Shape, NEW p \in Calls,
         NEW step \in {"recordSuccess", "recordFailure", "recordHistory", "setContext",
                       "streamSetContext", "streamRecordSuccess"},
         call[p].pc \in SendSteps \ {"recordHistory"}, call[p].op # "query",
         step = "recordSuccess" => call[p].pc = "invoke", Answered(p, step)
  PROVE  Shape' /\ call' \in [Calls -> Call]
<1>0. call[p] \in Call /\ ShapeOf(call[p])
  BY DEF TypeOK, Shape
<1> DEFINE d == [call[p] EXCEPT !.pc = step, !.ctx = None, !.client = None,
                                !.first = IF step = "recordSuccess" THEN @ ELSE None]
<1>1. call' = [call EXCEPT ![p] = d]
  BY <1>0 DEF Answered, TypeOK, Call
<1>2. d \in Call
  <2> DEFINE f == IF step = "recordSuccess" THEN call[p].first ELSE None
  <2>1. f \in Client \cup {None}
    BY <1>0 DEF Call
  <2>2. d = [call[p] EXCEPT !.pc = step, !.ctx = None, !.client = None, !.first = f]
    BY <1>0 DEF Call
  <2> HIDE DEF d, f
  <2> QED
    BY <1>0, <2>1, <2>2 DEF Call, SendSteps, ContextIds
<1>3. ShapeOf(d)
  BY <1>0 DEF ShapeOf, Call, ConnectSteps, DisconnectSteps, SendSteps, Idle
<1> QED
  BY <1>1, <1>2, <1>3, ShapeStep

\* The steps of a request that move the call and touch no store.
LEMMA ShapeRequest ==
  ASSUME TypeOK, Shape, NEW p \in Calls,
         \/ CheckHealth(p) \/ CheckLimit(p) \/ GetContext(p) \/ Route(p) \/ InvokeSucceeds(p)
         \/ InvokeUnauthorized(p) \/ InvokeFails(p) \/ Poll(p) \/ Stream(p) \/ ResolveFails(p)
  PROVE  Shape' /\ call' \in [Calls -> Call]
<1>0. call[p] \in Call /\ ShapeOf(call[p])
  BY CallShape
<1>1. CASE CheckLimit(p)
  <2>1. CASE Return(p)
    BY <2>1, ShapeReturn
  <2>2. ASSUME NEW step \in {"getContext", "resolve", "recordHistory"}, Goto(p, step),
               step = "getContext" => call[p].op = "send"
        PROVE  Shape' /\ call' \in [Calls -> Call]
    <3>1. ShapeOf([call[p] EXCEPT !.pc = step])
      BY <1>0, <1>1, <2>2 DEF CheckLimit, At, Call, ShapeOf, Steps, ConnectSteps, DisconnectSteps, SendSteps, Idle
    <3>2. QED
      BY <2>2, <3>1, ShapeGoto DEF Steps, SendSteps
  <2>3. call[p].op \in {"send", "broadcast"}
    BY <1>0, <1>1 DEF CheckLimit, At, ShapeOf, SendSteps
  <2>4. QED
    BY <1>1, <2>1, <2>2, <2>3 DEF CheckLimit
<1>2. CASE GetContext(p)
  <2>1. call[p].alias \in Aliases \cup {None}
    BY <1>0 DEF Call
  <2>2. PICK c \in ContextIds : call' = [call EXCEPT ![p].ctx = c, ![p].pc = "resolve"]
    BY <1>2, <2>1 DEF GetContext, ContextIds, TypeOK
  <2> DEFINE d == [call[p] EXCEPT !.ctx = c, !.pc = "resolve"]
  <2>3. d \in Call
    BY <1>0 DEF Call, SendSteps
  <2>4. ShapeOf(d)
    BY <1>0, <1>2 DEF GetContext, At, Call, ShapeOf, Steps, ConnectSteps, DisconnectSteps, SendSteps, Idle
  <2>5. call' = [call EXCEPT ![p] = d]
    BY <1>0, <2>2 DEF TypeOK, Call
  <2>6. QED
    BY <2>3, <2>4, <2>5, ShapeStep
<1>3. CASE Route(p)
  <2>1. PICK step \in {"stream", "resolveDirect", "invoke", "recordHistory"} :
          Goto(p, step) /\ (step \in {"stream", "resolveDirect"} <=> call[p].op # "broadcast")
    BY <1>3 DEF Route
  <2>2. ShapeOf([call[p] EXCEPT !.pc = step])
    BY <1>0, <1>3, <2>1 DEF Route, At, Call, ShapeOf, Steps, ConnectSteps, DisconnectSteps, SendSteps, Idle
  <2>3. QED
    BY <2>1, <2>2, ShapeGoto DEF Steps, SendSteps
<1>4. CASE InvokeSucceeds(p) \/ InvokeFails(p)
  <2>1. CASE call[p].op = "query"
    BY <1>4, <2>1, ShapeReturn DEF InvokeSucceeds, InvokeFails
  <2>2. CASE call[p].op # "query"
    <3>1. PICK step \in {"recordSuccess", "recordFailure", "recordHistory"} : Answered(p, step)
      BY <1>4, <2>2 DEF InvokeSucceeds, InvokeFails
    <3>2. call[p].pc = "invoke"
      BY <1>4 DEF InvokeSucceeds, InvokeFails, At
    <3> QED
      BY <2>2, <3>1, <3>2, ShapeAnswered DEF SendSteps
  <2> QED
    BY <2>1, <2>2
<1>5. CASE InvokeUnauthorized(p)
  <2>1. ShapeOf([call[p] EXCEPT !.pc = "evictAuth"])
    BY <1>0, <1>5 DEF InvokeUnauthorized, At, Call, ShapeOf, Steps, ConnectSteps, DisconnectSteps, SendSteps, Idle
  <2>2. QED
    BY <1>5, <2>1, ShapeGoto DEF InvokeUnauthorized, Steps, SendSteps
<1>6. CASE Poll(p)
  <2>1. PICK step \in {"setContext", "recordHistory"} : Answered(p, step)
    BY <1>6 DEF Poll
  <2>2. call[p].pc = "poll" /\ call[p].op = "send"
    BY <1>0, <1>6 DEF Poll, At, ShapeOf
  <2> QED
    BY <2>1, <2>2, ShapeAnswered DEF SendSteps
<1>7. CASE Stream(p)
  <2>1. PICK step \in {"streamSetContext", "streamRecordSuccess"} : Answered(p, step)
    BY <1>7 DEF Stream
  <2>2. call[p].pc = "stream" /\ call[p].op = "send"
    BY <1>0, <1>7 DEF Stream, At, ShapeOf
  <2> QED
    BY <2>1, <2>2, ShapeAnswered DEF SendSteps
<1>8. CASE ResolveFails(p)
  <2>1. CASE Return(p)
    BY <2>1, ShapeReturn
  <2>2. CASE ~Return(p)
    <3>1. PICK step \in {"recordFailure", "recordHistory"} : Goto(p, step) /\ call[p].op # "query"
      BY <1>8, <2>2 DEF ResolveFails, At
    <3>2. ShapeOf([call[p] EXCEPT !.pc = step])
      BY <1>0, <1>8, <3>1 DEF ResolveFails, Call, ShapeOf, Steps, ConnectSteps, DisconnectSteps, SendSteps, Idle
    <3>3. QED
      BY <3>1, <3>2, ShapeGoto DEF Steps, SendSteps
  <2>3. QED
    BY <2>1, <2>2
<1>9. CASE CheckHealth(p)
  <2>1. PICK step \in {"recordHistory", "checkLimit"} : Goto(p, step)
    BY <1>9 DEF CheckHealth
  <2>2. ShapeOf([call[p] EXCEPT !.pc = step])
    BY <1>0, <1>9 DEF CheckHealth, At, Call, ShapeOf, Steps, ConnectSteps, DisconnectSteps, SendSteps, Idle
  <2>3. QED
    BY <2>1, <2>2, ShapeGoto DEF Steps, SendSteps
<1> QED
  BY <1>1, <1>2, <1>3, <1>4, <1>5, <1>6, <1>7, <1>8, <1>9

\* The critical sections of a send, a query or the goroutine of a broadcast.
LEMMA TypeRequest ==
  ASSUME TypeOK, Shape, NEW p \in Calls, RequestStep(p), UNCHANGED <<setup, background, strays>>
  PROVE  (TypeOK /\ Shape)'
<1>0. call[p] \in Call /\ ShapeOf(call[p])
  BY CallShape
<1>1. CASE \/ CheckHealth(p) \/ CheckLimit(p) \/ GetContext(p) \/ Route(p) \/ InvokeSucceeds(p)
           \/ InvokeUnauthorized(p) \/ InvokeFails(p) \/ Poll(p) \/ Stream(p) \/ ResolveFails(p)
  <2>1. UNCHANGED stores
    BY <1>1 DEF CheckHealth, CheckLimit, GetContext, Route, InvokeSucceeds, InvokeUnauthorized, InvokeFails,
                Poll, Stream, ResolveFails
  <2>2. QED
    BY <1>1, <2>1, ShapeRequest DEF TypeOK, stores
<1>2. CASE ResolveForSend(p)
  <2>1. call[p].op \in {"send", "broadcast"}
    BY <1>0, <1>2 DEF ResolveForSend, At, ShapeOf, SendSteps
  <2>2. Shape' /\ call' \in [Calls -> Call] /\ clients' \in [Urls -> Client \cup {None}]
    BY <1>2, <2>1, ShapeResolve DEF ResolveForSend, At
  <2>3. QED
    BY <1>2, <2>2 DEF ResolveForSend, TypeOK
<1>3. CASE ResolveDirect(p)
  <2>1. Shape' /\ call' \in [Calls -> Call] /\ clients' \in [Urls -> Client \cup {None}]
    BY <1>3, ShapeResolve DEF ResolveDirect, At
  <2>2. QED
    BY <1>3, <2>1 DEF ResolveDirect, TypeOK
<1>4. CASE EvictAuth(p)
  <2> DEFINE d == [call[p] EXCEPT !.retried = TRUE, !.pc = "resolveDirect"]
  <2>1. d \in Call
    BY <1>0 DEF Call, SendSteps
  <2>2. ShapeOf(d)
    BY <1>0, <1>4 DEF EvictAuth, At, Call, ShapeOf, Steps, ConnectSteps, DisconnectSteps, SendSteps, Idle
  <2>3. call' = [call EXCEPT ![p] = d]
    BY <1>0, <1>4 DEF EvictAuth, TypeOK, Call
  <2>4. clients' \in [Urls -> Client \cup {None}]
    BY <1>4 DEF EvictAuth, Evict, TypeOK
  <2>5. Shape' /\ call' \in [Calls -> Call]
    BY <2>1, <2>2, <2>3, ShapeStep
  <2>6. QED
    BY <1>4, <2>4, <2>5 DEF EvictAuth, TypeOK
<1>5. CASE DirectRecordSuccess(p)
  <2>0. PICK step \in {"recordHistory", "setContext", "poll"} :
          Goto(p, step) /\ (step # "recordHistory" => call[p].op # "broadcast")
    BY <1>5 DEF DirectRecordSuccess
  <2>1. step \in Steps /\ ShapeOf([call[p] EXCEPT !.pc = step])
    BY <1>0, <1>5, <2>0 DEF DirectRecordSuccess, At, Call, ShapeOf, Steps, ConnectSteps, DisconnectSteps, SendSteps, Idle
  <2>2. Shape' /\ call' \in [Calls -> Call]
    BY <2>0, <2>1, ShapeGoto
  <2>3. call[p].url \in Urls /\ call[p].alias \in Aliases \cup {None}
    BY <1>0, <1>5 DEF DirectRecordSuccess, At, ShapeOf, SendSteps, Call
  <2>4. health' \in [Aliases -> HealthState \cup {None}]
    BY <1>5, <2>3, StoreTypes DEF DirectRecordSuccess
  <2>5. QED
    BY <1>5, <2>2, <2>4 DEF DirectRecordSuccess, TypeOK
<1>6. CASE DirectRecordFailure(p)
  <2>1. ShapeOf([call[p] EXCEPT !.pc = "recordHistory"])
    BY <1>0, <1>6 DEF DirectRecordFailure, At, Call, ShapeOf, Steps, ConnectSteps, DisconnectSteps, SendSteps, Idle
  <2>2. Shape' /\ call' \in [Calls -> Call]
    BY <1>6, <2>1, ShapeGoto DEF DirectRecordFailure, Steps, SendSteps
  <2>3. call[p].url \in Urls /\ call[p].alias \in Aliases \cup {None}
    BY <1>0, <1>6 DEF DirectRecordFailure, At, ShapeOf, SendSteps, Call
  <2>4. health' \in [Aliases -> HealthState \cup {None}]
    BY <1>6, <2>3, StoreTypes DEF DirectRecordFailure
  <2>5. QED
    BY <1>6, <2>2, <2>4 DEF DirectRecordFailure, TypeOK
<1>7. CASE DirectSetContext(p)
  <2>1. ShapeOf([call[p] EXCEPT !.pc = "recordHistory"])
    BY <1>0, <1>7 DEF DirectSetContext, SetContext, At, Call, ShapeOf, Steps, ConnectSteps, DisconnectSteps, SendSteps, Idle
  <2>2. Shape' /\ call' \in [Calls -> Call]
    BY <1>7, <2>1, ShapeGoto DEF DirectSetContext, SetContext, Steps, SendSteps
  <2>3. call[p].url \in Urls /\ call[p].alias \in Aliases \cup {None}
    BY <1>0, <1>7 DEF DirectSetContext, SetContext, At, ShapeOf, SendSteps, Call
  <2>4. context' \in [Aliases -> Urls \cup {None}]
    BY <1>7, <2>3, StoreTypes DEF DirectSetContext, SetContext
  <2>5. QED
    BY <1>7, <2>2, <2>4 DEF DirectSetContext, SetContext, TypeOK
<1>8. CASE StreamSetContext(p)
  <2>1. ShapeOf([call[p] EXCEPT !.pc = "streamRecordSuccess"])
    BY <1>0, <1>8 DEF StreamSetContext, SetContext, At, Call, ShapeOf, Steps, ConnectSteps, DisconnectSteps, SendSteps, Idle
  <2>2. Shape' /\ call' \in [Calls -> Call]
    BY <1>8, <2>1, ShapeGoto DEF StreamSetContext, SetContext, Steps, SendSteps
  <2>3. call[p].url \in Urls /\ call[p].alias \in Aliases \cup {None}
    BY <1>0, <1>8 DEF StreamSetContext, SetContext, At, ShapeOf, SendSteps, Call
  <2>4. context' \in [Aliases -> Urls \cup {None}]
    BY <1>8, <2>3, StoreTypes DEF StreamSetContext, SetContext
  <2>5. QED
    BY <1>8, <2>2, <2>4 DEF StreamSetContext, SetContext, TypeOK
<1>9. CASE StreamRecordSuccess(p)
  <2>1. ShapeOf([call[p] EXCEPT !.pc = "recordHistory"])
    BY <1>0, <1>9 DEF StreamRecordSuccess, At, Call, ShapeOf, Steps, ConnectSteps, DisconnectSteps, SendSteps, Idle
  <2>2. Shape' /\ call' \in [Calls -> Call]
    BY <1>9, <2>1, ShapeGoto DEF StreamRecordSuccess, Steps, SendSteps
  <2>3. call[p].url \in Urls /\ call[p].alias \in Aliases \cup {None}
    BY <1>0, <1>9 DEF StreamRecordSuccess, At, ShapeOf, SendSteps, Call
  <2>4. health' \in [Aliases -> HealthState \cup {None}]
    BY <1>9, <2>3, StoreTypes DEF StreamRecordSuccess
  <2>5. QED
    BY <1>9, <2>2, <2>4 DEF StreamRecordSuccess, TypeOK
<1>10. CASE RecordHistory(p)
  <2>1. Shape' /\ call' \in [Calls -> Call]
    BY <1>10, ShapeReturn DEF RecordHistory
  <2>2. /\ call[p].alias \in Aliases \cup {None} /\ call[p].url \in Urls \cup {None}
        /\ call[p].url \in Urls \/ call[p].alias \in Aliases
    BY <1>0, <1>10 DEF RecordHistory, At, ShapeOf, Call
  <2>3. history' \subseteq Urls \cup UNION {HistoryOf(a) : a \in Aliases}
    BY <1>10, <2>2, GatewayAssumption DEF RecordHistory, HistoryOf, TypeOK
  <2>4. QED
    BY <1>10, <2>1, <2>3 DEF RecordHistory, TypeOK
<1>11. QED
  BY <1>1, <1>2, <1>3, <1>4, <1>5, <1>6, <1>7, <1>8, <1>9, <1>10 DEF RequestStep

\* The critical section of ping_agent.
LEMMA TypePing ==
  ASSUME TypeOK, Shape, NEW p \in Calls, PingUpdateHealth(p), UNCHANGED <<setup, background, strays>>
  PROVE  (TypeOK /\ Shape)'
<1>1. Shape' /\ call' \in [Calls -> Call]
  BY ShapeReturn DEF PingUpdateHealth
<1>2. call[p].url \in Urls /\ call[p].alias \in Aliases
  BY CallShape DEF PingUpdateHealth, At, ShapeOf
<1>3. health' \in [Aliases -> HealthState \cup {None}]
  BY <1>2, StoreTypes DEF PingUpdateHealth, TypeOK
<1>4. QED
  BY <1>1, <1>3 DEF PingUpdateHealth, TypeOK

\* An asynchronous send returns, and its goroutine keeps what it needs.
LEMMA TypeAsync ==
  ASSUME TypeOK, Shape, NEW p \in Calls, SendAsync(p), UNCHANGED <<setup, strays>>
  PROVE  (TypeOK /\ Shape)'
<1>1. Shape' /\ call' \in [Calls -> Call]
  BY ShapeReturn DEF SendAsync
<1>2. call[p] \in Call /\ call[p].url \in Urls /\ call[p].client \in Client
  BY CallShape DEF SendAsync, At, ShapeOf, SendSteps
<1>3. background' \subseteq Background
  BY <1>2 DEF SendAsync, Background, Call, TypeOK
<1> QED
  BY <1>1, <1>3 DEF SendAsync, TypeOK, stores

LEMMA StepTypes ==
  ASSUME TypeOK, Shape, [Next]_vars
  PROVE  (TypeOK /\ Shape)'
<1>1. CASE \E p \in Calls : Start(p)
  BY <1>1, TypeStart
<1>2. CASE \E p \in Calls : Continue(p)
  <2>1. ASSUME NEW p \in Calls, Step(p), UNCHANGED <<setup, background, strays>>
        PROVE  (TypeOK /\ Shape)'
    BY <2>1, TypeConnect, TypeDisconnect, TypeRequest, TypePing DEF Step
  <2> QED
    BY <1>2, <2>1, TypeAsync DEF Continue
<1>3. CASE \E a \in Aliases : ClearHistory(a)
  BY <1>3 DEF ClearHistory, TypeOK, Shape
<1>4. CASE \E b \in background : BackgroundEnds(b)
  BY <1>4 DEF BackgroundEnds, stores, TypeOK, Shape
<1>5. CASE UNCHANGED vars
  BY <1>5 DEF vars, TypeOK, Shape
<1> QED
  BY <1>1, <1>2, <1>3, <1>4, <1>5 DEF Next

\* Every store and every call has its type, and every call the shape of its step.
THEOREM TypeCorrect == Spec => [](TypeOK /\ Shape)
<1>1. Init => TypeOK /\ Shape
  BY IdleType, ShapeIdle DEF Init, TypeOK, Shape
<1>2. TypeOK /\ Shape /\ [Next]_vars => (TypeOK /\ Shape)'
  BY StepTypes
<1>3. QED
  BY <1>1, <1>2, PTL DEF Spec

-----------------------------------------------------------------------------
(* Health tracking is never lost.                                          *)

\* A connect of a that has registered it and not yet reset its health.
Registering(p, a) ==
  call[p].alias = a /\ call[p].pc \in {"configureLimit", "setCard", "resetHealth"}

\* The strengthening: an untracked registered agent has such a connect under way.
UntrackedIsRegistering ==
  setup.tracking =>
    \A a \in Aliases :
      registry[a] # None /\ health[a] = None => \E p \in Calls : Registering(p, a)

\* What a step does to the tracker is to reset an alias or to record an outcome.
LEMMA HealthSteps ==
  ASSUME NEW p \in Calls, Start(p) \/ Continue(p)
  PROVE  \/ UNCHANGED health
         \/ ResetHealth(call[p].alias) /\ call[p].pc \in {"resetHealth", "dropHealth"}
         \/ RecordSuccess(call[p].alias, call[p].url) \/ RecordFailure(call[p].alias, call[p].url)
  BY DEF Start, StartConnect, StartDisconnect, StartRequest, StartBroadcast, StartPing, stores, Continue, Step,
         ConnectStep, ConnectEvict, ConnectDropContext, ConnectRegister, ConnectConfigureLimit,
         ConnectSetCard, ConnectResetHealth, DisconnectStep, DisconnectEvict,
         DisconnectDropLimiter, DisconnectDropHealth, DisconnectDropContext,
         DisconnectDropHistory, RequestStep, CheckHealth, CheckLimit, GetContext, ResolveForSend, Route,
         SendAsync, ResolveDirect, ResolveFails, InvokeSucceeds, InvokeUnauthorized, InvokeFails, EvictAuth,
         DirectRecordSuccess, DirectRecordFailure, Poll, DirectSetContext, Stream, StreamSetContext, SetContext,
         StreamRecordSuccess, RecordHistory, PingUpdateHealth, At

\* A tracker entry, once made, is never removed: disconnect_agent resets it.
LEMMA TrackerKept ==
  ASSUME TypeOK, NEW p \in Calls, Start(p) \/ Continue(p),
         NEW a \in Aliases, health[a] # None
  PROVE  health'[a] # None
<1>1. UnknownHealth # None
  BY NoneAssumption, GatewayAssumption DEF UnknownHealth, HealthState
<1>2. CASE UNCHANGED health
  BY <1>2
<1>3. CASE ResetHealth(call[p].alias)
  BY <1>1, <1>3 DEF ResetHealth, TypeOK
<1>4. CASE RecordSuccess(call[p].alias, call[p].url) \/ RecordFailure(call[p].alias, call[p].url)
  <2>1. CASE call[p].alias # a
    BY <1>4, <2>1 DEF RecordSuccess, RecordFailure, TypeOK
  <2>2. CASE call[p].alias = a
    <3> DEFINE n == IF health[a].failures < Threshold THEN health[a].failures + 1 ELSE Threshold
               u == call[p].url
               success == [failures |-> 0, status |-> "healthy", agent |-> u]
               failure == [failures |-> n, agent |-> u,
                           status |-> IF n = Threshold THEN "unhealthy" ELSE health[a].status]
    <3>1. a # None /\ health[a] \in HealthState
      BY GatewayAssumption DEF TypeOK
    <3>2. n \in 0..Threshold /\ Threshold \in Nat /\ u \in Urls \cup {None}
      BY <3>1, GatewayAssumption DEF HealthState, TypeOK, Call
    <3>3. success # None /\ failure # None
      <4> HIDE DEF n, u
      <4>1. success \in HealthState
        BY <3>2 DEF HealthState
      <4>2. failure \in HealthState
        BY <3>1, <3>2 DEF HealthState
      <4>3. QED
        BY <4>1, <4>2, NoneAssumption
    <3>4. \/ UNCHANGED health
          \/ health' = [health EXCEPT ![a] = success]
          \/ health' = [health EXCEPT ![a] = failure]
      BY <1>4, <2>2, <3>1 DEF RecordSuccess, RecordFailure
    <3>5. QED
      BY <3>3, <3>4 DEF TypeOK
  <2>3. QED
    BY <2>1, <2>2
<1>5. QED
  BY <1>2, <1>3, <1>4, HealthSteps

\* How a call goes on: to another step, with what it carries as it is or with
\* a client, a context or the retry noted.
Moved(p, step) ==
  /\ call'[p].pc = step
  /\ call'[p].op = call[p].op /\ call'[p].alias = call[p].alias /\ call'[p].url = call[p].url
  /\ call'[p].hdr = call[p].hdr /\ call'[p].old = call[p].old /\ call'[p].changed = call[p].changed
  /\ \A q \in Calls \ {p} : call'[q] = call[q]

LEMMA Moves ==
  ASSUME TypeOK, NEW p \in Calls
  PROVE  /\ \A step : Goto(p, step) =>
              /\ Moved(p, step)
              /\ call'[p].client = call[p].client /\ call'[p].first = call[p].first
              /\ call'[p].ctx = call[p].ctx /\ call'[p].retried = call[p].retried
         /\ \A step : Answered(p, step) =>
              /\ Moved(p, step) /\ call'[p].retried = call[p].retried
              /\ call'[p].client = None /\ call'[p].ctx = None
              /\ call'[p].first = IF step = "recordSuccess" THEN call[p].first ELSE None
         /\ \A step : Resolve(p, step) =>
              Moved(p, step) /\ call'[p].ctx = call[p].ctx /\ call'[p].retried = call[p].retried
         /\ GetContext(p) => Moved(p, "resolve") /\ call'[p].retried = call[p].retried
         /\ EvictAuth(p) =>
              /\ Moved(p, "resolveDirect") /\ call'[p].retried
              /\ call'[p].client = call[p].client /\ call'[p].first = call[p].first /\ call'[p].ctx = call[p].ctx
         /\ Return(p) => call'[p] = Idle /\ \A q \in Calls \ {p} : call'[q] = call[q]
<1>1. call \in [Calls -> Call] /\ call[p] \in Call
  BY DEF TypeOK
<1>2. ASSUME NEW step, Goto(p, step)
      PROVE  /\ Moved(p, step)
             /\ call'[p].client = call[p].client /\ call'[p].first = call[p].first
             /\ call'[p].ctx = call[p].ctx /\ call'[p].retried = call[p].retried
  BY <1>1, <1>2 DEF Goto, Moved, Call
<1>3. ASSUME NEW step, Answered(p, step)
      PROVE  /\ Moved(p, step) /\ call'[p].retried = call[p].retried
             /\ call'[p].client = None /\ call'[p].ctx = None
             /\ call'[p].first = IF step = "recordSuccess" THEN call[p].first ELSE None
  BY <1>1, <1>3 DEF Answered, Moved, Call
<1>4. ASSUME NEW step, Resolve(p, step)
      PROVE  Moved(p, step) /\ call'[p].ctx = call[p].ctx /\ call'[p].retried = call[p].retried
  BY <1>1, <1>4 DEF Resolve, Moved, Call
<1>5. ASSUME GetContext(p)
      PROVE  Moved(p, "resolve") /\ call'[p].retried = call[p].retried
  BY <1>1, <1>5 DEF GetContext, Moved, Call
<1>6. ASSUME EvictAuth(p)
      PROVE  /\ Moved(p, "resolveDirect") /\ call'[p].retried
             /\ call'[p].client = call[p].client /\ call'[p].first = call[p].first /\ call'[p].ctx = call[p].ctx
  BY <1>1, <1>6 DEF EvictAuth, Moved, Call
<1>7. ASSUME Return(p)
      PROVE  call'[p] = Idle /\ \A q \in Calls \ {p} : call'[q] = call[q]
  BY <1>1, <1>7 DEF Return
<1> QED
  BY <1>2, <1>3, <1>4, <1>5, <1>6, <1>7

\* What a connect or a disconnect has before it.
LEMMA ChangeMoves ==
  ASSUME TypeOK, Shape, NEW p \in Calls, Continue(p)
  PROVE  /\ call[p].pc = "evictOld" => ConnectEvict(p)
         /\ call[p].pc = "dropContext" => ConnectDropContext(p)
         /\ call[p].pc = "register" => ConnectRegister(p)
         /\ call[p].pc = "configureLimit" => ConnectConfigureLimit(p)
         /\ call[p].pc = "setCard" => ConnectSetCard(p)
         /\ call[p].pc = "resetHealth" => ConnectResetHealth(p)
         /\ call[p].pc = "evictRemoved" => DisconnectEvict(p)
         /\ call[p].pc = "dropLimiter" => DisconnectDropLimiter(p)
         /\ call[p].pc = "dropHealth" => DisconnectDropHealth(p)
         /\ call[p].pc = "dropStoredContext" => DisconnectDropContext(p)
         /\ call[p].pc = "dropHistory" => DisconnectDropHistory(p)
<1>1. RequestStep(p) \/ SendAsync(p) => call[p].pc \in SendSteps
  BY DEF RequestStep, CheckHealth, CheckLimit, GetContext, ResolveForSend, Route, SendAsync, ResolveDirect,
      ResolveFails, InvokeSucceeds, InvokeUnauthorized, InvokeFails, EvictAuth, DirectRecordSuccess,
      DirectRecordFailure, Poll, DirectSetContext, Stream, StreamSetContext, StreamRecordSuccess,
      RecordHistory, At, SendSteps
<1>2. PingUpdateHealth(p) => call[p].pc = "ping"
  BY DEF PingUpdateHealth, At
<1>3. CASE ConnectStep(p) \/ DisconnectStep(p)
  BY <1>3 DEF ConnectStep, ConnectEvict, ConnectDropContext, ConnectRegister,
      ConnectConfigureLimit, ConnectSetCard, ConnectResetHealth,
      DisconnectStep, DisconnectEvict, DisconnectDropLimiter, DisconnectDropHealth,
      DisconnectDropContext, DisconnectDropHistory, At
<1> QED
  BY <1>1, <1>2, <1>3 DEF Continue, Step, SendSteps

\* A step of one call leaves the others where they are.
LEMMA OthersWait ==
  ASSUME TypeOK, NEW p \in Calls, Continue(p), NEW q \in Calls, q # p
  PROVE  call'[q] = call[q]
BY Moves DEF Moved, Continue, Step,
      ConnectStep, ConnectEvict, ConnectDropContext, ConnectRegister, ConnectConfigureLimit,
      ConnectSetCard, ConnectResetHealth, DisconnectStep, DisconnectEvict,
      DisconnectDropLimiter, DisconnectDropHealth, DisconnectDropContext,
      DisconnectDropHistory, RequestStep, CheckHealth, CheckLimit, ResolveForSend, Route,
      SendAsync, ResolveDirect, ResolveFails, InvokeSucceeds, InvokeUnauthorized, InvokeFails,
      DirectRecordSuccess, DirectRecordFailure, Poll, DirectSetContext, Stream, StreamSetContext, SetContext,
      StreamRecordSuccess, RecordHistory, PingUpdateHealth

\* A connect under way goes on to reset the health of its alias.
LEMMA RegisteringEnds ==
  ASSUME TypeOK, Shape, NEW p \in Calls, Start(p) \/ Continue(p),
         NEW q \in Calls, NEW a \in Aliases, Registering(q, a)
  PROVE  Registering(q, a)' \/ (p = q /\ ResetHealth(a))
<1>1. CASE Start(p)
  <2>1. p # q /\ Alike(call[q], call'[q])
    BY <1>1, TypeStart DEF Registering
  <2> QED
    BY <2>1 DEF Registering, Alike
<1>2. CASE Continue(p) /\ p # q
  <2>1. call'[q] = call[q]
    BY <1>2, OthersWait
  <2> QED
    BY <2>1 DEF Registering
<1>3. CASE Continue(p) /\ p = q
  <2>1. call[p].pc \in {"configureLimit", "setCard", "resetHealth"} /\ call[p].alias = a
    BY <1>3 DEF Registering
  <2>2. CASE ConnectResetHealth(p)
    BY <1>3, <2>1, <2>2 DEF ConnectResetHealth
  <2>3. CASE ConnectConfigureLimit(p) \/ ConnectSetCard(p)
    <3>1. PICK step \in {"setCard", "resetHealth"} : Moved(p, step)
      BY <2>3, Moves DEF ConnectConfigureLimit, ConnectSetCard
    <3> QED
      BY <1>3, <2>1, <3>1 DEF Registering, Moved
  <2> QED
    BY <1>3, <2>1, <2>2, <2>3, ChangeMoves
<1> QED
  BY <1>1, <1>2, <1>3

\* What a step does to the registry.
LEMMA RegistrySteps ==
  ASSUME NEW p \in Calls
  PROVE  /\ Start(p) => UNCHANGED registry \/ StartDisconnect(p)
         /\ Continue(p) => UNCHANGED registry \/ ConnectRegister(p) \/ ConnectSetCard(p)
<1>1. Start(p) => UNCHANGED registry \/ StartDisconnect(p)
  BY DEF Start, StartConnect, StartRequest, StartBroadcast, StartPing, stores
<1>2. Continue(p) => UNCHANGED registry \/ ConnectRegister(p) \/ ConnectSetCard(p)
  BY DEF Continue, Step, stores, ConnectStep, ConnectEvict, ConnectDropContext, ConnectConfigureLimit,
         ConnectResetHealth, DisconnectStep, DisconnectEvict,
         DisconnectDropLimiter, DisconnectDropHealth, DisconnectDropContext,
         DisconnectDropHistory, RequestStep, CheckHealth, CheckLimit, GetContext, ResolveForSend, Route,
         SendAsync, ResolveDirect, ResolveFails, InvokeSucceeds, InvokeUnauthorized, InvokeFails, EvictAuth,
         DirectRecordSuccess, DirectRecordFailure, Poll, DirectSetContext, Stream, StreamSetContext, SetContext,
         StreamRecordSuccess, RecordHistory, PingUpdateHealth
<1> QED
  BY <1>1, <1>2

\* Only a connect that becomes Registering puts an alias into the registry.
LEMMA EntryIsRegistering ==
  ASSUME TypeOK, Shape, NEW p \in Calls, Start(p) \/ Continue(p),
         NEW a \in Aliases, registry[a] = None, registry'[a] # None
  PROVE  Registering(p, a)'
<1>1. ConnectRegister(p)
  BY RegistrySteps DEF TypeOK, StartDisconnect, ConnectSetCard
<1>2. call[p].alias = a
  BY <1>1 DEF ConnectRegister, TypeOK
<1>3. call'[p].pc = "configureLimit" /\ call'[p].alias = a
  BY <1>1, <1>2, Moves DEF ConnectRegister, Moved
<1>4. QED
  BY <1>3 DEF Registering

\* Every step keeps it that an alias without a tracker entry is still being connected.
LEMMA UntrackedStep ==
  ASSUME TypeOK, Shape, UntrackedIsRegistering, [Next]_vars
  PROVE  UntrackedIsRegistering'
<1>0. setup' = setup
  BY DEF Next, Start, Continue, BackgroundEnds, ClearHistory, vars
<1> SUFFICES ASSUME setup.tracking, NEW a \in Aliases, registry'[a] # None, health'[a] = None
             PROVE  \E q \in Calls : Registering(q, a)'
  BY <1>0 DEF UntrackedIsRegistering
<1>1. ASSUME NEW p \in Calls, Start(p) \/ Continue(p)
      PROVE  \E q \in Calls : Registering(q, a)'
  <2>1. health[a] = None
    BY <1>1, TrackerKept
  <2>2. CASE registry[a] = None
    BY <1>1, <2>2, EntryIsRegistering
  <2>3. CASE registry[a] # None
    <3>1. PICK q \in Calls : Registering(q, a)
      BY <2>1, <2>3 DEF UntrackedIsRegistering
    <3>2. ~ResetHealth(a)
      <4>1. ResetHealth(a) => health'[a] = UnknownHealth
        BY DEF ResetHealth, TypeOK
      <4>2. UnknownHealth # None
        BY NoneAssumption, GatewayAssumption DEF UnknownHealth, HealthState
      <4>3. QED
        BY <4>1, <4>2
    <3>3. QED
      BY <1>1, <3>1, <3>2, RegisteringEnds
  <2>4. QED
    BY <2>2, <2>3
<1>2. CASE UNCHANGED <<registry, health, call>>
  BY <1>2 DEF UntrackedIsRegistering, Registering
<1>4. QED
  BY <1>1, <1>2 DEF Next, ClearHistory, BackgroundEnds, stores, vars

\* Whatever calls overlap, a registered agent is tracked once its connect has
\* returned, so that failures recorded for it count.
THEOREM HealthIsTracked == Spec => []TrackedWhileRegistered
<1>1. Init => UntrackedIsRegistering
  BY DEF Init, UntrackedIsRegistering
<1>2. TypeOK /\ Shape /\ UntrackedIsRegistering => TrackedWhileRegistered
  BY DEF Shape, ShapeOf, UntrackedIsRegistering, Registering, TrackedWhileRegistered,
         Connecting, Active, ConnectSteps
<1>3. QED
  BY <1>1, <1>2, TypeCorrect, UntrackedStep, PTL DEF Spec

-----------------------------------------------------------------------------
(* A call only goes on.                                                    *)

LEMMA StepsLeftAt ==
  ASSUME NEW c
  PROVE  /\ c.pc = "idle" => StepsLeft(c) = 0
         /\ c.pc \in {"resetHealth", "dropHistory", "recordHistory", "ping"} => StepsLeft(c) = 1
         /\ c.pc \in {"setCard", "dropStoredContext", "setContext", "recordFailure",
                      "streamRecordSuccess"} => StepsLeft(c) = 2
         /\ c.pc \in {"configureLimit", "dropHealth", "poll", "streamSetContext"} => StepsLeft(c) = 3
         /\ c.pc \in {"register", "dropLimiter", "recordSuccess", "stream"} => StepsLeft(c) = 4
         /\ c.pc \in {"dropContext", "evictRemoved"} => StepsLeft(c) = 5
         /\ c.pc = "evictOld" => StepsLeft(c) = 6
         /\ c.pc = "evictAuth" => StepsLeft(c) = 7
         /\ c.pc = "invoke" => StepsLeft(c) = IF c.retried THEN 5 ELSE 8
         /\ c.pc = "resolveDirect" => StepsLeft(c) = IF c.retried THEN 6 ELSE 9
         /\ c.pc = "route" => StepsLeft(c) = 10
         /\ c.pc = "resolve" => StepsLeft(c) = 11
         /\ c.pc = "getContext" => StepsLeft(c) = 12
         /\ c.pc = "checkLimit" => StepsLeft(c) = 13
         /\ c.pc = "checkHealth" => StepsLeft(c) = 14
  BY DEF StepsLeft

\* A step of call p brings it nearer to its return.
LEMMA StepsOn ==
  ASSUME TypeOK, NEW p \in Calls, Continue(p)
  PROVE  StepsLeft(call'[p]) < StepsLeft(call[p])
<1>1. ASSUME NEW step, Goto(p, step) \/ Answered(p, step)
      PROVE  call'[p].pc = step /\ call'[p].retried = call[p].retried
  BY <1>1, Moves DEF Moved
<1>2. ASSUME Return(p)
      PROVE  StepsLeft(call'[p]) = 0
  BY <1>2, Moves, StepsLeftAt DEF Idle
<1>3. ASSUME NEW step, Resolve(p, step)
      PROVE  call'[p].pc = step /\ call'[p].retried = call[p].retried
  BY <1>3, Moves DEF Moved
<1>5. CASE ConnectStep(p)
  BY <1>1, <1>2, <1>5, StepsLeftAt DEF ConnectStep, ConnectEvict, ConnectDropContext, ConnectRegister,
       ConnectConfigureLimit, ConnectSetCard, ConnectResetHealth, At
<1>6. CASE DisconnectStep(p)
  BY <1>1, <1>2, <1>6, StepsLeftAt DEF DisconnectStep, DisconnectEvict, DisconnectDropLimiter, DisconnectDropHealth,
       DisconnectDropContext, DisconnectDropHistory, At
<1>7. CASE CheckHealth(p)
  BY <1>1, <1>7, StepsLeftAt DEF CheckHealth, At
<1>8. CASE CheckLimit(p)
  BY <1>1, <1>2, <1>8, StepsLeftAt DEF CheckLimit, At
<1>9. CASE Route(p) \/ SendAsync(p)
  <2>1. call[p].pc = "route"
    BY <1>9 DEF Route, SendAsync, At
  <2>2. CASE Route(p)
    <3>1. PICK step \in {"invoke", "recordHistory", "stream", "resolveDirect"} : Goto(p, step)
      BY <2>2 DEF Route
    <3>2. StepsLeft(call'[p]) \in {1, 4, 5, 6, 8, 9}
      BY <1>1, <3>1, StepsLeftAt
    <3> QED
      BY <2>1, <3>2, StepsLeftAt
  <2> QED
    BY <1>2, <1>9, <2>1, <2>2, StepsLeftAt DEF SendAsync
<1>10. CASE GetContext(p)
  <2>1. call'[p].pc = "resolve"
    BY <1>10, Moves DEF Moved
  <2>2. call[p].pc = "getContext"
    BY <1>10 DEF GetContext, At
  <2> QED
    BY <2>1, <2>2, StepsLeftAt
<1>11. CASE ResolveForSend(p) \/ ResolveDirect(p)
  BY <1>3, <1>11, StepsLeftAt DEF ResolveForSend, ResolveDirect, At
<1>12. CASE ResolveFails(p)
  BY <1>1, <1>2, <1>12, StepsLeftAt DEF ResolveFails, At
<1>13. CASE InvokeSucceeds(p) \/ InvokeUnauthorized(p) \/ InvokeFails(p)
  BY <1>1, <1>2, <1>13, StepsLeftAt DEF InvokeSucceeds, InvokeUnauthorized, InvokeFails, At
<1>14. CASE EvictAuth(p)
  <2>1. call'[p].pc = "resolveDirect" /\ call'[p].retried
    BY <1>14, Moves DEF Moved
  <2>2. StepsLeft(call'[p]) = 6
    BY Zenon, <2>1, StepsLeftAt
  <2>3. StepsLeft(call[p]) = 7
    BY <1>14, StepsLeftAt DEF EvictAuth, At
  <2> QED
    BY <2>2, <2>3
<1>15. CASE DirectRecordSuccess(p) \/ DirectRecordFailure(p) \/ Poll(p) \/ DirectSetContext(p)
  BY <1>1, <1>2, <1>15, StepsLeftAt
     DEF DirectRecordSuccess, DirectRecordFailure, Poll, DirectSetContext, SetContext, At
<1>16. CASE Stream(p) \/ StreamSetContext(p) \/ StreamRecordSuccess(p) \/ RecordHistory(p) \/ PingUpdateHealth(p)
  BY <1>1, <1>2, <1>16, StepsLeftAt
     DEF Stream, StreamSetContext, SetContext, StreamRecordSuccess, RecordHistory, PingUpdateHealth, At
<1> QED
  BY <1>5, <1>6, <1>7, <1>8, <1>9, <1>10, <1>11, <1>12, <1>13, <1>14, <1>15, <1>16
     DEF Continue, Step, RequestStep

\* Whatever calls overlap, each takes at most the steps that its place in its
\* handler leaves it: none goes back, and a 401/403 is answered once.
THEOREM CallsGoOn == Spec => StepsRunOut
<1>1. ASSUME TypeOK, Shape, [Next]_vars, NEW q \in Calls, call'[q].pc # call[q].pc, call[q].pc # "idle"
      PROVE  StepsLeft(call'[q]) < StepsLeft(call[q])
  <2>1. ASSUME NEW p \in Calls, Start(p)
        PROVE  FALSE
    <3>1. q # p /\ Alike(call[q], call'[q])
      BY <1>1, <2>1, TypeStart
    <3> QED
      BY <1>1, <3>1 DEF Alike
  <2>2. ASSUME NEW p \in Calls, Continue(p)
        PROVE  StepsLeft(call'[q]) < StepsLeft(call[q])
    BY <1>1, <2>2, StepsOn, OthersWait
  <2>3. ~UNCHANGED call
    BY <1>1
  <2> QED
    BY <1>1, <2>1, <2>2, <2>3 DEF Next, vars, ClearHistory, BackgroundEnds
<1>2. TypeOK /\ Shape /\ [Next]_vars =>
        [\A p \in Calls :
           call'[p].pc # call[p].pc /\ ~At(p, "idle") => StepsLeft(call'[p]) < StepsLeft(call[p])]_vars
  BY <1>1 DEF At
<1> QED
  BY <1>2, TypeCorrect, PTL DEF Spec, StepsRunOut
=============================================================================
