--------------------------- MODULE OverlapProofs ---------------------------
(***************************************************************************)
(* Proofs about Gateway when calls overlap in any way, for every set of    *)
(* calls, aliases, URLs and headers: what a change of an alias leaves in   *)
(* the stores kept by alias, which context a message carries, and what the *)
(* client cache, which is kept by URL, does to the headers.                *)
(***************************************************************************)
EXTENDS GatewayProofs

-----------------------------------------------------------------------------
(* The inductive invariant, alias by alias: what holds while a change of   *)
(* the alias is still under way, besides what the properties say of the    *)
(* states in which none is.                                                *)

\* A call that uses a speaks to the registered agent and no change is under way, or
\* it speaks to a stray.
UsersKnown(a) ==
  \A p \in Active(a) : Uses(call[p]) /\ call[p].url # None =>
    call[p].url \in strays[a] \/ (~Changing(a) /\ Entry(a, call[p].url))

\* So does a connect, once it overlaps another change; and what it has registered is
\* the entry unless it overlapped one.
ChangesKnown(a) ==
  \A p \in Active(a) : call[p].op = "connect" =>
    /\ \A q \in Active(a) \ {p} : call[q].op \in ChangeOps => call[p].url \in strays[a]
    /\ Registering(p, a) => call[p].url \in strays[a] \/ Entry(a, call[p].url)

\* What a change that has begun will still do.
WillDropContext(c) ==
  \/ c.pc \in {"dropContext", "evictRemoved", "dropLimiter", "dropHealth", "dropStoredContext"}
  \/ c.pc = "evictOld" /\ UrlChanged(c)

WillRegister(c) == c.pc = "register" \/ (c.pc = "evictOld" /\ ~UrlChanged(c))

WillResetHealth(c) == c.pc \in ConnectSteps \cup {"evictRemoved", "dropLimiter", "dropHealth"}

WillDropLimiter(c) == c.pc \in {"evictRemoved", "dropLimiter"}

WillEvict(c, u) == c.pc \in {"evictOld", "evictRemoved"} /\ c.old = u

ContextKnown(a) ==
  context[a] # None =>
    \/ context[a] \in strays[a]
    \/ /\ Entry(a, context[a])
       /\ \A p \in Active(a) : WillRegister(call[p]) => call[p].url = context[a]
    \/ \E p \in Active(a) : WillDropContext(call[p])

HealthKnown(a) ==
  /\ ~setup.tracking => health[a] = None
  /\ health[a] # None =>
       \/ health[a].agent \in strays[a] \cup {None}
       \/ Entry(a, health[a].agent)
       \/ \E p \in Active(a) : WillResetHealth(call[p])

CardKept(a) ==
  registry[a] # None =>
    \/ registry[a].card \in strays[a] \cup {None, registry[a].url}
    \/ \E p \in Active(a) : call[p].pc \in {"evictOld", "dropContext", "register"}

LimiterKnown(a) ==
  limiter[a] # None =>
    registry[a] # None \/ strays[a] # {} \/ \E p \in Active(a) : WillDropLimiter(call[p])

HistoryKnown(a) ==
  a \in history =>
    registry[a] # None \/ strays[a] # {} \/ \E p \in Active(a) : call[p].op = "disconnect"

StoresKnown(a) ==
  /\ UsersKnown(a) /\ ChangesKnown(a) /\ ContextKnown(a) /\ HealthKnown(a)
  /\ CardKept(a) /\ LimiterKnown(a) /\ HistoryKnown(a)

\* A client built for a suits the entry of a, which is at u.
Suits(c, a, u) ==
  /\ Entry(a, u)
  /\ c.dynamic <=> registry[a].hdr # None
  /\ registry[a].card # None => c.carded

ForAlias(c, a) == c # None /\ c.alias = a /\ ~c.stray

\* While a has not changed since a call that uses some alias began, what the call
\* knows of a is still so: the entry, if it goes by a, its context and its clients.
CallKept(p, a) ==
  Uses(call[p]) /\ a \notin call[p].changed =>
    /\ ~Changing(a)
    /\ call[p].alias = a /\ call[p].url # None =>
         Entry(a, call[p].url) /\ (call[p].pc # "ping" => registry[a].hdr = call[p].hdr)
    /\ call[p].alias = a /\ call[p].ctx \in Urls => call[p].ctx \in strays[a] \cup {call[p].url}
    /\ ForAlias(call[p].client, a) => Suits(call[p].client, a, call[p].url)
    /\ ForAlias(call[p].first, a) => Suits(call[p].first, a, call[p].url)

\* The same of a background send.
SendKept(b, a) ==
  a \notin b.changed =>
    /\ ~Changing(a)
    /\ b.alias = a /\ b.ctx \in Urls => b.ctx \in strays[a] \cup {b.url}
    /\ ForAlias(b.client, a) => Suits(b.client, a, b.url)

\* A cached client for a suits the entry, or a change that has begun will evict it.
CacheSuits(a) ==
  \A u \in Urls : ForAlias(clients[u], a) =>
    \/ ~Changing(a) /\ Suits(clients[u], a, u)
    \/ \E p \in Active(a) : WillEvict(call[p], u)

MessagesKnown(a) ==
  (\A p \in Calls : CallKept(p, a)) /\ (\A b \in background : SendKept(b, a)) /\ CacheSuits(a)

OverlapInv == \A a \in Aliases : StoresKnown(a) /\ MessagesKnown(a)

-----------------------------------------------------------------------------
(* The history variables.                                                  *)

\* When a change of a begins, the agents spoken to become strays.
LEMMA StraysOfChange ==
  ASSUME TypeOK, NEW p \in Calls, NEW c \in Call, NEW a \in Aliases, c.alias = a, BeginChange(p, c)
  PROVE  /\ \A q \in Active(a) : call[q].url # None => call[q].url \in strays'[a]
         /\ Changing(a) \/ ~TakenAway(c) => strays[a] \subseteq strays'[a]
         /\ Changing(a) /\ c.url # None => c.url \in strays'[a]
         /\ \A b \in Aliases \ {a} : strays'[b] = strays[b]
<1> DEFINE others == {call[q].url : q \in Active(a)} \ {None}
           s == IF Changing(a) THEN strays[a] \cup others \cup ({c.url} \ {None})
                ELSE IF TakenAway(c) THEN others ELSE strays[a] \cup others
<1>1. strays' = [strays EXCEPT ![a] = s]
  BY DEF BeginChange
<1>2. strays'[a] = s /\ \A b \in Aliases \ {a} : strays'[b] = strays[b]
  BY <1>1 DEF TypeOK
<1>3. \A q \in Active(a) : call[q].url # None => call[q].url \in others
  OBVIOUS
<1> HIDE DEF others
<1> QED
  BY <1>2, <1>3

\* A call of another kind only adds its own agent, when a change is under way.
LEMMA StraysOfUse ==
  ASSUME TypeOK, NEW p \in Calls, NEW c \in Call, NEW a \in Aliases, BeginUse(p, c)
  PROVE  /\ strays[a] \subseteq strays'[a]
         /\ c.alias # a \/ ~Changing(a) => strays'[a] = strays[a]
         /\ c.alias = a /\ Changing(a) /\ c.url # None => c.url \in strays'[a]
  BY DEF BeginUse

\* The calls on a are as they were, but for which aliases changed during them.
KeptCalls(a) == Active(a)' = Active(a) /\ \A q \in Active(a) : Alike(call[q], call'[q])

LEMMA ChangingKept ==
  ASSUME NEW a \in Aliases, KeptCalls(a)
  PROVE  Changing(a)' <=> Changing(a)
  BY DEF KeptCalls, Changing, Alike

\* The calls on a after one of them has started in slot p.
Joined(p, c, a) ==
  /\ p \notin Active(a) /\ Active(a)' = Active(a) \cup {p}
  /\ Alike(c, call'[p])
  /\ \A q \in Active(a) : Alike(call[q], call'[q])

LEMMA CallsJoined ==
  ASSUME TypeOK, Shape, NEW p \in Calls, call[p].pc = "idle", NEW c \in Call, ShapeOf(c), Begins(p, c),
         NEW a \in Aliases
  PROVE  IF c.alias = a THEN Joined(p, c, a) ELSE KeptCalls(a)
<1>1. call[p].alias = None /\ a # None
  BY GatewayAssumption DEF Shape, ShapeOf, Idle
<1>2. Alike(c, call'[p]) /\ \A q \in Calls \ {p} : Alike(call[q], call'[q])
  BY CallsAfterStart
<1>3. Active(a)' = Active(a) \cup (IF c.alias = a THEN {p} ELSE {})
  BY <1>1, <1>2 DEF Active, Alike
<1>4. p \notin Active(a)
  BY <1>1 DEF Active
<1> QED
  BY <1>2, <1>3, <1>4 DEF Joined, KeptCalls, Active

-----------------------------------------------------------------------------
(* The stores kept by alias.                                               *)

\* Steps that are not about a leave it what it is.
LEMMA StoresElsewhere ==
  ASSUME NEW a \in Aliases, StoresKnown(a), KeptCalls(a), setup' = setup,
         registry'[a] = registry[a], context'[a] = context[a], limiter'[a] = limiter[a],
         health'[a] = health[a], a \in history' => a \in history, strays'[a] = strays[a]
  PROVE  StoresKnown(a)'
<1>0. Changing(a)' <=> Changing(a)
  BY ChangingKept
<1> USE DEF KeptCalls, Alike
<1>1. UsersKnown(a)'
  BY <1>0 DEF StoresKnown, UsersKnown, Uses, Entry
<1>2. ChangesKnown(a)'
  BY DEF StoresKnown, ChangesKnown, Registering, Entry
<1>3. ContextKnown(a)'
  BY DEF StoresKnown, ContextKnown, Entry, WillRegister, WillDropContext, UrlChanged
<1>4. HealthKnown(a)'
  BY DEF StoresKnown, HealthKnown, Entry, WillResetHealth
<1>5. CardKept(a)' /\ LimiterKnown(a)' /\ HistoryKnown(a)'
  BY DEF StoresKnown, CardKept, LimiterKnown, HistoryKnown, WillDropLimiter
<1> QED
  BY <1>1, <1>2, <1>3, <1>4, <1>5 DEF StoresKnown

\* A connect of a starts.
LEMMA StoresAtConnect ==
  ASSUME TypeOK, Shape, NEW p \in Calls, NEW c \in Call, ShapeOf(c), NEW a \in Aliases, c.alias = a,
         BeginsConnect(p, c), Joined(p, c, a), StoresKnown(a),
         UNCHANGED <<setup, context, limiter, health, history>>
  PROVE  StoresKnown(a)'
<1> USE DEF Joined, Alike
<1>0. /\ \A q \in Active(a) : call[q].url # None => call[q].url \in strays'[a]
      /\ Changing(a) \/ ~TakenAway(c) => strays[a] \subseteq strays'[a]
      /\ Changing(a) /\ c.url # None => c.url \in strays'[a]
  BY StraysOfChange DEF BeginsConnect
<1>1. c.op = "connect" /\ registry' = registry /\ c.url \in Urls /\ c.url # None
  BY GatewayAssumption DEF BeginsConnect, ShapeOf, ConnectSteps
<1>2. UsersKnown(a)'
  BY <1>0, <1>1 DEF UsersKnown, Uses
<1>3. ChangesKnown(a)'
  <2>1. \A q \in Active(a) : call[q].op \in ChangeOps => Changing(a)
    BY DEF Changing, ChangeOps
  <2>2. ~Registering(p, a)'
    BY DEF BeginsConnect, Registering
  <2>3. \A q \in Active(a) : call[q].op = "connect" => call[q].url \in Urls /\ call[q].url # None
    BY GatewayAssumption DEF Shape, ShapeOf, DisconnectSteps, SendSteps, Idle, TypeOK, Call, Active, ConnectSteps
  <2> QED
    BY <1>0, <1>1, <2>1, <2>2, <2>3 DEF ChangesKnown, Registering, Entry
<1>4. ContextKnown(a)'
  <2>1. c.pc = "evictOld" /\ TakenAway(c) => WillDropContext(call'[p])
    BY <1>1 DEF TakenAway, WillDropContext, UrlChanged
  <2>2. c.pc = "register" => ~TakenAway(c) /\ registry[a] = None
    BY <1>1 DEF TakenAway, BeginsConnect
  <2>3. c.pc = "evictOld" /\ ~TakenAway(c) => c.url = c.old /\ Entry(a, c.url)
    BY <1>1, EntryType, GatewayAssumption DEF TakenAway, BeginsConnect, Entry
  <2>4. c.pc \in {"register", "evictOld"}
    BY DEF BeginsConnect
  <2>5. \A q \in Active(a) : /\ WillDropContext(call'[q]) <=> WillDropContext(call[q])
                             /\ WillRegister(call'[q]) <=> WillRegister(call[q])
    BY DEF WillDropContext, WillRegister, UrlChanged
  <2>6. ContextKnown(a)
    BY DEF StoresKnown
  <2> QED
    BY <1>0, <1>1, <2>1, <2>2, <2>3, <2>4, <2>5, <2>6 DEF ContextKnown, Entry
<1>5. HealthKnown(a)'
  <2>1. WillResetHealth(call'[p])
    BY DEF WillResetHealth, BeginsConnect, ConnectSteps
  <2> QED
    BY <2>1 DEF StoresKnown, HealthKnown
<1>6. CardKept(a)'
  <2>1. c.pc \in {"evictOld", "dropContext", "register"}
    BY DEF BeginsConnect
  <2> QED
    BY <2>1 DEF CardKept
<1>7. LimiterKnown(a)' /\ HistoryKnown(a)'
  <2>1. registry[a] = None => strays[a] \subseteq strays'[a]
    BY <1>0, <1>1 DEF TakenAway, BeginsConnect
  <2> QED
    BY <1>1, <2>1 DEF StoresKnown, LimiterKnown, HistoryKnown, WillDropLimiter
<1> QED
  BY <1>2, <1>3, <1>4, <1>5, <1>6, <1>7 DEF StoresKnown

\* A disconnect of a starts.
LEMMA StoresAtDisconnect ==
  ASSUME TypeOK, Shape, NEW p \in Calls, NEW c \in Call, ShapeOf(c), NEW a \in Aliases, c.alias = a,
         BeginsDisconnect(p, c), Joined(p, c, a), StoresKnown(a),
         UNCHANGED <<setup, context, limiter, health, history>>
  PROVE  StoresKnown(a)'
<1> USE DEF Joined, Alike
<1>0. \A q \in Active(a) : call[q].url # None => call[q].url \in strays'[a]
  BY StraysOfChange DEF BeginsDisconnect
<1>1. c.op = "disconnect" /\ c.pc = "evictRemoved" /\ registry'[a] = None
  BY DEF BeginsDisconnect, TypeOK
<1>2. UsersKnown(a)'
  BY <1>0, <1>1 DEF UsersKnown, Uses
<1>3. ChangesKnown(a)'
  <2>1. \A q \in Active(a) : call[q].op = "connect" => call[q].url \in Urls /\ call[q].url # None
    BY GatewayAssumption DEF Shape, ShapeOf, DisconnectSteps, SendSteps, Idle, TypeOK, Call, Active, ConnectSteps
  <2> QED
    BY <1>0, <1>1, <2>1 DEF ChangesKnown
<1>4. ContextKnown(a)' /\ HealthKnown(a)'
  BY <1>1 DEF StoresKnown, ContextKnown, HealthKnown, WillDropContext, WillResetHealth
<1>5. CardKept(a)' /\ LimiterKnown(a)' /\ HistoryKnown(a)'
  BY <1>1 DEF CardKept, LimiterKnown, HistoryKnown, WillDropLimiter
<1> QED
  BY <1>2, <1>3, <1>4, <1>5 DEF StoresKnown

\* A call that uses a starts.
LEMMA StoresAtUse ==
  ASSUME TypeOK, Shape, NEW p \in Calls, NEW c \in Call, ShapeOf(c), NEW a \in Aliases, c.alias = a,
         BeginsUse(p, c), Joined(p, c, a), StoresKnown(a),
         UNCHANGED <<setup, context, limiter, health, history>>
  PROVE  StoresKnown(a)'
<1> USE DEF Joined, Alike
<1>0. /\ strays[a] \subseteq strays'[a]
      /\ Changing(a) /\ c.url # None => c.url \in strays'[a]
  BY StraysOfUse DEF BeginsUse
<1>1. Uses(c) /\ registry' = registry /\ (c.url # None => Entry(a, c.url))
  BY GatewayAssumption DEF BeginsUse
<1>2. c.op \notin ChangeOps /\ c.pc \notin ConnectSteps \cup DisconnectSteps
  BY <1>1 DEF Uses, ChangeOps, ShapeOf
<1>3. Changing(a)' <=> Changing(a)
  BY <1>2 DEF Changing, ChangeOps
<1>4. UsersKnown(a)'
  BY <1>0, <1>1, <1>3 DEF StoresKnown, UsersKnown, Uses, Entry
<1>5. ChangesKnown(a)'
  BY <1>0, <1>1, <1>2 DEF StoresKnown, ChangesKnown, Registering, Entry, ChangeOps
<1>6. ContextKnown(a)'
  BY <1>0, <1>1, <1>2 DEF StoresKnown, ContextKnown, Entry, WillRegister, WillDropContext, UrlChanged, ConnectSteps
<1>7. HealthKnown(a)'
  BY <1>0, <1>1 DEF StoresKnown, HealthKnown, Entry, WillResetHealth
<1>8. CardKept(a)' /\ LimiterKnown(a)' /\ HistoryKnown(a)'
  BY <1>0, <1>1 DEF StoresKnown, CardKept, LimiterKnown, HistoryKnown, WillDropLimiter
<1> QED
  BY <1>4, <1>5, <1>6, <1>7, <1>8 DEF StoresKnown

\* Whatever starts, what is known of a stays so.
LEMMA StoresAtStart ==
  ASSUME TypeOK, Shape, NEW p \in Calls, Start(p), NEW a \in Aliases, StoresKnown(a)
  PROVE  StoresKnown(a)'
<1>1. call[p].pc = "idle" /\ UNCHANGED <<setup, context, clients, limiter, health, history>>
  BY StartShape
<1>2. PICK c \in Call : ShapeOf(c) /\ Begins(p, c)
  BY StartShape
<1>3. IF c.alias = a THEN Joined(p, c, a) ELSE KeptCalls(a)
  BY <1>1, <1>2, CallsJoined
<1>4. CASE c.alias = a
  BY <1>1, <1>2, <1>3, <1>4, StoresAtConnect, StoresAtDisconnect, StoresAtUse DEF Begins
<1>5. CASE c.alias # a
  <2>1. registry'[a] = registry[a]
    BY <1>2, <1>5 DEF Begins, BeginsConnect, BeginsDisconnect, BeginsUse, TypeOK
  <2>2. strays'[a] = strays[a]
    BY <1>2, <1>5, StraysOfChange, StraysOfUse DEF Begins, BeginsConnect, BeginsDisconnect, BeginsUse
  <2> QED
    BY <1>1, <1>3, <1>5, <2>1, <2>2, StoresElsewhere
<1> QED
  BY <1>4, <1>5

\* What a step does to the stores kept by alias, other than the registry and the tracker.
LEMMA ContextSteps ==
  ASSUME NEW p \in Calls, Start(p) \/ Continue(p)
  PROVE  \/ UNCHANGED context
         \/ ConnectDropContext(p) \/ DisconnectDropContext(p)
         \/ /\ call[p].pc \in {"setContext", "streamSetContext"}
            /\ \E u \in {None, call[p].url} : StoreContext(call[p].alias, u)
  BY DEF Start, StartConnect, StartDisconnect, StartRequest, StartBroadcast, StartPing, stores, Continue, Step,
         ConnectStep, ConnectEvict, ConnectRegister, ConnectConfigureLimit,
         ConnectSetCard, ConnectResetHealth, DisconnectStep, DisconnectEvict,
         DisconnectDropLimiter, DisconnectDropHealth,
         DisconnectDropHistory, RequestStep, CheckHealth, CheckLimit, GetContext, ResolveForSend, Route,
         SendAsync, ResolveDirect, ResolveFails, InvokeSucceeds, InvokeUnauthorized, InvokeFails, EvictAuth,
         DirectRecordSuccess, DirectRecordFailure, Poll, DirectSetContext, Stream, StreamSetContext, SetContext,
         StreamRecordSuccess, RecordHistory, PingUpdateHealth, At

LEMMA LimiterSteps ==
  ASSUME NEW p \in Calls, Start(p) \/ Continue(p)
  PROVE  UNCHANGED limiter \/ ConnectConfigureLimit(p) \/ DisconnectDropLimiter(p)
  BY DEF Start, StartConnect, StartDisconnect, StartRequest, StartBroadcast, StartPing, stores, Continue, Step,
         ConnectStep, ConnectEvict, ConnectDropContext, ConnectRegister,
         ConnectSetCard, ConnectResetHealth, DisconnectStep, DisconnectEvict,
         DisconnectDropHealth, DisconnectDropContext,
         DisconnectDropHistory, RequestStep, CheckHealth, CheckLimit, GetContext, ResolveForSend, Route,
         SendAsync, ResolveDirect, ResolveFails, InvokeSucceeds, InvokeUnauthorized, InvokeFails, EvictAuth,
         DirectRecordSuccess, DirectRecordFailure, Poll, DirectSetContext, Stream, StreamSetContext, SetContext,
         StreamRecordSuccess, RecordHistory, PingUpdateHealth

LEMMA HistorySteps ==
  ASSUME NEW p \in Calls, Start(p) \/ Continue(p)
  PROVE  UNCHANGED history \/ DisconnectDropHistory(p) \/ RecordHistory(p)
  BY DEF Start, StartConnect, StartDisconnect, StartRequest, StartBroadcast, StartPing, stores, Continue, Step,
         ConnectStep, ConnectEvict, ConnectDropContext, ConnectRegister, ConnectConfigureLimit,
         ConnectSetCard, ConnectResetHealth, DisconnectStep, DisconnectEvict,
         DisconnectDropLimiter, DisconnectDropHealth, DisconnectDropContext,
         RequestStep, CheckHealth, CheckLimit, GetContext, ResolveForSend, Route,
         SendAsync, ResolveDirect, ResolveFails, InvokeSucceeds, InvokeUnauthorized, InvokeFails, EvictAuth,
         DirectRecordSuccess, DirectRecordFailure, Poll, DirectSetContext, Stream, StreamSetContext, SetContext,
         StreamRecordSuccess, PingUpdateHealth

\* A call that continues keeps what it is about, or returns.
LEMMA Goes ==
  ASSUME TypeOK, NEW p \in Calls, Continue(p)
  PROVE  /\ call'[p] = Idle \/ \E step : Moved(p, step)
         /\ \A q \in Calls \ {p} : call'[q] = call[q]
         /\ UNCHANGED <<setup, strays>>
<1>1. UNCHANGED <<setup, strays>>
  BY DEF Continue
<1>2. \A q \in Calls \ {p} : call'[q] = call[q]
  BY OthersWait
<1> DEFINE Done == call'[p] = Idle \/ \E step : Moved(p, step)
<1>3. /\ \A step : Goto(p, step) \/ Answered(p, step) \/ Resolve(p, step) => Done
      /\ GetContext(p) \/ EvictAuth(p) \/ Return(p) => Done
  BY Moves
<1> HIDE DEF Done
<1>4. ASSUME ConnectStep(p) \/ DisconnectStep(p)
      PROVE  Done
  BY <1>3, <1>4 DEF ConnectStep, ConnectEvict, ConnectDropContext, ConnectRegister, ConnectConfigureLimit,
      ConnectSetCard, ConnectResetHealth, DisconnectStep, DisconnectEvict,
      DisconnectDropLimiter, DisconnectDropHealth, DisconnectDropContext, DisconnectDropHistory
<1>5. ASSUME RequestStep(p) \/ PingUpdateHealth(p) \/ SendAsync(p)
      PROVE  Done
  BY <1>3, <1>5 DEF RequestStep, CheckHealth, CheckLimit, ResolveForSend, Route,
      SendAsync, ResolveDirect, ResolveFails, InvokeSucceeds, InvokeUnauthorized, InvokeFails,
      DirectRecordSuccess, DirectRecordFailure, Poll, DirectSetContext, Stream, StreamSetContext, SetContext,
      StreamRecordSuccess, RecordHistory, PingUpdateHealth
<1>6. Done
  BY <1>4, <1>5 DEF Continue, Step
<1> QED
  BY <1>1, <1>2, <1>6 DEF Done

\* Every store kept by alias is touched only under the alias of the call.
LEMMA Locality ==
  ASSUME TypeOK, Shape, NEW p \in Calls, Continue(p), NEW b \in Aliases, call[p].alias # b
  PROVE  /\ registry'[b] = registry[b] /\ context'[b] = context[b] /\ limiter'[b] = limiter[b]
         /\ health'[b] = health[b] /\ (b \in history' => b \in history)
<1>1. registry'[b] = registry[b]
  BY RegistrySteps DEF ConnectRegister, ConnectSetCard, TypeOK
<1>2. context'[b] = context[b]
  BY ContextSteps DEF ConnectDropContext, DisconnectDropContext, StoreContext, TypeOK
<1>3. limiter'[b] = limiter[b]
  BY LimiterSteps DEF ConnectConfigureLimit, DisconnectDropLimiter, TypeOK
<1>4. health'[b] = health[b]
  BY HealthSteps DEF ResetHealth, RecordSuccess, RecordFailure, TypeOK
<1>5. ASSUME b \in history' PROVE b \in history
  <2>1. \A a \in Aliases : Notice(a) # b /\ Undeleted(a) # b
    BY NoticeAssumption
  <2>2. call[p].alias \in Aliases \cup {None} /\ b \notin Urls
    BY GatewayAssumption DEF TypeOK, Call
  <2>3. CASE RecordHistory(p)
    <3>1. call[p].alias = None => call[p].url \in Urls
      BY <2>3, CallShape, GatewayAssumption DEF RecordHistory, At, ShapeOf
    <3> QED
      BY <1>5, <2>1, <2>2, <2>3, <3>1 DEF RecordHistory
  <2>4. CASE DisconnectDropHistory(p)
    <3>1. call[p].alias \in Aliases
      BY <2>4, CallShape DEF DisconnectDropHistory, At, ShapeOf, DisconnectSteps
    <3> QED
      BY <1>5, <2>1, <2>4, <3>1 DEF DisconnectDropHistory, DeleteHistory
  <2> QED
    BY <1>5, <2>3, <2>4, HistorySteps
<1> QED
  BY <1>1, <1>2, <1>3, <1>4, <1>5

\* The calls on a after one of them has continued.
Continued(p, a) ==
  /\ p \in Active(a) /\ Active(a)' = IF call'[p] = Idle THEN Active(a) \ {p} ELSE Active(a)
  /\ call'[p] = Idle \/ \E step : Moved(p, step)
  /\ \A q \in Active(a) \ {p} : call'[q] = call[q]
  /\ setup' = setup /\ strays'[a] = strays[a]

LEMMA CallsContinued ==
  ASSUME TypeOK, Shape, NEW p \in Calls, Continue(p), NEW a \in Aliases
  PROVE  IF call[p].alias = a THEN Continued(p, a) ELSE KeptCalls(a)
<1>1. Idle.alias # a
  BY GatewayAssumption DEF Idle
<1>2. call'[p] = Idle \/ (call'[p].alias = call[p].alias /\ call'[p] # Idle) \/ call[p].alias # a
  BY <1>1, Goes DEF Moved
<1>3. call'[p].alias = a => call[p].alias = a
  BY <1>1, Goes DEF Moved
<1>4. \A q \in Calls \ {p} : call'[q] = call[q]
  BY Goes
<1> QED
  BY <1>1, <1>2, <1>3, <1>4, Goes DEF Continued, KeptCalls, Active, Alike

\* While a call changes a, those who use it speak to strays.
LEMMA UsersAreStrays ==
  ASSUME NEW a \in Aliases, UsersKnown(a), NEW p \in Active(a), call[p].op \in ChangeOps
  PROVE  \A q \in Active(a) : Uses(call[q]) /\ call[q].url # None => call[q].url \in strays[a]
  BY DEF UsersKnown, Changing, ChangeOps

\* What a call that uses a touches.
LEMMA UserSteps ==
  ASSUME TypeOK, Shape, NEW p \in Calls, Continue(p), NEW a \in Aliases, call[p].alias = a, Uses(call[p])
  PROVE  /\ UNCHANGED <<registry, limiter>>
         /\ context'[a] = context[a] \/ (context'[a] = call[p].url /\ call[p].url \in Urls)
         /\ health'[a] = health[a] \/ (health'[a].agent = call[p].url /\ call[p].url \in Urls /\ health'[a] # None
                                        /\ setup.tracking)
         /\ a \in history' => a \in history \/ call[p].url \in Urls
<1>0. call[p] \in Call /\ ShapeOf(call[p])
  BY CallShape
<1>1. call[p].pc \in SendSteps \cup {"ping"}
  BY <1>0 DEF ShapeOf, Call, Uses, Idle
<1>2. UNCHANGED registry
  BY <1>1, RegistrySteps DEF ConnectRegister, ConnectSetCard, At, SendSteps
<1>3. UNCHANGED limiter
  BY <1>1, LimiterSteps DEF ConnectConfigureLimit, DisconnectDropLimiter, At, SendSteps
<1>4. context'[a] = context[a] \/ (context'[a] = call[p].url /\ call[p].url \in Urls)
  <2>1. call[p].pc \in {"setContext", "streamSetContext"} => call[p].url \in Urls
    BY <1>0 DEF ShapeOf, SendSteps
  <2> QED
    BY <1>1, <2>1, ContextSteps DEF ConnectDropContext, DisconnectDropContext, At, SendSteps, StoreContext, TypeOK
<1>5. health'[a] = health[a] \/ (health'[a].agent = call[p].url /\ call[p].url \in Urls /\ health'[a] # None
                                  /\ setup.tracking)
  <2>1. call[p].pc \in {"resetHealth", "dropHealth"} => FALSE
    BY <1>1 DEF SendSteps
  <2>2. CASE UNCHANGED health
    BY <2>2
  <2>3. CASE RecordSuccess(a, call[p].url) \/ RecordFailure(a, call[p].url)
    <3>1. health'[a] = health[a] \/ (health'[a].agent = call[p].url /\ setup.tracking /\ health[a] # None)
      BY <2>3 DEF RecordSuccess, RecordFailure, TypeOK
    <3>2. health[a] # None => health'[a] # None
      BY TrackerKept
    <3>3. call[p].url \in Urls \/ health'[a] = health[a]
      <4>1. CASE call[p].pc = "ping" \/ call[p].pc \in SendSteps \ {"recordHistory"}
        BY <1>0, <4>1 DEF ShapeOf
      <4>2. CASE call[p].pc = "recordHistory"
        <5>1. RecordHistory(p)
          BY <4>2 DEF Continue, Step, ConnectStep, ConnectEvict, ConnectDropContext, ConnectRegister,
            ConnectConfigureLimit, ConnectSetCard, ConnectResetHealth, DisconnectStep, DisconnectEvict,
            DisconnectDropLimiter, DisconnectDropHealth, DisconnectDropContext, DisconnectDropHistory,
            RequestStep, CheckHealth, CheckLimit, GetContext, ResolveForSend, Route,
            SendAsync, ResolveDirect, ResolveFails, InvokeSucceeds, InvokeUnauthorized, InvokeFails, EvictAuth,
            DirectRecordSuccess, DirectRecordFailure, Poll, DirectSetContext, Stream, StreamSetContext,
            StreamRecordSuccess, PingUpdateHealth, At
        <5> QED
          BY <5>1 DEF RecordHistory
      <4> QED
        BY <1>1, <4>1, <4>2
    <3> QED
      BY <3>1, <3>2, <3>3
  <2> QED
    BY <2>1, <2>2, <2>3, HealthSteps
<1>6. a \in history' => a \in history \/ call[p].url \in Urls
  <2>1. \A b \in Aliases : Notice(b) # a
    BY NoticeAssumption
  <2> QED
    BY <1>0, <1>1, <2>1, HistorySteps, GatewayAssumption DEF DisconnectDropHistory, RecordHistory, At, SendSteps, Call
<1> QED
  BY <1>2, <1>3, <1>4, <1>5, <1>6

\* A call that uses a leaves what is known of it so.
LEMMA StoresAtUserStep ==
  ASSUME TypeOK, Shape, NEW p \in Calls, Continue(p), NEW a \in Aliases, call[p].alias = a, Uses(call[p]),
         StoresKnown(a)
  PROVE  StoresKnown(a)'
<1>1. Continued(p, a)
  BY CallsContinued
<1>2. /\ UNCHANGED <<registry, limiter>>
      /\ context'[a] = context[a] \/ (context'[a] = call[p].url /\ call[p].url \in Urls)
      /\ health'[a] = health[a] \/ (health'[a].agent = call[p].url /\ call[p].url \in Urls /\ health'[a] # None
                                     /\ setup.tracking)
      /\ a \in history' => a \in history \/ call[p].url \in Urls
  BY UserSteps
<1>3. call[p].url \in Urls => call[p].url \in strays[a] \/ (~Changing(a) /\ Entry(a, call[p].url))
  BY <1>1, GatewayAssumption DEF Continued, StoresKnown, UsersKnown
<1>4. call[p].op \notin ChangeOps /\ call'[p].op \notin ChangeOps
  BY <1>1 DEF Continued, Uses, ChangeOps, Idle, Moved
<1>5. Changing(a)' <=> Changing(a)
  BY <1>1, <1>4 DEF Continued, Changing, ChangeOps
<1>6. call[p].pc \notin ConnectSteps \cup DisconnectSteps /\ call'[p].pc \notin ConnectSteps \cup DisconnectSteps
  <2>1. ShapeOf(call[p]) /\ ShapeOf(call'[p])
    <3>1. (TypeOK /\ Shape)'
      BY StepTypes DEF Next
    <3> QED
      BY <3>1 DEF Shape
  <2> QED
    BY <1>4, <2>1 DEF ShapeOf, ChangeOps
<1>7. UsersKnown(a)'
  BY <1>1, <1>2, <1>5 DEF StoresKnown, UsersKnown, Uses, Entry, Continued, Moved
<1>8. ChangesKnown(a)'
  BY <1>1, <1>2, <1>4 DEF StoresKnown, ChangesKnown, Registering, Entry, Continued, ChangeOps
<1>9. ContextKnown(a)'
  <2>1. \A q \in Active(a)' : WillRegister(call'[q]) => q \in Active(a) /\ q # p /\ call'[q] = call[q]
    BY <1>1, <1>6 DEF Continued, WillRegister, ConnectSteps
  <2>2. \A q \in Active(a) : WillDropContext(call[q]) => q \in Active(a)' /\ q # p /\ call'[q] = call[q]
    BY <1>1, <1>6 DEF Continued, WillDropContext, ConnectSteps, DisconnectSteps
  <2>3. CASE context'[a] = context[a]
    BY <1>1, <1>2, <2>1, <2>2, <2>3 DEF StoresKnown, ContextKnown, Entry, Continued
  <2>4. CASE context'[a] = call[p].url /\ call[p].url \in strays[a]
    BY <1>1, <2>4 DEF ContextKnown, Continued
  <2>5. CASE context'[a] = call[p].url /\ ~Changing(a) /\ Entry(a, call[p].url)
    <3>1. \A q \in Active(a) : ~WillRegister(call[q])
      <4>1. \A q \in Active(a) : call[q].op # "connect"
        BY <2>5 DEF Changing
      <4> QED
        BY <4>1, CallShape DEF WillRegister, ShapeOf, ConnectSteps, Active
    <3> QED
      BY <1>2, <2>1, <2>5, <3>1 DEF ContextKnown, Entry
  <2> QED
    BY <1>2, <1>3, <2>3, <2>4, <2>5
<1>10. HealthKnown(a)'
  <2>1. \A q \in Active(a) : WillResetHealth(call[q]) => q \in Active(a)' /\ q # p /\ call'[q] = call[q]
    BY <1>1, <1>6 DEF Continued, WillResetHealth, ConnectSteps, DisconnectSteps
  <2>2. CASE health'[a] = health[a]
    BY <1>1, <1>2, <2>1, <2>2 DEF StoresKnown, HealthKnown, Entry, Continued
  <2>3. CASE health'[a] # health[a]
    BY <1>1, <1>2, <1>3, <2>3 DEF HealthKnown, Entry, Continued
  <2> QED
    BY <2>2, <2>3
<1>11. CardKept(a)'
  <2>1. \A q \in Active(a) : call[q].pc \in ConnectSteps => q \in Active(a)' /\ q # p /\ call'[q] = call[q]
    BY <1>1, <1>6 DEF Continued
  <2> QED
    BY <1>1, <1>2, <2>1 DEF StoresKnown, CardKept, Continued, ConnectSteps
<1>12. LimiterKnown(a)' /\ HistoryKnown(a)'
  <2>1. \A q \in Active(a) : call[q].op = "disconnect" => q \in Active(a)' /\ q # p /\ call'[q] = call[q]
    BY <1>1, <1>4 DEF Continued, ChangeOps
  <2>2. \A q \in Active(a) : WillDropLimiter(call[q]) => q \in Active(a)' /\ q # p /\ call'[q] = call[q]
    BY <1>1, <1>6 DEF Continued, WillDropLimiter, DisconnectSteps
  <2>3. call[p].url \in Urls => registry[a] # None \/ strays[a] # {}
    BY <1>3 DEF Entry
  <2> QED
    BY <1>1, <1>2, <2>1, <2>2, <2>3 DEF StoresKnown, LimiterKnown, HistoryKnown, Continued
<1> QED
  BY <1>7, <1>8, <1>9, <1>10, <1>11, <1>12 DEF StoresKnown

\* What a change of a has before it, and what it does to the entry.
LEMMA ChangerMoves ==
  ASSUME TypeOK, Shape, NEW p \in Calls, Continue(p), NEW a \in Aliases, call[p].alias = a,
         call[p].op \in ChangeOps
  PROVE  /\ call[p].pc \in ConnectSteps \cup DisconnectSteps
         /\ call[p].op = "connect" <=> call[p].pc \in ConnectSteps
         /\ call[p].pc = "evictOld" => Moved(p, IF UrlChanged(call[p]) THEN "dropContext" ELSE "register")
         /\ call[p].pc = "dropContext" => Moved(p, "register") /\ context'[a] = None
         /\ call[p].pc = "register" =>
              /\ Moved(p, "configureLimit")
              /\ registry'[a] # None /\ registry'[a].url = call[p].url /\ registry'[a].card = None
         /\ call[p].pc = "configureLimit" => Moved(p, "setCard")
         /\ call[p].pc = "setCard" => Moved(p, "resetHealth")
         /\ call[p].pc = "resetHealth" => ResetHealth(a)
         /\ call[p].pc = "evictRemoved" => Moved(p, "dropLimiter")
         /\ call[p].pc = "dropLimiter" => Moved(p, "dropHealth") /\ limiter'[a] = None
         /\ call[p].pc = "dropHealth" => Moved(p, "dropStoredContext") /\ ResetHealth(a)
         /\ call[p].pc = "dropStoredContext" => Moved(p, "dropHistory") /\ context'[a] = None
         /\ call[p].pc = "dropHistory" => a \notin history'
         /\ call[p].pc # "register" =>
              \/ registry'[a] = registry[a]
              \/ /\ call[p].pc = "setCard" /\ registry[a] # None /\ registry'[a] # None
                 /\ registry'[a].url = registry[a].url /\ registry'[a].card = call[p].url
<1>0. call[p] \in Call /\ ShapeOf(call[p])
  BY CallShape
<1>1. call[p].pc \in ConnectSteps \cup DisconnectSteps /\ (call[p].op = "connect" <=> call[p].pc \in ConnectSteps)
  BY <1>0 DEF ShapeOf, Call, ChangeOps, Idle, ConnectSteps, DisconnectSteps
<1>2. \A step : Goto(p, step) => Moved(p, step)
  BY Moves
<1>3. CASE call[p].pc \in {"evictOld", "evictRemoved"}
  <2>1. UNCHANGED registry
    BY <1>3, RegistrySteps DEF ConnectRegister, ConnectSetCard, At
  <2> QED
    BY <1>1, <1>2, <1>3, <2>1, ChangeMoves DEF ConnectEvict, DisconnectEvict
<1>4. CASE call[p].pc = "dropContext"
  BY <1>1, <1>2, <1>4, ChangeMoves DEF ConnectDropContext, TypeOK
<1>5. CASE call[p].pc = "register"
  <2>1. PICK h \in setup.headers \cup {None} :
          registry' = [registry EXCEPT ![a] = [url |-> call[p].url, hdr |-> h, card |-> None]]
    BY <1>5, ChangeMoves DEF ConnectRegister
  <2>2. registry'[a] = [url |-> call[p].url, hdr |-> h, card |-> None]
    BY <2>1 DEF TypeOK
  <2>3. (TypeOK)'
    BY StepTypes DEF Next
  <2>4. registry'[a] # None
    <3>1. [url |-> call[p].url, hdr |-> h, card |-> None] \in RegisteredAgent
      BY <1>0, <1>5, SetupType DEF RegisteredAgent, ShapeOf, ConnectSteps
    <3> QED
      BY <2>2, <3>1, NoneAssumption
  <2> QED
    BY <1>1, <1>2, <1>5, <2>2, <2>4, ChangeMoves DEF ConnectRegister
<1>6. CASE call[p].pc = "configureLimit"
  BY <1>1, <1>2, <1>6, ChangeMoves DEF ConnectConfigureLimit
<1>7. CASE call[p].pc = "setCard"
  <2>1. CASE UNCHANGED registry
    BY <1>1, <1>2, <1>7, <2>1, ChangeMoves DEF ConnectSetCard
  <2>2. CASE registry[a] # None /\ registry' = [registry EXCEPT ![a].card = call[p].url]
    <3>1. registry'[a] = [registry[a] EXCEPT !.card = call[p].url]
      BY <2>2 DEF TypeOK
    <3>2. registry[a] \in RegisteredAgent
      BY <2>2 DEF TypeOK
    <3>3. registry'[a].url = registry[a].url /\ registry'[a].card = call[p].url
      BY <3>1, <3>2 DEF RegisteredAgent
    <3>4. registry'[a] # None
      <4>1. [registry[a] EXCEPT !.card = call[p].url] \in RegisteredAgent
        BY <1>0, <1>7, <3>2 DEF RegisteredAgent, ShapeOf, ConnectSteps
      <4> QED
        BY <3>1, <4>1, NoneAssumption
    <3> QED
      BY <1>1, <1>2, <1>7, <2>2, <3>3, <3>4, ChangeMoves DEF ConnectSetCard
  <2> QED
    BY <1>7, <2>1, <2>2, ChangeMoves DEF ConnectSetCard
<1>8. CASE call[p].pc = "resetHealth"
  BY <1>1, <1>2, <1>8, ChangeMoves DEF ConnectResetHealth
<1>9. CASE call[p].pc \in {"dropLimiter", "dropHealth", "dropStoredContext"}
  <2>1. UNCHANGED registry
    BY <1>9, RegistrySteps DEF ConnectRegister, ConnectSetCard, At
  <2> QED
    BY <1>1, <1>2, <1>9, <2>1, ChangeMoves DEF DisconnectDropLimiter, DisconnectDropHealth, DisconnectDropContext, TypeOK
<1>10. CASE call[p].pc = "dropHistory"
  <2>1. \A b \in Aliases : Undeleted(b) # a
    BY NoticeAssumption
  <2>2. a \notin history'
    BY <1>10, <2>1, ChangeMoves DEF DisconnectDropHistory, DeleteHistory, HistoryOf
  <2> QED
    BY <1>1, <1>2, <1>10, <2>2, ChangeMoves DEF DisconnectDropHistory
<1> QED
  BY <1>1, <1>3, <1>4, <1>5, <1>6, <1>7, <1>8, <1>9, <1>10 DEF ConnectSteps, DisconnectSteps

\* A change of a brings what is known of it further.
LEMMA StoresAtChangerStep ==
  ASSUME TypeOK, Shape, NEW p \in Calls, Continue(p), NEW a \in Aliases, call[p].alias = a,
         call[p].op \in ChangeOps, StoresKnown(a)
  PROVE  StoresKnown(a)'
<1> DEFINE c == call[p]
<1>1. Continued(p, a)
  BY CallsContinued
<1>2. \A q \in Active(a) : Uses(call[q]) /\ call[q].url # None => call[q].url \in strays[a]
  BY <1>1, UsersAreStrays DEF StoresKnown, Continued
<1>3. /\ c.pc \in ConnectSteps \cup DisconnectSteps
      /\ c.op = "connect" <=> c.pc \in ConnectSteps
      /\ c.pc = "register" => registry'[a] # None /\ registry'[a].url = c.url /\ registry'[a].card = None
      /\ c.pc # "register" =>
              \/ registry'[a] = registry[a]
              \/ /\ c.pc = "setCard" /\ registry[a] # None /\ registry'[a] # None
                 /\ registry'[a].url = registry[a].url /\ registry'[a].card = c.url
  BY ChangerMoves
<1>4. UsersKnown(a)'
  BY <1>1, <1>2 DEF UsersKnown, Uses, Continued, Moved, ChangeOps
<1>5. ChangesKnown(a)'
  <2> SUFFICES ASSUME NEW q \in Active(a)', call'[q].op = "connect"
               PROVE  /\ \A r \in Active(a)' \ {q} : call'[r].op \in ChangeOps => call'[q].url \in strays'[a]
                      /\ Registering(q, a)' => \/ call'[q].url \in strays'[a]
                                               \/ registry'[a] # None /\ registry'[a].url = call'[q].url
    BY DEF ChangesKnown, Entry
  <2>0. \A r \in Active(a)' : r = p => call'[p] # Idle
    BY <1>1 DEF Continued
  <2>1. \A r \in Active(a)' : r \in Active(a) /\ call'[r].op = call[r].op /\ call'[r].url = call[r].url
    BY <1>1, <2>0 DEF Continued, Moved
  <2>2. \A r \in Active(a) \ {q} : call[r].op \in ChangeOps => call[q].url \in strays[a]
    BY <2>1 DEF StoresKnown, ChangesKnown
  <2>3. strays'[a] = strays[a]
    BY <1>1 DEF Continued
  <2>4. Registering(q, a)' => call'[q].url \in strays'[a] \/ (registry'[a] # None /\ registry'[a].url = call'[q].url)
    <3>1. CASE q # p
      <4>1. call[q].url \in strays[a]
        BY <1>1, <2>2, <3>1 DEF Continued
      <4> QED
        BY <2>1, <2>3, <4>1
    <3>2. CASE q = p /\ c.pc = "register"
      BY <1>3, <2>1, <3>2 DEF Entry
    <3>3. CASE q = p /\ c.pc # "register"
      <4>1. Registering(q, a)' => Registering(q, a)
        BY <2>1, <3>3, <1>3, ChangerMoves DEF Registering, ConnectSteps, DisconnectSteps, Moved
      <4>2. Registering(q, a) => c.url \in strays[a] \/ Entry(a, c.url)
        BY <2>1, <3>3 DEF StoresKnown, ChangesKnown
      <4>3. Entry(a, c.url) => registry'[a] # None /\ registry'[a].url = c.url
        BY <1>3, <3>3 DEF Entry
      <4>4. call'[q].url = c.url
        BY <2>1, <3>3
      <4> QED
        BY <2>3, <4>1, <4>2, <4>3, <4>4
    <3> QED
      BY <3>1, <3>2, <3>3
  <2> QED
    BY <2>1, <2>2, <2>3, <2>4
<1>6. /\ c.pc \notin {"dropContext", "dropStoredContext"} => context'[a] = context[a]
      /\ c.pc \in {"dropContext", "dropStoredContext"} => context'[a] = None
      /\ c.pc \notin {"configureLimit", "dropLimiter"} => limiter'[a] = limiter[a]
      /\ c.pc = "dropLimiter" => limiter'[a] = None
      /\ a \in history' => a \in history /\ c.pc # "dropHistory"
  <2>1. c.pc \notin {"setContext", "streamSetContext", "recordHistory"}
    BY <1>3 DEF ConnectSteps, DisconnectSteps
  <2>2. /\ c.pc \notin {"dropContext", "dropStoredContext"} => context'[a] = context[a]
        /\ c.pc \in {"dropContext", "dropStoredContext"} => context'[a] = None
    BY <2>1, ContextSteps, ChangerMoves DEF ConnectDropContext, DisconnectDropContext, At
  <2>3. /\ c.pc \notin {"configureLimit", "dropLimiter"} => limiter'[a] = limiter[a]
        /\ c.pc = "dropLimiter" => limiter'[a] = None
    BY LimiterSteps, ChangerMoves DEF ConnectConfigureLimit, DisconnectDropLimiter, At
  <2>4. a \in history' => a \in history /\ c.pc # "dropHistory"
    BY <2>1, HistorySteps, ChangerMoves DEF DisconnectDropHistory, RecordHistory, At
  <2> QED
    BY <2>2, <2>3, <2>4
<1>7. ContextKnown(a)'
  <2>1. CASE c.pc \in {"dropContext", "dropStoredContext"}
    BY <1>6, <2>1 DEF ContextKnown
  <2>2. CASE c.pc \notin {"dropContext", "dropStoredContext"}
    <3>1. \A q \in Active(a)' : WillRegister(call'[q]) =>
            q \in Active(a) /\ WillRegister(call[q]) /\ call'[q].url = call[q].url
      <4>1. call'[p] # Idle => call'[p].url = c.url /\ call'[p].old = c.old
        BY <1>1 DEF Continued, Moved
      <4>2. /\ c.pc = "evictOld" => call'[p].pc = IF UrlChanged(c) THEN "dropContext" ELSE "register"
            /\ c.pc = "register" => call'[p].pc = "configureLimit"
            /\ c.pc = "configureLimit" => call'[p].pc = "setCard"
            /\ c.pc = "setCard" => call'[p].pc = "resetHealth"
            /\ c.pc = "evictRemoved" => call'[p].pc = "dropLimiter"
            /\ c.pc = "dropLimiter" => call'[p].pc = "dropHealth"
            /\ c.pc = "dropHealth" => call'[p].pc = "dropStoredContext"
        BY ChangerMoves DEF Moved
      <4>3. c.pc \in {"resetHealth", "dropHistory"} => call'[p] = Idle
        BY ChangeMoves, Moves DEF ConnectResetHealth, DisconnectDropHistory
      <4>4. WillRegister(call'[p]) => WillRegister(c) /\ call'[p] # Idle
        BY <1>3, <2>2, <4>2, <4>3 DEF WillRegister, ConnectSteps, DisconnectSteps, Idle
      <4> QED
        BY <1>1, <4>1, <4>4 DEF Continued
    <3>2. \A q \in Active(a) : WillDropContext(call[q]) => q \in Active(a)' /\ WillDropContext(call'[q])
      <4>1. WillDropContext(c) => WillDropContext(call'[p]) /\ call'[p] # Idle
        BY <1>1, <1>3, <2>2, ChangerMoves DEF WillDropContext, Continued, Moved, Idle
      <4> QED
        BY <1>1, <4>1 DEF Continued
    <3>3. context'[a] = context[a] /\ strays'[a] = strays[a]
      BY <1>1, <1>6, <2>2 DEF Continued
    <3>4. ASSUME Entry(a, context[a]), \A q \in Active(a) : WillRegister(call[q]) => call[q].url = context[a]
          PROVE  Entry(a, context[a])'
      <4>1. c.pc = "register" => c.url = context[a]
        BY <1>1, <3>4 DEF Continued, WillRegister
      <4> QED
        BY <1>3, <3>3, <3>4, <4>1 DEF Entry
    <3> QED
      BY <3>1, <3>2, <3>3, <3>4 DEF StoresKnown, ContextKnown, Entry
  <2> QED
    BY <2>1, <2>2
<1>8. HealthKnown(a)'
  <2>1. ~setup.tracking => health'[a] = None
    BY HealthSteps DEF StoresKnown, HealthKnown, ResetHealth, RecordSuccess, RecordFailure
  <2>2. setup' = setup /\ strays'[a] = strays[a]
    BY <1>1 DEF Continued
  <2>3. CASE c.pc \in {"resetHealth", "dropHealth"}
    <3>1. setup.tracking => health'[a].agent = None
      BY <2>3, ChangerMoves DEF ResetHealth, UnknownHealth, TypeOK
    <3> QED
      BY <2>1, <2>2, <3>1 DEF HealthKnown
  <2>4. CASE c.pc \in (ConnectSteps \ {"resetHealth"}) \cup {"evictRemoved", "dropLimiter"}
    <3>1. WillResetHealth(call'[p]) /\ call'[p] # Idle
      BY <1>1, <2>4, ChangerMoves DEF WillResetHealth, Continued, Moved, Idle, ConnectSteps
    <3>2. p \in Active(a)'
      BY <1>1, <3>1 DEF Continued
    <3> QED
      BY <2>1, <2>2, <3>1, <3>2 DEF HealthKnown
  <2>5. CASE c.pc \in {"dropStoredContext", "dropHistory"}
    <3>1. health' = health /\ registry' = registry
      BY <2>5, ChangeMoves DEF DisconnectDropContext, DisconnectDropHistory
    <3>2. \A q \in Active(a) : WillResetHealth(call[q]) => q \in Active(a)' /\ call'[q] = call[q]
      BY <1>1, <2>5 DEF Continued, WillResetHealth, ConnectSteps
    <3> QED
      BY <2>2, <3>1, <3>2 DEF StoresKnown, HealthKnown, Entry
  <2> QED
    BY <1>3, <2>3, <2>4, <2>5 DEF ConnectSteps, DisconnectSteps
<1>9. CardKept(a)'
  <2>1. strays'[a] = strays[a]
    BY <1>1 DEF Continued
  <2>2. c.pc \in {"evictOld", "dropContext"} =>
          call'[p].pc \in {"evictOld", "dropContext", "register"} /\ p \in Active(a)'
    BY <1>1, ChangerMoves DEF Continued, Moved, Idle
  <2>3. \A q \in Active(a) \ {p} : q \in Active(a)' /\ call'[q] = call[q]
    BY <1>1 DEF Continued
  <2>4. CASE c.pc = "register"
    BY <1>3, <2>4 DEF CardKept
  <2>5. CASE registry'[a] = registry[a] /\ c.pc # "register"
    BY <2>1, <2>2, <2>3, <2>5 DEF StoresKnown, CardKept
  <2>6. CASE c.pc = "setCard" /\ registry[a] # None /\ registry'[a].url = registry[a].url /\ registry'[a].card = c.url
    <3>1. c.url \in strays[a] \/ Entry(a, c.url)
      BY <1>1, <1>3, <2>6 DEF StoresKnown, ChangesKnown, Registering, Continued, Active, ConnectSteps
    <3> QED
      BY <2>1, <2>6, <3>1 DEF CardKept, Entry
  <2> QED
    BY <1>3, <2>4, <2>5, <2>6
<1>10. registry[a] # None => registry'[a] # None
  BY <1>3
<1>11. LimiterKnown(a)'
  <2>1. strays'[a] = strays[a]
    BY <1>1 DEF Continued
  <2>2. c.pc = "evictRemoved" => WillDropLimiter(call'[p]) /\ p \in Active(a)'
    BY <1>1, ChangerMoves DEF Continued, Moved, Idle, WillDropLimiter
  <2>3. \A q \in Active(a) \ {p} : q \in Active(a)' /\ call'[q] = call[q]
    BY <1>1 DEF Continued
  <2>4. CASE c.pc = "dropLimiter"
    BY <1>6, <2>4 DEF LimiterKnown
  <2>5. CASE c.pc = "configureLimit"
    <3>1. c.url \in strays[a] \/ Entry(a, c.url)
      BY <1>1, <1>3, <2>5 DEF StoresKnown, ChangesKnown, Registering, Continued, Active, ConnectSteps
    <3> QED
      BY <1>10, <2>1, <3>1 DEF LimiterKnown, Entry
  <2>6. CASE c.pc \notin {"configureLimit", "dropLimiter"}
    BY <1>6, <1>10, <2>1, <2>2, <2>3, <2>6 DEF StoresKnown, LimiterKnown, WillDropLimiter
  <2> QED
    BY <2>4, <2>5, <2>6
<1>12. HistoryKnown(a)'
  <2>1. c.op = "disconnect" /\ c.pc # "dropHistory" => call'[p].op = "disconnect" /\ p \in Active(a)'
    <3>1. c.op = "disconnect" => c.pc \in DisconnectSteps
      BY <1>3
    <3>2. c.pc \in DisconnectSteps \ {"dropHistory"} => \E step : Moved(p, step)
      BY ChangerMoves DEF DisconnectSteps
    <3>3. (\E step : Moved(p, step)) => call'[p].op = c.op
      BY DEF Moved
    <3>4. Idle.op = "none"
      BY DEF Idle
    <3> QED
      BY <1>1, <3>1, <3>2, <3>3, <3>4 DEF Continued
  <2>2. \A q \in Active(a) \ {p} : q \in Active(a)' /\ call'[q] = call[q]
    BY <1>1 DEF Continued
  <2>3. strays'[a] = strays[a]
    BY <1>1 DEF Continued
  <2> QED
    BY <1>6, <1>10, <2>1, <2>2, <2>3 DEF StoresKnown, HistoryKnown
<1> QED
  BY <1>4, <1>5, <1>7, <1>8, <1>9, <1>11, <1>12 DEF StoresKnown

\* Every step keeps what is known of a so.
LEMMA StoresStep ==
  ASSUME TypeOK, Shape, [Next]_vars, NEW a \in Aliases, StoresKnown(a)
  PROVE  StoresKnown(a)'
<1>1. ASSUME NEW p \in Calls, Start(p)
      PROVE  StoresKnown(a)'
  BY <1>1, StoresAtStart
<1>2. ASSUME NEW p \in Calls, Continue(p)
      PROVE  StoresKnown(a)'
  <2>1. CASE call[p].alias # a
    <3>1. KeptCalls(a) /\ UNCHANGED <<setup, strays>>
      BY <1>2, <2>1, CallsContinued, Goes
    <3> QED
      BY <1>2, <2>1, <3>1, Locality, StoresElsewhere
  <2>2. CASE call[p].alias = a
    <3>1. Uses(call[p]) \/ call[p].op \in ChangeOps
      <4>1. call[p] # Idle
        BY <2>2, GatewayAssumption DEF Idle
      <4> QED
        BY <4>1, CallShape DEF Uses, ChangeOps, ShapeOf, Call
    <3> QED
      BY <1>2, <2>2, <3>1, StoresAtUserStep, StoresAtChangerStep
  <2> QED
    BY <2>1, <2>2
<1>3. ASSUME UNCHANGED call
      PROVE  KeptCalls(a)
  BY <1>3 DEF KeptCalls, Active, Alike
<1>4. ASSUME NEW b \in Aliases, ClearHistory(b)
      PROVE  StoresKnown(a)'
  <2>1. a \in history' => a \in history
    BY <1>4 DEF ClearHistory
  <2> QED
    BY <1>3, <1>4, <2>1, StoresElsewhere DEF ClearHistory
<1>5. ASSUME NEW b \in background, BackgroundEnds(b)
      PROVE  StoresKnown(a)'
  BY <1>3, <1>5, StoresElsewhere DEF BackgroundEnds, stores
<1>6. CASE UNCHANGED vars
  BY <1>3, <1>6, StoresElsewhere DEF vars
<1> QED
  BY <1>1, <1>2, <1>4, <1>5, <1>6 DEF Next

LEMMA StoresAlways == Spec => [](TypeOK /\ Shape /\ \A a \in Aliases : StoresKnown(a))
<1>1. Init => \A a \in Aliases : StoresKnown(a)
  <2> SUFFICES ASSUME Init, NEW a \in Aliases
               PROVE  StoresKnown(a)
    OBVIOUS
  <2>1. Active(a) = {}
    BY GatewayAssumption DEF Init, Active, Idle
  <2> QED
    BY <2>1 DEF Init, StoresKnown, UsersKnown, ChangesKnown, ContextKnown, HealthKnown, CardKept,
                LimiterKnown, HistoryKnown
<1>2. TypeOK /\ Shape /\ (\A a \in Aliases : StoresKnown(a)) /\ [Next]_vars => \A a \in Aliases : StoresKnown(a)'
  BY StoresStep
<1>3. (\A a \in Aliases : StoresKnown(a)') <=> (\A a \in Aliases : StoresKnown(a))'
  OBVIOUS
<1> QED
  BY <1>1, <1>2, <1>3, TypeCorrect, PTL DEF Spec

\* What is known of a says more than the properties once no change of a is under way.
LEMMA StoresProperties ==
  ASSUME TypeOK, Shape, \A a \in Aliases : StoresKnown(a)
  PROVE  NoResidue /\ CardOfEntry /\ HealthOfAgent
<1> SUFFICES ASSUME NEW a \in Aliases, ~Changing(a)
             PROVE  /\ registry[a] = None =>
                         /\ context[a] \in strays[a] \cup {None}
                         /\ health[a] # None => health[a].agent \in strays[a] \cup {None}
                         /\ limiter[a] # None \/ a \in history => strays[a] # {}
                    /\ registry[a] # None => registry[a].card \in strays[a] \cup {None, registry[a].url}
                    /\ registry[a] # None /\ health[a] # None =>
                         health[a].agent \in strays[a] \cup {None, registry[a].url}
  BY DEF NoResidue, CardOfEntry, HealthOfAgent
<1>1. \A p \in Active(a) : call[p].pc \notin ConnectSteps \cup DisconnectSteps /\ call[p].op # "disconnect"
  BY CallShape DEF Changing, ShapeOf, Active
<1>2. \A p \in Active(a) : /\ ~WillDropContext(call[p]) /\ ~WillResetHealth(call[p]) /\ ~WillDropLimiter(call[p])
                           /\ call[p].pc \notin {"evictOld", "dropContext", "register"}
  BY <1>1 DEF WillDropContext, WillResetHealth, WillDropLimiter, ConnectSteps, DisconnectSteps
<1> QED
  BY <1>1, <1>2 DEF StoresKnown, ContextKnown, HealthKnown, CardKept, LimiterKnown, HistoryKnown, Entry

\* However the calls overlap, a disconnected alias keeps nothing but what an
\* overlapping call left or could not be deleted.
THEOREM NothingIsLeft == Spec => []NoResidue
  BY StoresAlways, StoresProperties, PTL

\* However the calls overlap, an entry shows a foreign card only when the
\* connect_agent that fetched it overlapped another change of the alias.
THEOREM CardIsOwn == Spec => []CardOfEntry
  BY StoresAlways, StoresProperties, PTL

\* However the calls overlap, an alias has the health of its own agent, or of one
\* that an overlapping call was still speaking to.
THEOREM HealthIsOwn == Spec => []HealthOfAgent
  BY StoresAlways, StoresProperties, PTL

-----------------------------------------------------------------------------
(* Messages and the client cache.                                          *)

\* How the calls and the background sends under way are marked when a call starts.
LEMMA MarksAtStart ==
  ASSUME TypeOK, Shape, NEW p \in Calls, NEW c \in Call, ShapeOf(c), Begins(p, c), NEW a \in Aliases
  PROVE  /\ \A q \in Calls \ {p} : a \in call[q].changed => a \in call'[q].changed
         /\ \A b \in background' : \E d \in background :
              /\ b.alias = d.alias /\ b.url = d.url /\ b.client = d.client /\ b.ctx = d.ctx
              /\ a \in d.changed => a \in b.changed
         /\ c.op \in ChangeOps /\ c.alias = a =>
              /\ \A q \in Calls \ {p} : Uses(call[q]) => a \in call'[q].changed
              /\ \A b \in background' : a \in b.changed
         /\ Uses(c) /\ a \notin call'[p].changed => ~Changing(a)
<1>0. \A q \in Calls : call[q] \in Call
  BY DEF TypeOK
<1>1. CASE c.op \in ChangeOps
  <2>1. BeginChange(p, c)
    BY <1>1 DEF Begins, BeginsConnect, BeginsDisconnect, BeginsUse, Uses, ChangeOps
  <2>2. ASSUME NEW q \in Calls \ {p}
        PROVE  /\ a \in call[q].changed => a \in call'[q].changed
               /\ c.alias = a /\ Uses(call[q]) => a \in call'[q].changed
    <3>1. CASE call[q].op \in {"none", "connect", "disconnect"}
      BY <2>1, <3>1 DEF BeginChange, Uses
    <3>2. CASE call[q].op \notin {"none", "connect", "disconnect"}
      <4>1. call'[q] = [call[q] EXCEPT !.changed = @ \cup {c.alias}]
        BY <2>1, <3>2 DEF BeginChange
      <4> QED
        BY <1>0, <4>1 DEF Call
    <3> QED
      BY <3>1, <3>2
  <2>3. ASSUME NEW b \in background'
        PROVE  \E d \in background :
                 /\ b.alias = d.alias /\ b.url = d.url /\ b.client = d.client /\ b.ctx = d.ctx
                 /\ a \in d.changed => a \in b.changed
                 /\ c.alias = a => a \in b.changed
    <3>1. PICK d \in background : b = [d EXCEPT !.changed = @ \cup {c.alias}]
      BY <2>1 DEF BeginChange
    <3>2. d \in Background
      BY DEF TypeOK
    <3> QED
      BY <3>1, <3>2 DEF Background
  <2> QED
    BY <1>1, <2>2, <2>3 DEF Uses, ChangeOps
<1>2. CASE Uses(c)
  <2>1. BeginUse(p, c)
    BY <1>2 DEF Begins, BeginsConnect, BeginsDisconnect, BeginsUse, Uses
  <2>2. call'[p] = [c EXCEPT !.changed = {e \in Aliases : Changing(e)}]
    BY <2>1, UseBegins
  <2>3. call'[p].changed = {e \in Aliases : Changing(e)}
    BY <2>2 DEF Call
  <2> QED
    BY <1>2, <2>1, <2>3, UseBegins DEF Uses, ChangeOps
<1> QED
  BY <1>1, <1>2 DEF Begins, BeginsConnect, BeginsDisconnect, BeginsUse, ChangeOps

\* A change of a that starts marks every message, and will evict the client that a
\* is using.
LEMMA MessagesAtChange ==
  ASSUME TypeOK, Shape, NEW p \in Calls, NEW c \in Call, ShapeOf(c), Begins(p, c), NEW a \in Aliases,
         c.op \in ChangeOps, c.alias = a, Joined(p, c, a), CacheSuits(a), UNCHANGED clients
  PROVE  MessagesKnown(a)'
<1>1. ASSUME NEW q \in Calls
      PROVE  CallKept(q, a)'
  <2>1. Alike(c, call'[p]) /\ \A r \in Calls \ {p} : Alike(call[r], call'[r])
    BY CallsAfterStart
  <2> QED
    BY <2>1, MarksAtStart DEF CallKept, Uses, Alike, ChangeOps
<1>2. \A b \in background' : SendKept(b, a)'
  BY MarksAtStart DEF SendKept
<1>3. ASSUME NEW u \in Urls, ForAlias(clients'[u], a)
      PROVE  \E q \in Active(a)' : WillEvict(call'[q], u)
  <2>1. CASE Suits(clients[u], a, u)
    <3>1. registry[a] # None /\ registry[a].url = u
      BY <2>1 DEF Suits, Entry
    <3>2. c.pc \in {"evictOld", "evictRemoved"} /\ c.old = u
      BY <3>1 DEF Begins, BeginsConnect, BeginsDisconnect, BeginsUse, Uses, ChangeOps, Entry
    <3> QED
      BY <3>2 DEF WillEvict, Joined, Alike
  <2>2. CASE \E q \in Active(a) : WillEvict(call[q], u)
    BY <2>2 DEF WillEvict, Joined, Alike
  <2> QED
    BY <1>3, <2>1, <2>2 DEF CacheSuits, ForAlias
<1>4. CacheSuits(a)'
  BY <1>3 DEF CacheSuits
<1> QED
  BY <1>1, <1>2, <1>4 DEF MessagesKnown

\* A call that uses an alias, or a change of another one, leaves them as they are.
LEMMA MessagesAtOther ==
  ASSUME TypeOK, Shape, NEW p \in Calls, call[p].pc = "idle", NEW c \in Call, ShapeOf(c), Begins(p, c), NEW a \in Aliases,
         ~(c.op \in ChangeOps /\ c.alias = a), MessagesKnown(a), UNCHANGED clients
  PROVE  MessagesKnown(a)'
<1>1. Alike(c, call'[p]) /\ \A r \in Calls \ {p} : Alike(call[r], call'[r])
  BY CallsAfterStart
<1>2. registry'[a] = registry[a] /\ strays[a] \subseteq strays'[a]
  <2>1. CASE Uses(c)
    BY <2>1, StraysOfUse DEF Begins, BeginsConnect, BeginsDisconnect, BeginsUse, Uses
  <2>2. CASE c.op \in ChangeOps
    BY <2>2, StraysOfChange DEF Begins, BeginsConnect, BeginsDisconnect, BeginsUse, Uses, ChangeOps, TypeOK
  <2> QED
    BY <2>1, <2>2 DEF Begins, BeginsConnect, BeginsDisconnect, BeginsUse, ChangeOps
<1>3. IF c.alias = a THEN Joined(p, c, a) ELSE KeptCalls(a)
  BY CallsJoined
<1>4. (Changing(a)' <=> Changing(a)) /\ Active(a) \subseteq Active(a)'
  BY <1>3, ChangingKept DEF Joined, KeptCalls, Changing, Alike, ChangeOps
<1>5. ASSUME NEW q \in Calls
      PROVE  CallKept(q, a)'
  <2>1. CASE q # p
    <3>1. a \in call[q].changed => a \in call'[q].changed
      BY <2>1, MarksAtStart
    <3>2. Alike(call[q], call'[q])
      BY <1>1, <2>1
    <3> QED
      BY <1>2, <1>4, <3>1, <3>2 DEF MessagesKnown, CallKept, Alike, Uses, Suits, Entry
  <2>2. CASE q = p
    <3> SUFFICES ASSUME Uses(call'[p]), a \notin call'[p].changed
                 PROVE  CallKept(p, a)'
      BY <2>2 DEF CallKept
    <3>1. Uses(c)
      BY <1>1 DEF Alike, Uses
    <3>2. ~Changing(a)'
      BY <1>4, <3>1, MarksAtStart
    <3>3. BeginsUse(p, c) /\ c.client = None /\ c.first = None /\ c.ctx = None
      BY <3>1 DEF Begins, BeginsConnect, BeginsDisconnect, Uses
    <3> QED
      BY <1>1, <1>2, <3>2, <3>3, GatewayAssumption DEF BeginsUse, CallKept, Alike, ForAlias, Entry
  <2> QED
    BY <2>1, <2>2
<1>6. ASSUME NEW b \in background'
      PROVE  SendKept(b, a)'
  <2>1. PICK d \in background :
          /\ b.alias = d.alias /\ b.url = d.url /\ b.client = d.client /\ b.ctx = d.ctx
          /\ a \in d.changed => a \in b.changed
    BY MarksAtStart
  <2> QED
    BY <1>2, <1>4, <2>1 DEF MessagesKnown, SendKept, Suits, Entry
<1>7. CacheSuits(a)'
  <2>1. \A q \in Active(a) : Alike(call[q], call'[q])
    BY <1>3 DEF Joined, KeptCalls
  <2> QED
    BY <1>2, <1>4, <2>1 DEF MessagesKnown, CacheSuits, Suits, Entry, WillEvict, Alike
<1> QED
  BY <1>5, <1>6, <1>7 DEF MessagesKnown

\* What a step does to the client cache.
LEMMA ClientSteps ==
  ASSUME NEW p \in Calls, Continue(p)
  PROVE  \/ UNCHANGED clients
         \/ call[p].pc \in {"evictOld", "evictRemoved"} /\ Evict(call[p].old)
         \/ call[p].pc = "evictAuth" /\ Evict(call[p].url)
         \/ \E next \in {"route", "invoke"} : call[p].pc \in {"resolve", "resolveDirect"} /\ Resolve(p, next)
  BY DEF stores, Continue, Step,
         ConnectStep, ConnectEvict, ConnectDropContext, ConnectRegister, ConnectConfigureLimit,
         ConnectSetCard, ConnectResetHealth, DisconnectStep, DisconnectEvict,
         DisconnectDropLimiter, DisconnectDropHealth, DisconnectDropContext,
         DisconnectDropHistory, RequestStep, CheckHealth, CheckLimit, GetContext, ResolveForSend, Route,
         SendAsync, ResolveDirect, ResolveFails, InvokeSucceeds, InvokeUnauthorized, InvokeFails, EvictAuth,
         DirectRecordSuccess, DirectRecordFailure, Poll, DirectSetContext, Stream, StreamSetContext, SetContext,
         StreamRecordSuccess, RecordHistory, PingUpdateHealth, At

\* What a step makes of the context and the clients of its call.
Keeps(p) ==
  /\ call'[p].ctx \in {call[p].ctx, None}
  /\ call'[p].client \in {call[p].client, None} /\ call'[p].first \in {call[p].first, None}

ChoosesContext(p) ==
  /\ call[p].pc = "getContext"
  /\ call'[p].client = call[p].client /\ call'[p].first = call[p].first
  /\ call'[p].ctx \in ExplicitContexts \cup {IF call[p].alias = None THEN None ELSE context[call[p].alias]}

GetsClient(p) ==
  /\ call[p].pc \in {"resolve", "resolveDirect"}
  /\ call'[p].ctx = call[p].ctx
  /\ call'[p].client = clients'[call[p].url] /\ call'[p].first \in {call[p].first, clients'[call[p].url]}

LEMMA CallFields ==
  ASSUME TypeOK, Shape, NEW p \in Calls, Continue(p)
  PROVE  call'[p] = Idle \/ Keeps(p) \/ ChoosesContext(p) \/ GetsClient(p)
<1>0. call[p] \in Call /\ ShapeOf(call[p])
  BY CallShape
<1>1. /\ \A step : Goto(p, step) \/ Answered(p, step) => Keeps(p)
      /\ EvictAuth(p) => Keeps(p)
      /\ Return(p) => call'[p] = Idle
  BY Moves DEF Keeps
<1>2. ASSUME NEW next \in {"route", "invoke"}, call[p].pc \in {"resolve", "resolveDirect"}, Resolve(p, next)
      PROVE  GetsClient(p)
  <2>1. call[p].url \in Urls
    BY <1>0, <1>2 DEF ShapeOf, SendSteps
  <2> QED
    BY <1>0, <1>2, <2>1 DEF Resolve, GetsClient, TypeOK, Call
<1>3. ASSUME GetContext(p)
      PROVE  ChoosesContext(p)
  BY <1>0, <1>3 DEF GetContext, At, ChoosesContext, TypeOK, Call
<1> HIDE DEF Keeps, ChoosesContext, GetsClient
<1>4. CASE ConnectStep(p) \/ DisconnectStep(p)
  BY <1>1, <1>4 DEF ConnectStep, ConnectEvict, ConnectDropContext, ConnectRegister, ConnectConfigureLimit,
      ConnectSetCard, ConnectResetHealth, DisconnectStep, DisconnectEvict,
      DisconnectDropLimiter, DisconnectDropHealth, DisconnectDropContext, DisconnectDropHistory
<1>5. CASE RequestStep(p) \/ PingUpdateHealth(p) \/ SendAsync(p)
  BY <1>1, <1>2, <1>3, <1>5 DEF RequestStep, CheckHealth, CheckLimit, ResolveForSend, Route,
      SendAsync, ResolveDirect, ResolveFails, InvokeSucceeds, InvokeUnauthorized, InvokeFails,
      DirectRecordSuccess, DirectRecordFailure, Poll, DirectSetContext, Stream, StreamSetContext, SetContext,
      StreamRecordSuccess, RecordHistory, PingUpdateHealth, At
<1> QED
  BY <1>4, <1>5 DEF Continue, Step

\* While no change of a is under way, a call that continues leaves its entry.
LEMMA EntryHeld ==
  ASSUME TypeOK, Shape, NEW p \in Calls, Continue(p), NEW a \in Aliases
  PROVE  /\ Changing(a)' => Changing(a)
         /\ ~Changing(a) => registry'[a] = registry[a]
         /\ strays' = strays
<1>1. strays' = strays
  BY Goes
<1>2. CASE call[p].alias # a
  <2>1. KeptCalls(a)
    BY <1>2, CallsContinued
  <2> QED
    BY <1>1, <1>2, <2>1, ChangingKept, Locality
<1>3. CASE call[p].alias = a
  <2>1. Continued(p, a)
    BY <1>3, CallsContinued
  <2>2. Changing(a)' => Changing(a)
    BY <2>1 DEF Continued, Changing, Moved
  <2>3. call[p].op \in ChangeOps => Changing(a)
    BY <1>3 DEF Changing, Active, ChangeOps
  <2>4. Uses(call[p]) \/ call[p].op \in ChangeOps
    <3>1. call[p] # Idle
      BY <1>3, GatewayAssumption DEF Idle
    <3> QED
      BY <3>1, CallShape DEF Uses, ChangeOps, ShapeOf, Call
  <2> QED
    BY <1>1, <1>3, <2>2, <2>3, <2>4, UserSteps
<1> QED
  BY <1>2, <1>3

\* A client that a call builds for a suits the entry of a.
LEMMA NewClientSuits ==
  ASSUME TypeOK, NEW p \in Calls, NEW a \in Aliases, CallKept(p, a), Uses(call[p]), call[p].pc # "ping",
         call[p].url \in Urls, ForAlias(NewClient(call[p]), a)
  PROVE  ~Changing(a) /\ Suits(NewClient(call[p]), a, call[p].url)
<1>1. call[p].alias = a /\ a \notin call[p].changed
  BY DEF ForAlias, NewClient
<1>2. ~Changing(a) /\ Entry(a, call[p].url) /\ registry[a].hdr = call[p].hdr
  BY <1>1, GatewayAssumption DEF CallKept
<1>3. registry[a].card # None => CardKnown(call[p].url)
  BY <1>2 DEF CardKnown, Entry
<1> QED
  BY <1>1, <1>2, <1>3, GatewayAssumption DEF Suits, NewClient

\* The cache.
LEMMA CacheAtStep ==
  ASSUME TypeOK, Shape, NEW p \in Calls, Continue(p), NEW a \in Aliases, CallKept(p, a), CacheSuits(a)
  PROVE  CacheSuits(a)'
<1> SUFFICES ASSUME NEW u \in Urls, ForAlias(clients'[u], a)
             PROVE  \/ ~Changing(a)' /\ registry'[a] = registry[a] /\ Suits(clients'[u], a, u)
                    \/ \E q \in Active(a)' : WillEvict(call'[q], u)
  BY DEF CacheSuits, Suits, Entry, ForAlias
<1>0. call[p] \in Call /\ ShapeOf(call[p])
  BY CallShape
<1>1. ~Changing(a) => ~Changing(a)' /\ registry'[a] = registry[a]
  BY EntryHeld
<1>2. clients'[u] # None
  BY DEF ForAlias
<1>3. CASE clients'[u] = clients[u]
  <2>1. CASE ~Changing(a) /\ Suits(clients[u], a, u)
    BY <1>1, <1>3, <2>1
  <2>2. ASSUME NEW q \in Active(a), WillEvict(call[q], u)
        PROVE  q \in Active(a)' /\ WillEvict(call'[q], u)
    <3>1. q # p
      <4>1. ASSUME q = p
            PROVE  FALSE
        <5>1. call[p].pc \in {"evictOld", "evictRemoved"} /\ call[p].old = u
          BY <2>2, <4>1 DEF WillEvict
        <5>2. Evict(u)
          BY <5>1, ChangeMoves DEF ConnectEvict, DisconnectEvict
        <5> QED
          BY <1>2, <5>2 DEF Evict, TypeOK
      <4> QED
        BY <4>1
    <3>2. call'[q] = call[q]
      BY <3>1, OthersWait DEF Active
    <3> QED
      BY <2>2, <3>2 DEF Active
  <2> QED
    BY <1>3, <2>1, <2>2 DEF CacheSuits, ForAlias
<1>4. CASE clients'[u] # clients[u]
  <2>1. PICK next \in {"route", "invoke"} : call[p].pc \in {"resolve", "resolveDirect"} /\ Resolve(p, next)
    BY <1>2, <1>4, ClientSteps DEF Evict, TypeOK
  <2>2. call[p].url = u /\ clients'[u] = NewClient(call[p])
    BY <1>4, <2>1 DEF Resolve, TypeOK
  <2>3. Uses(call[p])
    BY <1>0, <2>1 DEF ShapeOf, SendSteps, Uses
  <2>4. ~Changing(a) /\ Suits(NewClient(call[p]), a, u)
    BY <2>1, <2>2, <2>3, NewClientSuits
  <2> QED
    BY <1>1, <2>2, <2>4
<1> QED
  BY <1>3, <1>4

\* The calls.
LEMMA CallsAtStep ==
  ASSUME TypeOK, Shape, NEW p \in Calls, Continue(p), NEW a \in Aliases, MessagesKnown(a), ContextKnown(a),
         NEW q \in Calls
  PROVE  CallKept(q, a)'
<1> SUFFICES ASSUME Uses(call'[q]), a \notin call'[q].changed
             PROVE  CallKept(q, a)'
  BY DEF CallKept
<1>1. /\ call'[q].changed = call[q].changed /\ call'[q].op = call[q].op /\ call'[q].alias = call[q].alias
      /\ call'[q].url = call[q].url /\ call'[q].hdr = call[q].hdr
  BY Goes DEF Moved, Uses, Idle
<1>2. Uses(call[q]) /\ a \notin call[q].changed /\ CallKept(q, a) /\ ~Changing(a)
  BY <1>1 DEF MessagesKnown, CallKept, Uses
<1>3. ~Changing(a)' /\ registry'[a] = registry[a] /\ strays' = strays
  BY <1>2, EntryHeld
<1>4. call'[q].pc # "ping" => call[q].pc # "ping"
  <2>1. (TypeOK /\ Shape)'
    BY StepTypes DEF Next
  <2>2. ShapeOf(call[q]) /\ ShapeOf(call'[q]) /\ call'[q] \in Call
    BY <2>1 DEF Shape, TypeOK
  <2>3. call[q].pc = "ping" => call'[q].op = "ping"
    BY <1>1, <2>2 DEF ShapeOf
  <2> QED
    BY <2>2, <2>3 DEF ShapeOf, Call, Idle
<1>5. call[q].alias = a /\ call[q].url # None =>
        Entry(a, call[q].url) /\ (call'[q].pc # "ping" => registry[a].hdr = call[q].hdr)
  BY <1>2, <1>4 DEF CallKept
<1>6. SUFFICES /\ call[q].alias = a /\ call'[q].ctx \in Urls => call'[q].ctx \in strays[a] \cup {call[q].url}
               /\ ForAlias(call'[q].client, a) => Suits(call'[q].client, a, call[q].url)
               /\ ForAlias(call'[q].first, a) => Suits(call'[q].first, a, call[q].url)
  BY <1>1, <1>3, <1>5 DEF CallKept, ForAlias, Suits, Entry
<1>7. /\ call[q].alias = a /\ call[q].ctx \in Urls => call[q].ctx \in strays[a] \cup {call[q].url}
      /\ ForAlias(call[q].client, a) => Suits(call[q].client, a, call[q].url)
      /\ ForAlias(call[q].first, a) => Suits(call[q].first, a, call[q].url)
  BY <1>2 DEF CallKept
<1>8. ~ForAlias(None, a) /\ None \notin Urls
  BY GatewayAssumption DEF ForAlias
<1>9. CASE q # p \/ Keeps(q)
  <2>1. /\ call'[q].ctx \in {call[q].ctx, None}
        /\ call'[q].client \in {call[q].client, None} /\ call'[q].first \in {call[q].first, None}
    BY <1>9, Goes DEF Keeps
  <2> QED
    BY <1>7, <1>8, <2>1
<1>10. CASE q = p /\ ChoosesContext(p)
  <2>1. call[q].alias = a /\ context[a] \in Urls => context[a] \in strays[a] \cup {call[q].url}
    <3>1. \A r \in Active(a) : ~WillDropContext(call[r])
      <4>1. \A r \in Active(a) : call[r].op \notin ChangeOps
        BY <1>2 DEF Changing, ChangeOps
      <4> QED
        BY <4>1, CallShape DEF WillDropContext, ShapeOf, ConnectSteps, DisconnectSteps, Active, ChangeOps
    <3>2. context[a] \in Urls => context[a] \in strays[a] \/ Entry(a, context[a])
      BY <1>8, <3>1 DEF ContextKnown
    <3>3. call[q].url \in Urls
      BY <1>10, CallShape DEF ChoosesContext, ShapeOf, SendSteps
    <3> QED
      BY <1>5, <1>8, <3>2, <3>3 DEF Entry
  <2>2. a # None /\ Urls \cap ExplicitContexts = {}
    BY GatewayAssumption
  <2> QED
    BY <1>7, <1>8, <1>10, <2>1, <2>2 DEF ChoosesContext
<1>11. CASE q = p /\ GetsClient(p)
  <2>1. call[q].url \in Urls
    BY <1>11, CallShape DEF GetsClient, ShapeOf, SendSteps
  <2>2. CacheSuits(a)'
    BY CacheAtStep DEF MessagesKnown
  <2>3. ForAlias(clients'[call[q].url], a) => Suits(clients'[call[q].url], a, call[q].url)
    <3>1. \A r \in Active(a)' : ~WillEvict(call'[r], call[q].url)
      <4>1. \A r \in Active(a)' : call'[r].op \notin ChangeOps
        BY <1>3 DEF Changing, ChangeOps
      <4>2. Shape'
        BY StepTypes DEF Next
      <4>3. \A r \in Active(a)' : ShapeOf(call'[r])
        BY <4>2 DEF Shape, Active
      <4> QED
        BY <4>1, <4>3 DEF WillEvict, ShapeOf, ConnectSteps, DisconnectSteps, ChangeOps
    <3> QED
      BY <1>3, <2>1, <2>2, <3>1 DEF CacheSuits, ForAlias, Suits, Entry
  <2> QED
    BY <1>7, <1>11, <2>3 DEF GetsClient
<1> QED
  BY <1>9, <1>10, <1>11, CallFields DEF Uses, Idle

\* The background sends.
LEMMA SendsAtStep ==
  ASSUME TypeOK, Shape, NEW p \in Calls, Continue(p), NEW a \in Aliases, MessagesKnown(a),
         NEW b \in background'
  PROVE  SendKept(b, a)'
<1>0. ~Changing(a) => ~Changing(a)' /\ registry'[a] = registry[a] /\ strays' = strays
  BY EntryHeld
<1>1. CASE b \in background
  BY <1>0, <1>1 DEF MessagesKnown, SendKept, Suits, Entry
<1>2. CASE b \notin background
  <2>1. SendAsync(p)
    BY <1>2 DEF Continue
  <2>2. /\ b.alias = call[p].alias /\ b.url = call[p].url /\ b.client = call[p].client
        /\ b.ctx = call[p].ctx /\ b.changed = call[p].changed
    BY <1>2, <2>1 DEF SendAsync
  <2>3. CallKept(p, a) /\ Uses(call[p])
    BY <2>1 DEF MessagesKnown, SendAsync, Uses
  <2> QED
    BY <1>0, <2>2, <2>3 DEF CallKept, SendKept, Suits, Entry
<1> QED
  BY <1>1, <1>2

\* Every step keeps what messages and clients know of a so.
LEMMA MessagesStep ==
  ASSUME TypeOK, Shape, [Next]_vars, NEW a \in Aliases, StoresKnown(a), MessagesKnown(a)
  PROVE  MessagesKnown(a)'
<1>1. ASSUME NEW p \in Calls, Start(p)
      PROVE  MessagesKnown(a)'
  <2>1. call[p].pc = "idle" /\ UNCHANGED clients
    BY <1>1, StartShape
  <2>2. PICK c \in Call : ShapeOf(c) /\ Begins(p, c)
    BY <1>1, StartShape
  <2>3. CASE c.op \in ChangeOps /\ c.alias = a
    <3>1. Joined(p, c, a)
      BY <2>1, <2>2, <2>3, CallsJoined
    <3> QED
      BY <2>1, <2>2, <2>3, <3>1, MessagesAtChange DEF MessagesKnown
  <2> QED
    BY <2>1, <2>2, <2>3, MessagesAtOther
<1>2. ASSUME NEW p \in Calls, Continue(p)
      PROVE  MessagesKnown(a)'
  BY <1>2, CallsAtStep, SendsAtStep, CacheAtStep DEF MessagesKnown, StoresKnown
<1>3. ASSUME UNCHANGED <<call, clients, registry, strays>>, background' \subseteq background
      PROVE  MessagesKnown(a)'
  BY <1>3 DEF MessagesKnown, CallKept, SendKept, CacheSuits, Suits, Entry, Changing, Active
<1>4. ASSUME NEW b \in Aliases, ClearHistory(b)
      PROVE  MessagesKnown(a)'
  BY <1>3, <1>4 DEF ClearHistory
<1>5. ASSUME NEW b \in background, BackgroundEnds(b)
      PROVE  MessagesKnown(a)'
  BY <1>3, <1>5 DEF BackgroundEnds, stores
<1>6. CASE UNCHANGED vars
  BY <1>3, <1>6 DEF vars
<1> QED
  BY <1>1, <1>2, <1>4, <1>5, <1>6 DEF Next

LEMMA OverlapInvAlways == Spec => [](TypeOK /\ Shape /\ OverlapInv)
<1>1. Init => \A a \in Aliases : MessagesKnown(a)
  BY DEF Init, Idle, MessagesKnown, CallKept, SendKept, CacheSuits, Uses, ForAlias
<1>2. (\A a \in Aliases : StoresKnown(a)) /\ TypeOK /\ Shape /\ (\A a \in Aliases : MessagesKnown(a)) /\ [Next]_vars
        => \A a \in Aliases : MessagesKnown(a)'
  BY MessagesStep
<1>3. (\A a \in Aliases : MessagesKnown(a)') <=> (\A a \in Aliases : MessagesKnown(a))'
  OBVIOUS
<1>4. (\A a \in Aliases : StoresKnown(a)) /\ (\A a \in Aliases : MessagesKnown(a)) => OverlapInv
  BY DEF OverlapInv
<1> QED
  BY <1>1, <1>2, <1>3, <1>4, StoresAlways, PTL DEF Spec

\* A message and a request know of an alias what a call or a background send does.
LEMMA RequestsSuit ==
  ASSUME TypeOK, Shape, OverlapInv, NEW a \in Aliases
  PROVE  /\ \A m \in Messages : a \notin m.changed /\ m.alias = a /\ m.ctx \in Urls =>
              m.ctx \in strays[a] \cup {m.url}
         /\ \A r \in Requests : a \notin r.changed /\ r.client.alias = a /\ ~r.client.stray =>
              Suits(r.client, a, r.url)
<1>1. \A p \in Calls : CallKept(p, a) /\ call[p] \in Call /\ ShapeOf(call[p])
  BY CallShape DEF OverlapInv, MessagesKnown
<1>2. \A b \in background : SendKept(b, a) /\ b.client \in Client
  BY DEF OverlapInv, MessagesKnown, TypeOK, Background
<1>3. None \notin Client
  BY NoneAssumption
<1>4. ASSUME NEW m \in Messages, a \notin m.changed, m.alias = a, m.ctx \in Urls
      PROVE  m.ctx \in strays[a] \cup {m.url}
  BY <1>1, <1>2, <1>4 DEF Messages, CallKept, SendKept, Uses
<1>5. ASSUME NEW p \in Calls, call[p].pc \in {"invoke", "stream", "poll"}, a \notin Sent(p).changed,
             Sent(p).client.alias = a, ~Sent(p).client.stray
      PROVE  Suits(Sent(p).client, a, Sent(p).url)
  <2>1. Uses(call[p])
    BY <1>1, <1>5 DEF ShapeOf, Uses, SendSteps
  <2>2. /\ Sent(p).url = call[p].url /\ Sent(p).changed = call[p].changed
        /\ Sent(p).client = IF call[p].pc = "poll" THEN call[p].first ELSE call[p].client
    BY <1>1 DEF Sent, At, Call
  <2>3. Sent(p).client \in Client
    BY <1>1, <1>5, <2>2 DEF ShapeOf
  <2> QED
    BY <1>1, <1>3, <1>5, <2>1, <2>2, <2>3 DEF CallKept, ForAlias
<1>6. ASSUME NEW b \in background, a \notin b.changed, b.client.alias = a, ~b.client.stray
      PROVE  Suits(b.client, a, b.url)
  BY <1>2, <1>3, <1>6 DEF SendKept, ForAlias
<1> QED
  BY <1>4, <1>5, <1>6 DEF Requests

\* However the calls overlap, a context goes to no agent that took its alias over,
\* but for those that an overlapping call was still speaking to.
THEOREM ContextStaysHome == Spec => []ContextGoesHome
<1>1. TypeOK /\ Shape /\ OverlapInv => ContextGoesHome
  BY RequestsSuit DEF ContextGoesHome
<1> QED
  BY <1>1, OverlapInvAlways, PTL

\* However the calls overlap and the URLs are shared, a request through a client made
\* for its alias carries the alias's headers, unless the alias changed during the call
\* that makes the request or the one that built the client.
THEOREM HeadersAreApplied == Spec => []HeadersApplied
<1>1. TypeOK /\ Shape /\ OverlapInv => HeadersApplied
  BY RequestsSuit, GatewayAssumption DEF HeadersApplied, Suits, Attached
<1> QED
  BY <1>1, OverlapInvAlways, PTL

\* With the same exceptions, the headers of an alias go to its URL only, also
\* when the request is of another alias or of a background send.
THEOREM HeadersGoNowhereElse == Spec => []HeadersStayHome
<1>1. TypeOK /\ Shape /\ OverlapInv => HeadersStayHome
  BY RequestsSuit DEF HeadersStayHome, Suits, Entry
<1> QED
  BY <1>1, OverlapInvAlways, PTL

\* With the same exceptions, a client in use was built with the card, once the
\* card is known.
THEOREM ClientIsOfCard == Spec => []ClientKnowsCard
<1>1. TypeOK /\ Shape /\ OverlapInv => ClientKnowsCard
  BY RequestsSuit DEF ClientKnowsCard, Suits
<1> QED
  BY <1>1, OverlapInvAlways, PTL
=============================================================================
