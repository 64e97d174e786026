----------------------------- MODULE Broadcast -----------------------------
(***************************************************************************)
(* One call of broadcast_message: a goroutine for each alias of the call,  *)
(* which resolves the agent, asks the health tracker and the rate limiter, *)
(* sends, and reports to a map that becomes the answer, or to the inbox    *)
(* when the call is asynchronous.  The agents stay registered while it     *)
(* runs; Gateway has the calls that overlap a change of registration.      *)
(***************************************************************************)
EXTENDS Integers, Sequences, FiniteSets

CONSTANTS
  Aliases,     \* aliases that a client may name
  Registered,  \* those with a registered agent
  Streaming,   \* those whose card announces streaming
  Lists,       \* lists of aliases that a client may broadcast to
  MaxAliases,  \* the longest list that is accepted, 20 in the code
  Burst,       \* size of each agent's token bucket
  MaxRefills,  \* bound: tokens an agent's bucket gains while the call runs
  Threshold,   \* failures in a row that make an agent unhealthy
  None

ASSUME BroadcastAssumption ==
  /\ Registered \subseteq Aliases /\ Streaming \subseteq Registered
  /\ MaxAliases \in Nat
  /\ \A list \in Lists : list \in Seq(Aliases) /\ Len(list) \in 1..MaxAliases
  /\ Burst \in Nat \ {0} /\ MaxRefills \in Nat /\ Threshold \in Nat \ {0}

VARIABLES
  input,      \* the client's request: aliases, async, and whether the goroutines
              \* share a metadata map into which the caller card goes
  request,    \* how far the call is
  next,       \* the position in the list that an asynchronous call dispatches
  cancelled,  \* whether the context of the request has ended
  job,        \* position in the list -> its goroutine
  keyed,      \* whether the shared metadata has the caller card
  down,       \* whether the runtime killed the process for a racy map access
  tokens,     \* alias -> tokens in its bucket; a reservation may overdraw it
  refills,    \* alias -> tokens gained so far
  failures,   \* alias -> failures in a row
  results,    \* alias -> what the call knows of it (outcomes, results)
  answer,     \* alias -> what the client is told, None for no entry
  inbox,      \* the entries deposited
  history     \* alias -> for each interaction recorded, whether it is an error

resources == <<tokens, refills, failures>>
reports == <<results, answer, inbox, history>>
vars == <<input, request, next, cancelled, job, keyed, down, resources, reports>>

Jobs == DOMAIN input.aliases
Alias(i) == input.aliases[i]

\* The status of a broadcastResult.
Status == {"success", "input-required", "auth-required", "error", "skipped"}

\* Those that come with the agent's response.
Responded == {"success", "input-required", "auth-required"}

\* nil is no status.
ASSUME NoneAssumption == None \notin Status \cup {"dispatched"}

\* calls counts how often the message was sent; cause says why an exchange
\* failed until that is on record.
NewJob == [pc |-> "new", status |-> None, calls |-> 0, cause |-> None]

TypeOK ==
  /\ input \in [aliases : Lists, async : BOOLEAN, shared : BOOLEAN]
  /\ request \in {"received", "dispatching", "refusing", "waiting", "answered"}
  /\ next \in 1..Len(input.aliases) + 1
  /\ {cancelled, keyed, down} \subseteq BOOLEAN
  /\ job \in [Jobs -> [pc : {"new", "lookup", "limit", "prepare", "writing", "call",
                             "record", "report", "done"},
                       status : Status \cup {None}, calls : 0..2,
                       cause : {"broken", "refused", "late", "cancelled", None}]]
  /\ tokens \in [Aliases -> -1..Burst]
  /\ refills \in [Aliases -> 0..MaxRefills]
  /\ failures \in [Aliases -> 0..Threshold]
  /\ results \in [Aliases -> Status \cup {"dispatched", None}]
  /\ answer \in [Aliases -> Responded \cup {"error", "dispatched", None}]
  /\ inbox \in Seq([alias : Aliases, state : {"completed", "input-required", "auth-required",
                                              "error", None}])
  /\ history \in [Aliases -> Seq(BOOLEAN)]

Init ==
  /\ input \in [aliases : Lists, async : BOOLEAN, shared : BOOLEAN]
  /\ request = "received" /\ next = 1
  /\ cancelled = FALSE /\ keyed = FALSE /\ down = FALSE
  /\ job = [i \in Jobs |-> NewJob]
  /\ tokens = [a \in Aliases |-> Burst]
  /\ refills = [a \in Aliases |-> 0]
  /\ failures \in [Aliases -> {0, Threshold}] /\ \A a \in Aliases \ Registered : failures[a] = 0
  /\ results = [a \in Aliases |-> None]
  /\ answer = [a \in Aliases |-> None]
  /\ inbox = <<>>
  /\ history = [a \in Aliases |-> <<>>]

Running(step) == ~down /\ request = step

-----------------------------------------------------------------------------
(* The call.                                                               *)

\* fanOut: a goroutine for each position.
FanOut ==
  /\ Running("received") /\ ~input.async
  /\ request' = "waiting"
  /\ job' = [i \in Jobs |-> [NewJob EXCEPT !.pc = "lookup"]]
  /\ UNCHANGED <<input, next, cancelled, keyed, down, resources, reports>>

AllDone == \A i \in Jobs : job[i].pc = "done"

\* Variant of Finished: nobody waits for the goroutines.
SomeDone == \E i \in Jobs : job[i].pc = "done"

\* wg.Wait
Finished == AllDone

\* buildResponse: outcomes without a response are left out.
BuildResponse ==
  /\ Running("waiting") /\ Finished
  /\ request' = "answered"
  /\ answer' = [a \in Aliases |-> IF results[a] \in Responded THEN results[a] ELSE None]
  /\ UNCHANGED <<input, next, cancelled, job, keyed, down, resources, results, inbox, history>>

\* broadcastAsync takes the aliases in turn.
StartDispatching ==
  /\ Running("received") /\ input.async
  /\ request' = "dispatching"
  /\ UNCHANGED <<input, next, cancelled, job, keyed, down, resources, reports>>

Dispatching == Running("dispatching") /\ next \in Jobs

Report(a, status) == results' = [results EXCEPT ![a] = status]

DispatchUnknown ==
  /\ Dispatching /\ Alias(next) \notin Registered
  /\ Report(Alias(next), "error")
  /\ next' = next + 1
  /\ UNCHANGED <<input, request, cancelled, job, keyed, down, resources, answer, inbox, history>>

Take(a) == tokens' = [tokens EXCEPT ![a] = @ - 1]

\* CheckRateLimit reserves a token whether there is one or not ...
DispatchReserve ==
  /\ Dispatching /\ Alias(next) \in Registered
  /\ Take(Alias(next))
  /\ IF tokens[Alias(next)] > 0
     THEN /\ job' = [job EXCEPT ![next].pc = "lookup"]
          /\ Report(Alias(next), "dispatched")
          /\ next' = next + 1 /\ UNCHANGED request
     ELSE request' = "refusing" /\ UNCHANGED <<job, results, next>>
  /\ UNCHANGED <<input, cancelled, keyed, down, refills, failures, answer, inbox, history>>

\* ... and cancels a reservation for which it would have to wait.  The limiter
\* gives the token back, unless the time to wait is over by then.
DispatchRefuse ==
  /\ Running("refusing")
  /\ tokens' = [tokens EXCEPT ![Alias(next)] = IF @ < 0 THEN @ + 1 ELSE @]
  /\ Report(Alias(next), "error")
  /\ next' = next + 1 /\ request' = "dispatching"
  /\ UNCHANGED <<input, cancelled, job, keyed, down, refills, failures, answer, inbox, history>>

AnswerDispatched ==
  /\ Running("dispatching") /\ next \notin Jobs
  /\ request' = "answered"
  /\ answer' = results
  /\ UNCHANGED <<input, next, cancelled, job, keyed, down, resources, results, inbox, history>>

\* The client goes away.  That does not reach the goroutines of an asynchronous
\* call (context.WithoutCancel), nor does their dispatcher look at its context.
Cancel ==
  /\ ~input.async /\ ~cancelled /\ request # "answered"
  /\ cancelled' = TRUE
  /\ UNCHANGED <<input, request, next, job, keyed, down, resources, reports>>

-----------------------------------------------------------------------------
(* A goroutine (broadcastToAgent).                                         *)

At(i, step) == ~down /\ job[i].pc = step

Goto(i, step) == job' = [job EXCEPT ![i].pc = step]

\* The message goes out.
Send(i) == job' = [job EXCEPT ![i].pc = "call", ![i].calls = @ + 1]

\* It returns a result, of which a history entry is made first.
Result(i, status) == job' = [job EXCEPT ![i].pc = "record", ![i].status = status]

NotRegistered(i) ==
  /\ At(i, "lookup") /\ Alias(i) \notin Registered
  /\ Result(i, "error")
  /\ UNCHANGED <<input, request, next, cancelled, keyed, down, resources, reports>>

CheckHealth(i) ==
  /\ At(i, "lookup") /\ Alias(i) \in Registered
  /\ IF failures[Alias(i)] < Threshold THEN Goto(i, "limit") ELSE Result(i, "skipped")
  /\ UNCHANGED <<input, request, next, cancelled, keyed, down, resources, reports>>

\* Variant of Allow: the token is not taken.
AllowFree(i) ==
  /\ At(i, "limit")
  /\ IF tokens[Alias(i)] > 0 THEN Goto(i, "prepare") ELSE Result(i, "error")
  /\ UNCHANGED <<input, request, next, cancelled, keyed, down, resources, reports>>

Allow(i) ==
  /\ At(i, "limit")
  /\ IF tokens[Alias(i)] > 0
     THEN Take(Alias(i)) /\ Goto(i, "prepare")
     ELSE Result(i, "error") /\ UNCHANGED tokens
  /\ UNCHANGED <<input, request, next, cancelled, keyed, down, refills, failures, reports>>

\* The client cannot be resolved, or the message not be built.
PrepareFails(i) ==
  /\ At(i, "prepare")
  /\ Result(i, "error")
  /\ UNCHANGED <<input, request, next, cancelled, keyed, down, resources, reports>>

\* InjectCallerCard looks for its key in the metadata.
Inject(i) ==
  /\ At(i, "prepare")
  /\ IF input.shared /\ ~keyed THEN Goto(i, "writing") ELSE Send(i)
  /\ UNCHANGED <<input, request, next, cancelled, keyed, down, resources, reports>>

WriteCard(i) ==
  /\ At(i, "writing")
  /\ keyed' = TRUE
  /\ Send(i)
  /\ UNCHANGED <<input, request, next, cancelled, down, resources, reports>>

\* A map is accessed while it is being written: nothing may come of it (then the
\* other actions apply), or the runtime notices and kills the process.
Race(i, j) ==
  /\ i # j /\ At(i, "writing") /\ job[j].pc \in {"prepare", "writing", "call"}
  /\ down' = TRUE
  /\ UNCHANGED <<input, request, next, cancelled, job, keyed, resources, reports>>

-----------------------------------------------------------------------------
(* The exchange with the agent.                                            *)

TaskState == {"completed", "failed", "canceled", "rejected", "input-required", "auth-required",
              "working"}

\* handleBroadcastTaskResult
TaskStatus(s) ==
  CASE s = "completed" -> "success"
    [] s \in {"input-required", "auth-required"} -> s
    [] OTHER -> "error"

\* A message, a task in any state, or, directly, something unknown; a stream ends
\* with a status of the first six states or with a task or message too.
AgentAnswers(i) ==
  /\ At(i, "call")
  /\ \/ Result(i, "success")
     \/ \E s \in TaskState : Result(i, TaskStatus(s))
     \/ Alias(i) \notin Streaming /\ Result(i, "error")
  /\ failures' = [failures EXCEPT ![Alias(i)] = 0]
  /\ UNCHANGED <<input, request, next, cancelled, keyed, down, tokens, refills, reports>>

Fails(i, cause, blamed) ==
  /\ job' = [job EXCEPT ![i].pc = "record", ![i].status = "error", ![i].cause = cause]
  /\ LET n == failures[Alias(i)] IN
     failures' = [failures EXCEPT ![Alias(i)] = IF blamed /\ n < Threshold THEN n + 1 ELSE n]
  /\ UNCHANGED <<input, request, next, cancelled, keyed, down, tokens, refills, reports>>

\* The connection breaks, or the stream ends without a result.
Breaks(i) == At(i, "call") /\ Fails(i, "broken", TRUE)

\* Variant of Retry: the second 401 is answered like the first.
RetryAgain(i) ==
  /\ At(i, "call")
  /\ Send(i)
  /\ UNCHANGED <<input, request, next, cancelled, keyed, down, resources, reports>>

\* 401 or 403: once, the client is evicted, resolved and used again ...
Retry(i) ==
  /\ At(i, "call") /\ job[i].calls = 1
  /\ Send(i)
  /\ UNCHANGED <<input, request, next, cancelled, keyed, down, resources, reports>>

\* ... unless it cannot be resolved.
Refuses(i) == At(i, "call") /\ Fails(i, "refused", TRUE)

\* Variant of TimesOut: only a stream has a deadline.
TimesOutStreaming(i) == At(i, "call") /\ Alias(i) \in Streaming /\ Fails(i, "late", TRUE)

\* Each goroutine has its own deadline.
TimesOut(i) == At(i, "call") /\ Fails(i, "late", TRUE)

\* The client's going away ends the exchange, except in the background.  A
\* direct exchange then blames nobody; of a stream's error only its text is
\* classified, which makes it a failure of the agent.
IsCancelled(i) ==
  /\ At(i, "call") /\ cancelled /\ ~input.async
  /\ Fails(i, "cancelled", Alias(i) \in Streaming)

-----------------------------------------------------------------------------
(* Reporting.                                                              *)

\* Variant of IsError: an agent that was skipped is no error.
IsErrorOnly(status) == status = "error"

IsError(status) == status \in {"error", "skipped"}

\* recordBroadcastHistory
Record(i) ==
  /\ At(i, "record")
  /\ job' = [job EXCEPT ![i].pc = "report", ![i].cause = None]
  /\ history' = [history EXCEPT ![Alias(i)] = Append(@, IsError(job[i].status))]
  /\ UNCHANGED <<input, request, next, cancelled, keyed, down, resources, results, answer, inbox>>

\* The last goroutine of an alias wins.
Collect(i) ==
  /\ At(i, "report") /\ ~input.async
  /\ Goto(i, "done")
  /\ Report(Alias(i), job[i].status)
  /\ UNCHANGED <<input, request, next, cancelled, keyed, down, resources, answer, inbox, history>>

\* Variant of Deposited: nothing was answered, so nothing is deposited.
DepositedIfAnswered(i) ==
  IF job[i].status = "skipped" THEN inbox
  ELSE Append(inbox, [alias |-> Alias(i), state |-> "error"])

\* backgroundBroadcastToAgent: the entry of an agent that was skipped has no state.
Deposited(i) ==
  LET s == job[i].status IN
  Append(inbox, [alias |-> Alias(i),
                 state |-> CASE s = "success" -> "completed" [] s = "skipped" -> None [] OTHER -> s])

Deposit(i) ==
  /\ At(i, "report") /\ input.async
  /\ Goto(i, "done")
  /\ inbox' = Deposited(i)
  /\ UNCHANGED <<input, request, next, cancelled, keyed, down, resources, results, answer, history>>

-----------------------------------------------------------------------------
(* Time, and other calls.                                                  *)

Refill(a) ==
  /\ ~down /\ a \in Registered /\ refills[a] < MaxRefills /\ tokens[a] < Burst
  /\ tokens' = [tokens EXCEPT ![a] = @ + 1]
  /\ refills' = [refills EXCEPT ![a] = @ + 1]
  /\ UNCHANGED <<input, request, next, cancelled, job, keyed, down, failures, reports>>

\* A message that is no part of this call is sent to the agent.
OtherSend(a) ==
  /\ ~down /\ a \in Registered /\ tokens[a] > 0
  /\ Take(a)
  /\ UNCHANGED <<input, request, next, cancelled, job, keyed, down, refills, failures, reports>>

\* What the call does on its own, and what the agents do.
Handle ==
  FanOut \/ BuildResponse \/ StartDispatching \/ DispatchUnknown \/ DispatchReserve
  \/ DispatchRefuse \/ AnswerDispatched

Proceed(i) ==
  NotRegistered(i) \/ CheckHealth(i) \/ Allow(i) \/ PrepareFails(i) \/ Inject(i) \/ WriteCard(i)
  \/ TimesOut(i) \/ IsCancelled(i) \/ Record(i) \/ Collect(i) \/ Deposit(i)

AgentActs(i) == AgentAnswers(i) \/ Breaks(i) \/ Retry(i) \/ Refuses(i)

Next ==
  \/ Handle \/ Cancel
  \/ \E i \in Jobs : Proceed(i) \/ AgentActs(i) \/ \E j \in Jobs : Race(i, j)
  \/ \E i \in Jobs : Refill(Alias(i)) \/ OtherSend(Alias(i))

Spec == Init /\ [][Next]_vars

\* Goroutines run on and deadlines come; an agent may never answer.
FairSpec ==
  /\ Spec /\ WF_vars(Handle)
  /\ \A i \in 1..MaxAliases : WF_vars(i \in Jobs /\ Proceed(i))

-----------------------------------------------------------------------------
(* Properties.                                                             *)

JobsOf(a) == {i \in Jobs : Alias(i) = a}

\* The answer of a broadcast that waits has what the agents responded, and that
\* alone: an alias whose goroutines all got a response is in it, with a status that
\* one of them had, and an alias none of whose goroutines got one is left out,
\* without a word on why it failed (see EveryAliasIsAnswered).
ResponsesAreAnswered ==
  request = "answered" /\ ~input.async =>
    \A a \in Aliases :
      LET statuses == {job[i].status : i \in JobsOf(a)} IN
      /\ answer[a] # None => answer[a] \in statuses
      /\ statuses # {} /\ statuses \subseteq Responded => answer[a] # None

\* get_history agrees with the answer: an agent in the answer has an interaction
\* without error, and one with no other interactions is in the answer.
HistoryAgrees ==
  request = "answered" /\ ~input.async =>
    \A a \in Aliases :
      LET errors == {history[a][k] : k \in 1..Len(history[a])} IN
      /\ answer[a] # None => FALSE \in errors
      /\ errors = {FALSE} => answer[a] # None

\* An agent gets no more messages than its bucket had tokens, not counting the
\* repetitions after 401 or 403, whatever else takes tokens meanwhile and however
\* often its alias is in the list; an asynchronous call even pays twice for each
\* (CheckRateLimit and Allow).
AdmittedWithinLimit ==
  \A a \in Registered :
    LET admitted == Cardinality({i \in JobsOf(a) : job[i].calls > 0}) IN
    (IF input.async THEN 2 ELSE 1) * admitted <= Burst + refills[a]

\* The inbox agrees with what was dispatched: each goroutine of an asynchronous
\* call deposits once, under its alias, those of the other kind never; and when all
\* that were dispatched to an alias have ended, the client finds an entry if it was
\* told so, although an alias that comes twice may be told of the other.
DepositsAgree ==
  \A a \in Aliases :
    LET deposited == Cardinality({k \in 1..Len(inbox) : inbox[k].alias = a})
        ended     == {i \in JobsOf(a) : job[i].pc = "done"}
    IN  /\ deposited = IF input.async THEN Cardinality(ended) ELSE 0
        /\ answer[a] = "dispatched" /\ (\A i \in JobsOf(a) : job[i].pc \in {"new", "done"}) => deposited > 0

\* An alias that the client is told was dispatched gets an entry in the inbox,
\* although its agent may be unhealthy, limited or silent, and the client gone.
DispatchedIsDeposited ==
  \A a \in Aliases :
    answer[a] = "dispatched" ~> down \/ \E k \in 1..Len(inbox) : inbox[k].alias = a

\* The call answers, although agents may never do.
CallAnswers == <>(down \/ request = "answered")

\* "Returns per-agent results with success/error status for each": the answer says
\* of every alias in the list how it went.
EveryAliasIsAnswered ==
  request = "answered" => \A i \in Jobs : answer[Alias(i)] # None

\* A client that goes away is not the agent's fault.
CancellingBlamesNobody ==
  [][\A i \in Jobs :
       job[i].cause = None /\ job'[i].cause = "cancelled" => failures'[Alias(i)] = failures[Alias(i)]]_vars

\* Concurrent messages, with the caller card in all of them, are safe.
NoRace == ~down
=============================================================================
