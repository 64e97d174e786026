------------------------------- MODULE Tasks -------------------------------
(***************************************************************************)
(* send_message and the task an agent makes of it.  A direct send answers  *)
(* its caller with the outcome, and so does a streaming one; an            *)
(* asynchronous one deposits the outcome in the inbox.  While the task is  *)
(* not settled the call polls it, or listens to its stream, until its      *)
(* deadline if it has one.  Agents move their tasks at any time, and       *)
(* several calls may be about one task.                                    *)
(***************************************************************************)
EXTENDS Naturals, Sequences

CONSTANTS
  Calls,           \* calls of send_message, each made once
  TaskIds,         \* tasks the agent may have
  DefaultLimited,  \* FALSE: gateway.WithPollTimeout was given no positive timeout
  StreamLimited,   \* the same of gateway.WithStreamTimeout
  None

ASSUME TasksAssumption ==
  /\ DefaultLimited \in BOOLEAN /\ StreamLimited \in BOOLEAN
  /\ None \notin TaskIds

VARIABLES
  task,   \* id -> the state of the agent's task, or None
  call,   \* the calls
  inbox   \* call -> the entries it deposited

vars == <<task, call, inbox>>

\* The states of a task that is over, and of one that waits for the client.
Terminal == {"completed", "failed", "canceled", "rejected"}
Interrupted == {"input-required", "auth-required"}

\* "unknown" stands for a state this version of the protocol does not have.
TaskState == Terminal \cup Interrupted \cup {"submitted", "working", "unknown"}

\* What a caller is answered, or an inbox entry says: a task and its state, or
\* a message, or neither; and whether there is an error.
Outcome == [task : TaskIds \cup {None}, state : TaskState \cup {"error", None},
            message : BOOLEAN, error : BOOLEAN]

Call == [pc      : {"idle", "sent", "polling", "streaming", "done"},
         kind    : {"direct", "async", "streaming"},
         inProcess : BOOLEAN,             \* the caller is the host of the gateway, not an MCP client
         limited : BOOLEAN,               \* polling, or the stream, has a deadline
         late    : BOOLEAN,               \* which has passed
         task    : TaskIds \cup {None},   \* the task it continues, then the one it got
         named   : BOOLEAN,               \* the task it got carries its id
         last    : TaskState \cup {None}, \* the latest state of the task received
         whole   : BOOLEAN,               \* a task object ended its stream
         answer  : Outcome \cup {None}]   \* what the caller was answered

ASSUME NoneAssumption == None \notin TaskState \cup Outcome

Idle == [pc |-> "idle", kind |-> "direct", inProcess |-> FALSE, limited |-> FALSE, late |-> FALSE,
         task |-> None, named |-> FALSE, last |-> None, whole |-> FALSE, answer |-> None]

TypeOK ==
  /\ task \in [TaskIds -> TaskState \cup {None}]
  /\ call \in [Calls -> Call]
  /\ inbox \in [Calls -> Seq(Outcome)]

Init ==
  /\ task = [t \in TaskIds |-> None]
  /\ call = [p \in Calls |-> Idle]
  /\ inbox = [p \in Calls |-> <<>>]

At(p, step) == call[p].pc = step

\* The outcomes a client has, answered or in the inbox.
Outcomes(p) == {inbox[p][i] : i \in 1..Len(inbox[p])} \cup ({call[p].answer} \ {None})

\* A client knows a task from an outcome that carries it.
Known(t) == \E p \in Calls : \E o \in Outcomes(p) : o.task = t

-----------------------------------------------------------------------------
(* Task states.                                                            *)

IsTerminalOrInterrupted(s) == s \in Terminal \cup Interrupted

\* Variant of StopsPolling: a canceled task is polled again.
StopsWhenDone(s) == s \in {"completed", "failed"} \cup Interrupted

\* The states pollTaskCompletion returns at; handleTaskResult knows the same.
StopsPolling(s) == s \in (Terminal \ {"rejected"}) \cup Interrupted

\* Variant of MessageOutcome: an entry says what it carries, not how it ended.
MessageEntry(kind) == [task |-> None, state |-> IF kind = "async" THEN "message" ELSE None,
                       message |-> TRUE, error |-> FALSE]

\* An entry has a state even without a task.
MessageOutcome(kind) == [task |-> None, state |-> IF kind = "async" THEN "completed" ELSE None,
                         message |-> TRUE, error |-> FALSE]

ErrorOutcome(kind) == [task |-> None, state |-> IF kind = "async" THEN "error" ELSE None,
                       message |-> FALSE, error |-> TRUE]

\* A handler tells of a failed or canceled task with an error beside the task; a
\* reader of the inbox, and a streaming caller, is told by the state.
TaskOutcome(kind, t, s) == [task |-> t, state |-> s, message |-> FALSE,
                            error |-> kind = "direct" /\ s \in {"failed", "canceled"}]

\* What the caller of c is answered when the handler returns o.  Server.SendMessage
\* answers the error with what came beside it; mcp.AddTool's handler drops the
\* output when there is an error.
AnswerTo(c, o) == IF o.error /\ ~c.inProcess THEN ErrorOutcome(c.kind) ELSE o

\* The call c of p ends with outcome o.
Finish(p, c, o) ==
  IF c.kind = "async"
  THEN /\ inbox' = [inbox EXCEPT ![p] = Append(@, o)]
       /\ call' = [call EXCEPT ![p] = [c EXCEPT !.pc = "done"]]
  ELSE /\ call' = [call EXCEPT ![p] = [c EXCEPT !.pc = "done", !.answer = AnswerTo(c, o)]]
       /\ UNCHANGED inbox

GoOn(p, c, step) == call' = [call EXCEPT ![p] = [c EXCEPT !.pc = step]] /\ UNCHANGED inbox

StartPolling(p, c) == GoOn(p, c, "polling")

\* An event of a stream shows every state of the task in turn: the agent moves on
\* when each stream of the task has delivered the last one (a buffer of one).
Delivered(t) == \A p \in Calls : At(p, "streaming") /\ call[p].task = t => call[p].last = task[t]

-----------------------------------------------------------------------------
(* Calls.                                                                  *)

\* The timeout of a request: none or zero asked for is the server's, a negative
\* one means no deadline.
EffectiveTimeout(asked, default) ==
  CASE asked = "negative" -> FALSE
    [] asked = "positive" -> TRUE
    [] OTHER              -> default

\* Whether polling, or the stream, has a deadline.  A background goroutine polls with
\* the server's timeout, whatever was asked for.
HasDeadline(kind, asked) ==
  CASE kind = "direct"    -> EffectiveTimeout(asked, DefaultLimited)
    [] kind = "async"     -> EffectiveTimeout("omitted", DefaultLimited)
    [] kind = "streaming" -> EffectiveTimeout(asked, StreamLimited)

\* A new message, or one about a task the client knows.  It is streamed if the
\* agent can do that.  Who called matters to a direct send alone: an MCP client, or
\* the program that hosts the gateway, by Server.SendMessage.
Send(p) ==
  /\ At(p, "idle")
  /\ \E kind \in {"direct", "async", "streaming"}, asked \in {"omitted", "zero", "negative", "positive"},
        t \in {u \in TaskIds : Known(u)} \cup {None}, inProcess \in BOOLEAN :
       /\ inProcess => kind = "direct"
       /\ call' = [call EXCEPT ![p] = [Idle EXCEPT !.pc = "sent", !.kind = kind, !.inProcess = inProcess,
                                                   !.limited = HasDeadline(kind, asked), !.task = t]]
  /\ UNCHANGED <<task, inbox>>

Streams(p) == call[p].kind = "streaming" /\ call[p].pc \in {"sent", "streaming"}

Awaits(p) == At(p, "sent") /\ ~Streams(p)

SendFails(p) == Awaits(p) /\ Finish(p, call[p], ErrorOutcome(call[p].kind)) /\ UNCHANGED task

AnswerMessage(p) == Awaits(p) /\ Finish(p, call[p], MessageOutcome(call[p].kind)) /\ UNCHANGED task

\* handleTaskResult of a direct send.
HandleTaskResult(p, c) ==
  CASE StopsPolling(c.last) -> Finish(p, c, TaskOutcome("direct", c.task, c.last))
    [] c.last \in {"submitted", "working"} /\ c.named -> StartPolling(p, c)
    [] OTHER -> Finish(p, c, ErrorOutcome("direct"))

\* backgroundSendAndPoll of an asynchronous one.
HandleAsyncTask(p, c) ==
  IF IsTerminalOrInterrupted(c.last) THEN Finish(p, c, TaskOutcome("async", c.task, c.last))
  ELSE StartPolling(p, c)

\* The message of p makes a new task, or moves the one it continues, to s.
TakesUp(p, t, s) ==
  /\ IF call[p].task = None THEN task[t] = None
     ELSE call[p].task = t /\ task[t] \notin Terminal /\ Delivered(t)
  /\ task' = [task EXCEPT ![t] = s]

\* The agent answers with a task, in whatever state it is by then.
AnswerTask(p) ==
  /\ Awaits(p)
  /\ \E t \in TaskIds, s \in TaskState, named \in BOOLEAN :
       /\ TakesUp(p, t, s)
       /\ call[p].task # None => named
       /\ LET c == [call[p] EXCEPT !.task = t, !.last = s, !.named = named]
          IN  IF c.kind = "async" THEN HandleAsyncTask(p, c) ELSE HandleTaskResult(p, c)

Answer(p) == SendFails(p) \/ AnswerMessage(p) \/ AnswerTask(p)

\* The deadline is looked at before each poll.
MayPoll(p) == At(p, "polling") /\ ~call[p].late

\* Variant of PollSees: the deposit is of the task first received.
PollSeesFirst(p) ==
  /\ MayPoll(p)
  /\ call[p].named
  /\ LET s == task[call[p].task] IN
     IF StopsPolling(s) THEN Finish(p, call[p], TaskOutcome(call[p].kind, call[p].task, call[p].last))
     ELSE UNCHANGED <<call, inbox>>
  /\ UNCHANGED task

PollSees(p) ==
  /\ MayPoll(p)
  /\ call[p].named
  /\ LET s == task[call[p].task]
         c == [call[p] EXCEPT !.last = s] IN
     IF StopsPolling(s) THEN Finish(p, c, TaskOutcome(c.kind, c.task, s))
     ELSE StartPolling(p, c)
  /\ UNCHANGED task

\* Variant of UnfinishedOutcome: what was polled is lost with the error.
LostOutcome(p) == ErrorOutcome(call[p].kind)

\* The latest task object, with the error noted.
UnfinishedOutcome(p) == [TaskOutcome("async", call[p].task, call[p].last) EXCEPT !.error = TRUE]

\* Variant of PollFails: the error is deposited, and the polling goes on.
PollFailsOn(p) ==
  /\ MayPoll(p)
  /\ inbox' = IF call[p].kind = "async" /\ Len(inbox[p]) < 2
              THEN [inbox EXCEPT ![p] = Append(@, UnfinishedOutcome(p))] ELSE inbox
  /\ UNCHANGED <<task, call>>

\* GetTask fails: for an asynchronous send also when the task has no id.
PollFails(p) == MayPoll(p) /\ Finish(p, call[p], UnfinishedOutcome(p)) /\ UNCHANGED task

PollTimeout(p) ==
  /\ At(p, "polling")
  /\ call[p].late
  /\ Finish(p, call[p], UnfinishedOutcome(p))
  /\ UNCHANGED task

\* The MCP client cancels a request; a background goroutine is out of its reach.
CancelRequest(p) ==
  /\ At(p, "polling")
  /\ call[p].kind # "async"
  /\ Finish(p, call[p], UnfinishedOutcome(p))
  /\ UNCHANGED task

\* Variant of TimePasses: the deadline is set anew by every poll.
DeadlineMoves(p) == At(p, "polling") /\ call[p].limited /\ UNCHANGED vars

\* The deadline of p passes, which for a stream runs from the start.
TimePasses(p) ==
  /\ At(p, "polling") \/ Streams(p)
  /\ call[p].limited /\ ~call[p].late
  /\ call' = [call EXCEPT ![p].late = TRUE]
  /\ UNCHANGED <<task, inbox>>

-----------------------------------------------------------------------------
(* Streams: handleStreamingMessage and consumeStream.                      *)

\* Variant of StatusEvent: the stream is read until the agent closes it.
StatusEventGoesOn(p, c) == GoOn(p, c, "streaming")

\* A status update ends the stream when the task is settled; the answer is a task
\* made of what the events said.
StatusEvent(p, c) ==
  IF IsTerminalOrInterrupted(c.last) THEN Finish(p, c, TaskOutcome("streaming", c.task, c.last))
  ELSE GoOn(p, c, "streaming")

\* A task object ends it, whatever its state.
TaskEvent(p, c) == Finish(p, [c EXCEPT !.whole = TRUE], TaskOutcome("streaming", c.task, c.last))

\* The first event: the task, its status, or an artifact, which only names it.
StreamOpens(p) ==
  /\ Streams(p) /\ At(p, "sent")
  /\ \E t \in TaskIds, s \in TaskState :
       /\ TakesUp(p, t, s)
       /\ LET c == [call[p] EXCEPT !.task = t, !.named = TRUE, !.last = s]
          IN  \/ TaskEvent(p, c)
              \/ StatusEvent(p, c)
              \/ GoOn(p, [c EXCEPT !.last = None], "streaming")

\* A later one, of a state the stream has not shown.
StreamEvent(p) ==
  /\ At(p, "streaming")
  /\ call[p].last # task[call[p].task]
  /\ LET c == [call[p] EXCEPT !.last = task[call[p].task]] IN TaskEvent(p, c) \/ StatusEvent(p, c)
  /\ UNCHANGED task

StreamMessage(p) == Streams(p) /\ Finish(p, call[p], MessageOutcome("streaming")) /\ UNCHANGED task

\* No connection, an interruption, an end without a last event, the timeout of
\* the HTTP client, or the client's own cancellation: an error, without the task.
StreamFails(p) == Streams(p) /\ Finish(p, call[p], ErrorOutcome("streaming")) /\ UNCHANGED task

StreamTimeout(p) == call[p].late /\ StreamFails(p)

-----------------------------------------------------------------------------
(* The agent, and cancel_task.                                             *)

AgentMoves(t) ==
  /\ task[t] \notin Terminal \cup {None}
  /\ Delivered(t)
  /\ \E s \in TaskState \ {task[t], "submitted", "unknown"} : task' = [task EXCEPT ![t] = s]
  /\ UNCHANGED <<call, inbox>>

\* The agent may also refuse, and nothing changes.
CancelTask(t) ==
  /\ Known(t) /\ Delivered(t)
  /\ task[t] \notin Terminal
  /\ task' = [task EXCEPT ![t] = "canceled"]
  /\ UNCHANGED <<call, inbox>>

\* Every call has its outcome and every task its end.
Over == (\A p \in Calls : At(p, "done")) /\ UNCHANGED vars

Next ==
  \/ \E p \in Calls :
       \/ Send(p) \/ Answer(p) \/ PollSees(p) \/ PollFails(p) \/ PollTimeout(p)
       \/ CancelRequest(p) \/ TimePasses(p)
       \/ StreamOpens(p) \/ StreamEvent(p) \/ StreamMessage(p) \/ StreamFails(p)
  \/ \E t \in TaskIds : AgentMoves(t) \/ CancelTask(t)
  \/ Over

Spec == Init /\ [][Next]_vars

\* An exchange with the agent ends (a poll that fails ends its call), the poll
\* ticker keeps ticking, a stream delivers its events and time passes.  The agent
\* need not move its task, nor say anything on a stream.
FairSpec ==
  /\ Spec
  /\ \A p \in Calls :
       /\ WF_vars(Answer(p)) /\ WF_vars(PollSees(p)) /\ WF_vars(PollTimeout(p)) /\ WF_vars(TimePasses(p))
       /\ WF_vars(StreamEvent(p)) /\ WF_vars(StreamTimeout(p))

-----------------------------------------------------------------------------
(* Properties.                                                             *)

\* A call has one outcome: the caller's answer or one inbox entry, never both,
\* never two (the returns of backgroundSendAndPoll).
OneOutcome ==
  \A p \in Calls :
    /\ Len(inbox[p]) <= 1
    /\ call[p].kind = "async" => call[p].answer = None
    /\ call[p].kind # "async" => inbox[p] = <<>>
    /\ ~At(p, "done") => Outcomes(p) = {}

\* An outcome without an error is the message or a settled task; and an outcome
\* that calls a task ended gives the end the task really has, whoever else was
\* sending to it, polling it or canceling it.  A stream that a task object ended
\* is no exception to the latter, but to the former: consumeStream takes a task
\* that is only submitted for the outcome.
OutcomeIsSettled ==
  \A p \in Calls : \A o \in Outcomes(p) :
    /\ ~o.error /\ ~o.message /\ ~call[p].whole => IsTerminalOrInterrupted(o.state)
    /\ o.task # None /\ o.state \in Terminal => task[o.task] = o.state

\* An asynchronous send hands everything over in the inbox; of the callers that
\* wait for a direct one, Server.SendMessage is answered output and error together.
HandsOver(c) == c.kind = "async" \/ (c.kind = "direct" /\ c.inProcess)

\* A call that gave up on a task hands the task over with the error, for get_task to
\* take it up later: in the inbox, and in the answer of Server.SendMessage.  Two
\* kinds of call do not: an MCP client that sent directly is answered the error
\* alone (see AnswerTo), although pollTaskCompletion returns the task for its sake,
\* and so is every streaming caller (handleStreamingMessage).
GivenUpIsResumable ==
  \A p \in Calls : \A o \in Outcomes(p) :
    HandsOver(call[p]) /\ call[p].last \in {"submitted", "working"} /\ call[p].named =>
      o.task = call[p].task /\ o.error

\* A call with a deadline ends, even if the agent never settles its task and its
\* stream stays open and silent.
LimitedEnds == \A p \in Calls : call[p].pc # "idle" /\ call[p].limited ~> At(p, "done")

\* Without a deadline too, a call ends after the agent settled its task for good,
\* unless it rejected it.
EndedTaskEndsPolling ==
  \A p \in Calls :
    At(p, "polling") /\ call[p].named /\ task[call[p].task] \in Terminal \ {"rejected"} ~> At(p, "done")

\* A stream shows it all: the call ends after its task is settled, rejected or
\* waiting for the client, however its other states came before it.
SettledTaskEndsStream ==
  \A p \in Calls :
    At(p, "streaming") /\ IsTerminalOrInterrupted(task[call[p].task]) ~> At(p, "done")

\* "pollTaskCompletion polls the agent for task status every 2s until a terminal
\* state is reached or the given timeout elapses."
TerminalEndsPolling ==
  \A p \in Calls :
    At(p, "polling") /\ call[p].named /\ task[call[p].task] \in Terminal ~> At(p, "done")
=============================================================================
