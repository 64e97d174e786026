---------------------------- MODULE TasksProofs ----------------------------
(***************************************************************************)
(* For any number of calls and tasks: a call of send_message has one       *)
(* outcome, the outcome is settled and true of the agent's task, and a     *)
(* call that gives up hands its task over, unless the answer of its kind   *)
(* of call is the error alone.                                             *)
(***************************************************************************)
EXTENDS Tasks, TLAPS

-----------------------------------------------------------------------------
(* The inductive invariant.                                                *)

\* The outcomes in an inbox and an answer: Outcomes, of a call by its parts.
OutcomesOf(c, entries) == {entries[i] : i \in 1..Len(entries)} \cup ({c.answer} \ {None})

\* The last state a call received is the state of its task, once it is terminal.
LastIsTrue(c, tasks) == c.last \in Terminal => c.task \in TaskIds /\ tasks[c.task] = c.last

\* What OutcomeIsSettled and GivenUpIsResumable ask of an outcome o of the call c.
OutcomeOK(c, o, tasks) ==
  /\ ~o.error /\ ~o.message /\ ~c.whole => IsTerminalOrInterrupted(o.state)
  /\ o.task # None /\ o.state \in Terminal => tasks[o.task] = o.state
  /\ HandsOver(c) /\ c.last \in {"submitted", "working"} /\ c.named => o.task = c.task /\ o.error

\* A call that is not done has no outcome, and has received no state before its
\* answer; it polls or listens for a task it got, by its kind.
StepOK(c, entries) ==
  /\ c.pc # "done" => entries = <<>> /\ c.answer = None
  /\ c.pc \in {"idle", "sent"} => c.last = None
  /\ c.pc \in {"polling", "streaming"} => c.task \in TaskIds
  /\ c.pc = "polling" => c.kind # "streaming"
  /\ c.pc = "streaming" => c.kind = "streaming"

CallOK(c, entries, tasks) ==
  /\ StepOK(c, entries)
  /\ LastIsTrue(c, tasks)
  /\ Len(entries) <= 1
  /\ c.kind = "async" => c.answer = None
  /\ c.kind # "async" => entries = <<>>
  /\ \A o \in OutcomesOf(c, entries) : o \in Outcome /\ OutcomeOK(c, o, tasks)

IInv == TypeOK /\ \A p \in Calls : CallOK(call[p], inbox[p], task)

\* A task that is over stays as it ended.
EndsStay == \A t \in TaskIds : task[t] \in Terminal => task'[t] = task[t]

\* A step of the call p: the other calls are left alone, and p's is as it should be.
Steps(p) ==
  /\ TypeOK'
  /\ EndsStay
  /\ \A q \in Calls \ {p} : call'[q] = call[q] /\ inbox'[q] = inbox[q]
  /\ CallOK(call'[p], inbox'[p], task')

-----------------------------------------------------------------------------
(* Operators and steps.                                                    *)

\* Before its end a call has no outcome.
LEMMA NoOutcomes ==
  ASSUME NEW c, c.answer = None
  PROVE  OutcomesOf(c, <<>>) = {}
<1>1. 1..Len(<<>>) = {}
  OBVIOUS
<1>2. {<<>>[i] : i \in 1..Len(<<>>)} = {}
  BY <1>1
<1> QED
  BY <1>2 DEF OutcomesOf

\* The outcomes of each kind are outcomes.
LEMMA OutcomeTypes ==
  /\ \A kind : MessageOutcome(kind) \in Outcome /\ ErrorOutcome(kind) \in Outcome
  /\ \A kind : \A t \in TaskIds, s \in TaskState \cup {None} : TaskOutcome(kind, t, s) \in Outcome
BY DEF MessageOutcome, ErrorOutcome, TaskOutcome, Outcome, TaskState, Terminal

LEMMA TaskOutcomeIs ==
  ASSUME NEW kind, NEW c \in Call, NEW o, o = TaskOutcome(kind, c.task, c.last)
  PROVE  o \in Outcome /\ o.task = c.task /\ o.state = c.last
<1>1. c.task \in TaskIds \cup {None} /\ c.last \in TaskState \cup {None}
  BY DEF Call
<1>2. o \in Outcome
  BY <1>1 DEF TaskOutcome, Outcome
<1>3. TaskOutcome(kind, c.task, c.last).task = c.task
  BY DEF TaskOutcome
<1>4. TaskOutcome(kind, c.task, c.last).state = c.last
  BY DEF TaskOutcome
<1> QED
  BY <1>2, <1>3, <1>4

\* Without an outcome a call ends with exactly the one it is given, in the
\* inbox or as the answer; no other call is touched.
LEMMA Finished ==
  ASSUME TypeOK, NEW p \in Calls, NEW c \in Call, NEW o \in Outcome, NEW tasks,
         inbox[p] = <<>>, c.answer = None, LastIsTrue(c, tasks), OutcomeOK(c, o, tasks),
         Finish(p, c, o)
  PROVE  /\ call' \in [Calls -> Call] /\ inbox' \in [Calls -> Seq(Outcome)]
         /\ \A q \in Calls \ {p} : call'[q] = call[q] /\ inbox'[q] = inbox[q]
         /\ CallOK(call'[p], inbox'[p], tasks)
<1>1. o # None
  BY NoneAssumption
<1>2. CASE c.kind = "async"
  <2> DEFINE d == [c EXCEPT !.pc = "done"]
  <2>1. call' = [call EXCEPT ![p] = d] /\ inbox' = [inbox EXCEPT ![p] = Append(@, o)]
    BY <1>2 DEF Finish
  <2>2. d \in Call /\ d.pc = "done" /\ d.kind = "async" /\ d.answer = None /\ d.last = c.last
        /\ d.task = c.task /\ d.named = c.named /\ d.whole = c.whole /\ d.inProcess = c.inProcess
    BY <1>2 DEF Call
  <2>3. inbox[p] \in Seq(Outcome) /\ inbox \in [Calls -> Seq(Outcome)] /\ call \in [Calls -> Call]
    BY DEF TypeOK
  <2> HIDE DEF d
  <2>4. inbox'[p] = <<o>> /\ call'[p] = d
    BY <2>1, <2>3
  <2>5. call' \in [Calls -> Call] /\ inbox' \in [Calls -> Seq(Outcome)]
    BY <2>1, <2>2, <2>3
  <2>6. \A q \in Calls \ {p} : call'[q] = call[q] /\ inbox'[q] = inbox[q]
    BY <2>1, <2>3
  <2>7. OutcomesOf(d, <<o>>) = {o}
    <3>1. {<<o>>[i] : i \in 1..Len(<<o>>)} = {o}
      OBVIOUS
    <3> QED
      BY <3>1, <2>2 DEF OutcomesOf
  <2>8. OutcomeOK(d, o, tasks) /\ LastIsTrue(d, tasks)
    BY <2>2, <1>2 DEF OutcomeOK, LastIsTrue, HandsOver
  <2>9. CallOK(d, <<o>>, tasks)
    BY <2>2, <2>7, <2>8 DEF CallOK, StepOK
  <2> QED
    BY <2>4, <2>5, <2>6, <2>9
<1>3. CASE c.kind # "async"
  <2> DEFINE r == AnswerTo(c, o)
             d == [c EXCEPT !.pc = "done", !.answer = r]
  <2>1. call' = [call EXCEPT ![p] = d] /\ inbox' = inbox
    BY <1>3 DEF Finish
  <2>2. r \in Outcome /\ r # None /\ OutcomeOK(c, r, tasks)
    <3>1. CASE o.error /\ ~c.inProcess
      <4>1. r = ErrorOutcome(c.kind)
        BY <3>1 DEF AnswerTo
      <4>2. ErrorOutcome(c.kind) \in Outcome
        BY OutcomeTypes
      <4>3. OutcomeOK(c, ErrorOutcome(c.kind), tasks)
        BY <1>3, <3>1 DEF OutcomeOK, ErrorOutcome, HandsOver
      <4> QED
        BY <4>1, <4>2, <4>3, NoneAssumption
    <3>2. CASE ~(o.error /\ ~c.inProcess)
      BY <3>2, <1>1 DEF AnswerTo
    <3> QED
      BY <3>1, <3>2
  <2> HIDE DEF r
  <2>3. d \in Call /\ d.pc = "done" /\ d.kind = c.kind /\ d.answer = r /\ d.last = c.last
        /\ d.task = c.task /\ d.named = c.named /\ d.whole = c.whole /\ d.inProcess = c.inProcess
    BY <2>2 DEF Call
  <2>4. inbox \in [Calls -> Seq(Outcome)] /\ call \in [Calls -> Call]
    BY DEF TypeOK
  <2> HIDE DEF d
  <2>5. inbox'[p] = <<>> /\ call'[p] = d
    BY <2>1, <2>4
  <2>6. call' \in [Calls -> Call] /\ inbox' \in [Calls -> Seq(Outcome)]
    BY <2>1, <2>3, <2>4
  <2>7. \A q \in Calls \ {p} : call'[q] = call[q] /\ inbox'[q] = inbox[q]
    BY <2>1, <2>4
  <2>8. OutcomesOf(d, <<>>) = {r}
    <3>1. 1..Len(<<>>) = {}
      OBVIOUS
    <3>2. {<<>>[i] : i \in 1..Len(<<>>)} = {}
      BY <3>1
    <3> QED
      BY <3>2, <2>2, <2>3 DEF OutcomesOf
  <2>9. OutcomeOK(d, r, tasks) /\ LastIsTrue(d, tasks)
    BY <2>2, <2>3 DEF OutcomeOK, LastIsTrue, HandsOver
  <2>10. CallOK(d, <<>>, tasks)
    BY <2>2, <2>3, <2>8, <2>9, <1>3 DEF CallOK, StepOK
  <2> QED
    BY <2>5, <2>6, <2>7, <2>10
<1> QED
  BY <1>2, <1>3

\* A call that goes on to poll or to listen still has no outcome.
LEMMA WentOn ==
  ASSUME TypeOK, NEW p \in Calls, NEW c \in Call, NEW step \in {"polling", "streaming"}, NEW tasks,
         inbox[p] = <<>>, c.answer = None, c.task \in TaskIds, LastIsTrue(c, tasks),
         step = "streaming" <=> c.kind = "streaming",
         GoOn(p, c, step)
  PROVE  /\ call' \in [Calls -> Call] /\ inbox' \in [Calls -> Seq(Outcome)]
         /\ \A q \in Calls \ {p} : call'[q] = call[q] /\ inbox'[q] = inbox[q]
         /\ CallOK(call'[p], inbox'[p], tasks)
<1> DEFINE d == [c EXCEPT !.pc = step]
<1>1. call' = [call EXCEPT ![p] = d] /\ inbox' = inbox
  BY DEF GoOn
<1>2. d \in Call /\ d.pc = step /\ d.kind = c.kind /\ d.answer = None /\ d.last = c.last
      /\ d.task = c.task
  BY DEF Call
<1>3. inbox \in [Calls -> Seq(Outcome)] /\ call \in [Calls -> Call]
  BY DEF TypeOK
<1> HIDE DEF d
<1>4. inbox'[p] = <<>> /\ call'[p] = d
  BY <1>1, <1>3
<1>5. call' \in [Calls -> Call] /\ inbox' \in [Calls -> Seq(Outcome)]
  BY <1>1, <1>2, <1>3
<1>6. \A q \in Calls \ {p} : call'[q] = call[q] /\ inbox'[q] = inbox[q]
  BY <1>1, <1>3
<1>7. OutcomesOf(d, <<>>) = {}
  BY <1>2, NoOutcomes
<1>8. CallOK(d, <<>>, tasks)
  BY <1>2, <1>7 DEF CallOK, StepOK, LastIsTrue
<1> QED
  BY <1>4, <1>5, <1>6, <1>8

\* What a task's end says of the calls that knew it is not undone later.
LEMMA CallKept ==
  ASSUME NEW c, NEW entries, NEW tasks, NEW newTasks, CallOK(c, entries, tasks),
         \A o \in Outcome : o.task # None => o.task \in TaskIds,
         \A t \in TaskIds : tasks[t] \in Terminal => newTasks[t] = tasks[t]
  PROVE  CallOK(c, entries, newTasks)
<1>1. LastIsTrue(c, newTasks)
  BY DEF CallOK, LastIsTrue
<1>2. ASSUME NEW o \in OutcomesOf(c, entries)
      PROVE  OutcomeOK(c, o, newTasks)
  <2>1. o \in Outcome /\ OutcomeOK(c, o, tasks)
    BY <1>2 DEF CallOK
  <2> QED
    BY <2>1 DEF OutcomeOK
<1> QED
  BY <1>1, <1>2 DEF CallOK

-----------------------------------------------------------------------------
(* The steps of a call.                                                    *)

\* A message of a call makes a task or moves one that is not over, which leaves
\* the ends of tasks as they are (send_message, with and without a task id).
LEMMA TakenUp ==
  ASSUME IInv, NEW p \in Calls, NEW t \in TaskIds, NEW s \in TaskState, TakesUp(p, t, s)
  PROVE  task' \in [TaskIds -> TaskState \cup {None}] /\ task'[t] = s /\ EndsStay
<1>1. task \in [TaskIds -> TaskState \cup {None}]
  BY DEF IInv, TypeOK
<1>2. task' = [task EXCEPT ![t] = s] /\ task[t] \notin Terminal
  BY NoneAssumption DEF TakesUp, TaskState
<1> QED
  BY <1>1, <1>2 DEF EndsStay

\* A call that has not ended, and what it has: nothing yet.
LEMMA Unfinished ==
  ASSUME IInv, NEW p \in Calls, call[p].pc # "done"
  PROVE  /\ TypeOK /\ call[p] \in Call /\ inbox[p] = <<>> /\ call[p].answer = None
         /\ StepOK(call[p], inbox[p]) /\ LastIsTrue(call[p], task)
BY DEF IInv, TypeOK, CallOK, StepOK

\* The start of a send_message call.
LEMMA SendSteps ==
  ASSUME IInv, NEW p \in Calls, Send(p)
  PROVE  Steps(p)
<1>1. PICK kind \in {"direct", "async", "streaming"}, asked \in {"omitted", "zero", "negative", "positive"},
          t \in {u \in TaskIds : Known(u)} \cup {None}, inProcess \in BOOLEAN :
        /\ inProcess => kind = "direct"
        /\ call' = [call EXCEPT ![p] = [Idle EXCEPT !.pc = "sent", !.kind = kind, !.inProcess = inProcess,
                                                    !.limited = HasDeadline(kind, asked), !.task = t]]
  BY DEF Send
<1> DEFINE limited == HasDeadline(kind, asked)
           d == [Idle EXCEPT !.pc = "sent", !.kind = kind, !.inProcess = inProcess, !.limited = limited, !.task = t]
<1>0. limited \in BOOLEAN /\ t \in TaskIds \cup {None}
  BY TasksAssumption DEF HasDeadline, EffectiveTimeout
<1>2. d \in Call /\ d.pc = "sent" /\ d.answer = None /\ d.last = None
  <2>1. Idle \in Call /\ Idle.answer = None /\ Idle.last = None
    BY DEF Idle, Call
  <2> DEFINE e == [Idle EXCEPT !.pc = "sent", !.kind = kind, !.inProcess = inProcess]
  <2>2. e \in Call /\ e.pc = "sent" /\ e.answer = None /\ e.last = None
    BY <2>1 DEF Call
  <2>3. d = [e EXCEPT !.limited = limited, !.task = t]
    OBVIOUS
  <2> HIDE DEF d, e, limited
  <2> QED
    BY <1>0, <2>2, <2>3 DEF Call
<1>3. TypeOK /\ call[p].pc # "done"
  BY DEF Send, At, IInv
<1>4. inbox[p] = <<>> /\ call \in [Calls -> Call]
  BY <1>3, Unfinished DEF TypeOK
<1> HIDE DEF d
<1>5. call' = [call EXCEPT ![p] = d] /\ inbox' = inbox /\ task' = task
  BY <1>1 DEF Send, d
<1>6. CallOK(d, <<>>, task)
  <2>1. OutcomesOf(d, <<>>) = {}
    BY <1>2, NoOutcomes
  <2> QED
    BY <2>1, <1>2, NoneAssumption DEF CallOK, StepOK, LastIsTrue, TaskState
<1> QED
  BY <1>2, <1>3, <1>4, <1>5, <1>6 DEF Steps, EndsStay, TypeOK

\* The exchange ends without a task: an error or a message.
LEMMA AnswerWithoutTask ==
  ASSUME IInv, NEW p \in Calls, SendFails(p) \/ AnswerMessage(p)
  PROVE  Steps(p)
<1>1. call[p].pc = "sent" /\ task' = task
  BY DEF SendFails, AnswerMessage, Awaits, At
<1>2. /\ TypeOK /\ call[p] \in Call /\ inbox[p] = <<>> /\ call[p].answer = None
      /\ call[p].last = None /\ LastIsTrue(call[p], task)
  BY <1>1, Unfinished DEF StepOK
<1>3. PICK o \in Outcome : OutcomeOK(call[p], o, task) /\ Finish(p, call[p], o)
  <2>1. None \notin {"submitted", "working"}
    BY NoneAssumption DEF TaskState
  <2>2. CASE SendFails(p)
    <3>1. OutcomeOK(call[p], ErrorOutcome(call[p].kind), task)
      BY <1>2, <2>1 DEF OutcomeOK, ErrorOutcome
    <3> QED
      BY <2>2, <3>1, OutcomeTypes DEF SendFails
  <2>3. CASE AnswerMessage(p)
    <3>1. OutcomeOK(call[p], MessageOutcome(call[p].kind), task)
      BY <1>2, <2>1 DEF OutcomeOK, MessageOutcome
    <3> QED
      BY <2>3, <3>1, OutcomeTypes DEF AnswerMessage
  <2> QED
    BY <2>2, <2>3
<1>4. /\ call' \in [Calls -> Call] /\ inbox' \in [Calls -> Seq(Outcome)]
      /\ \A q \in Calls \ {p} : call'[q] = call[q] /\ inbox'[q] = inbox[q]
      /\ CallOK(call'[p], inbox'[p], task)
  BY <1>2, <1>3, Finished
<1> QED
  BY <1>1, <1>2, <1>4 DEF Steps, EndsStay, TypeOK

\* The exchange ends with a task (handleTaskResult, backgroundSendAndPoll).
LEMMA AnswerTaskSteps ==
  ASSUME IInv, NEW p \in Calls, AnswerTask(p)
  PROVE  Steps(p)
<1>1. PICK t \in TaskIds, s \in TaskState, named \in BOOLEAN :
        /\ TakesUp(p, t, s)
        /\ LET c == [call[p] EXCEPT !.task = t, !.last = s, !.named = named]
           IN  IF c.kind = "async" THEN HandleAsyncTask(p, c) ELSE HandleTaskResult(p, c)
  BY DEF AnswerTask
<1> DEFINE c == [call[p] EXCEPT !.task = t, !.last = s, !.named = named]
<1>2. call[p].pc = "sent" /\ call[p].kind # "streaming"
  BY DEF AnswerTask, Awaits, Streams, At
<1>3. TypeOK /\ call[p] \in Call /\ inbox[p] = <<>> /\ call[p].answer = None
  BY <1>2, Unfinished
<1>4. c \in Call /\ c.task = t /\ c.last = s /\ c.named = named /\ c.kind = call[p].kind /\ c.answer = None
  BY <1>3 DEF Call
<1>5. task' \in [TaskIds -> TaskState \cup {None}] /\ task'[t] = s /\ EndsStay
  BY <1>1, TakenUp
<1>6. IF c.kind = "async" THEN HandleAsyncTask(p, c) ELSE HandleTaskResult(p, c)
  BY <1>1
<1> HIDE DEF c
<1>7. LastIsTrue(c, task')
  BY <1>4, <1>5 DEF LastIsTrue
<1>8. CASE \E o \in Outcome : OutcomeOK(c, o, task') /\ Finish(p, c, o)
  <2>1. /\ call' \in [Calls -> Call] /\ inbox' \in [Calls -> Seq(Outcome)]
        /\ \A q \in Calls \ {p} : call'[q] = call[q] /\ inbox'[q] = inbox[q]
        /\ CallOK(call'[p], inbox'[p], task')
    BY <1>3, <1>4, <1>7, <1>8, Finished
  <2> QED
    BY <2>1, <1>5 DEF Steps, TypeOK
<1>9. CASE StartPolling(p, c)
  <2>1. /\ call' \in [Calls -> Call] /\ inbox' \in [Calls -> Seq(Outcome)]
        /\ \A q \in Calls \ {p} : call'[q] = call[q] /\ inbox'[q] = inbox[q]
        /\ CallOK(call'[p], inbox'[p], task')
    BY <1>2, <1>3, <1>4, <1>7, <1>9, WentOn DEF StartPolling
  <2> QED
    BY <2>1, <1>5 DEF Steps, TypeOK
<1>10. CASE c.kind = "async"
  <2>1. HandleAsyncTask(p, c)
    BY <1>6, <1>10
  <2>2. CASE IsTerminalOrInterrupted(c.last)
    <3>1. OutcomeOK(c, TaskOutcome("async", t, s), task')
      BY <2>2, <1>4, <1>5 DEF OutcomeOK, TaskOutcome, IsTerminalOrInterrupted, Terminal, Interrupted
    <3> QED
      BY <2>1, <2>2, <3>1, <1>4, <1>8, OutcomeTypes DEF HandleAsyncTask
  <2> QED
    BY <2>1, <2>2, <1>9 DEF HandleAsyncTask
<1>11. CASE c.kind # "async"
  <2>1. HandleTaskResult(p, c)
    BY <1>6, <1>11
  <2>2. CASE StopsPolling(s)
    <3>1. OutcomeOK(c, TaskOutcome("direct", t, s), task')
      BY <2>2, <1>4, <1>5 DEF OutcomeOK, TaskOutcome, StopsPolling, IsTerminalOrInterrupted, Terminal, Interrupted
    <3>2. Finish(p, c, TaskOutcome("direct", t, s))
      <4>1. s \notin {"submitted", "working"}
        BY <2>2 DEF StopsPolling, Terminal, Interrupted
      <4> QED
        BY <4>1, <2>1, <2>2, <1>4 DEF HandleTaskResult
    <3> QED
      BY <3>1, <3>2, <1>8, OutcomeTypes
  <2>3. CASE ~StopsPolling(s) /\ s \in {"submitted", "working"} /\ named
    BY <2>1, <2>3, <1>4, <1>9 DEF HandleTaskResult
  <2>4. CASE ~StopsPolling(s) /\ ~(s \in {"submitted", "working"} /\ named)
    <3>1. OutcomeOK(c, ErrorOutcome("direct"), task')
      BY <2>4, <1>4 DEF OutcomeOK, ErrorOutcome
    <3> QED
      BY <2>1, <2>4, <3>1, <1>4, <1>8, OutcomeTypes DEF HandleTaskResult
  <2> QED
    BY <2>2, <2>3, <2>4
<1> QED
  BY <1>10, <1>11

\* A poll of the task, and the ends of the polling (pollTaskCompletion).
LEMMA PollSeesSteps ==
  ASSUME IInv, NEW p \in Calls, PollSees(p)
  PROVE  Steps(p)
<1> DEFINE s == task[call[p].task]
           c == [call[p] EXCEPT !.last = s]
<1>1. call[p].pc = "polling" /\ call[p].named /\ task' = task
  BY DEF PollSees, MayPoll, At
<1>2. /\ TypeOK /\ call[p] \in Call /\ inbox[p] = <<>> /\ call[p].answer = None
      /\ call[p].task \in TaskIds /\ call[p].kind # "streaming"
  BY <1>1, Unfinished DEF StepOK
<1>3. s \in TaskState \cup {None} /\ (s \in Terminal => s # None)
  BY <1>2, NoneAssumption DEF TypeOK, TaskState
<1>4. /\ c \in Call /\ c.task = call[p].task /\ c.last = s /\ c.named /\ c.kind = call[p].kind
      /\ c.answer = None
  BY <1>1, <1>2, <1>3 DEF Call
<1>5. IF StopsPolling(s) THEN Finish(p, c, TaskOutcome(c.kind, c.task, s)) ELSE StartPolling(p, c)
  BY DEF PollSees
<1>6. s = task[c.task]
  BY <1>4
<1> HIDE DEF c, s
<1>7. LastIsTrue(c, task)
  BY <1>2, <1>4, <1>6 DEF LastIsTrue
<1>8. /\ call' \in [Calls -> Call] /\ inbox' \in [Calls -> Seq(Outcome)]
      /\ \A q \in Calls \ {p} : call'[q] = call[q] /\ inbox'[q] = inbox[q]
      /\ CallOK(call'[p], inbox'[p], task)
  <2>1. CASE StopsPolling(s)
    <3>1. s \in TaskState
      BY <2>1 DEF StopsPolling, TaskState
    <3>2. OutcomeOK(c, TaskOutcome(c.kind, c.task, s), task)
      BY <2>1, <1>4, <1>6 DEF OutcomeOK, TaskOutcome, StopsPolling, IsTerminalOrInterrupted, Terminal, Interrupted
    <3>3. TaskOutcome(c.kind, c.task, s) \in Outcome
      BY <3>1, <1>2, <1>4, OutcomeTypes
    <3> QED
      BY <2>1, <3>2, <3>3, <1>2, <1>4, <1>5, <1>7, Finished
  <2>2. CASE ~StopsPolling(s)
    BY <2>2, <1>2, <1>4, <1>5, <1>7, WentOn DEF StartPolling
  <2> QED
    BY <2>1, <2>2
<1> QED
  BY <1>1, <1>2, <1>8 DEF Steps, EndsStay, TypeOK

\* However the polling is given up, the outcome is the task and its last state.
LEMMA GivesUpSteps ==
  ASSUME IInv, NEW p \in Calls, PollFails(p) \/ PollTimeout(p) \/ CancelRequest(p)
  PROVE  Steps(p)
<1> DEFINE c == call[p]
           o == UnfinishedOutcome(p)
<1>1. c.pc = "polling" /\ task' = task /\ Finish(p, c, o)
  BY DEF PollFails, PollTimeout, CancelRequest, MayPoll, At
<1>2. /\ TypeOK /\ c \in Call /\ inbox[p] = <<>> /\ c.answer = None
      /\ c.task \in TaskIds /\ LastIsTrue(c, task)
  BY <1>1, Unfinished DEF StepOK
<1>3. o \in Outcome /\ o.task = c.task /\ o.state = c.last /\ o.error
  <2> DEFINE r == TaskOutcome("async", c.task, c.last)
  <2>1. r \in Outcome /\ r.task = c.task /\ r.state = c.last
    BY <1>2, TaskOutcomeIs
  <2>2. o = [r EXCEPT !.error = TRUE]
    BY DEF UnfinishedOutcome
  <2> HIDE DEF r, o
  <2> QED
    BY <2>1, <2>2 DEF Outcome
<1> HIDE DEF c, o
<1>4. OutcomeOK(c, o, task)
  BY <1>2, <1>3 DEF OutcomeOK, LastIsTrue
<1>6. /\ call' \in [Calls -> Call] /\ inbox' \in [Calls -> Seq(Outcome)]
      /\ \A q \in Calls \ {p} : call'[q] = call[q] /\ inbox'[q] = inbox[q]
      /\ CallOK(call'[p], inbox'[p], task)
  BY <1>1, <1>2, <1>3, <1>4, Finished
<1> QED
  BY <1>1, <1>2, <1>6 DEF Steps, EndsStay, TypeOK

\* The deadline passes, and nothing else changes.
LEMMA TimeSteps ==
  ASSUME IInv, NEW p \in Calls, TimePasses(p)
  PROVE  Steps(p)
<1> DEFINE d == [call[p] EXCEPT !.late = TRUE]
<1>1. TypeOK /\ call \in [Calls -> Call] /\ call[p] \in Call /\ CallOK(call[p], inbox[p], task)
  BY DEF IInv, TypeOK
<1>2. call' = [call EXCEPT ![p] = d] /\ inbox' = inbox /\ task' = task
  BY <1>1 DEF TimePasses
<1>3. /\ d \in Call /\ d.pc = call[p].pc /\ d.kind = call[p].kind /\ d.task = call[p].task
      /\ d.named = call[p].named /\ d.last = call[p].last /\ d.whole = call[p].whole
      /\ d.answer = call[p].answer /\ d.inProcess = call[p].inProcess
  BY <1>1 DEF Call
<1> HIDE DEF d
<1>4. OutcomesOf(d, inbox[p]) = OutcomesOf(call[p], inbox[p])
  BY <1>3 DEF OutcomesOf
<1>5. \A o : OutcomeOK(d, o, task) <=> OutcomeOK(call[p], o, task)
  BY <1>3 DEF OutcomeOK, HandsOver
<1>6. CallOK(d, inbox[p], task)
  BY <1>1, <1>3, <1>4, <1>5 DEF CallOK, StepOK, LastIsTrue
<1> QED
  BY <1>1, <1>2, <1>3, <1>6 DEF Steps, EndsStay, TypeOK

-----------------------------------------------------------------------------
(* The steps of a stream (handleStreamingMessage and consumeStream).       *)

\* A status or a task object, of the task as it is: the stream ends or goes on.
LEMMA EventSteps ==
  ASSUME TypeOK, NEW p \in Calls, NEW c \in Call, NEW tasks,
         inbox[p] = <<>>, c.answer = None, c.kind = "streaming", c.task \in TaskIds,
         tasks[c.task] = c.last,
         TaskEvent(p, c) \/ StatusEvent(p, c)
  PROVE  /\ call' \in [Calls -> Call] /\ inbox' \in [Calls -> Seq(Outcome)]
         /\ \A q \in Calls \ {p} : call'[q] = call[q] /\ inbox'[q] = inbox[q]
         /\ CallOK(call'[p], inbox'[p], tasks)
<1> DEFINE o == TaskOutcome("streaming", c.task, c.last)
           d == [c EXCEPT !.whole = TRUE]
<1>1. o \in Outcome /\ o.task = c.task /\ o.state = c.last
  BY TaskOutcomeIs
<1>2. d \in Call /\ d.answer = None /\ d.kind = "streaming" /\ d.task = c.task /\ d.last = c.last /\ d.whole
  BY DEF Call
<1>3. LastIsTrue(c, tasks)
  BY DEF LastIsTrue
<1>4. CASE TaskEvent(p, c)
  <2>1. Finish(p, d, o)
    BY <1>4 DEF TaskEvent
  <2> HIDE DEF o, d
  <2>2. OutcomeOK(d, o, tasks) /\ LastIsTrue(d, tasks)
    BY <1>1, <1>2 DEF OutcomeOK, LastIsTrue, HandsOver
  <2> QED
    BY <2>1, <2>2, <1>1, <1>2, Finished
<1>5. CASE StatusEvent(p, c) /\ IsTerminalOrInterrupted(c.last)
  <2>1. Finish(p, c, o)
    BY <1>5 DEF StatusEvent
  <2> HIDE DEF o, d
  <2>2. OutcomeOK(c, o, tasks)
    BY <1>1, <1>5 DEF OutcomeOK, HandsOver
  <2> QED
    BY <2>1, <2>2, <1>1, <1>3, Finished
<1>6. CASE StatusEvent(p, c) /\ ~IsTerminalOrInterrupted(c.last)
  <2>1. GoOn(p, c, "streaming")
    BY <1>6 DEF StatusEvent
  <2> QED
    BY <2>1, <1>3, WentOn
<1> QED
  BY <1>4, <1>5, <1>6

\* The first event of a stream, which names its task.
LEMMA StreamOpensSteps ==
  ASSUME IInv, NEW p \in Calls, StreamOpens(p)
  PROVE  Steps(p)
<1>1. PICK t \in TaskIds, s \in TaskState :
        /\ TakesUp(p, t, s)
        /\ LET c == [call[p] EXCEPT !.task = t, !.named = TRUE, !.last = s]
           IN  \/ TaskEvent(p, c)
               \/ StatusEvent(p, c)
               \/ GoOn(p, [c EXCEPT !.last = None], "streaming")
  BY DEF StreamOpens
<1> DEFINE c == [call[p] EXCEPT !.task = t, !.named = TRUE, !.last = s]
           d == [c EXCEPT !.last = None]
<1>2. call[p].pc = "sent" /\ call[p].kind = "streaming"
  BY DEF StreamOpens, Streams, At
<1>3. TypeOK /\ call[p] \in Call /\ inbox[p] = <<>> /\ call[p].answer = None
  BY <1>2, Unfinished
<1>4. c \in Call /\ c.task = t /\ c.last = s /\ c.kind = "streaming" /\ c.answer = None
  BY <1>2, <1>3 DEF Call
<1>5. d \in Call /\ d.task = t /\ d.last = None /\ d.kind = "streaming" /\ d.answer = None
  BY <1>2, <1>3 DEF Call
<1>6. task' \in [TaskIds -> TaskState \cup {None}] /\ task'[t] = s /\ EndsStay
  BY <1>1, TakenUp
<1>7. TaskEvent(p, c) \/ StatusEvent(p, c) \/ GoOn(p, d, "streaming")
  BY <1>1
<1> HIDE DEF c, d
<1>8. /\ call' \in [Calls -> Call] /\ inbox' \in [Calls -> Seq(Outcome)]
      /\ \A q \in Calls \ {p} : call'[q] = call[q] /\ inbox'[q] = inbox[q]
      /\ CallOK(call'[p], inbox'[p], task')
  <2>1. CASE TaskEvent(p, c) \/ StatusEvent(p, c)
    BY <2>1, <1>3, <1>4, <1>6, EventSteps
  <2>2. CASE GoOn(p, d, "streaming")
    <3>1. LastIsTrue(d, task')
      BY <1>5, NoneAssumption DEF LastIsTrue, TaskState
    <3> QED
      BY <2>2, <3>1, <1>3, <1>5, WentOn
  <2> QED
    BY <2>1, <2>2, <1>7
<1> QED
  BY <1>6, <1>8 DEF Steps, TypeOK

\* An event of an open stream.
LEMMA StreamEventSteps ==
  ASSUME IInv, NEW p \in Calls, StreamEvent(p)
  PROVE  Steps(p)
<1> DEFINE s == task[call[p].task]
           c == [call[p] EXCEPT !.last = s]
<1>1. call[p].pc = "streaming" /\ task' = task /\ (TaskEvent(p, c) \/ StatusEvent(p, c))
  BY DEF StreamEvent, At
<1>2. /\ TypeOK /\ call[p] \in Call /\ inbox[p] = <<>> /\ call[p].answer = None
      /\ call[p].task \in TaskIds /\ call[p].kind = "streaming" /\ LastIsTrue(call[p], task)
  BY <1>1, Unfinished DEF StepOK
<1>3. s \in TaskState \cup {None}
  BY <1>2 DEF TypeOK
<1>4. c \in Call /\ c.task = call[p].task /\ c.last = s /\ c.kind = "streaming" /\ c.answer = None
  BY <1>2, <1>3 DEF Call
<1>5. s = task[c.task]
  BY <1>4
<1> HIDE DEF c, s
<1>6. /\ call' \in [Calls -> Call] /\ inbox' \in [Calls -> Seq(Outcome)]
      /\ \A q \in Calls \ {p} : call'[q] = call[q] /\ inbox'[q] = inbox[q]
      /\ CallOK(call'[p], inbox'[p], task)
  BY <1>1, <1>2, <1>3, <1>4, <1>5, EventSteps
<1> QED
  BY <1>1, <1>2, <1>6 DEF Steps, EndsStay, TypeOK

\* The agent answers a stream with a message, or the stream breaks.
LEMMA StreamEndsSteps ==
  ASSUME IInv, NEW p \in Calls, StreamMessage(p) \/ StreamFails(p)
  PROVE  Steps(p)
<1> DEFINE c == call[p]
<1>1. c.pc # "done" /\ c.kind = "streaming" /\ task' = task
  BY DEF StreamMessage, StreamFails, Streams
<1>2. TypeOK /\ c \in Call /\ inbox[p] = <<>> /\ c.answer = None /\ LastIsTrue(c, task)
  BY <1>1, Unfinished
<1>3. Finish(p, c, MessageOutcome("streaming")) \/ Finish(p, c, ErrorOutcome("streaming"))
  BY DEF StreamMessage, StreamFails
<1> HIDE DEF c
<1>4. /\ OutcomeOK(c, MessageOutcome("streaming"), task)
      /\ OutcomeOK(c, ErrorOutcome("streaming"), task)
  BY <1>1 DEF OutcomeOK, MessageOutcome, ErrorOutcome, HandsOver
<1>5. /\ call' \in [Calls -> Call] /\ inbox' \in [Calls -> Seq(Outcome)]
      /\ \A q \in Calls \ {p} : call'[q] = call[q] /\ inbox'[q] = inbox[q]
      /\ CallOK(call'[p], inbox'[p], task)
  BY <1>2, <1>3, <1>4, OutcomeTypes, Finished
<1> QED
  BY <1>1, <1>2, <1>5 DEF Steps, EndsStay, TypeOK

-----------------------------------------------------------------------------
(* The invariant.                                                          *)

\* The agent's own steps and its cancellations spare the tasks that are over.
LEMMA AgentSteps ==
  ASSUME IInv, NEW t \in TaskIds, AgentMoves(t) \/ CancelTask(t)
  PROVE  TypeOK' /\ EndsStay /\ UNCHANGED <<call, inbox>>
<1>1. PICK s \in TaskState : task' = [task EXCEPT ![t] = s]
  BY DEF AgentMoves, CancelTask, TaskState, Terminal
<1>2. task[t] \notin Terminal /\ UNCHANGED <<call, inbox>>
  BY DEF AgentMoves, CancelTask
<1>3. TypeOK
  BY DEF IInv
<1> QED
  BY <1>1, <1>2, <1>3 DEF TypeOK, EndsStay

\* At first nobody has called, and there is no task.
LEMMA InitHolds == Init => IInv
<1> SUFFICES ASSUME Init PROVE IInv
  OBVIOUS
<1>1. Idle \in Call /\ Idle.pc = "idle" /\ Idle.answer = None /\ Idle.last = None
  BY DEF Idle, Call
<1>2. TypeOK
  BY <1>1 DEF Init, TypeOK
<1>3. OutcomesOf(Idle, <<>>) = {}
  BY <1>1, NoOutcomes
<1>4. CallOK(Idle, <<>>, task)
  BY <1>1, <1>3, NoneAssumption DEF CallOK, StepOK, LastIsTrue, TaskState
<1>5. \A p \in Calls : call[p] = Idle /\ inbox[p] = <<>>
  BY DEF Init
<1> QED
  BY <1>2, <1>4, <1>5 DEF IInv

\* No step, of a call or of the agent, undoes what the other calls were told.
LEMMA StepHolds == IInv /\ [Next]_vars => IInv'
<1> SUFFICES ASSUME IInv, [Next]_vars PROVE IInv'
  OBVIOUS
<1>1. \A o \in Outcome : o.task # None => o.task \in TaskIds
  BY DEF Outcome
<1>2. ASSUME NEW p \in Calls, Steps(p) PROVE IInv'
  <2>1. ASSUME NEW q \in Calls \ {p} PROVE CallOK(call'[q], inbox'[q], task')
    <3>1. CallOK(call[q], inbox[q], task) /\ call'[q] = call[q] /\ inbox'[q] = inbox[q]
      BY <1>2 DEF IInv, Steps
    <3>2. CallOK(call[q], inbox[q], task')
      BY <3>1, <1>1, <1>2, CallKept DEF Steps, EndsStay
    <3> QED
      BY <3>1, <3>2
  <2> QED
    BY <1>2, <2>1 DEF Steps, IInv
<1>3. ASSUME TypeOK', EndsStay, UNCHANGED <<call, inbox>> PROVE IInv'
  <2>1. \A p \in Calls : CallOK(call[p], inbox[p], task')
    BY <1>1, <1>3, CallKept DEF IInv, EndsStay
  <2> QED
    BY <2>1, <1>3 DEF IInv
<1>4. CASE UNCHANGED vars
  BY <1>4 DEF vars, IInv, TypeOK
<1>5. ASSUME NEW p \in Calls,
             \/ Send(p) \/ Answer(p) \/ PollSees(p) \/ PollFails(p) \/ PollTimeout(p)
             \/ CancelRequest(p) \/ TimePasses(p)
             \/ StreamOpens(p) \/ StreamEvent(p) \/ StreamMessage(p) \/ StreamFails(p)
      PROVE  IInv'
  <2>1. Steps(p)
    BY <1>5, SendSteps, AnswerWithoutTask, AnswerTaskSteps, PollSeesSteps, GivesUpSteps, TimeSteps,
       StreamOpensSteps, StreamEventSteps, StreamEndsSteps DEF Answer
  <2> QED
    BY <2>1, <1>2
<1>6. ASSUME NEW t \in TaskIds, AgentMoves(t) \/ CancelTask(t)
      PROVE  IInv'
  BY <1>3, <1>6, AgentSteps
<1>7. CASE Over
  BY <1>4, <1>7 DEF Over
<1> QED
  BY <1>4, <1>5, <1>6, <1>7 DEF Next

\* The invariant, in every reachable state.
LEMMA Invariant == Spec => []IInv
BY InitHolds, StepHolds, PTL DEF Spec

\* Every variable keeps its type, in every reachable state.
THEOREM TypeCorrect == Spec => []TypeOK
<1>1. IInv => TypeOK
  BY DEF IInv
<1> QED
  BY <1>1, Invariant, PTL

\* A call of send_message has one outcome, answered or in the inbox, once it is
\* over and not before, with any number of calls about any number of tasks.
THEOREM OneOutcomeHolds == Spec => []OneOutcome
<1>1. IInv => OneOutcome
  <2> SUFFICES ASSUME IInv, NEW p \in Calls
               PROVE  /\ Len(inbox[p]) <= 1
                      /\ call[p].kind = "async" => call[p].answer = None
                      /\ call[p].kind # "async" => inbox[p] = <<>>
                      /\ ~At(p, "done") => Outcomes(p) = {}
    BY DEF OneOutcome
  <2>1. CallOK(call[p], inbox[p], task)
    BY DEF IInv
  <2>2. ASSUME ~At(p, "done") PROVE Outcomes(p) = {}
    <3>1. inbox[p] = <<>> /\ call[p].answer = None
      BY <2>1, <2>2 DEF CallOK, StepOK, At
    <3>2. OutcomesOf(call[p], inbox[p]) = {}
      BY <3>1, NoOutcomes
    <3> QED
      BY <3>2 DEF Outcomes, OutcomesOf
  <2> QED
    BY <2>1, <2>2 DEF CallOK
<1> QED
  BY <1>1, Invariant, PTL

\* An outcome without an error is settled, and an outcome that calls a task ended
\* gives the end the task really has, whoever else was moving it.
THEOREM OutcomeSettled == Spec => []OutcomeIsSettled
<1>1. IInv => OutcomeIsSettled
  BY DEF IInv, CallOK, OutcomeOK, OutcomesOf, Outcomes, OutcomeIsSettled
<1> QED
  BY <1>1, Invariant, PTL

\* A call that gave up polling a task it could name hands the task over with the
\* error, in the inbox or in the answer of Server.SendMessage; the MCP client of a
\* direct send, and a streaming caller, are answered the error alone.
THEOREM GivenUpResumable == Spec => []GivenUpIsResumable
<1>1. IInv => GivenUpIsResumable
  BY DEF IInv, CallOK, OutcomeOK, OutcomesOf, Outcomes, GivenUpIsResumable
<1> QED
  BY <1>1, Invariant, PTL
=============================================================================
