--------------------------- MODULE BroadcastProofs ---------------------------
(***************************************************************************)
(* Proofs about Broadcast, for every list of aliases, every bucket and     *)
(* every threshold: the answer of a broadcast that waits has the responses *)
(* of its agents, the history tells of every goroutine, and the buckets    *)
(* bound the messages sent.                                                *)
(***************************************************************************)
EXTENDS Broadcast, FiniteSetTheorems, TLAPS

-----------------------------------------------------------------------------
(* The inductive invariant.                                                *)

JobRecord == [pc : {"new", "lookup", "limit", "prepare", "writing", "call", "record", "report", "done"},
              status : Status \cup {None}, calls : 0..2,
              cause : {"broken", "refused", "late", "cancelled", None}]

\* Nothing is sent before the call of the agent, and a result has a status.
JobOK(j) ==
  /\ j.pc \in {"new", "lookup", "limit", "prepare", "writing"} => j.calls = 0
  /\ j.pc \in {"record", "report", "done"} => j.status # None

\* How far the call is, and with it its goroutines.
PhaseOK ==
  /\ request \in {"dispatching", "refusing"} => input.async
  /\ request = "waiting" => ~input.async
  /\ request = "refusing" => next \in Jobs
  /\ request = "received" => \A i \in Jobs : job[i].pc = "new"
  /\ input.async /\ request # "answered" => \A i \in Jobs : i >= next => job[i].pc = "new"

\* What the goroutines of a call that waits have reported, and its answer.
CollectedOK ==
  ~input.async =>
    /\ \A a \in Aliases : results[a] # None => \E i \in JobsOf(a) : job[i].pc = "done" /\ job[i].status = results[a]
    /\ \A i \in Jobs : job[i].pc = "done" => results[Alias(i)] # None
    /\ request = "answered" =>
         /\ AllDone
         /\ \A a \in Aliases : answer[a] = IF results[a] \in Responded THEN results[a] ELSE None

\* A call that does not wait only tells what it dispatched.
DispatchedOK == input.async => \A a \in Aliases : results[a] \in {"error", "dispatched", None}

\* The history has what the goroutines recorded.
Recorded(j) == j.pc \in {"report", "done"}

RecordedOK ==
  \A a \in Aliases :
    /\ \A i \in JobsOf(a) : Recorded(job[i]) => \E k \in 1..Len(history[a]) : history[a][k] = IsError(job[i].status)
    /\ \A k \in 1..Len(history[a]) : \E i \in JobsOf(a) : Recorded(job[i]) /\ history[a][k] = IsError(job[i].status)

\* A goroutine that took a token may have sent its message.
Passed(j) == j.pc \in {"prepare", "writing", "call"} \/ j.calls > 0

Dispatched(a) == {i \in JobsOf(a) : input.async /\ job[i].pc # "new"}
Admitted(a) == {i \in JobsOf(a) : Passed(job[i])}

\* A reservation that is being refused.
Refusing(a) == request = "refusing" /\ Alias(next) = a

\* Every token that was taken is accounted for.
Spent(a) == Cardinality(Dispatched(a)) + Cardinality(Admitted(a)) + (IF Refusing(a) THEN 1 ELSE 0)

TokensOK ==
  \A a \in Aliases :
    /\ tokens[a] < 0 => Refusing(a)
    /\ tokens[a] + Spent(a) <= Burst + refills[a]

BroadcastInv ==
  /\ \A i \in Jobs : JobOK(job[i])
  /\ PhaseOK /\ CollectedOK /\ DispatchedOK /\ RecordedOK /\ TokensOK

-----------------------------------------------------------------------------
(* Types.                                                                  *)

\* The goroutines are numbered like the aliases of the list.
LEMMA ListType ==
  ASSUME TypeOK
  PROVE  /\ input.aliases \in Seq(Aliases) /\ Len(input.aliases) \in Nat /\ Jobs = 1..Len(input.aliases)
         /\ \A i \in Jobs : Alias(i) \in Aliases
         /\ input.async \in BOOLEAN /\ next \in Nat
<1>1. input \in [aliases : Lists, async : BOOLEAN, shared : BOOLEAN]
  BY DEF TypeOK
<1>2. input.aliases \in Seq(Aliases)
  BY <1>1, BroadcastAssumption
<1>3. Len(input.aliases) \in Nat /\ Jobs = 1..Len(input.aliases)
  BY <1>2 DEF Jobs
<1>4. \A i \in Jobs : Alias(i) \in Aliases
  BY <1>2, <1>3 DEF Alias
<1>5. next \in Nat
  BY <1>3 DEF TypeOK
<1> QED
  BY <1>1, <1>2, <1>3, <1>4, <1>5

\* The goroutines of the call, and those of an alias, are finitely many.
LEMMA JobsAreFinite ==
  ASSUME TypeOK, NEW S, S \subseteq Jobs
  PROVE  IsFiniteSet(S) /\ Cardinality(S) \in Nat
<1>1. IsFiniteSet(Jobs)
  BY ListType, FS_Interval
<1> QED
  BY <1>1, FS_Subset, FS_CardinalityType

\* What a goroutine does when it goes on.  Until it has a result it may take a
\* token; then it records, and reports to the answer or to the inbox.
Working(i, j) ==
  /\ {job[i].pc, j.pc} \cap {"report", "done"} = {}
  /\ UNCHANGED <<results, inbox, history>>
  /\ \/ tokens' = tokens /\ (Passed(j) => Passed(job[i]))
     \/ Take(Alias(i)) /\ tokens[Alias(i)] > 0

Recording(i, j) ==
  /\ job[i].pc = "record" /\ j.pc = "report" /\ j.status = job[i].status /\ j.calls = job[i].calls
  /\ history' = [history EXCEPT ![Alias(i)] = Append(@, IsError(job[i].status))]
  /\ UNCHANGED <<tokens, results, inbox>>

Reporting(i, j) ==
  /\ job[i].pc = "report" /\ j.pc = "done" /\ j.status = job[i].status /\ j.calls = job[i].calls
  /\ UNCHANGED <<tokens, history>>
  /\ \/ ~input.async /\ Report(Alias(i), job[i].status) /\ UNCHANGED inbox
     \/ input.async /\ UNCHANGED results /\ inbox' = Deposited(i)

GoesOn(i, j) ==
  /\ job' = [job EXCEPT ![i] = j] /\ JobOK(j) /\ job[i].pc # "new" /\ j.pc # "new"
  /\ Working(i, j) \/ Recording(i, j) \/ Reporting(i, j)

\* The record of a job after an update of its step and perhaps another field.
LEMMA JobUpdates ==
  ASSUME TypeOK, NEW i \in Jobs, NEW pc, NEW x
  PROVE  /\ [job EXCEPT ![i].pc = pc] = [job EXCEPT ![i] = [job[i] EXCEPT !.pc = pc]]
         /\ [job EXCEPT ![i].pc = pc, ![i].calls = @ + 1] =
              [job EXCEPT ![i] = [job[i] EXCEPT !.pc = pc, !.calls = @ + 1]]
         /\ [job EXCEPT ![i].pc = pc, ![i].status = x] =
              [job EXCEPT ![i] = [job[i] EXCEPT !.pc = pc, !.status = x]]
         /\ [job EXCEPT ![i].pc = pc, ![i].cause = x] =
              [job EXCEPT ![i] = [job[i] EXCEPT !.pc = pc, !.cause = x]]
BY DEF TypeOK

\* Every step of a goroutine is one of the three.
LEMMA JobStep ==
  ASSUME TypeOK, BroadcastInv, NEW i \in Jobs, Proceed(i) \/ AgentActs(i)
  PROVE  /\ UNCHANGED <<input, request, next, refills, answer>>
         /\ \E j \in JobRecord : GoesOn(i, j)
<1> DEFINE old == job[i]
<1>1. /\ job \in [Jobs -> JobRecord] /\ old \in JobRecord /\ JobOK(old)
      /\ Status \subseteq Status \cup {None} /\ None \notin Status
  BY NoneAssumption DEF TypeOK, JobRecord, BroadcastInv
<1>2. UNCHANGED <<input, request, next, refills, answer>>
  BY DEF Proceed, AgentActs, NotRegistered, CheckHealth, Allow, PrepareFails, Inject, WriteCard, TimesOut,
    IsCancelled, Record, Collect, Deposit, AgentAnswers, Breaks, Retry, Refuses, Fails, reports, resources
<1>3. ASSUME old.pc \in {"lookup", "limit", "prepare", "call"},
             NEW status \in Status, NEW cause \in {"broken", "refused", "late", "cancelled", None},
             \/ Result(i, status)
             \/ job' = [job EXCEPT ![i].pc = "record", ![i].status = status, ![i].cause = cause],
             UNCHANGED <<tokens, results, inbox, history>>
      PROVE  \E j \in JobRecord : GoesOn(i, j)
  <2>1. PICK c \in {cause, old.cause} :
          job' = [job EXCEPT ![i] = [old EXCEPT !.pc = "record", !.status = status, !.cause = c]]
    <3>1. CASE Result(i, status)
      <4>1. job' = [job EXCEPT ![i] = [old EXCEPT !.pc = "record", !.status = status]]
        BY <1>1, <3>1, JobUpdates DEF Result
      <4>2. [old EXCEPT !.pc = "record", !.status = status] =
              [old EXCEPT !.pc = "record", !.status = status, !.cause = old.cause]
        BY <1>1 DEF JobRecord
      <4> QED
        BY <4>1, <4>2
    <3>2. CASE job' = [job EXCEPT ![i].pc = "record", ![i].status = status, ![i].cause = cause]
      BY <1>1, <3>2
    <3> QED
      BY <1>3, <3>1, <3>2
  <2> DEFINE j == [old EXCEPT !.pc = "record", !.status = status, !.cause = c]
  <2>2. /\ j \in JobRecord /\ j.pc = "record" /\ j.status = status /\ j.calls = old.calls
        /\ j.status # None
    BY <1>1, <1>3 DEF JobRecord
  <2> HIDE DEF j
  <2>3. JobOK(j) /\ (Passed(j) => Passed(old))
    BY <2>2 DEF JobOK, Passed
  <2> QED
    BY <1>3, <2>1, <2>2, <2>3 DEF GoesOn, Working, j
<1>4. ASSUME old.pc \in {"lookup", "limit"}, NEW pc \in {"limit", "prepare"}, Goto(i, pc),
             UNCHANGED <<results, inbox, history>>,
             \/ tokens' = tokens /\ pc = "limit"
             \/ Take(Alias(i)) /\ tokens[Alias(i)] > 0
      PROVE  \E j \in JobRecord : GoesOn(i, j)
  <2> DEFINE j == [old EXCEPT !.pc = pc]
  <2>1. j \in JobRecord /\ j.pc = pc /\ j.calls = old.calls
    BY <1>1, <1>4 DEF JobRecord
  <2>2. job' = [job EXCEPT ![i] = j]
    BY <1>4, JobUpdates DEF Goto
  <2> HIDE DEF j
  <2>3. old.calls = 0 /\ JobOK(j) /\ (pc = "limit" => ~Passed(j))
    BY <1>1, <1>4, <2>1 DEF JobOK, Passed
  <2> QED
    BY <1>4, <2>1, <2>2, <2>3 DEF GoesOn, Working
<1>5. ASSUME old.pc = "prepare", Goto(i, "writing"), UNCHANGED <<tokens, results, inbox, history>>
      PROVE  \E j \in JobRecord : GoesOn(i, j)
  <2> DEFINE j == [old EXCEPT !.pc = "writing"]
  <2>1. j \in JobRecord /\ j.pc = "writing" /\ j.calls = old.calls
    BY <1>1 DEF JobRecord
  <2>2. job' = [job EXCEPT ![i] = j]
    BY <1>5, JobUpdates DEF Goto
  <2> HIDE DEF j
  <2>3. JobOK(j) /\ Passed(old)
    BY <1>1, <1>5, <2>1 DEF JobOK, Passed
  <2> QED
    BY <1>5, <2>1, <2>2, <2>3 DEF GoesOn, Working
<1>6. ASSUME old.pc \in {"prepare", "writing", "call"}, old.pc = "call" => old.calls = 1,
             Send(i), UNCHANGED <<tokens, results, inbox, history>>
      PROVE  \E j \in JobRecord : GoesOn(i, j)
  <2> DEFINE j == [old EXCEPT !.pc = "call", !.calls = @ + 1]
  <2>1. old.calls \in {0, 1}
    BY <1>1, <1>6 DEF JobOK
  <2>2. j \in JobRecord /\ j.pc = "call"
    <3>1. old.calls + 1 \in 0..2
      BY <2>1
    <3> QED
      BY <1>1, <3>1 DEF JobRecord
  <2>3. job' = [job EXCEPT ![i] = j]
    BY <1>6, JobUpdates DEF Send
  <2> HIDE DEF j
  <2>4. JobOK(j) /\ Passed(old)
    BY <1>6, <2>2 DEF JobOK, Passed
  <2> QED
    BY <1>6, <2>2, <2>3, <2>4 DEF GoesOn, Working
<1>7. CASE Record(i)
  <2> DEFINE j == [old EXCEPT !.pc = "report", !.cause = None]
  <2>1. j \in JobRecord /\ j.pc = "report" /\ j.status = old.status /\ j.calls = old.calls
    BY <1>1 DEF JobRecord
  <2>2. job' = [job EXCEPT ![i] = j] /\ old.pc = "record"
    BY <1>7, JobUpdates DEF Record, At
  <2> HIDE DEF j
  <2>3. JobOK(j)
    BY <1>1, <2>1, <2>2 DEF JobOK
  <2> QED
    BY <1>7, <2>1, <2>2, <2>3 DEF GoesOn, Recording, Record, resources
<1>8. CASE Collect(i) \/ Deposit(i)
  <2> DEFINE j == [old EXCEPT !.pc = "done"]
  <2>1. j \in JobRecord /\ j.pc = "done" /\ j.status = old.status /\ j.calls = old.calls
    BY <1>1 DEF JobRecord
  <2>2. job' = [job EXCEPT ![i] = j] /\ old.pc = "report"
    BY <1>8, JobUpdates DEF Collect, Deposit, At, Goto
  <2> HIDE DEF j
  <2>3. JobOK(j)
    BY <1>1, <2>1, <2>2 DEF JobOK
  <2> QED
    BY <1>8, <2>1, <2>2, <2>3 DEF GoesOn, Reporting, Collect, Deposit, resources
<1>9. CASE NotRegistered(i) \/ CheckHealth(i) \/ Allow(i) \/ PrepareFails(i) \/ Inject(i) \/ WriteCard(i)
  <2>1. CASE NotRegistered(i) \/ PrepareFails(i)
    BY <1>3, <2>1 DEF NotRegistered, PrepareFails, At, Status, resources, reports
  <2>2. CASE CheckHealth(i)
    BY <1>3, <1>4, <2>2 DEF CheckHealth, At, Status, resources, reports
  <2>3. CASE Allow(i)
    BY <1>3, <1>4, <2>3 DEF Allow, At, Status, reports
  <2>4. CASE Inject(i)
    BY <1>5, <1>6, <2>4 DEF Inject, At, resources, reports
  <2>5. CASE WriteCard(i)
    BY <1>6, <2>5 DEF WriteCard, At, resources, reports
  <2> QED
    BY <1>9, <2>1, <2>2, <2>3, <2>4, <2>5
<1>10. CASE TimesOut(i) \/ IsCancelled(i) \/ Breaks(i) \/ Refuses(i)
  <2>1. PICK cause \in {"broken", "refused", "late", "cancelled", None} :
          job' = [job EXCEPT ![i].pc = "record", ![i].status = "error", ![i].cause = cause]
    BY <1>10 DEF TimesOut, IsCancelled, Breaks, Refuses, Fails
  <2>2. old.pc = "call"
    BY <1>10 DEF TimesOut, IsCancelled, Breaks, Refuses, At
  <2>3. ASSUME NEW c, NEW blamed, Fails(i, c, blamed)
        PROVE  UNCHANGED <<tokens, results, inbox, history>>
    BY <2>3 DEF Fails, reports
  <2>4. UNCHANGED <<tokens, results, inbox, history>>
    <3>1. CASE TimesOut(i) \/ Breaks(i) \/ Refuses(i)
      BY <3>1, <2>3 DEF TimesOut, Breaks, Refuses
    <3>2. CASE IsCancelled(i)
      BY <3>2, <2>3 DEF IsCancelled
    <3> QED
      BY <1>10, <3>1, <3>2
  <2> QED
    BY <1>2, <1>3, <2>1, <2>2, <2>4 DEF Status
<1>11. CASE AgentAnswers(i)
  <2>1. PICK status \in Status : Result(i, status)
    BY <1>11 DEF AgentAnswers, TaskState, TaskStatus, Status
  <2> QED
    BY <1>3, <1>11, <2>1 DEF AgentAnswers, At, reports
<1>12. CASE Retry(i)
  BY <1>6, <1>12 DEF Retry, At, resources, reports
<1> QED
  BY <1>2, <1>7, <1>8, <1>9, <1>10, <1>11, <1>12 DEF Proceed, AgentActs

\* What a goroutine leaves alone, or keeps in its type.
LEMMA JobOthers ==
  ASSUME TypeOK, NEW i \in Jobs, Proceed(i) \/ AgentActs(i)
  PROVE  /\ keyed' \in BOOLEAN /\ UNCHANGED <<cancelled, down>>
         /\ failures' \in [Aliases -> 0..Threshold]
<1>1. keyed' \in BOOLEAN
  <2>1. keyed \in BOOLEAN
    BY DEF TypeOK
  <2> QED
    BY <2>1 DEF Proceed, AgentActs, NotRegistered, CheckHealth, Allow, PrepareFails, Inject, WriteCard, TimesOut,
      IsCancelled, Record, Collect, Deposit, AgentAnswers, Breaks, Retry, Refuses, Fails
<1>2. UNCHANGED <<cancelled, down>>
  BY DEF Proceed, AgentActs, NotRegistered, CheckHealth, Allow, PrepareFails, Inject, WriteCard, TimesOut,
    IsCancelled, Record, Collect, Deposit, AgentAnswers, Breaks, Retry, Refuses, Fails
<1>3. failures' \in [Aliases -> 0..Threshold]
  <2>1. failures \in [Aliases -> 0..Threshold] /\ Threshold \in Nat
    BY BroadcastAssumption DEF TypeOK
  <2>2. ASSUME NEW c, NEW blamed, Fails(i, c, blamed) PROVE failures' \in [Aliases -> 0..Threshold]
    <3> DEFINE n == failures[Alias(i)]
    <3>1. Alias(i) \in Aliases
      BY ListType
    <3>2. PICK m \in {n, n + 1} : (m = n + 1 => n < Threshold) /\ failures' = [failures EXCEPT ![Alias(i)] = m]
      <4>1. failures' = [failures EXCEPT ![Alias(i)] = IF blamed /\ n < Threshold THEN n + 1 ELSE n]
        BY <2>2 DEF Fails
      <4>0. n \in 0..Threshold
        BY <2>1, <3>1
      <4> HIDE DEF n
      <4>2. CASE blamed /\ n < Threshold
        BY <4>1, <4>2
      <4>3. CASE ~(blamed /\ n < Threshold)
        <5>1. failures' = [failures EXCEPT ![Alias(i)] = n]
          BY <4>1, <4>3
        <5>2. n # n + 1
          BY <4>0
        <5> QED
          BY <5>1, <5>2
      <4> QED
        BY <4>2, <4>3
    <3> QED
      BY <2>1, <3>1, <3>2
  <2>3. CASE TimesOut(i) \/ Breaks(i) \/ Refuses(i)
    BY <2>2, <2>3 DEF TimesOut, Breaks, Refuses
  <2>4. CASE IsCancelled(i)
    BY <2>2, <2>4 DEF IsCancelled
  <2>5. CASE AgentAnswers(i)
    <3>1. failures' = [failures EXCEPT ![Alias(i)] = 0]
      BY <2>5 DEF AgentAnswers
    <3>2. 0 \in 0..Threshold
      BY <2>1
    <3> QED
      BY <2>1, <3>1, <3>2
  <2>6. CASE \/ NotRegistered(i) \/ CheckHealth(i) \/ Allow(i) \/ PrepareFails(i) \/ Inject(i) \/ WriteCard(i)
             \/ Record(i) \/ Collect(i) \/ Deposit(i) \/ Retry(i)
    <3>1. UNCHANGED failures
      BY <2>6 DEF NotRegistered, CheckHealth, Allow, PrepareFails, Inject, WriteCard, Record, Collect, Deposit,
        Retry, resources
    <3> QED
      BY <2>1, <3>1
  <2> QED
    BY <2>3, <2>4, <2>5, <2>6 DEF Proceed, AgentActs
<1> QED
  BY <1>1, <1>2, <1>3

\* The types of what a goroutine does change.
LEMMA JobTypes ==
  ASSUME TypeOK, BroadcastInv, NEW i \in Jobs, Proceed(i) \/ AgentActs(i)
  PROVE  TypeOK'
<1>1. PICK j \in JobRecord : GoesOn(i, j)
  BY JobStep
<1>2. UNCHANGED <<input, request, next, refills, answer>>
  BY JobStep
<1>3. /\ keyed' \in BOOLEAN /\ UNCHANGED <<cancelled, down>> /\ failures' \in [Aliases -> 0..Threshold]
  BY JobOthers
<1>4. job' \in [Jobs -> JobRecord] /\ Jobs' = Jobs
  BY <1>1, <1>2 DEF GoesOn, TypeOK, JobRecord, Jobs
<1>5. Alias(i) \in Aliases /\ job[i] \in JobRecord /\ JobOK(job[i])
  BY ListType DEF TypeOK, JobRecord, BroadcastInv
<1>6. tokens' \in [Aliases -> -1..Burst]
  <2>1. tokens' = tokens \/ (Take(Alias(i)) /\ tokens[Alias(i)] > 0)
    BY <1>1 DEF GoesOn, Working, Recording, Reporting
  <2>2. tokens \in [Aliases -> -1..Burst] /\ Burst \in Nat
    BY BroadcastAssumption DEF TypeOK
  <2>3. tokens[Alias(i)] > 0 => tokens[Alias(i)] - 1 \in -1..Burst
    BY <1>5, <2>2
  <2> QED
    BY <1>5, <2>1, <2>2, <2>3 DEF Take
<1>7. results' \in [Aliases -> Status \cup {"dispatched", None}]
  <2>1. results' = results \/ (job[i].pc = "report" /\ Report(Alias(i), job[i].status))
    BY <1>1 DEF GoesOn, Working, Recording, Reporting
  <2>2. job[i].pc = "report" => job[i].status \in Status
    BY <1>5 DEF JobOK, JobRecord
  <2> QED
    BY <1>5, <2>1, <2>2 DEF Report, TypeOK
<1> DEFINE InboxRecord == [alias : Aliases, state : {"completed", "input-required", "auth-required", "error", None}]
<1>8. inbox' \in Seq(InboxRecord)
  <2>1. inbox' = inbox \/ (job[i].pc = "report" /\ inbox' = Deposited(i))
    BY <1>1 DEF GoesOn, Working, Recording, Reporting
  <2>2. ASSUME job[i].pc = "report" PROVE Deposited(i) \in Seq(InboxRecord)
    <3> DEFINE s == job[i].status
               state == CASE s = "success" -> "completed" [] s = "skipped" -> None [] OTHER -> s
    <3>1. s \in {"success", "input-required", "auth-required", "error", "skipped"}
      BY <1>5, <2>2 DEF JobOK, JobRecord, Status
    <3>2. state \in {"completed", "input-required", "auth-required", "error", None}
      BY <3>1
    <3> HIDE DEF state
    <3>3. [alias |-> Alias(i), state |-> state] \in InboxRecord
      BY <1>5, <3>2
    <3>4. inbox \in Seq(InboxRecord)
      BY DEF TypeOK
    <3> HIDE DEF InboxRecord
    <3>5. Append(inbox, [alias |-> Alias(i), state |-> state]) \in Seq(InboxRecord)
      BY <3>3, <3>4
    <3> QED
      BY <3>5 DEF Deposited, state
  <2> QED
    BY <2>1, <2>2 DEF TypeOK
<1>9. history' \in [Aliases -> Seq(BOOLEAN)]
  <2>1. history' = history \/ history' = [history EXCEPT ![Alias(i)] = Append(@, IsError(job[i].status))]
    BY <1>1 DEF GoesOn, Working, Recording, Reporting
  <2>2. IsError(job[i].status) \in BOOLEAN
    BY DEF IsError
  <2>3. history \in [Aliases -> Seq(BOOLEAN)]
    BY DEF TypeOK
  <2>4. Append(history[Alias(i)], IsError(job[i].status)) \in Seq(BOOLEAN)
    BY <1>5, <2>2, <2>3
  <2> QED
    BY <1>5, <2>1, <2>3, <2>4
<1>10. {cancelled, keyed, down}' \subseteq BOOLEAN
  BY <1>3 DEF TypeOK
<1> QED
  BY <1>2, <1>3, <1>4, <1>6, <1>7, <1>8, <1>9, <1>10 DEF TypeOK, JobRecord

-----------------------------------------------------------------------------
(* Buckets.                                                                *)

\* One goroutine more is at most one.
LEMMA OneMore ==
  ASSUME NEW S, IsFiniteSet(S), NEW x, NEW T, T \subseteq S \cup {x}
  PROVE  Cardinality(T) <= Cardinality(S) + 1
<1>1. /\ IsFiniteSet(S \cup {x})
      /\ Cardinality(S \cup {x}) = IF x \in S THEN Cardinality(S) ELSE Cardinality(S) + 1
  BY FS_AddElement
<1>2. Cardinality(T) <= Cardinality(S \cup {x}) /\ Cardinality(T) \in Nat /\ Cardinality(S) \in Nat
  BY <1>1, FS_Subset, FS_CardinalityType
<1> QED
  BY <1>1, <1>2

\* What is spent on an alias, in numbers.
LEMMA SpentType ==
  ASSUME TypeOK, NEW a \in Aliases
  PROVE  /\ IsFiniteSet(Dispatched(a)) /\ Cardinality(Dispatched(a)) \in Nat
         /\ IsFiniteSet(Admitted(a)) /\ Cardinality(Admitted(a)) \in Nat
         /\ tokens[a] \in Int /\ refills[a] \in Int /\ Burst \in Int
<1>1. Dispatched(a) \subseteq Jobs /\ Admitted(a) \subseteq Jobs
  BY DEF Dispatched, Admitted, JobsOf
<1>2. tokens[a] \in Int /\ refills[a] \in Int /\ Burst \in Int
  BY BroadcastAssumption DEF TypeOK
<1> QED
  BY <1>1, <1>2, JobsAreFinite

\* A goroutine that goes on pays for what it takes.
LEMMA JobTokens ==
  ASSUME TypeOK, TokensOK, NEW i \in Jobs, NEW j \in JobRecord, GoesOn(i, j), TypeOK',
         UNCHANGED <<input, request, next, refills>>
  PROVE  TokensOK'
<1> SUFFICES ASSUME NEW a \in Aliases
             PROVE  /\ tokens'[a] < 0 => Refusing(a)'
                    /\ tokens'[a] + Spent(a)' <= Burst + refills'[a]
  BY DEF TokensOK
<1>1. /\ job' = [job EXCEPT ![i] = j] /\ job[i].pc # "new" /\ j.pc # "new"
      /\ JobsOf(a)' = JobsOf(a) /\ job \in [Jobs -> JobRecord] /\ JobsOf(a) \subseteq Jobs
  BY DEF GoesOn, JobsOf, Jobs, Alias, TypeOK, JobRecord
<1>2. Refusing(a)' <=> Refusing(a)
  BY DEF Refusing, Alias
<1>3. Dispatched(a)' = Dispatched(a)
  BY <1>1 DEF Dispatched
<1>4. /\ IsFiniteSet(Admitted(a)) /\ Cardinality(Admitted(a)) \in Nat /\ Cardinality(Dispatched(a)) \in Nat
      /\ tokens[a] \in Int /\ refills[a] \in Int /\ Burst \in Int
      /\ Cardinality(Admitted(a)') \in Nat /\ tokens'[a] \in Int
  <2>1. Admitted(a)' \subseteq Jobs
    BY <1>1 DEF Admitted
  <2>2. Cardinality(Admitted(a)') \in Nat
    BY <2>1, JobsAreFinite
  <2>3. tokens'[a] \in Int
    BY DEF TypeOK
  <2> QED
    BY <2>2, <2>3, SpentType
<1>5. tokens[a] + Spent(a) <= Burst + refills[a] /\ (tokens[a] < 0 => Refusing(a))
  BY DEF TokensOK
<1>6. CASE tokens' = tokens /\ (Passed(j) => Passed(job[i]))
  <2>1. Admitted(a)' \subseteq Admitted(a)
    BY <1>1, <1>6 DEF Admitted
  <2>2. Cardinality(Admitted(a)') <= Cardinality(Admitted(a))
    BY <1>4, <2>1, FS_Subset
  <2> QED
    BY <1>2, <1>3, <1>4, <1>5, <1>6, <2>2 DEF Spent
<1>7. CASE Take(Alias(i)) /\ tokens[Alias(i)] > 0
  <2>1. CASE Alias(i) = a
    <3>1. Admitted(a)' \subseteq Admitted(a) \cup {i}
      BY <1>1 DEF Admitted
    <3>2. Cardinality(Admitted(a)') <= Cardinality(Admitted(a)) + 1
      BY <1>4, <3>1, OneMore
    <3>3. tokens'[a] = tokens[a] - 1 /\ tokens[a] > 0
      BY <1>7, <2>1 DEF Take, TypeOK
    <3> QED
      BY <1>2, <1>3, <1>4, <1>5, <3>2, <3>3 DEF Spent
  <2>2. CASE Alias(i) # a
    <3>1. Admitted(a)' = Admitted(a)
      BY <1>1, <2>2 DEF Admitted, JobsOf
    <3>2. tokens'[a] = tokens[a]
      BY <1>7, <2>2 DEF Take, TypeOK
    <3> QED
      BY <1>2, <1>3, <1>4, <1>5, <3>1, <3>2 DEF Spent
  <2> QED
    BY <2>1, <2>2
<1>8. CASE Recording(i, j) \/ Reporting(i, j)
  BY <1>6, <1>8 DEF Recording, Reporting, Passed
<1> QED
  BY <1>6, <1>7, <1>8 DEF GoesOn, Working

-----------------------------------------------------------------------------
(* The steps of a goroutine keep the invariant.                            *)

\* Whatever a goroutine does next, what it did so far is accounted for.
LEMMA JobKeeps ==
  ASSUME TypeOK, BroadcastInv, NEW i \in Jobs, Proceed(i) \/ AgentActs(i)
  PROVE  BroadcastInv'
<1>1. PICK j \in JobRecord : GoesOn(i, j)
  BY JobStep
<1>2. UNCHANGED <<input, request, next, refills, answer>> /\ TypeOK'
  BY JobStep, JobTypes
<1>3. /\ job' = [job EXCEPT ![i] = j] /\ JobOK(j) /\ job[i].pc # "new" /\ j.pc # "new"
      /\ job \in [Jobs -> JobRecord] /\ Jobs' = Jobs /\ \A k \in Jobs : Alias(k)' = Alias(k)
      /\ \A a \in Aliases : JobsOf(a)' = JobsOf(a) /\ JobsOf(a) \subseteq Jobs
  BY <1>1, <1>2 DEF GoesOn, TypeOK, JobRecord, Jobs, JobsOf, Alias
<1>4. job'[i] = j /\ \A k \in Jobs \ {i} : job'[k] = job[k]
  BY <1>3
<1>5. Alias(i) \in Aliases /\ i \in JobsOf(Alias(i)) /\ IsFiniteSet(Jobs) /\ input.async \in BOOLEAN
  BY ListType, JobsAreFinite DEF JobsOf
<1>6. \A k \in Jobs' : JobOK(job'[k])
  BY <1>3, <1>4 DEF BroadcastInv
<1>7. PhaseOK'
  BY <1>2, <1>3, <1>4 DEF BroadcastInv, PhaseOK
<1>8. TokensOK'
  BY <1>1, <1>2, JobTokens DEF BroadcastInv
<1>9. DispatchedOK'
  BY <1>1, <1>2 DEF BroadcastInv, DispatchedOK, GoesOn, Working, Recording, Reporting
<1>10. CollectedOK'
  <2> SUFFICES ASSUME ~input.async
               PROVE  /\ \A a \in Aliases : results'[a] # None =>
                           \E k \in JobsOf(a)' : job'[k].pc = "done" /\ job'[k].status = results'[a]
                      /\ \A k \in Jobs' : job'[k].pc = "done" => results'[Alias(k)'] # None
                      /\ request' # "answered"
    BY <1>2 DEF CollectedOK
  <2>1. /\ \A a \in Aliases : results[a] # None => \E k \in JobsOf(a) : job[k].pc = "done" /\ job[k].status = results[a]
        /\ \A k \in Jobs : job[k].pc = "done" => results[Alias(k)] # None
        /\ request = "answered" => AllDone
    BY DEF BroadcastInv, CollectedOK
  <2>2. job[i].pc # "done"
    BY <1>1 DEF GoesOn, Working, Recording, Reporting
  <2>3. request' # "answered"
    BY <1>2, <2>1, <2>2 DEF AllDone
  <2>4. CASE results' = results /\ j.pc # "done"
    BY <1>3, <1>4, <2>1, <2>2, <2>3, <2>4
  <2>5. CASE Reporting(i, j)
    <3>1. /\ results' = [results EXCEPT ![Alias(i)] = j.status] /\ j.pc = "done" /\ j.status # None
          /\ results \in [Aliases -> Status \cup {"dispatched", None}]
      BY <1>3, <2>5 DEF Reporting, Report, JobOK, TypeOK
    <3>2. results'[Alias(i)] = j.status /\ \A a \in Aliases \ {Alias(i)} : results'[a] = results[a]
      BY <1>5, <3>1
    <3>3. ASSUME NEW a \in Aliases, results'[a] # None
          PROVE  \E k \in JobsOf(a)' : job'[k].pc = "done" /\ job'[k].status = results'[a]
      <4>1. CASE a = Alias(i)
        BY <1>3, <1>4, <1>5, <3>1, <3>2, <4>1
      <4>2. CASE a # Alias(i)
        BY <1>3, <1>4, <2>1, <2>2, <3>2, <3>3, <4>2
      <4> QED
        BY <4>1, <4>2
    <3>4. ASSUME NEW k \in Jobs, job'[k].pc = "done" PROVE results'[Alias(k)] # None
      BY <1>4, <2>1, <3>1, <3>2, <3>4, ListType
    <3> QED
      BY <1>3, <2>3, <3>3, <3>4
  <2> QED
    BY <1>1, <2>4, <2>5 DEF GoesOn, Working, Recording
<1>11. RecordedOK'
  <2> SUFFICES ASSUME NEW a \in Aliases
               PROVE  /\ \A k \in JobsOf(a) : Recorded(job'[k]) =>
                           \E n \in 1..Len(history'[a]) : history'[a][n] = IsError(job'[k].status)
                      /\ \A n \in 1..Len(history'[a]) :
                           \E k \in JobsOf(a) : Recorded(job'[k]) /\ history'[a][n] = IsError(job'[k].status)
    BY <1>3 DEF RecordedOK
  <2>1. /\ \A k \in JobsOf(a) : Recorded(job[k]) =>
             \E n \in 1..Len(history[a]) : history[a][n] = IsError(job[k].status)
        /\ \A n \in 1..Len(history[a]) :
             \E k \in JobsOf(a) : Recorded(job[k]) /\ history[a][n] = IsError(job[k].status)
        /\ history[a] \in Seq(BOOLEAN) /\ history \in [Aliases -> Seq(BOOLEAN)]
    BY DEF BroadcastInv, RecordedOK, TypeOK
  <2>2. CASE history' = history /\ \A k \in Jobs : (Recorded(job'[k]) <=> Recorded(job[k]))
                                                   /\ (Recorded(job[k]) => job'[k].status = job[k].status)
    <3>1. ASSUME NEW k \in JobsOf(a), Recorded(job'[k])
          PROVE  \E n \in 1..Len(history'[a]) : history'[a][n] = IsError(job'[k].status)
      <4>1. Recorded(job[k]) /\ job'[k].status = job[k].status
        BY <1>3, <2>2, <3>1
      <4> QED
        BY <2>1, <2>2, <4>1
    <3>2. ASSUME NEW n \in 1..Len(history'[a])
          PROVE  \E k \in JobsOf(a) : Recorded(job'[k]) /\ history'[a][n] = IsError(job'[k].status)
      <4>1. PICK k \in JobsOf(a) : Recorded(job[k]) /\ history[a][n] = IsError(job[k].status)
        BY <2>1, <2>2, <3>2
      <4>2. Recorded(job'[k]) /\ job'[k].status = job[k].status
        BY <1>3, <2>2, <4>1
      <4> QED
        BY <2>2, <4>1, <4>2
    <3> QED
      BY <3>1, <3>2
  <2>3. CASE Recording(i, j)
    <3> DEFINE e == IsError(job[i].status)
    <3>1. /\ Recorded(j) /\ ~Recorded(job[i]) /\ j.status = job[i].status /\ e \in BOOLEAN
          /\ history' = [history EXCEPT ![Alias(i)] = Append(@, e)]
      BY <2>3 DEF Recording, Recorded, IsError
    <3>2. IsError(j.status) = e
      BY <3>1
    <3> HIDE DEF e
    <3>3. CASE a = Alias(i)
      <4>1. history'[a] = Append(history[a], e)
        BY <1>5, <2>1, <3>1, <3>3
      <4>2. /\ Len(history[a]) \in Nat /\ Len(history'[a]) = Len(history[a]) + 1
            /\ \A n \in 1..Len(history[a]) : history'[a][n] = history[a][n]
            /\ history'[a][Len(history[a]) + 1] = e
        BY <2>1, <3>1, <4>1
      <4>3. ASSUME NEW k \in JobsOf(a), Recorded(job'[k])
            PROVE  \E n \in 1..Len(history'[a]) : history'[a][n] = IsError(job'[k].status)
        <5>1. CASE k = i
          BY <1>4, <3>2, <4>2, <5>1
        <5>2. CASE k # i
          BY <1>3, <1>4, <2>1, <4>2, <4>3, <5>2
        <5> QED
          BY <5>1, <5>2
      <4>4. ASSUME NEW n \in 1..Len(history'[a])
            PROVE  \E k \in JobsOf(a) : Recorded(job'[k]) /\ history'[a][n] = IsError(job'[k].status)
        <5>1. CASE n = Len(history[a]) + 1
          BY <1>4, <1>5, <3>1, <3>2, <3>3, <4>2, <5>1
        <5>2. CASE n \in 1..Len(history[a])
          BY SMTT(30), <1>3, <1>4, <2>1, <3>1, <4>2, <5>2
        <5> QED
          BY <4>2, <5>1, <5>2
      <4> QED
        BY <4>3, <4>4
    <3>4. CASE a # Alias(i)
      <4>1. history'[a] = history[a] /\ i \notin JobsOf(a)
        BY <1>5, <2>1, <3>1, <3>4 DEF JobsOf
      <4>2. \A k \in JobsOf(a) : job'[k] = job[k]
        BY <1>3, <1>4, <4>1
      <4>3. ASSUME NEW k \in JobsOf(a), Recorded(job'[k])
            PROVE  \E n \in 1..Len(history'[a]) : history'[a][n] = IsError(job'[k].status)
        BY <2>1, <4>1, <4>2, <4>3
      <4>4. ASSUME NEW n \in 1..Len(history'[a])
            PROVE  \E k \in JobsOf(a) : Recorded(job'[k]) /\ history'[a][n] = IsError(job'[k].status)
        <5>1. PICK k \in JobsOf(a) : Recorded(job[k]) /\ history[a][n] = IsError(job[k].status)
          BY <2>1, <4>1, <4>4
        <5> QED
          BY <4>1, <4>2, <5>1
      <4> QED
        BY <4>3, <4>4
    <3> QED
      BY <3>3, <3>4
  <2> QED
    BY <1>1, <1>4, <2>2, <2>3 DEF GoesOn, Working, Reporting, Recorded
<1> QED
  BY <1>6, <1>7, <1>8, <1>9, <1>10, <1>11 DEF BroadcastInv

-----------------------------------------------------------------------------
(* The steps of the call keep the invariant.                               *)

\* Steps that leave goroutines, reports and buckets alone.
LEMMA OtherKeeps ==
  ASSUME TypeOK, BroadcastInv, UNCHANGED <<input, next, job, resources, results, inbox, history>>,
         {cancelled, down}' \subseteq BOOLEAN, UNCHANGED keyed,
         \/ UNCHANGED <<request, answer>>
         \/ StartDispatching \/ BuildResponse \/ AnswerDispatched
  PROVE  TypeOK' /\ BroadcastInv'
<1> USE DEF resources
<1>1. /\ Jobs' = Jobs /\ \A i \in Jobs : Alias(i)' = Alias(i)
      /\ \A a \in Aliases : JobsOf(a)' = JobsOf(a) /\ Dispatched(a)' = Dispatched(a) /\ Admitted(a)' = Admitted(a)
      /\ Alias(next)' = Alias(next)
  BY DEF Jobs, Alias, JobsOf, Dispatched, Admitted
<1>2. /\ \A i \in Jobs : JobOK(job[i])
      /\ PhaseOK /\ CollectedOK /\ DispatchedOK /\ RecordedOK /\ TokensOK
  BY DEF BroadcastInv
<1>3. request' = "refusing" <=> request = "refusing"
  BY DEF StartDispatching, BuildResponse, AnswerDispatched, Running
<1>4. TokensOK'
  BY <1>1, <1>2, <1>3 DEF TokensOK, Spent, Refusing
<1>5. RecordedOK' /\ DispatchedOK' /\ \A i \in Jobs' : JobOK(job'[i])
  BY <1>1, <1>2 DEF RecordedOK, DispatchedOK
<1>6. PhaseOK'
  BY <1>1, <1>2, ListType DEF PhaseOK, StartDispatching, BuildResponse, AnswerDispatched, Running
<1>7. CollectedOK'
  <2>1. CASE UNCHANGED <<request, answer>> \/ StartDispatching
    BY <1>1, <1>2, <2>1 DEF CollectedOK, StartDispatching, AllDone, Running
  <2>2. CASE BuildResponse
    <3>1. AllDone /\ \A a \in Aliases : answer'[a] = IF results[a] \in Responded THEN results[a] ELSE None
      BY <2>2 DEF BuildResponse, Finished
    <3> QED
      BY <1>1, <1>2, <3>1 DEF CollectedOK, AllDone
  <2>3. CASE AnswerDispatched
    BY <1>2, <2>3 DEF CollectedOK, AnswerDispatched, Running, PhaseOK
  <2> QED
    BY <2>1, <2>2, <2>3
<1>8. answer' \in [Aliases -> Responded \cup {"error", "dispatched", None}]
  <2>1. CASE BuildResponse
    BY <2>1 DEF BuildResponse
  <2>2. CASE AnswerDispatched
    <3>1. \A a \in Aliases : results[a] \in {"error", "dispatched", None}
      BY <1>2, <2>2 DEF AnswerDispatched, Running, PhaseOK, DispatchedOK
    <3>2. answer' = results /\ results = [a \in Aliases |-> results[a]]
      BY <2>2 DEF AnswerDispatched, TypeOK
    <3> QED
      BY <3>1, <3>2
  <2> QED
    BY <2>1, <2>2 DEF TypeOK, StartDispatching, reports
<1>9. request' \in {"received", "dispatching", "refusing", "waiting", "answered"}
  BY DEF TypeOK, StartDispatching, BuildResponse, AnswerDispatched
<1>10. TypeOK'
  BY <1>1, <1>8, <1>9 DEF TypeOK
<1> QED
  BY <1>2, <1>4, <1>5, <1>6, <1>7, <1>10 DEF BroadcastInv

\* fanOut starts all goroutines at once.
LEMMA FanOutKeeps ==
  ASSUME TypeOK, BroadcastInv, FanOut
  PROVE  TypeOK' /\ BroadcastInv'
<1> DEFINE started == [NewJob EXCEPT !.pc = "lookup"]
<1>1. started \in JobRecord /\ started.pc = "lookup" /\ started.calls = 0
  BY DEF NewJob, JobRecord
<1>2. job' = [i \in Jobs |-> started] /\ ~input.async /\ request = "received" /\ request' = "waiting"
      /\ UNCHANGED <<input, next, cancelled, keyed, down, tokens, refills, failures, results, answer, inbox, history>>
  BY DEF FanOut, resources, reports, Running
<1> HIDE DEF started
<1>3. /\ Jobs' = Jobs /\ \A a \in Aliases : JobsOf(a)' = JobsOf(a) /\ JobsOf(a) \subseteq Jobs
      /\ \A i \in Jobs : job'[i] = started /\ job[i].pc = "new" /\ Alias(i)' = Alias(i)
      /\ Alias(next)' = Alias(next)
  BY <1>2 DEF Jobs, JobsOf, Alias, BroadcastInv, PhaseOK
<1>4. TypeOK'
  BY <1>1, <1>2, <1>3 DEF TypeOK, JobRecord
<1>5. \A i \in Jobs' : JobOK(job'[i])
  BY <1>1, <1>3 DEF JobOK
<1>6. PhaseOK' /\ DispatchedOK'
  BY <1>2 DEF PhaseOK, DispatchedOK
<1>7. CollectedOK'
  BY <1>1, <1>2, <1>3 DEF BroadcastInv, CollectedOK
<1>8. RecordedOK'
  <2>1. \A i \in Jobs : ~Recorded(job[i]) /\ ~Recorded(job'[i])
    BY <1>1, <1>3 DEF Recorded
  <2>2. ASSUME NEW a \in Aliases
        PROVE  /\ JobsOf(a)' \subseteq Jobs /\ history'[a] = history[a]
               /\ \A n \in 1..Len(history[a]) : FALSE
    <3>1. \A n \in 1..Len(history[a]) : \E i \in JobsOf(a) : Recorded(job[i])
      BY DEF BroadcastInv, RecordedOK
    <3> QED
      BY <1>2, <1>3, <2>1, <3>1
  <2> QED
    BY <2>1, <2>2 DEF RecordedOK
<1>9. TokensOK'
  <2>1. ASSUME NEW a \in Aliases PROVE Spent(a)' <= Spent(a) /\ Spent(a)' \in Int
    <3>1. Dispatched(a)' = {} /\ Admitted(a)' = {} /\ ~Refusing(a)'
      BY <1>1, <1>2, <1>3 DEF Dispatched, Admitted, Passed, Refusing
    <3> QED
      BY <3>1, FS_EmptySet, SpentType DEF Spent
  <2>2. ASSUME NEW a \in Aliases PROVE Spent(a) \in Int
    BY SpentType DEF Spent
  <2> QED
    BY <1>2, <2>1, <2>2, SpentType DEF BroadcastInv, TokensOK, Refusing
<1> QED
  BY <1>4, <1>5, <1>6, <1>7, <1>8, <1>9 DEF BroadcastInv

\* An alias that is dispatched or not: it is told so, and the next one is taken.
LEMMA DispatchKeeps ==
  ASSUME TypeOK, BroadcastInv, DispatchUnknown \/ DispatchReserve \/ DispatchRefuse
  PROVE  TypeOK' /\ BroadcastInv'
<1> DEFINE a0 == Alias(next)
<1>1. /\ input.async /\ next \in Jobs /\ next \in Nat /\ a0 \in Aliases /\ Jobs = 1..Len(input.aliases)
      /\ Len(input.aliases) \in Nat /\ request \in {"dispatching", "refusing"}
      /\ UNCHANGED <<input, cancelled, keyed, down, refills, failures, answer, inbox, history>>
  BY ListType DEF DispatchUnknown, DispatchReserve, DispatchRefuse, Dispatching, Running, BroadcastInv, PhaseOK,
    resources
<1>2. /\ Jobs' = Jobs /\ \A i \in Jobs : Alias(i)' = Alias(i)
      /\ \A a \in Aliases : JobsOf(a)' = JobsOf(a) /\ JobsOf(a) \subseteq Jobs
      /\ Burst \in Nat /\ tokens \in [Aliases -> -1..Burst]
      /\ results \in [Aliases -> Status \cup {"dispatched", None}]
      /\ job \in [Jobs -> JobRecord]
  BY <1>1, BroadcastAssumption DEF Jobs, Alias, JobsOf, TypeOK, JobRecord
<1>3. /\ \A i \in Jobs : JobOK(job[i]) /\ (i >= next => job[i].pc = "new")
      /\ \A a \in Aliases : results[a] \in {"error", "dispatched", None}
      /\ \A a \in Aliases : (tokens[a] < 0 => Refusing(a)) /\ tokens[a] + Spent(a) <= Burst + refills[a]
      /\ RecordedOK
  BY <1>1 DEF BroadcastInv, PhaseOK, DispatchedOK, TokensOK
<1> DEFINE started == [job[next] EXCEPT !.pc = "lookup"]
<1>4. /\ started \in JobRecord /\ started.pc = "lookup" /\ JobOK(started) /\ ~Passed(started) /\ ~Recorded(started)
      /\ ~Passed(job[next]) /\ ~Recorded(job[next]) /\ job[next].pc = "new"
  BY SMTT(30), <1>1, <1>2, <1>3 DEF JobRecord, JobOK, Passed, Recorded
<1>5. PICK told \in {"error", "dispatched"} :
        \/ results' = [results EXCEPT ![a0] = told] /\ next' = next + 1 /\ request' = "dispatching"
        \/ UNCHANGED <<results, next>> /\ request' = "refusing" /\ UNCHANGED job
  BY <1>1 DEF DispatchUnknown, DispatchReserve, DispatchRefuse, Report, Dispatching, Running, a0
<1>6. UNCHANGED job \/ (job' = [job EXCEPT ![next] = started] /\ next' = next + 1)
  <2>1. UNCHANGED job \/ (job' = [job EXCEPT ![next].pc = "lookup"] /\ next' = next + 1)
    BY DEF DispatchUnknown, DispatchReserve, DispatchRefuse
  <2> QED
    BY <1>1, <2>1, JobUpdates
<1> HIDE DEF started
<1>7. /\ job' \in [Jobs -> JobRecord]
      /\ \A i \in Jobs : i # next => job'[i] = job[i]
      /\ job'[next] \in {job[next], started}
      /\ \A i \in Jobs : /\ JobOK(job'[i]) /\ (Passed(job'[i]) <=> Passed(job[i]))
                         /\ (Recorded(job'[i]) <=> Recorded(job[i]))
                         /\ (Recorded(job[i]) => job'[i] = job[i])
  <2>1. /\ job' \in [Jobs -> JobRecord] /\ job'[next] \in {job[next], started}
        /\ \A i \in Jobs : i # next => job'[i] = job[i]
    BY <1>1, <1>2, <1>4, <1>6
  <2> QED
    BY <1>3, <1>4, <2>1
<1>8. tokens' \in [Aliases -> -1..Burst]
  <2>1. CASE DispatchUnknown
    BY <1>2, <2>1 DEF DispatchUnknown, resources
  <2>2. CASE DispatchReserve
    <3>1. tokens[a0] >= 0
      BY <1>1, <1>2, <1>3, <2>2 DEF DispatchReserve, Dispatching, Running, Refusing
    <3>2. tokens' = [tokens EXCEPT ![a0] = tokens[a0] - 1]
      BY <2>2 DEF DispatchReserve, Take
    <3>3. tokens[a0] - 1 \in -1..Burst
      BY <1>1, <1>2, <3>1
    <3> QED
      BY <1>1, <1>2, <3>2, <3>3
  <2>3. CASE DispatchRefuse
    <3>1. tokens' = [tokens EXCEPT ![a0] = IF tokens[a0] < 0 THEN tokens[a0] + 1 ELSE tokens[a0]]
      BY <2>3 DEF DispatchRefuse
    <3>2. (IF tokens[a0] < 0 THEN tokens[a0] + 1 ELSE tokens[a0]) \in -1..Burst
      BY <1>1, <1>2
    <3> QED
      BY <1>1, <1>2, <3>1, <3>2
  <2> QED
    BY <2>1, <2>2, <2>3
<1>9. TypeOK'
  <2>1. results' \in [Aliases -> Status \cup {"dispatched", None}]
    BY <1>1, <1>2, <1>5 DEF Status
  <2>2. next' \in 1..Len(input'.aliases) + 1 /\ request' \in {"dispatching", "refusing"}
    BY <1>1, <1>5 DEF TypeOK
  <2> QED
    BY <1>1, <1>2, <1>7, <1>8, <2>1, <2>2 DEF TypeOK, JobRecord
<1>10. PhaseOK'
  <2>1. \A i \in Jobs : i >= next' => job'[i].pc = "new"
    BY <1>1, <1>3, <1>5, <1>6, <1>7
  <2>2. request' = "refusing" => next' \in Jobs
    BY <1>1, <1>5
  <2>3. request' \in {"dispatching", "refusing"}
    BY <1>5
  <2> QED
    BY <1>1, <1>2, <2>1, <2>2, <2>3 DEF PhaseOK
<1>11. CollectedOK' /\ DispatchedOK'
  BY <1>1, <1>2, <1>3, <1>5 DEF CollectedOK, DispatchedOK
<1>12. RecordedOK'
  <2>1. \A i \in Jobs : /\ Recorded(job'[i]) => Recorded(job[i]) /\ job'[i] = job[i]
                        /\ Recorded(job[i]) => Recorded(job'[i]) /\ job'[i] = job[i]
    BY <1>7
  <2>2. history' = history /\ \A a \in Aliases : JobsOf(a)' = JobsOf(a) /\ JobsOf(a) \subseteq Jobs
    BY <1>1, <1>2
  <2> QED
    BY <1>3, <2>1, <2>2 DEF RecordedOK
<1>13. ASSUME NEW a \in Aliases
       PROVE  (tokens'[a] < 0 => Refusing(a)') /\ tokens'[a] + Spent(a)' <= Burst + refills'[a]
  <2>1. /\ Admitted(a)' = Admitted(a) /\ IsFiniteSet(Dispatched(a)) /\ Cardinality(Admitted(a)) \in Nat
        /\ Cardinality(Dispatched(a)) \in Nat /\ tokens[a] \in Int /\ refills[a] \in Int /\ refills'[a] = refills[a]
    BY <1>1, <1>2, <1>7, SpentType DEF Admitted
  <2>2. Dispatched(a)' \subseteq Dispatched(a) \cup {next} /\ IsFiniteSet(Dispatched(a)')
        /\ Cardinality(Dispatched(a)') \in Nat
    <3>1. Dispatched(a)' \subseteq Jobs /\ Dispatched(a)' \subseteq Dispatched(a) \cup {next}
      BY <1>1, <1>2, <1>7 DEF Dispatched
    <3> QED
      BY <3>1, JobsAreFinite
  <2>3. Cardinality(Dispatched(a)') <= Cardinality(Dispatched(a)) + 1
    BY <2>1, <2>2, OneMore
  <2>4. UNCHANGED job \/ a # a0 => Cardinality(Dispatched(a)') = Cardinality(Dispatched(a))
    <3>1. UNCHANGED job \/ a # a0 => Dispatched(a)' = Dispatched(a)
      BY <1>1, <1>2, <1>7 DEF Dispatched, JobsOf
    <3> QED
      BY <3>1
  <2>5. /\ tokens[a] + Spent(a) <= Burst + refills[a] /\ (tokens[a] < 0 => Refusing(a))
        /\ (request = "dispatching" => ~Refusing(a)) /\ (request' = "dispatching" => ~Refusing(a)')
    BY <1>3 DEF Refusing
  <2>6. CASE DispatchUnknown
    <3>1. UNCHANGED <<job, tokens, request>> /\ request = "dispatching"
      BY <2>6 DEF DispatchUnknown, resources, Dispatching, Running
    <3> QED
      BY <1>2, <2>1, <2>2, <2>4, <2>5, <3>1 DEF Spent
  <2>7. CASE DispatchReserve
    <3>1. tokens' = [tokens EXCEPT ![a0] = tokens[a0] - 1] /\ request = "dispatching"
      BY <2>7 DEF DispatchReserve, Take, Dispatching, Running
    <3>2. CASE tokens[a0] > 0
      <4>1. request' = "dispatching"
        BY <2>7, <3>1, <3>2 DEF DispatchReserve
      <4>2. CASE a = a0
        <5>1. tokens'[a] = tokens[a] - 1 /\ tokens[a] > 0
          BY <1>1, <1>2, <3>1, <3>2, <4>2
        <5> QED
          BY <1>2, <2>1, <2>2, <2>3, <2>5, <3>1, <4>1, <5>1 DEF Spent
      <4>3. CASE a # a0
        <5>1. tokens'[a] = tokens[a]
          BY <1>1, <1>2, <3>1, <4>3
        <5> QED
          BY <1>2, <2>1, <2>2, <2>4, <2>5, <3>1, <4>1, <4>3, <5>1 DEF Spent
      <4> QED
        BY <4>2, <4>3
    <3>3. CASE ~(tokens[a0] > 0)
      <4>1. request' = "refusing" /\ UNCHANGED <<job, next>>
        BY <2>7, <3>3 DEF DispatchReserve
      <4>2. Refusing(a)' <=> a = a0
        BY <1>1, <1>2, <4>1 DEF Refusing
      <4>3. tokens'[a] = IF a = a0 THEN tokens[a] - 1 ELSE tokens[a]
        BY <1>1, <1>2, <3>1
      <4> QED
        BY <1>2, <2>1, <2>2, <2>4, <2>5, <3>1, <4>1, <4>2, <4>3 DEF Spent
    <3> QED
      BY <3>2, <3>3
  <2>8. CASE DispatchRefuse
    <3>1. /\ tokens' = [tokens EXCEPT ![a0] = IF tokens[a0] < 0 THEN tokens[a0] + 1 ELSE tokens[a0]]
          /\ request = "refusing" /\ request' = "dispatching" /\ UNCHANGED job
      BY <2>8 DEF DispatchRefuse, Running
    <3>2. Refusing(a) <=> a = a0
      BY <3>1 DEF Refusing
    <3>3. tokens'[a] = IF a = a0 /\ tokens[a] < 0 THEN tokens[a] + 1 ELSE tokens[a]
      BY <1>1, <1>2, <3>1
    <3>4. tokens[a] >= -1
      BY <1>2
    <3> QED
      BY <1>2, <2>1, <2>2, <2>4, <2>5, <3>1, <3>2, <3>3, <3>4 DEF Spent
  <2> QED
    BY <2>6, <2>7, <2>8
<1> QED
  BY <1>2, <1>7, <1>9, <1>10, <1>11, <1>12, <1>13 DEF BroadcastInv, TokensOK

\* Time, and messages that are no part of the call.
LEMMA BucketKeeps ==
  ASSUME TypeOK, BroadcastInv, NEW i \in Jobs, Refill(Alias(i)) \/ OtherSend(Alias(i))
  PROVE  TypeOK' /\ BroadcastInv'
<1> DEFINE a0 == Alias(i)
<1>1. /\ a0 \in Aliases /\ MaxRefills \in Nat /\ Burst \in Nat /\ tokens \in [Aliases -> -1..Burst]
      /\ refills \in [Aliases -> 0..MaxRefills]
      /\ UNCHANGED <<input, request, next, cancelled, job, keyed, down, failures, reports>>
  BY ListType, BroadcastAssumption DEF TypeOK, Refill, OtherSend
<1>2. \/ /\ tokens[a0] < Burst /\ refills[a0] < MaxRefills
         /\ tokens' = [tokens EXCEPT ![a0] = tokens[a0] + 1]
         /\ refills' = [refills EXCEPT ![a0] = refills[a0] + 1]
      \/ tokens[a0] > 0 /\ tokens' = [tokens EXCEPT ![a0] = tokens[a0] - 1] /\ refills' = refills
  BY DEF Refill, OtherSend, Take
<1> HIDE DEF a0
<1>3. tokens' \in [Aliases -> -1..Burst] /\ refills' \in [Aliases -> 0..MaxRefills]
  <2>1. /\ tokens[a0] < Burst => tokens[a0] + 1 \in -1..Burst
        /\ refills[a0] < MaxRefills => refills[a0] + 1 \in 0..MaxRefills
        /\ tokens[a0] > 0 => tokens[a0] - 1 \in -1..Burst
    BY <1>1
  <2> QED
    BY <1>1, <1>2, <2>1
<1>4. TypeOK'
  BY <1>1, <1>3 DEF TypeOK, Jobs, reports
<1>5. TokensOK'
  <2>1. ASSUME NEW a \in Aliases
        PROVE  (tokens'[a] < 0 => Refusing(a)') /\ tokens'[a] + Spent(a)' <= Burst + refills'[a]
    <3>1. /\ Spent(a)' = Spent(a)
          /\ Spent(a) \in Int
          /\ Refusing(a)' <=> Refusing(a)
      <4>1. JobsOf(a)' = JobsOf(a)
        BY <1>1 DEF JobsOf, Jobs, Alias
      <4>2. Dispatched(a)' = Dispatched(a)
        BY <1>1, <4>1 DEF Dispatched
      <4>3. Admitted(a)' = Admitted(a)
        BY <1>1, <4>1 DEF Admitted
      <4>4. Refusing(a)' <=> Refusing(a)
        BY <1>1 DEF Refusing, Alias
      <4>5. Spent(a)' = Spent(a)
        BY <4>2, <4>3, <4>4 DEF Spent
      <4>6. Spent(a) \in Int
        BY SpentType DEF Spent
      <4> QED
        BY <4>4, <4>5, <4>6
    <3>2. (tokens[a] < 0 => Refusing(a)) /\ tokens[a] + Spent(a) <= Burst + refills[a]
      BY DEF BroadcastInv, TokensOK
    <3>3. \/ tokens'[a] = tokens[a] /\ refills'[a] = refills[a]
          \/ tokens'[a] = tokens[a] + 1 /\ refills'[a] = refills[a] + 1
          \/ tokens'[a] = tokens[a] - 1 /\ refills'[a] = refills[a] /\ tokens[a] > 0
      BY <1>1, <1>2
    <3>4. tokens[a] \in Int /\ refills[a] \in Int
      BY <1>1
    <3> QED
      BY <1>1, <3>1, <3>2, <3>3, <3>4
  <2> QED
    BY <2>1 DEF TokensOK
<1> QED
  BY <1>1, <1>4, <1>5 DEF BroadcastInv, JobOK, PhaseOK, CollectedOK, DispatchedOK, RecordedOK, Jobs, JobsOf, Alias,
    AllDone, reports

-----------------------------------------------------------------------------
(* What the inbox holds.                                                   *)

\* The entries of an alias, and its goroutines that have ended or begun.
Entries(a) == {k \in 1..Len(inbox) : inbox[k].alias = a}
Ended(a) == {i \in JobsOf(a) : job[i].pc = "done"}
Begun(a) == {i \in JobsOf(a) : job[i].pc # "new"}

\* There is an entry for each goroutine that ended, and an alias is only said to
\* be dispatched when a goroutine of it has begun.
DepositsOK ==
  \A a \in Aliases :
    /\ Cardinality(Entries(a)) = IF input.async THEN Cardinality(Ended(a)) ELSE 0
    /\ "dispatched" \in {results[a], answer[a]} => input.async /\ Begun(a) # {}

\* Most steps deposit nothing: no goroutine of an asynchronous call ends, none
\* returns to where it was not begun, and nobody is said to be dispatched anew.
LEMMA DepositsStay ==
  ASSUME TypeOK, DepositsOK, UNCHANGED <<input, inbox>>,
         \A i \in Jobs : /\ input.async => (job'[i].pc = "done" <=> job[i].pc = "done")
                         /\ job[i].pc # "new" => job'[i].pc # "new",
         \A a \in Aliases : "dispatched" \in {results'[a], answer'[a]} =>
                              "dispatched" \in {results[a], answer[a]} \/ (input.async /\ Begun(a)' # {})
  PROVE  DepositsOK'
<1> SUFFICES ASSUME NEW a \in Aliases
             PROVE  /\ Cardinality(Entries(a)') = IF input'.async THEN Cardinality(Ended(a)') ELSE 0
                    /\ "dispatched" \in {results'[a], answer'[a]} => input'.async /\ Begun(a)' # {}
  BY DEF DepositsOK
<1>1. JobsOf(a)' = JobsOf(a) /\ JobsOf(a) \subseteq Jobs
  BY DEF JobsOf, Jobs, Alias
<1>2. Entries(a)' = Entries(a)
  BY DEF Entries
<1>3. input.async => Ended(a)' = Ended(a)
  BY <1>1 DEF Ended
<1>4. Begun(a) # {} => Begun(a)' # {}
  BY <1>1 DEF Begun
<1> HIDE DEF Entries, Ended, Begun
<1>5. /\ Cardinality(Entries(a)) = IF input.async THEN Cardinality(Ended(a)) ELSE 0
      /\ "dispatched" \in {results[a], answer[a]} => input.async /\ Begun(a) # {}
  BY DEF DepositsOK
<1>6. Cardinality(Entries(a)') = IF input'.async THEN Cardinality(Ended(a)') ELSE 0
  BY <1>2, <1>3, <1>5, Zenon
<1> QED
  BY <1>4, <1>5, <1>6

\* A goroutine that ends deposits one entry, under its alias.
LEMMA DepositsOnce ==
  ASSUME TypeOK, DepositsOK, input.async, NEW i \in Jobs, NEW j \in JobRecord,
         job' = [job EXCEPT ![i] = j], job[i].pc = "report", j.pc = "done",
         inbox' = Deposited(i), UNCHANGED <<input, results, answer>>
  PROVE  DepositsOK'
<1> SUFFICES ASSUME NEW a \in Aliases
             PROVE  /\ Cardinality(Entries(a)') = Cardinality(Ended(a)')
                    /\ "dispatched" \in {results'[a], answer'[a]} => Begun(a)' # {}
  BY DEF DepositsOK
<1>1. JobsOf(a)' = JobsOf(a) /\ JobsOf(a) \subseteq Jobs
  BY DEF JobsOf, Jobs, Alias
<1>2. /\ Cardinality(Entries(a)) = Cardinality(Ended(a))
      /\ "dispatched" \in {results[a], answer[a]} => Begun(a) # {}
  BY DEF DepositsOK
<1>3. PICK e : inbox' = Append(inbox, e) /\ e.alias = Alias(i)
  BY DEF Deposited
<1>4. Len(inbox) \in Nat /\ Len(inbox') = Len(inbox) + 1 /\ inbox'[Len(inbox) + 1] = e
      /\ \A k \in 1..Len(inbox) : inbox'[k] = inbox[k]
  BY <1>3 DEF TypeOK
<1>5. \A k \in Jobs : job'[k] = IF k = i THEN j ELSE job[k]
  BY DEF TypeOK
<1>6. Entries(a)' = IF Alias(i) = a THEN Entries(a) \cup {Len(inbox) + 1} ELSE Entries(a)
  BY <1>3, <1>4 DEF Entries
<1>7. Ended(a)' = IF Alias(i) = a THEN Ended(a) \cup {i} ELSE Ended(a)
  BY <1>1, <1>5 DEF Ended, JobsOf
<1>8. IsFiniteSet(Entries(a)) /\ IsFiniteSet(Ended(a)) /\ Len(inbox) + 1 \notin Entries(a) /\ i \notin Ended(a)
  <2>1. IsFiniteSet(Entries(a))
    <3>1. IsFiniteSet(1..Len(inbox))
      BY <1>4, FS_Interval
    <3>2. Entries(a) \subseteq 1..Len(inbox)
      BY DEF Entries
    <3> QED
      BY <3>1, <3>2, FS_Subset
  <2>2. IsFiniteSet(Ended(a))
    BY <1>1, JobsAreFinite DEF Ended
  <2>3. Len(inbox) + 1 \notin Entries(a) /\ i \notin Ended(a)
    BY <1>4 DEF Entries, Ended
  <2> QED
    BY <2>1, <2>2, <2>3
<1>9. Begun(a) # {} => Begun(a)' # {}
  <2>1. Begun(a) \subseteq Begun(a)'
    BY <1>1, <1>5 DEF Begun
  <2> QED
    BY <2>1
<1> HIDE DEF Entries, Ended, Begun
<1>10. Cardinality(Entries(a)') = Cardinality(Ended(a)')
  <2>1. CASE Alias(i) = a
    <3>1. Cardinality(Entries(a) \cup {Len(inbox) + 1}) = Cardinality(Entries(a)) + 1
      BY <1>8, FS_AddElement
    <3>2. Cardinality(Ended(a) \cup {i}) = Cardinality(Ended(a)) + 1
      BY <1>8, FS_AddElement
    <3> QED
      BY <1>2, <1>6, <1>7, <2>1, <3>1, <3>2
  <2>2. CASE Alias(i) # a
    BY <1>2, <1>6, <1>7, <2>2
  <2> QED
    BY <2>1, <2>2
<1> QED
  BY <1>2, <1>9, <1>10

\* So the goroutines keep the inbox as it should be ...
LEMMA JobDeposits ==
  ASSUME TypeOK, BroadcastInv, DepositsOK, NEW i \in Jobs, Proceed(i) \/ AgentActs(i)
  PROVE  DepositsOK'
<1>1. PICK j \in JobRecord : GoesOn(i, j)
  BY JobStep
<1>2. UNCHANGED <<input, answer>>
  BY JobStep
<1>3. /\ job' = [job EXCEPT ![i] = j] /\ job[i].pc # "new" /\ j.pc # "new"
      /\ \A k \in Jobs : job'[k] = IF k = i THEN j ELSE job[k]
  BY <1>1 DEF GoesOn, TypeOK
<1>4. CASE Working(i, j) \/ Recording(i, j)
  <2>1. job[i].pc # "done" /\ j.pc # "done" /\ UNCHANGED <<results, inbox>>
    BY <1>4 DEF Working, Recording
  <2> QED
    BY <1>2, <1>3, <2>1, DepositsStay
<1>5. CASE Reporting(i, j)
  <2>1. CASE input.async
    <3>1. UNCHANGED results /\ inbox' = Deposited(i) /\ job[i].pc = "report" /\ j.pc = "done"
      BY <1>5, <2>1 DEF Reporting
    <3> QED
      BY <1>2, <1>3, <2>1, <3>1, DepositsOnce
  <2>2. CASE ~input.async
    <3>1. Report(Alias(i), job[i].status) /\ UNCHANGED inbox
      BY <1>5, <2>2 DEF Reporting
    <3>2. job[i].status # "dispatched"
      BY NoneAssumption DEF TypeOK, Status
    <3>3. \A a \in Aliases : results'[a] = "dispatched" => results[a] = "dispatched"
      BY <3>1, <3>2 DEF Report, TypeOK
    <3> QED
      BY <1>2, <1>3, <2>2, <3>1, <3>3, DepositsStay
  <2> QED
    BY <2>1, <2>2
<1> QED
  BY <1>1, <1>4, <1>5 DEF GoesOn

\* ... and so does every step.
LEMMA DepositsStep ==
  ASSUME TypeOK, BroadcastInv, DepositsOK, [Next]_vars
  PROVE  DepositsOK'
<1>1. CASE \E i \in Jobs : Proceed(i) \/ AgentActs(i)
  BY <1>1, JobDeposits
<1>2. CASE FanOut
  <2>1. UNCHANGED <<input, inbox, results, answer>> /\ ~input.async
    BY <1>2 DEF FanOut, reports
  <2>2. \A i \in Jobs : job'[i].pc = "lookup"
    BY <1>2 DEF FanOut, NewJob
  <2> QED
    BY <2>1, <2>2, DepositsStay
<1>3. CASE DispatchUnknown \/ DispatchReserve \/ DispatchRefuse
  <2>1. /\ next \in Jobs /\ input.async /\ request # "answered" /\ Alias(next) \in Aliases
        /\ UNCHANGED <<input, answer, inbox>>
    BY <1>3, ListType DEF DispatchUnknown, DispatchReserve, DispatchRefuse, Dispatching, Running, BroadcastInv, PhaseOK,
      reports
  <2>2. job[next].pc = "new"
    BY <2>1, ListType DEF BroadcastInv, PhaseOK
  <2>3. \/ UNCHANGED job /\ \A a \in Aliases : results'[a] = "dispatched" => results[a] = "dispatched"
        \/ job' = [job EXCEPT ![next].pc = "lookup"] /\ Report(Alias(next), "dispatched")
    BY <1>3, <2>1 DEF DispatchUnknown, DispatchReserve, DispatchRefuse, Report, TypeOK
  <2>4. CASE UNCHANGED job /\ \A a \in Aliases : results'[a] = "dispatched" => results[a] = "dispatched"
    BY <2>1, <2>4, DepositsStay
  <2>5. CASE job' = [job EXCEPT ![next].pc = "lookup"] /\ Report(Alias(next), "dispatched")
    <3>1. \A i \in Jobs : job'[i].pc = IF i = next THEN "lookup" ELSE job[i].pc
      BY <2>1, <2>5 DEF TypeOK
    <3>2. PICK a0 \in Aliases : a0 = Alias(next)
      BY <2>1
    <3>3. Begun(a0)' # {}
      <4>1. next \in JobsOf(a0) /\ JobsOf(a0)' = JobsOf(a0)
        BY <2>1, <3>2 DEF JobsOf, Jobs, Alias
      <4> QED
        BY <2>1, <3>1, <4>1 DEF Begun
    <3>4. \A a \in Aliases : results'[a] = "dispatched" => results[a] = "dispatched" \/ a = a0
      BY <2>5, <3>2 DEF Report, TypeOK
    <3> HIDE DEF Begun
    <3>5. \A i \in Jobs : /\ job'[i].pc = "done" <=> job[i].pc = "done"
                          /\ job[i].pc # "new" => job'[i].pc # "new"
      BY <2>2, <3>1
    <3> QED
      BY <2>1, <3>3, <3>4, <3>5, DepositsStay
  <2> QED
    BY <2>3, <2>4, <2>5
<1>4. CASE BuildResponse \/ StartDispatching \/ AnswerDispatched
  <2>1. UNCHANGED <<input, job, results, inbox>>
    BY <1>4 DEF BuildResponse, StartDispatching, AnswerDispatched, reports
  <2>2. \A a \in Aliases : answer'[a] = "dispatched" => "dispatched" \in {results[a], answer[a]}
    BY <1>4, NoneAssumption DEF BuildResponse, StartDispatching, AnswerDispatched, reports, Responded, TypeOK
  <2> QED
    BY <2>1, <2>2, DepositsStay
<1>5. CASE \/ Cancel \/ (\E i, j \in Jobs : Race(i, j)) \/ UNCHANGED vars
           \/ \E i \in Jobs : Refill(Alias(i)) \/ OtherSend(Alias(i))
  <2>1. UNCHANGED <<input, job, results, answer, inbox>>
    BY <1>5 DEF Cancel, Race, Refill, OtherSend, vars, reports
  <2> QED
    BY <2>1, DepositsStay
<1> QED
  BY <1>1, <1>2, <1>3, <1>4, <1>5 DEF Next, Handle

-----------------------------------------------------------------------------
(* The theorems.                                                           *)

\* The invariant holds when the request is received.
LEMMA BroadcastInit == Init => TypeOK /\ BroadcastInv
<1> SUFFICES ASSUME Init PROVE TypeOK /\ BroadcastInv
  OBVIOUS
<1>1. /\ input \in [aliases : Lists, async : BOOLEAN, shared : BOOLEAN]
      /\ request = "received" /\ next = 1 /\ cancelled = FALSE /\ keyed = FALSE /\ down = FALSE
      /\ job = [i \in Jobs |-> NewJob] /\ tokens = [a \in Aliases |-> Burst]
      /\ refills = [a \in Aliases |-> 0] /\ failures \in [Aliases -> {0, Threshold}]
      /\ results = [a \in Aliases |-> None] /\ answer = [a \in Aliases |-> None]
      /\ inbox = <<>> /\ history = [a \in Aliases |-> <<>>]
  BY DEF Init
<1>2. Burst \in Nat /\ MaxRefills \in Nat /\ Threshold \in Nat /\ Len(input.aliases) \in Nat
  BY <1>1, BroadcastAssumption
<1>3. NewJob \in JobRecord /\ JobOK(NewJob) /\ NewJob.pc = "new" /\ ~Passed(NewJob) /\ ~Recorded(NewJob)
  BY DEF NewJob, JobRecord, JobOK, Passed, Recorded
<1>4. TypeOK
  <2>1. failures \in [Aliases -> 0..Threshold] /\ 0 \in 0..MaxRefills /\ Burst \in -1..Burst
    BY <1>1, <1>2
  <2>2. /\ inbox \in Seq([alias : Aliases, state : {"completed", "input-required", "auth-required", "error", None}])
        /\ history \in [Aliases -> Seq(BOOLEAN)]
    BY <1>1
  <2>3. next \in 1..Len(input.aliases) + 1
    BY <1>1, <1>2
  <2>8. {cancelled, keyed, down} \subseteq BOOLEAN
    BY <1>1, Zenon
  <2>4. job \in [Jobs -> JobRecord]
    BY <1>1, <1>3
  <2>5. tokens \in [Aliases -> -1..Burst] /\ refills \in [Aliases -> 0..MaxRefills]
    BY <1>1, <2>1
  <2>6. /\ results \in [Aliases -> Status \cup {"dispatched", None}]
        /\ answer \in [Aliases -> Responded \cup {"error", "dispatched", None}]
    BY <1>1
  <2>7. request \in {"received", "dispatching", "refusing", "waiting", "answered"}
    BY <1>1
  <2> QED
    BY <1>1, <2>1, <2>2, <2>3, <2>4, <2>5, <2>6, <2>7, <2>8 DEF TypeOK, JobRecord
<1>5. (\A i \in Jobs : JobOK(job[i])) /\ PhaseOK /\ DispatchedOK
  BY <1>1, <1>3 DEF PhaseOK, DispatchedOK
<1>6. CollectedOK
  BY <1>1, <1>3 DEF CollectedOK
<1>7. RecordedOK
  <2>1. \A a \in Aliases : Len(history[a]) = 0 /\ \A i \in JobsOf(a) : ~Recorded(job[i])
    BY <1>1, <1>3 DEF JobsOf
  <2> QED
    BY <2>1 DEF RecordedOK
<1>8. TokensOK
  <2>1. \A a \in Aliases : Dispatched(a) = {} /\ Admitted(a) = {} /\ ~Refusing(a)
    BY <1>1, <1>3 DEF Dispatched, Admitted, JobsOf, Refusing
  <2>2. Cardinality({}) = 0
    BY FS_EmptySet
  <2>3. \A a \in Aliases : Spent(a) = 0
    BY <2>1, <2>2 DEF Spent
  <2>4. \A a \in Aliases : tokens[a] = Burst /\ refills[a] = 0
    BY <1>1
  <2> QED
    BY <1>2, <2>1, <2>3, <2>4 DEF TokensOK
<1> QED
  BY <1>4, <1>5, <1>6, <1>7, <1>8 DEF BroadcastInv

\* Every step keeps it.
LEMMA BroadcastStep ==
  ASSUME TypeOK, BroadcastInv, [Next]_vars
  PROVE  TypeOK' /\ BroadcastInv'
<1>1. CASE \E i \in Jobs : Proceed(i) \/ AgentActs(i)
  BY <1>1, JobKeeps, JobTypes
<1>2. CASE DispatchUnknown \/ DispatchReserve \/ DispatchRefuse
  BY <1>2, DispatchKeeps
<1>3. CASE FanOut
  BY <1>3, FanOutKeeps
<1>4. CASE BuildResponse \/ StartDispatching \/ AnswerDispatched
  <2>1. {cancelled, down}' \subseteq BOOLEAN
    BY <1>4 DEF TypeOK, BuildResponse, StartDispatching, AnswerDispatched
  <2>2. UNCHANGED <<input, next, job, resources, results, inbox, history, keyed>>
    BY <1>4 DEF BuildResponse, StartDispatching, AnswerDispatched, reports
  <2> QED
    BY <1>4, <2>1, <2>2, OtherKeeps
<1>5. CASE Cancel \/ (\E i, j \in Jobs : Race(i, j)) \/ UNCHANGED vars
  <2>1. {cancelled, down}' \subseteq BOOLEAN
    BY <1>5 DEF TypeOK, Cancel, Race, vars
  <2>2. UNCHANGED <<input, next, job, resources, results, inbox, history, keyed, request, answer>>
    BY <1>5 DEF Cancel, Race, vars, reports
  <2> QED
    BY <2>1, <2>2, OtherKeeps
<1>6. CASE \E i \in Jobs : Refill(Alias(i)) \/ OtherSend(Alias(i))
  BY <1>6, BucketKeeps
<1> QED
  BY <1>1, <1>2, <1>3, <1>4, <1>5, <1>6 DEF Next, Handle

\* So it holds of every behaviour.
LEMMA BroadcastInvariant == Spec => [](TypeOK /\ BroadcastInv)
<1>1. TypeOK /\ BroadcastInv /\ [Next]_vars => (TypeOK /\ BroadcastInv)'
  BY BroadcastStep
<1> QED
  BY <1>1, BroadcastInit, PTL DEF Spec

\* Buckets, counters, statuses and reports keep within their types: a bucket is
\* overdrawn by one reservation at most, and never fuller than its size.
THEOREM BroadcastTypes == Spec => []TypeOK
  BY BroadcastInvariant, PTL

\* The answer of a broadcast that waits has the responses its goroutines got, and
\* no entry for an alias none of whose goroutines got one.
THEOREM ResponsesAnswered == Spec => []ResponsesAreAnswered
<1>1. TypeOK /\ BroadcastInv => ResponsesAreAnswered
  <2> SUFFICES ASSUME TypeOK, BroadcastInv, request = "answered", ~input.async, NEW a \in Aliases
               PROVE  LET statuses == {job[i].status : i \in JobsOf(a)} IN
                      /\ answer[a] # None => answer[a] \in statuses
                      /\ statuses # {} /\ statuses \subseteq Responded => answer[a] # None
    BY DEF ResponsesAreAnswered
  <2>1. /\ AllDone /\ answer[a] = IF results[a] \in Responded THEN results[a] ELSE None
        /\ results[a] # None => \E i \in JobsOf(a) : job[i].pc = "done" /\ job[i].status = results[a]
        /\ \A i \in Jobs : job[i].pc = "done" => results[Alias(i)] # None
    BY DEF BroadcastInv, CollectedOK
  <2>2. None \notin Responded
    BY NoneAssumption DEF Status, Responded
  <2>3. \A i \in JobsOf(a) : i \in Jobs /\ Alias(i) = a /\ job[i].pc = "done"
    BY <2>1 DEF AllDone, JobsOf
  <2> QED
    BY <2>1, <2>2, <2>3
<1> QED
  BY <1>1, BroadcastInvariant, PTL

\* What get_history shows of the aliases of a broadcast agrees with its answer.
THEOREM HistoriesAgree == Spec => []HistoryAgrees
<1>1. TypeOK /\ BroadcastInv => HistoryAgrees
  <2> SUFFICES ASSUME TypeOK, BroadcastInv, request = "answered", ~input.async, NEW a \in Aliases
               PROVE  LET errors == {history[a][k] : k \in 1..Len(history[a])} IN
                      /\ answer[a] # None => FALSE \in errors
                      /\ errors = {FALSE} => answer[a] # None
    BY DEF HistoryAgrees
  <2>1. /\ AllDone /\ answer[a] = IF results[a] \in Responded THEN results[a] ELSE None
        /\ results[a] # None => \E i \in JobsOf(a) : job[i].pc = "done" /\ job[i].status = results[a]
        /\ \A i \in Jobs : job[i].pc = "done" => results[Alias(i)] # None
    BY DEF BroadcastInv, CollectedOK
  <2>2. /\ \A i \in JobsOf(a) : Recorded(job[i]) => \E k \in 1..Len(history[a]) : history[a][k] = IsError(job[i].status)
        /\ \A k \in 1..Len(history[a]) : \E i \in JobsOf(a) : Recorded(job[i]) /\ history[a][k] = IsError(job[i].status)
    BY DEF BroadcastInv, RecordedOK
  <2>3. \A i \in JobsOf(a) : /\ i \in Jobs /\ Alias(i) = a /\ job[i].pc = "done" /\ Recorded(job[i])
                             /\ job[i].status \in Status
    BY <2>1 DEF AllDone, JobsOf, Recorded, BroadcastInv, JobOK, TypeOK
  <2>4. None \notin Responded /\ \A s \in Status : IsError(s) = (s \notin Responded)
    BY NoneAssumption DEF Status, Responded, IsError
  <2> DEFINE errors == {history[a][k] : k \in 1..Len(history[a])}
  <2>5. ASSUME answer[a] # None PROVE FALSE \in errors
    <3>1. PICK i \in JobsOf(a) : job[i].status = results[a] /\ results[a] \in Responded
      BY <2>1, <2>5
    <3>2. PICK k \in 1..Len(history[a]) : history[a][k] = IsError(job[i].status)
      BY <2>2, <2>3
    <3>3. history[a][k] = FALSE
      BY <2>3, <2>4, <3>1, <3>2
    <3> QED
      BY <3>3
  <2>6. ASSUME errors = {FALSE} PROVE answer[a] # None
    <3>1. PICK k \in 1..Len(history[a]) : TRUE
      BY <2>6
    <3>2. PICK i \in JobsOf(a) : Recorded(job[i])
      BY <2>2, <3>1
    <3>3. results[a] # None
      BY <2>1, <2>3, <3>2
    <3>4. PICK j \in JobsOf(a) : job[j].status = results[a]
      BY <2>1, <3>3
    <3>5. PICK n \in 1..Len(history[a]) : history[a][n] = IsError(job[j].status)
      BY <2>2, <2>3
    <3>6. IsError(job[j].status) = FALSE
      BY <2>6, <3>5
    <3>7. results[a] \in Responded
      BY <2>3, <2>4, <3>4, <3>6
    <3> QED
      BY <2>1, <2>4, <3>7
  <2> QED
    BY <2>5, <2>6
<1> QED
  BY <1>1, BroadcastInvariant, PTL

\* The messages a broadcast sends an agent are bounded by the tokens of its bucket,
\* whatever the list, the other calls and the time that passes.
THEOREM LimitIsKept == Spec => []AdmittedWithinLimit
<1>1. TypeOK /\ BroadcastInv => AdmittedWithinLimit
  <2> SUFFICES ASSUME TypeOK, BroadcastInv, NEW a \in Registered
               PROVE  LET admitted == Cardinality({i \in JobsOf(a) : job[i].calls > 0}) IN
                      (IF input.async THEN 2 ELSE 1) * admitted <= Burst + refills[a]
    BY DEF AdmittedWithinLimit
  <2> DEFINE sent == {i \in JobsOf(a) : job[i].calls > 0}
  <2>1. a \in Aliases
    BY BroadcastAssumption
  <2>2. (tokens[a] < 0 => Refusing(a)) /\ tokens[a] + Spent(a) <= Burst + refills[a] /\ tokens[a] >= -1
    BY <2>1 DEF BroadcastInv, TokensOK, TypeOK
  <2>3. /\ IsFiniteSet(Dispatched(a)) /\ Cardinality(Dispatched(a)) \in Nat
        /\ IsFiniteSet(Admitted(a)) /\ Cardinality(Admitted(a)) \in Nat
        /\ tokens[a] \in Int /\ refills[a] \in Int /\ Burst \in Int
    BY <2>1, SpentType
  <2>4. sent \subseteq Admitted(a) /\ sent \subseteq Jobs
    BY DEF Admitted, Passed, JobsOf
  <2>5. input.async => sent \subseteq Dispatched(a)
    BY DEF BroadcastInv, JobOK, Dispatched, JobsOf, TypeOK
  <2> HIDE DEF sent
  <2>6. Cardinality(sent) \in Nat /\ Cardinality(sent) <= Cardinality(Admitted(a))
    BY <2>3, <2>4, FS_Subset, JobsAreFinite
  <2>7. input.async => Cardinality(sent) <= Cardinality(Dispatched(a))
    BY <2>3, <2>5, FS_Subset
  <2>8. (IF input.async THEN 2 ELSE 1) * Cardinality(sent) <= Burst + refills[a]
    <3>1. CASE input.async
      BY <2>2, <2>3, <2>6, <2>7, <3>1 DEF Spent
    <3>2. CASE ~input.async
      BY <2>2, <2>3, <2>6, <3>2 DEF Spent
    <3> QED
      BY <3>1, <3>2
  <2> QED
    BY <2>8 DEF sent
<1> QED
  BY <1>1, BroadcastInvariant, PTL

\* The inbox gets an entry of each goroutine that an asynchronous broadcast
\* started, once and under its alias, and holds one of every alias that the client
\* was told about as soon as the goroutines of the alias have ended.
THEOREM InboxAgrees == Spec => []DepositsAgree
<1>1. Init => DepositsOK
  <2> SUFFICES ASSUME Init, NEW a \in Aliases
               PROVE  /\ Cardinality(Entries(a)) = IF input.async THEN Cardinality(Ended(a)) ELSE 0
                      /\ "dispatched" \in {results[a], answer[a]} => input.async /\ Begun(a) # {}
    BY DEF DepositsOK
  <2>1. Entries(a) = {}
    BY DEF Init, Entries
  <2>2. Ended(a) = {}
    BY DEF Init, NewJob, Ended, JobsOf
  <2>3. results[a] # "dispatched" /\ answer[a] # "dispatched"
    BY NoneAssumption DEF Init
  <2> QED
    BY <2>1, <2>2, <2>3, FS_EmptySet
<1>2. TypeOK /\ BroadcastInv /\ DepositsOK /\ [Next]_vars => DepositsOK'
  BY DepositsStep
<1>3. TypeOK /\ DepositsOK => DepositsAgree
  <2> SUFFICES ASSUME TypeOK, DepositsOK, NEW a \in Aliases
               PROVE  /\ Cardinality(Entries(a)) = IF input.async THEN Cardinality(Ended(a)) ELSE 0
                      /\ answer[a] = "dispatched" /\ (\A i \in JobsOf(a) : job[i].pc \in {"new", "done"})
                           => Cardinality(Entries(a)) > 0
    BY DEF DepositsAgree, Entries, Ended
  <2>1. /\ Cardinality(Entries(a)) = IF input.async THEN Cardinality(Ended(a)) ELSE 0
        /\ answer[a] = "dispatched" => input.async /\ Begun(a) # {}
    BY DEF DepositsOK
  <2>2. ASSUME answer[a] = "dispatched", \A i \in JobsOf(a) : job[i].pc \in {"new", "done"}
        PROVE  Cardinality(Entries(a)) > 0
    <3>1. Ended(a) # {}
      BY <2>1, <2>2 DEF Begun, Ended
    <3>2. IsFiniteSet(Ended(a)) /\ Cardinality(Ended(a)) \in Nat
      BY JobsAreFinite DEF Ended, JobsOf
    <3>3. Cardinality(Ended(a)) # 0
      BY <3>1, <3>2, FS_EmptySet
    <3> QED
      BY <2>1, <2>2, <3>2, <3>3
  <2> QED
    BY <2>1, <2>2
<1> QED
  BY <1>1, <1>2, <1>3, BroadcastInvariant, PTL DEF Spec
=============================================================================
