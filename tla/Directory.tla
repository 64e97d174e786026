----------------------------- MODULE Directory -----------------------------
(***************************************************************************)
(* The agent directory and a client that reads it page by page with        *)
(* discover_agents.  The directory keeps the cards of agents, which its    *)
(* owner registers and unregisters at any time; a page is cut from a fresh *)
(* listing, and the cursor to the next page is an offset.  The client's    *)
(* gateway asks the directory it hosts itself in its own process, and any  *)
(* other over HTTP, where ListenAndServe starts and shuts down meanwhile.  *)
(***************************************************************************)
EXTENDS Naturals, Sequences, FiniteSets, SequencesExt, Lists

CONSTANTS
  NumNames,     \* number of names agent cards may have
  MaxLimit,     \* largest limit a client asks for
  MaxChanges,   \* registrations and removals while the client may be reading
  MaxRetries,   \* requests the client makes again
  MaxOthers,    \* requests in flight that the client does not wait for
  Garbled,      \* a cursor no directory gave out
  None

ASSUME DirectoryAssumption ==
  /\ NumNames \in Nat
  /\ MaxLimit \in Nat /\ MaxChanges \in Nat /\ MaxRetries \in Nat /\ MaxOthers \in Nat
  /\ None \notin Nat /\ Garbled \notin Nat /\ None # Garbled
  /\ None \notin {"http", "process", "nil", "listener", "timeout"}

VARIABLES
  ordered,    \* TRUE: a custom registry, which lists its cards in order; FALSE: MemoryRegistry
  registry,   \* the cards registered
  reader,     \* the client
  server,     \* ListenAndServe
  others,     \* number of requests in flight the client does not wait for
  changes     \* number of changes so far

vars == <<ordered, registry, reader, server, others, changes>>

\* Names, in the order in which the owner first registers them.
Names == 1..NumNames

\* A card, and whether the client's filter is in its name, description or tags.
Card == [name : Names, matches : BOOLEAN]

NamesOf(cards) == [i \in DOMAIN cards |-> cards[i].name]

\* An answer of the directory: a page and the cursor to the next, or an error.
Answer == [ok : BOOLEAN, cards : SUBSET Names, next : Nat \cup {None}]

Refusal == [ok |-> FALSE, cards |-> {}, next |-> None]

Reader == [pc       : {"idle", "sent", "accepted", "answered", "more", "told", "done"},
           via      : {"http", "process", None},   \* how its gateway reaches the directory
           limit    : (1..MaxLimit) \cup {None},
           cursor   : Nat \cup {Garbled},
           answer   : Answer,
           seen     : SUBSET Names,   \* the cards of the pages so far
           repeats  : Nat,            \* number of cards that were there before
           misled   : BOOLEAN,        \* an error was taken for an empty last page
           retries  : 0..MaxRetries,
           \* Since its first request: cards that have matched all the time, the
           \* number of those that ceased to match, and of those that began to.
           kept     : SUBSET Names,
           removed  : Nat,
           added    : Nat]

Server == [listener  : {"starting", "open", "closed", "failed"},
           exited    : BOOLEAN,                  \* srv.ListenAndServe sent its error to errCh
           cancelled : BOOLEAN,                  \* the context of ListenAndServe is done
           main      : {"select", "shutdown", "drained", "expired", "returned"},
           result    : {"nil", "listener", "timeout", None}]

\* There is one card of a name.
TypeOK ==
  /\ ordered \in BOOLEAN
  /\ registry \in Seq(Card) /\ IsInjective(NamesOf(registry))
  /\ reader \in Reader
  /\ server \in Server
  /\ others \in 0..MaxOthers
  /\ changes \in 0..MaxChanges

Newcomer == [pc |-> "idle", via |-> None, limit |-> None, cursor |-> 0,
             answer |-> Refusal, seen |-> {}, repeats |-> 0, misled |-> FALSE, retries |-> 0,
             kept |-> {}, removed |-> 0, added |-> 0]

\* The owner registers cards before it serves them.
Init ==
  /\ ordered \in BOOLEAN
  /\ \E n \in 0..NumNames : \E f \in [1..n -> BOOLEAN] :
       registry = [i \in 1..n |-> [name |-> i, matches |-> f[i]]]
  /\ reader = Newcomer
  /\ server = [listener |-> "starting", exited |-> FALSE, cancelled |-> FALSE,
               main |-> "select", result |-> None]
  /\ others = 0
  /\ changes = 0

At(step) == reader.pc = step

-----------------------------------------------------------------------------
(* The registry, and the page of a request.                                *)

\* DefaultResolver keeps the cards that match, in their order.  Only the names
\* matter from here on.  A client without a filter is one whose filter all match.
Resolve(cards) == NamesOf(Only(cards, {c \in ToSet(cards) : c.matches}))

\* MemoryRegistry ranges over a map: each listing has an order of its own.
Listings == IF ordered THEN {registry} ELSE SetToSeqs(ToSet(registry))

\* The names the client asks for.
Wanted(cards) == ToSet(Resolve(cards))

\* The cards change between two listings that the client gets: a change before the
\* first is in Init, one while a request waits for its listing comes before it.
\* A bound, here and under Cancel and AcceptBreaks: the cards change, or the server
\* stops, which have nothing in common but the client.
Change(cards) ==
  /\ server.listener = "open" /\ ~server.cancelled
  /\ reader.pc \in {"answered", "more", "told"}
  /\ changes < MaxChanges
  /\ changes' = changes + 1
  /\ registry' = cards
  /\ LET was == Wanted(registry)
         is  == Wanted(cards)
     IN reader' = [reader EXCEPT !.kept = @ \cap is,
                                 !.removed = @ + Cardinality(was \ is),
                                 !.added = @ + Cardinality(is \ was)]
  /\ UNCHANGED <<ordered, server, others>>

\* Variant of Register: a name that is there is not looked for.
RegisterAgain(n, matches) == Change(Append(registry, [name |-> n, matches |-> matches]))

\* Adds a card, or replaces the one of that name.
Register(n, matches) ==
  LET card == [name |-> n, matches |-> matches] IN
  IF n \in ToSet(NamesOf(registry))
  THEN Change([i \in DOMAIN registry |-> IF registry[i].name = n THEN card ELSE registry[i]])
  ELSE Change(Append(registry, card))

Unregister(n) == \E i \in DOMAIN registry : registry[i].name = n /\ Change(RemoveAt(registry, i))

\* Variant of NextCursor: the offset of the last card of the page.
OverlappingCursor(offset, limit) == offset + limit - 1

\* Variant of NextCursor: the offset of the page after the next card.
GapCursor(offset, limit) == offset + limit + 1

NextCursor(offset, limit) == offset + limit

HasMore(rest, limit) == limit # None /\ Len(rest) > limit

\* Variant of NextToken: a page with a limit always has a next one.
AlwaysMore(rest, offset, limit) == IF limit # None THEN NextCursor(offset, limit) ELSE None

NextToken(rest, offset, limit) == IF HasMore(rest, limit) THEN NextCursor(offset, limit) ELSE None

Cut(rest, limit) == IF HasMore(rest, limit) THEN SubSeq(rest, 1, limit) ELSE rest

\* Variant of Page: the page is cut before the filter is applied.
PageFirst(cards, cursor, limit) ==
  LET rest == SubSeq(cards, cursor + 1, Len(cards))
  IN [ok |-> TRUE, cards |-> Wanted(Cut(rest, limit)), next |-> NextToken(rest, cursor, limit)]

\* An offset beyond the end counts as the end.
Page(cards, cursor, limit) ==
  LET list   == Resolve(cards)
      offset == IF cursor > Len(list) THEN Len(list) ELSE cursor
      rest   == SubSeq(list, offset + 1, Len(list))
  IN [ok |-> TRUE, cards |-> ToSet(Cut(rest, limit)), next |-> NextToken(rest, offset, limit)]

\* What ServeHTTP may answer the request of r; only a custom registry fails.
ServeHTTP(r) ==
  IF r.cursor = Garbled THEN {Refusal}
  ELSE {Page(cards, r.cursor, r.limit) : cards \in Listings}
       \cup {a \in {Refusal} : ordered}

-----------------------------------------------------------------------------
(* discover_agents.                                                        *)

\* An explicit URL comes before the hosted directory, that before the default.
Source(explicit, hosted, default) ==
  CASE explicit = "valid" -> "http"
    [] explicit = "none" /\ hosted -> "process"
    [] explicit = "none" /\ ~hosted /\ default = "valid" -> "http"
    [] OTHER -> None

\* The first call.  An input the tool refuses, and a gateway that knows of no
\* directory, end it before anything is sent.
Discover ==
  /\ At("idle")
  /\ \E explicit, default \in {"valid", "invalid", "none"}, hosted \in BOOLEAN,
        limit \in (0..MaxLimit) \cup {None}, cursor \in {0, Garbled} :
       LET via == IF limit = 0 THEN None ELSE Source(explicit, hosted, default) IN
       reader' = IF via = None THEN [reader EXCEPT !.pc = "done"]
                 ELSE [reader EXCEPT !.pc = "sent", !.via = via, !.limit = limit,
                                     !.cursor = cursor, !.kept = Wanted(registry)]
  /\ UNCHANGED <<ordered, registry, server, others, changes>>

\* The call for the next page.
Continue ==
  /\ At("more")
  /\ reader' = [reader EXCEPT !.pc = "sent"]
  /\ UNCHANGED <<ordered, registry, server, others, changes>>

\* The client was told of an error and asks for the same page again.
Retry ==
  /\ At("told")
  /\ reader.retries < MaxRetries
  /\ reader' = [reader EXCEPT !.pc = "sent", !.retries = @ + 1]
  /\ UNCHANGED <<ordered, registry, server, others, changes>>

\* The reader r with answer a: a page ends the reading or names the next one.
Turn(r, a) ==
  LET s == [r EXCEPT !.seen = @ \cup a.cards, !.answer = Refusal,
                      !.repeats = @ + Cardinality(r.seen \cap a.cards)] IN
  IF a.next = None THEN [s EXCEPT !.pc = "done"] ELSE [s EXCEPT !.pc = "more", !.cursor = a.next]

\* Variant of HandleInProcess: the status of the answer is not looked at.
HandleInProcessUnchecked ==
  /\ At("sent") /\ reader.via = "process"
  /\ \E a \in ServeHTTP(reader) : reader' = Turn(reader, a)
  /\ UNCHANGED <<ordered, registry, server, others, changes>>

\* handleInProcess: one call of ServeHTTP, whose errors are told.
HandleInProcess ==
  /\ At("sent") /\ reader.via = "process"
  /\ \E a \in ServeHTTP(reader) :
       reader' = IF a.ok THEN Turn(reader, a) ELSE [reader EXCEPT !.pc = "told"]
  /\ UNCHANGED <<ordered, registry, server, others, changes>>

AcceptRequest ==
  /\ At("sent") /\ reader.via = "http"
  /\ server.listener = "open"
  /\ reader' = [reader EXCEPT !.pc = "accepted"]
  /\ UNCHANGED <<ordered, registry, server, others, changes>>

ServeRequest ==
  /\ At("accepted")
  /\ \E a \in ServeHTTP(reader) : reader' = [reader EXCEPT !.pc = "answered", !.answer = a]
  /\ UNCHANGED <<ordered, registry, server, others, changes>>

\* handleHTTP reads the body whatever the status: of an error's body it makes
\* a page without cards and without a next one.
ReceiveAnswer ==
  /\ At("answered")
  /\ reader' = [Turn(reader, reader.answer) EXCEPT !.misled = ~reader.answer.ok]
  /\ UNCHANGED <<ordered, registry, server, others, changes>>

\* No connection, a lost answer, 30 s, or the client's own cancellation.  A
\* handler at work is left to itself.
RequestFails ==
  /\ reader.via = "http" /\ reader.pc \in {"sent", "accepted", "answered"}
  /\ At("accepted") => others < MaxOthers
  /\ others' = IF At("accepted") THEN others + 1 ELSE others
  /\ reader' = [reader EXCEPT !.pc = "told", !.answer = Refusal]
  /\ UNCHANGED <<ordered, registry, server, changes>>

-----------------------------------------------------------------------------
(* ListenAndServe.                                                         *)

\* Requests that the server's handler is working on.
InFlight == others + (IF At("accepted") THEN 1 ELSE 0)

OtherRequest ==
  /\ server.listener = "open"
  /\ others < MaxOthers
  /\ others' = others + 1
  /\ UNCHANGED <<ordered, registry, reader, server, changes>>

OtherServed ==
  /\ others > 0
  /\ others' = others - 1
  /\ UNCHANGED <<ordered, registry, reader, server, changes>>

ServerStep(s) == server' = s /\ UNCHANGED <<ordered, registry, reader, others, changes>>

\* The listener opens, unless Shutdown was called by then, or it fails; its
\* goroutine then sends the error.
Listen ==
  /\ server.listener = "starting"
  /\ \/ ServerStep([server EXCEPT !.listener = IF server.main = "select" THEN "open" ELSE "closed"])
     \/ ServerStep([server EXCEPT !.listener = "failed", !.exited = TRUE])

\* A listener that was open breaks.
AcceptBreaks ==
  /\ server.listener = "open" /\ changes = 0
  /\ ServerStep([server EXCEPT !.listener = "failed", !.exited = TRUE])

\* ErrServerClosed, which ListenAndServe takes for no error.
ListenerExits ==
  /\ server.listener = "closed" /\ ~server.exited
  /\ ServerStep([server EXCEPT !.exited = TRUE])

Cancel ==
  /\ ~server.cancelled /\ changes = 0
  /\ ServerStep([server EXCEPT !.cancelled = TRUE])

\* Shutdown closes the listener first.
Shutdown ==
  /\ server.main = "select" /\ server.cancelled
  /\ ServerStep([server EXCEPT !.main = "shutdown",
                               !.listener = IF @ = "open" THEN "closed" ELSE @])

\* Variant of Drained: Close instead of Shutdown.
Closed == server.main = "shutdown" /\ ServerStep([server EXCEPT !.main = "drained"])

Drained ==
  /\ server.main = "shutdown" /\ InFlight = 0
  /\ ServerStep([server EXCEPT !.main = "drained"])

\* Variant of ShutdownExpires: Shutdown is given a context without a deadline.
NeverExpires == FALSE /\ UNCHANGED vars

\* 30 s are over.
ShutdownExpires ==
  /\ server.main = "shutdown" /\ InFlight > 0
  /\ ServerStep([server EXCEPT !.main = "expired"])

\* The error of Shutdown comes first, then that of the listener.
ShutdownReturns ==
  /\ server.main \in {"drained", "expired"} /\ server.exited
  /\ ServerStep([server EXCEPT !.main = "returned",
       !.result = IF server.main = "expired" THEN "timeout"
                  ELSE IF server.listener = "closed" THEN "nil" ELSE "listener"])

\* The other branch of the select: nothing was cancelled, or it lost the race.
ListenerReturns ==
  /\ server.main = "select" /\ server.exited
  /\ ServerStep([server EXCEPT !.main = "returned",
                               !.result = IF server.listener = "closed" THEN "nil" ELSE "listener"])

-----------------------------------------------------------------------------
\* The client has all it gets and the server is gone.
Over == reader.pc \in {"told", "done"} /\ server.main = "returned" /\ UNCHANGED vars

Request == HandleInProcess \/ AcceptRequest \/ ServeRequest \/ ReceiveAnswer \/ RequestFails

Serving == Listen \/ ListenerExits \/ Shutdown \/ Drained \/ ShutdownExpires
           \/ ShutdownReturns \/ ListenerReturns

Next ==
  \/ \E n \in Names : Unregister(n) \/ \E matches \in BOOLEAN : Register(n, matches)
  \/ Discover \/ Continue \/ Retry \/ Request
  \/ OtherRequest \/ OtherServed \/ AcceptBreaks \/ Cancel \/ Serving
  \/ Over

Spec == Init /\ [][Next]_vars

\* A request ends, by the tool's 30 s at the latest, and the goroutines of
\* ListenAndServe run.  Handlers may hang, and a client need not read on.
FairSpec == Spec /\ WF_vars(Request) /\ WF_vars(Serving)

-----------------------------------------------------------------------------
(* Properties.                                                             *)

\* With an ordered registry, a client that read to the end has missed no more of
\* the cards that were there all the time than others were removed meanwhile
\* (each shifts one card over the offset).  The exception is an error that
\* handleHTTP showed it as an empty page.
MissesAreRemovals ==
  ordered /\ At("done") /\ ~reader.misled => Cardinality(reader.kept \ reader.seen) <= reader.removed

\* With an ordered registry no card is seen twice, unless one was added or
\* replaced meanwhile for each repetition.
RepeatsAreAdditions ==
  ordered => reader.repeats <= reader.added

\* Whatever the order of the listings, the pages of a registry nobody changes have
\* as many cards as there are to see: a repetition costs a miss, and nothing
\* tells.  A reading of one page misses none.
PagesAddUp ==
  At("done") /\ reader.via # None /\ ~reader.misled =>
    /\ reader.removed = 0 /\ reader.added = 0 =>
         Cardinality(reader.seen) + reader.repeats = Cardinality(reader.kept)
    /\ reader.limit = None => reader.kept \subseteq reader.seen

\* A page that names a next one leads the client on, and never past the cards that
\* may be there: it turns as many pages as there are names, at most, however the
\* owner changes the directory and whatever page it asked for again.
PagesRunOut ==
  [][reader.pc # "more" /\ reader'.pc = "more" =>
       reader.cursor < reader'.cursor /\ reader'.cursor < NumNames]_vars

\* Every call is answered, and a client that follows the cursors comes to an end,
\* however the owner changes the directory.
ReadingEnds == <>[](reader.pc \in {"idle", "more", "told", "done"})

\* ListenAndServe returns without an error only when it was told to stop, the
\* listener did not fail, and no request is being worked on then or later
\* ("graceful shutdown": none is cut off, none let in).
GracefulReturn ==
  server.result = "nil" => server.cancelled /\ server.listener # "failed" /\ InFlight = 0

\* ListenAndServe returns after its context is done, even if a handler hangs.
ServerReturns == server.cancelled ~> server.main = "returned"
=============================================================================
