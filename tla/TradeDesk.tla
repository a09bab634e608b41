----------------------------- MODULE TradeDesk -----------------------------
(***************************************************************************)
(* Where trades come from: trade-generation-service asks books-service for *)
(* the active books, picks one and POSTs an intention, up to MaxAttempts   *)
(* times; any other caller may POST an intention for any book as well.     *)
(* trade-action-service opens and closes trades whenever it gets to the    *)
(* intention and never looks at is_active; DELETE /books counts a book's   *)
(* active trades before it deactivates it.                                 *)
(*                                                                         *)
(* Composes TradeGenerator and Books with trade-action-service, of whose   *)
(* queue, handlers and commits TradeAction has the details.  Here a        *)
(* payload is processed in one step, and in any order; of how many copies  *)
(* a payload has after resends the model only keeps that there is one.     *)
(***************************************************************************)
EXTENDS Naturals, Sequences, FiniteSets

CONSTANTS Book, Name, TradeId, NoRow, NoName, NoBook, MaxBatch, MaxFaults,
          Thread, Caller, NoThread, BatchSize, MaxAttempts, MaxIntentions,
          ForeignId,  \* client_request_ids that other callers POST under
          MaxRequests \* bound: requests clients make of the three services

ASSUME DeskAssumption ==
    /\ MaxBatch \in Nat \ {0} /\ BatchSize \in Nat \ {0}
    /\ MaxFaults \in Nat /\ MaxIntentions \in Nat /\ MaxRequests \in Nat
    /\ MaxAttempts \in Nat \ {0}
    /\ NoRow \notin [name : Name, active : BOOLEAN]
    /\ NoRow \notin [book : Book, status : {"ACTIVE", "CLOSED"}, openedBy : Nat \cup ForeignId]
    /\ NoBook \notin Book /\ NoName \notin Name
    /\ NoThread \notin Thread /\ Thread \cap Caller = {}

VARIABLES book, trade, session, deleting, faults,
          isRunning, thread, actor, generated, afterStop, overlap,
          intake,     \* payloads of which trade-action-service has a copy, in
                      \* a handler thread or on its queue
          requests,   \* history: requests clients made
          retired,    \* history: books whose is_active was last set by DELETE
          stragglers, \* history: stragglers[b]: openings for b that were on
                      \* their way when DELETE counted its trades
          direct      \* history: direct[b]: requests to open a trade in b that
                      \* other callers have POSTed since

books == <<book, session, deleting>>
generator == <<isRunning, thread, actor, generated, afterStop, overlap>>
history == <<retired, stragglers, direct>>
vars == <<book, trade, session, deleting, faults, isRunning, thread, actor,
          generated, afterStop, overlap, intake, requests, retired, stragglers, direct>>

B == INSTANCE Books
G == INSTANCE TradeGenerator

Init == /\ B!Init /\ G!Init
        /\ trade = [t \in TradeId |-> NoRow]
        /\ intake = {}
        /\ requests = 0
        /\ retired = {}
        /\ stragglers = [b \in Book |-> 0]
        /\ direct = [b \in Book |-> {}]

ActiveTrades == {t \in TradeId : trade[t] # NoRow /\ trade[t].status = "ACTIVE"}

\* get_trades(client_request_id=r, first_only=True) returns a row.
Existing(r) == \E t \in TradeId : trade[t] # NoRow /\ trade[t].openedBy = r

\* Openings for b that may still come, but for those in direct[b]: answers of
\* GET /books that list b and from which no book has been picked, and payloads,
\* not sent for good or not finished, whose request has opened no trade yet.
Wanting(b) == {a \in G!Actor : b \in actor[a].books}
Carried == UNION {{actor[a].items[i] : i \in DOMAIN actor[a].items} : a \in G!Actor}
Coming(b) == {p \in intake \cup Carried : /\ p[1] = "OPEN" /\ p[2] = b
                                          /\ p[3] \notin direct[b] /\ ~Existing(p[3])}
OnTheirWay(b) == Cardinality(Wanting(b)) + Cardinality(Coming(b))

-----------------------------------------------------------------------------
(* Requests to books-service                                               *)

Request == requests < MaxRequests /\ requests' = requests + 1

CreateBooks == B!CreateBooks /\ Request /\ UNCHANGED <<trade, generator, intake, history>>

GetBook == B!GetBook /\ Request /\ UNCHANGED <<trade, generator, intake, history>>

UpdateBook(b) ==
    /\ B!UpdateBook(b) /\ Request
    /\ retired' = IF book' # book /\ book'[b].active THEN retired \ {b} ELSE retired
    /\ UNCHANGED <<trade, generator, intake, stragglers, direct>>

CountTrades(b) ==
    /\ B!CountTrades(b) /\ Request
    /\ direct' = IF deleting' = b THEN [direct EXCEPT ![b] = {}] ELSE direct
    /\ UNCHANGED <<trade, generator, intake, retired>>
    /\ stragglers' = IF deleting' = b THEN [stragglers EXCEPT ![b] = OnTheirWay(b)']
                     ELSE stragglers

Deactivate ==
    /\ B!Deactivate
    /\ retired' = IF session' = "clean" THEN retired \cup {deleting} ELSE retired
    /\ UNCHANGED <<trade, generator, intake, requests, stragglers, direct>>

-----------------------------------------------------------------------------
(* trade-generation-service, and the calls it makes                        *)

Control(c) ==
    /\ Request
    /\ G!Start(c) \/ G!Stop(c) \/ \E n \in {1, BatchSize} : G!GenerateOnRequest(c, n)
    /\ UNCHANGED <<books, trade, faults, intake, history>>

FinishStart(c) == G!CreateThread(c) \/ G!Launch(c)
Loop(t) == \/ G!Check(t) \/ G!WakeUp(t) \/ G!End(t) \/ G!AuditStarted(t, FALSE)

AuditFails(t) ==
    /\ G!AuditStarted(t, TRUE) /\ B!Raised
    /\ UNCHANGED <<books, trade, intake, requests, history>>

Build(a) == G!ChooseClose(a, ActiveTrades) \/ G!Pick(a)

\* fetch_json asks GET /books up to three times; what counts is its last answer.
FetchBooks(a) ==
    /\ \E answer \in SUBSET Book : B!GetBooks(answer) /\ G!FetchBooks(a, answer)
    /\ UNCHANGED <<trade, intake, requests, history>>

\* One attempt of the POST.  202 means that every payload was enqueued; one
\* that fails may have had any of them enqueued first, up to a full queue, or
\* all of them, when only the answer was lost.
FirstOf(a, n) == {actor[a].items[i] : i \in 1..n}
Send(a) ==
    /\ \/ G!Send(a) /\ intake' = intake \cup FirstOf(a, Len(actor[a].items))
       \/ /\ G!SendFails(a)
          /\ \E n \in 0..Len(actor[a].items) : intake' = intake \cup FirstOf(a, n)
    /\ UNCHANGED <<books, trade, faults, requests, history>>

-----------------------------------------------------------------------------
(* trade-action-service                                                    *)

\* POST /trade-actions by somebody else, for any book or trade that has a row
\* (others are refused, by the foreign key and by the lookup), also under a
\* client_request_id that was used before.
PostDirectly ==
    /\ Request
    /\ \E r \in ForeignId :
         \/ \E b \in B!Rows : /\ intake' = intake \cup {<<"OPEN", b, r>>}
                              /\ direct' = [direct EXCEPT ![b] = @ \cup {r}]
         \/ \E t \in TradeId : /\ trade[t] # NoRow
                               /\ intake' = intake \cup {<<"CLOSE", t, r>>}
                               /\ UNCHANGED direct
    /\ UNCHANGED <<books, trade, faults, generator, retired, stragglers>>

NewTrade == CHOOSE t \in TradeId : trade[t] = NoRow

\* The worker takes a copy of a payload, the last one or not.  It opens a trade
\* in the payload's book, active or not, unless the request has opened one
\* before; or it closes a trade that is ACTIVE.  What it refuses, fails at or
\* loses in a restart is dropped.
Process(p) ==
    /\ p \in intake
    /\ intake' = intake \/ intake' = intake \ {p}
    /\ \/ /\ p[1] = "OPEN" /\ ~Existing(p[3])
          /\ \E t \in TradeId : trade[t] = NoRow
          /\ trade' = [trade EXCEPT ![NewTrade] =
                          [book |-> p[2], status |-> "ACTIVE", openedBy |-> p[3]]]
       \/ /\ p[1] = "CLOSE" /\ p[2] \in ActiveTrades
          /\ trade' = [trade EXCEPT ![p[2]].status = "CLOSED"]
       \/ UNCHANGED trade
    /\ UNCHANGED <<books, faults, generator, requests, history>>

-----------------------------------------------------------------------------
Internal == \/ \E c \in Caller : FinishStart(c)
            \/ \E t \in Thread : Loop(t)
            \/ \E a \in G!Actor : Build(a)

Next ==
    \/ CreateBooks \/ GetBook \/ Deactivate
    \/ \E b \in Book : UpdateBook(b) \/ CountTrades(b)
    \/ \E c \in Caller : Control(c)
    \/ Internal /\ UNCHANGED <<books, trade, faults, intake, requests, history>>
    \/ \E t \in Thread : AuditFails(t)
    \/ \E a \in G!Actor : FetchBooks(a) \/ Send(a)
    \/ PostDirectly
    \/ \E p \in intake : Process(p)

Spec == Init /\ [][Next]_vars

-----------------------------------------------------------------------------
(* Properties                                                              *)

\* trade-generation-service brings a deleted book no business but that which
\* was under way when its trades were counted: delete_book's count and commit
\* are two steps, but no GET /books is served between them, afterwards none
\* lists the book, and a resent payload opens no second trade.  Nothing else
\* enters the book but what other callers have asked for since, which no
\* service refuses.
Indirect(b) == {t \in B!ActiveTrades(b) : trade[t].openedBy \notin direct[b]}
DeletedTakesNoMore ==
    \A b \in retired : Cardinality(Indirect(b)) + OnTheirWay(b) <= stragglers[b]

\* app.py asks whether a stopped thread generates a "last" intention: a thread
\* generates at most one after a /stop, however /start and /stop follow.
OneMoreAtMost == \A t \in Thread : afterStop[t] <= 1

\* is_running means that a generator thread is in its loop or about to be:
\* POST /start, which refuses while is_running is set, leaves none of its
\* threads unstarted, whoever else stops and starts in between.  Only a failed
\* audit write at a thread's start leaves the flag without a thread.
RunningMeansAlive ==
    isRunning => \/ G!Alive # {} \/ G!Starting # {}
                 \/ \E t \in Thread : actor[t].pc = "dead"

\* Two POST /start requests never make two generators; it takes a /stop and a
\* /start within one iteration of the old thread, which then goes on.
TwoOnlyAfterRestart == Cardinality(G!InLoop) > 1 => overlap

\* A request that fails in SQL makes books-service fail for everybody until
\* somebody POSTs /books, and any such POST, even one that fails, ends that.
OnlyPostRevives ==
    [][/\ session = "failed" /\ session' = "clean" => CreateBooks
       /\ session' = "failed" => ~CreateBooks]_vars
=============================================================================
