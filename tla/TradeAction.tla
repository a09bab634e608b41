---------------------------- MODULE TradeAction ----------------------------
(***************************************************************************)
(* trade-action-service: HTTP handler threads validate trade actions and   *)
(* put them on a bounded in-memory queue; one worker thread takes them off *)
(* and writes the trades and valuations tables.  Clients (the generator's  *)
(* @retry'ed POST, curl) resend the same payload after a time-out or an    *)
(* error status, so one client_request_id may be queued several times.     *)
(*                                                                         *)
(* A payload's prices and quantities are not modelled.  Every call the     *)
(* worker makes inside its `try` may raise (database down, a malformed     *)
(* payload); failed calls, and restarts of the process, are bounded by     *)
(* MaxFaults and MaxRestarts.                                              *)
(*                                                                         *)
(* An operator whose comment says "Slip:" is a bug one could plausibly     *)
(* make in the definition that follows it; no specification uses it.       *)
(***************************************************************************)
EXTENDS Naturals, Sequences, FiniteSets

CONSTANTS Rid, TradeId, NoRid, NoTrade,
          Client,       \* callers of POST /trade-actions and .../batch
          Handler,      \* bound: requests served at the same time
          NoHandler,    \* a client with no open connection
          Idle,         \* the worker's job when it waits in queue.get()
          QueueMaxsize, \* TRADE_ACTION_QUEUE_MAXSIZE
          MaxAttempts,  \* @retry(max_attempts=3)
          MaxBatch,     \* bound: payloads in one request
          MaxFaults,    \* bound: calls that raise
          MaxRestarts   \* bound: restarts of the service

ASSUME ParamAssumption ==
    /\ QueueMaxsize \in Nat \ {0}
    /\ MaxAttempts \in Nat \ {0}
    /\ MaxBatch \in Nat \ {0}
    /\ MaxFaults \in Nat
    /\ MaxRestarts \in Nat
ASSUME NullAssumption ==
    /\ NoRid \notin Rid
    /\ NoTrade \notin TradeId
    /\ NoHandler \notin Handler

VARIABLES
    asked, status, openedBy, closing,   \* as in TradeLedger
    metadata,   \* metadata[t]: metadata_payload["close_client_request_id"]
    closedBy,   \* history: the request whose processing closed trade t
    client,     \* the callers' view of their current request
    handler,    \* the service's HTTP handler threads
    queue,      \* worker.trade_queue
    worker,     \* the worker thread: program counter, payload, committed?
    metrics,    \* counters of metrics._state
    promised,   \* history: payloads that were put on the queue
    dropped,    \* history: payloads the worker finished without counting
    faults,     \* history: calls that raised
    restarts    \* history: restarts of the process

db == <<status, openedBy, closing, metadata, closedBy>>
vars == <<asked, status, openedBy, closing, metadata, closedBy, client, handler,
          queue, worker, metrics, promised, dropped, faults, restarts>>

Action == {"OPEN_TRADE", "CLOSE_TRADE", "INVALID"}
Payload == [action : Action, rid : Rid, trade : TradeId \cup {NoTrade}]
Counter == {"accepted", "processed", "errors", "duplicates",
            "rejected_400", "overload_503"}
ClientPc == {"idle", "ready", "waiting"}
HandlerPc == {"free", "item", "accept", "full", "ok", "fail"}
WorkerPc == {"get", "start", "lookup", "duplicate", "insert", "closeLookup",
             "closeAudit", "lock", "refuse", "commit", "postAudit", "except"}

ClientRec == [pc : ClientPc, items : Seq(Payload), batch : BOOLEAN,
              attempt : 0..MaxAttempts, conn : Handler \cup {NoHandler}]
HandlerRec == [pc : HandlerPc, items : Seq(Payload), batch : BOOLEAN]
WorkerRec == [pc : WorkerPc, job : Payload \cup {Idle}, committed : BOOLEAN]

FreeHandler == [pc |-> "free", items |-> <<>>, batch |-> FALSE]
IdleClient == [pc |-> "idle", items |-> <<>>, batch |-> FALSE,
               attempt |-> 0, conn |-> NoHandler]
IdleWorker == [pc |-> "get", job |-> Idle, committed |-> FALSE]
NoCounts == [m \in Counter |-> 0]

Init ==
    /\ asked = {}
    /\ status = [t \in TradeId |-> "NONE"]
    /\ openedBy = [t \in TradeId |-> NoRid]
    /\ closing = [t \in TradeId |-> 0]
    /\ metadata = [t \in TradeId |-> NoRid]
    /\ closedBy = [t \in TradeId |-> NoRid]
    /\ client = [c \in Client |-> IdleClient]
    /\ handler = [h \in Handler |-> FreeHandler]
    /\ queue = <<>>
    /\ worker = IdleWorker
    /\ metrics = NoCounts
    /\ promised = {}
    /\ dropped = 0
    /\ faults = 0
    /\ restarts = 0

Count(m) == metrics' = [metrics EXCEPT ![m] = @ + 1]
Raised == faults < MaxFaults /\ faults' = faults + 1

-----------------------------------------------------------------------------
(* Clients: generate a payload or a batch, POST it, retry on any error.    *)

\* What a client may ask under a new client_request_id: the generator closes a
\* trade it has just read from the database, a manual client may name any.
Wanted(r) ==
    [action : {"OPEN_TRADE", "INVALID"}, rid : {r}, trade : {NoTrade}] \cup
    [action : {"CLOSE_TRADE"}, rid : {r},
     trade : {t \in TradeId : status[t] # "NONE"} \cup {NoTrade}]

Generate(c) ==
    /\ client[c].pc = "idle"
    /\ \E n \in 1..MaxBatch, batch \in BOOLEAN :
         /\ ~batch => n = 1
         /\ \E items \in [1..n -> UNION {Wanted(r) : r \in Rid}] :
              /\ \A i \in 1..n : \A p \in asked : items[i].rid # p.rid
              /\ \A i, j \in 1..n : i # j => items[i].rid # items[j].rid
              /\ asked' = asked \cup {items[i] : i \in 1..n}
              /\ client' = [client EXCEPT ![c] =
                    [pc |-> "ready", items |-> items, batch |-> batch,
                     attempt |-> 0, conn |-> NoHandler]]
    /\ UNCHANGED <<db, handler, queue, worker, metrics, promised, dropped,
                   faults, restarts>>

\* One attempt of fetch_json reaches the service, which spawns a thread.
Send(c) ==
    /\ client[c].pc = "ready"
    /\ \E h \in Handler :
         /\ handler[h].pc = "free"
         /\ handler' = [handler EXCEPT ![h] = [pc |-> "item",
                           items |-> client[c].items, batch |-> client[c].batch]]
         /\ client' = [client EXCEPT ![c].pc = "waiting", ![c].conn = h,
                                     ![c].attempt = @ + 1]
    /\ UNCHANGED <<asked, db, queue, worker, metrics, promised, dropped,
                   faults, restarts>>

\* A failed attempt: try again, or give up after the last one.
AfterFailure(cl) ==
    IF cl.attempt = MaxAttempts THEN IdleClient
    ELSE [cl EXCEPT !.pc = "ready", !.conn = NoHandler]

\* urlopen(timeout=5) expires, or the connection broke; the handler runs on.
TimeOut(c) ==
    /\ client[c].pc = "waiting"
    /\ client' = [client EXCEPT ![c] = AfterFailure(client[c])]
    /\ UNCHANGED <<asked, db, handler, queue, worker, metrics, promised,
                   dropped, faults, restarts>>

-----------------------------------------------------------------------------
(* HTTP handler threads: submit_trade_action and submit_trade_action_batch *)

Valid(p) == p.action # "INVALID"

\* validate_trade_action finds an error.  The single endpoint audits it (which
\* may raise: 500) and answers 400; the batch counts it and goes on.
Reject(h) ==
    /\ handler[h].pc = "item" /\ handler[h].items # <<>>
    /\ ~Valid(Head(handler[h].items))
    /\ \/ /\ Count("rejected_400")
          /\ handler' = [handler EXCEPT ![h] =
                [pc |-> IF @.batch THEN "item" ELSE "fail",
                 items |-> Tail(@.items), batch |-> @.batch]]
          /\ UNCHANGED faults
       \/ /\ ~handler[h].batch
          /\ Raised
          /\ handler' = [handler EXCEPT ![h].pc = "fail"]
          /\ UNCHANGED metrics
    /\ UNCHANGED <<asked, db, client, queue, worker, promised, dropped, restarts>>

\* Slip: one too many.
RoomOffByOne == Len(queue) <= QueueMaxsize
\* queue.Queue(maxsize) has room.
Room == Len(queue) < QueueMaxsize

\* trade_queue.put(payload, block=False) succeeds ...
Put(h) ==
    /\ handler[h].pc = "item" /\ handler[h].items # <<>>
    /\ Valid(Head(handler[h].items))
    /\ Room
    /\ queue' = Append(queue, Head(handler[h].items))
    /\ promised' = promised \cup {Head(handler[h].items)}
    /\ handler' = [handler EXCEPT ![h].pc = "accept"]
    /\ UNCHANGED <<asked, db, client, worker, metrics, dropped, faults, restarts>>

\* ... and only then is the payload counted as accepted.
RecordAccepted(h) ==
    /\ handler[h].pc = "accept"
    /\ Count("accepted")
    /\ handler' = [handler EXCEPT ![h].pc = "item", ![h].items = Tail(@)]
    /\ UNCHANGED <<asked, db, client, queue, worker, promised, dropped, faults,
                   restarts>>

\* Slip: a full queue evicts its oldest payload.
PutFullEvicts(h) ==
    /\ handler[h].pc = "item" /\ handler[h].items # <<>>
    /\ Valid(Head(handler[h].items)) /\ ~Room
    /\ queue' = Append(Tail(queue), Head(handler[h].items))
    /\ promised' = promised \cup {Head(handler[h].items)}
    /\ handler' = [handler EXCEPT ![h].pc = "accept"]
    /\ UNCHANGED <<asked, db, client, worker, metrics, dropped, faults, restarts>>

\* queue.Full: a batch stops here, with its earlier items enqueued.
PutFull(h) ==
    /\ handler[h].pc = "item" /\ handler[h].items # <<>>
    /\ Valid(Head(handler[h].items))
    /\ ~Room
    /\ handler' = [handler EXCEPT ![h].pc = "full"]
    /\ UNCHANGED <<asked, db, client, queue, worker, metrics, promised, dropped,
                   faults, restarts>>

\* Audit the refusal, count it, answer 503; if the audit raises, answer 500.
Overload(h) ==
    /\ handler[h].pc = "full"
    /\ handler' = [handler EXCEPT ![h].pc = "fail"]
    /\ \/ Count("overload_503") /\ UNCHANGED faults
       \/ Raised /\ UNCHANGED metrics
    /\ UNCHANGED <<asked, db, client, queue, worker, promised, dropped, restarts>>

\* Every item was handled: 202.
Finish(h) ==
    /\ handler[h].pc = "item" /\ handler[h].items = <<>>
    /\ handler' = [handler EXCEPT ![h].pc = "ok"]
    /\ UNCHANGED <<asked, db, client, queue, worker, metrics, promised, dropped,
                   faults, restarts>>

\* The response reaches the client if it is still waiting for it; urlopen
\* raises for every status of 400 and above.
Reply(h) ==
    /\ handler[h].pc \in {"ok", "fail"}
    /\ handler' = [handler EXCEPT ![h] = FreeHandler]
    /\ client' = [c \in Client |->
                    IF client[c].conn # h THEN client[c]
                    ELSE IF handler[h].pc = "ok" THEN IdleClient
                    ELSE AfterFailure(client[c])]
    /\ UNCHANGED <<asked, db, queue, worker, metrics, promised, dropped, faults,
                   restarts>>

-----------------------------------------------------------------------------
(* The worker thread: trade_action_worker and trade_action_handler.        *)

outside == <<asked, client, handler, promised, restarts>>
Goto(pc) == worker' = [worker EXCEPT !.pc = pc]
Taken(r) == \E t \in TradeId : openedBy[t] = r

\* Slip: the lookup sees only ACTIVE trades.
ExistingActive(r) == \E t \in TradeId : openedBy[t] = r /\ status[t] = "ACTIVE"
\* get_trades(client_request_id=r, first_only=True) returns a row.
Existing(r) == Taken(r)

\* Slip: the status test is missing.
ClosableAny(t) == status[t] # "NONE"
\* The locked row may be closed.
Closable(t) == status[t] = "ACTIVE"

Get ==
    /\ worker.pc = "get" /\ queue # <<>>
    /\ worker' = [pc |-> "start", job |-> Head(queue), committed |-> FALSE]
    /\ queue' = Tail(queue)
    /\ UNCHANGED <<outside, db, metrics, dropped, faults>>

\* "Processing trade action" is in the audit log.
AuditStart ==
    /\ worker.pc = "start"
    /\ Goto(IF worker.job.action = "OPEN_TRADE" THEN "lookup" ELSE "closeLookup")
    /\ UNCHANGED <<outside, db, queue, metrics, dropped, faults>>

\* Idempotency check of OPEN_TRADE: SELECT ... WHERE client_request_id = r
\* FOR UPDATE, which locks the row it finds and nothing when there is none.
OpenLookup ==
    /\ worker.pc = "lookup"
    /\ Goto(IF Existing(worker.job.rid) THEN "duplicate" ELSE "insert")
    /\ UNCHANGED <<outside, db, queue, metrics, dropped, faults>>

\* Slip: the wrong counter.
RecordDuplicateAsProcessed ==
    /\ worker.pc = "duplicate"
    /\ Count("processed")
    /\ worker' = IdleWorker
    /\ UNCHANGED <<outside, db, queue, dropped, faults>>

\* Audit the duplicate and count it.
RecordDuplicate ==
    /\ worker.pc = "duplicate"
    /\ Count("duplicates")
    /\ worker' = IdleWorker
    /\ UNCHANGED <<outside, db, queue, dropped, faults>>

\* The instrument is looked up, or created and flushed, and the new row added
\* to the session.
Insert ==
    /\ worker.pc = "insert"
    /\ Goto("commit")
    /\ UNCHANGED <<outside, db, queue, metrics, dropped, faults>>

\* Idempotency check of CLOSE_TRADE: the row's close_client_request_id.
CloseLookup ==
    /\ worker.pc = "closeLookup"
    /\ Goto(IF \E t \in TradeId : /\ t = worker.job.trade
                                  /\ metadata[t] = worker.job.rid
            THEN "duplicate" ELSE "closeAudit")
    /\ UNCHANGED <<outside, db, queue, metrics, dropped, faults>>

AuditClose ==
    /\ worker.pc = "closeAudit"
    /\ Goto("lock")
    /\ UNCHANGED <<outside, db, queue, metrics, dropped, faults>>

\* The row is locked and read: an unknown trade, or one that is not ACTIVE,
\* is refused; otherwise the close and its valuation are added to the session.
LockTrade ==
    /\ worker.pc = "lock"
    /\ Goto(IF \E t \in TradeId : t = worker.job.trade /\ Closable(t)
            THEN "commit" ELSE "refuse")
    /\ UNCHANGED <<outside, db, queue, metrics, dropped, faults>>

\* Audit the refusal, "trade not found" or "trade not ACTIVE", and count it.
RefuseClose ==
    /\ worker.pc = "refuse"
    /\ Count("errors")
    /\ worker' = IdleWorker
    /\ UNCHANGED <<outside, db, queue, dropped, faults>>

\* db.commit() of a new trade, under the UNIQUE constraint.
CommitOpen ==
    /\ worker.pc = "commit" /\ worker.job.action = "OPEN_TRADE"
    /\ ~Taken(worker.job.rid)
    /\ \E t \in TradeId :
         /\ status[t] = "NONE"
         /\ status' = [status EXCEPT ![t] = "ACTIVE"]
         /\ openedBy' = [openedBy EXCEPT ![t] = worker.job.rid]
    /\ worker' = [worker EXCEPT !.pc = "postAudit", !.committed = TRUE]
    /\ UNCHANGED <<outside, closing, metadata, closedBy, queue, metrics, dropped,
                   faults>>

\* Slip: the valuation is not added to the session.
CommitCloseNoValuation ==
    /\ worker.pc = "commit" /\ worker.job.action = "CLOSE_TRADE"
    /\ status' = [status EXCEPT ![worker.job.trade] = "CLOSED"]
    /\ closedBy' = [closedBy EXCEPT ![worker.job.trade] = worker.job.rid]
    /\ worker' = [worker EXCEPT !.pc = "postAudit", !.committed = TRUE]
    /\ UNCHANGED <<outside, openedBy, closing, metadata, queue, metrics, dropped,
                   faults>>

\* db.commit() of a close: the row and its closing valuation, together.
CommitClose ==
    /\ worker.pc = "commit" /\ worker.job.action = "CLOSE_TRADE"
    /\ status' = [status EXCEPT ![worker.job.trade] = "CLOSED"]
    /\ closing' = [closing EXCEPT ![worker.job.trade] = @ + 1]
    /\ closedBy' = [closedBy EXCEPT ![worker.job.trade] = worker.job.rid]
    /\ worker' = [worker EXCEPT !.pc = "postAudit", !.committed = TRUE]
    /\ UNCHANGED <<outside, openedBy, metadata, queue, metrics, dropped, faults>>

\* "Trade opened" / "Trade closed" is in the audit log; count the payload.
RecordProcessed ==
    /\ worker.pc = "postAudit"
    /\ Count("processed")
    /\ worker' = IdleWorker
    /\ UNCHANGED <<outside, db, queue, dropped, faults>>

\* Slip: no `except` around the handler.
RaiseKillsWorker ==
    /\ worker.pc \notin {"get", "except", "dead"}
    /\ Raised
    /\ Goto("dead")
    /\ UNCHANGED <<outside, db, queue, metrics, dropped>>

\* A call in the `try` raises: an audit write, a query, a conversion, commit.
\* Only a violated UNIQUE constraint does so without a fault.
Raise ==
    /\ worker.pc \notin {"get", "except"}
    /\ IF worker.pc = "commit" /\ worker.job.action = "OPEN_TRADE"
                               /\ Taken(worker.job.rid)
       THEN UNCHANGED faults ELSE Raised
    /\ Goto("except")
    /\ UNCHANGED <<outside, db, queue, metrics, dropped>>

\* Slip: record_error is missing.
RecordFailureUncounted ==
    /\ worker.pc = "except"
    /\ worker' = IdleWorker
    /\ UNCHANGED <<outside, db, queue, metrics, dropped, faults>>

\* `except`: roll back, audit "Trade action failed", count an error.
RecordFailure ==
    /\ worker.pc = "except"
    /\ Count("errors")
    /\ worker' = IdleWorker
    /\ UNCHANGED <<outside, db, queue, dropped, faults>>

\* That audit raises too: trade_action_worker logs it and takes the next.
DropFailure ==
    /\ worker.pc = "except"
    /\ Raised
    /\ dropped' = dropped + 1
    /\ worker' = IdleWorker
    /\ UNCHANGED <<outside, db, queue, metrics>>

\* The process restarts: all that is left is the database.
Restart ==
    /\ restarts < MaxRestarts
    /\ restarts' = restarts + 1
    /\ handler' = [h \in Handler |-> FreeHandler]
    /\ client' = [c \in Client |-> [client[c] EXCEPT !.conn = NoHandler]]
    /\ queue' = <<>>
    /\ worker' = IdleWorker
    /\ metrics' = NoCounts
    /\ dropped' = 0
    /\ UNCHANGED <<asked, db, promised, faults>>

-----------------------------------------------------------------------------
ClientStep(c) == Generate(c) \/ Send(c) \/ TimeOut(c)
HandlerStep(h) == \/ Reject(h) \/ Put(h) \/ RecordAccepted(h) \/ PutFull(h)
                  \/ Overload(h) \/ Finish(h) \/ Reply(h)
WorkerStep == \/ Get \/ AuditStart \/ OpenLookup \/ RecordDuplicate \/ Insert
              \/ CloseLookup \/ AuditClose \/ LockTrade \/ RefuseClose
              \/ CommitOpen \/ CommitClose \/ RecordProcessed
              \/ Raise \/ RecordFailure \/ DropFailure

Next == \/ \E c \in Client : ClientStep(c)
        \/ \E h \in Handler : HandlerStep(h)
        \/ WorkerStep
        \/ Restart

Spec == Init /\ [][Next]_vars

\* Threads are scheduled; a client that asked keeps trying and gives up on a
\* silent connection.  Nothing obliges a client to ask or the service to fail.
Fairness == /\ \A c \in Client : WF_vars(Send(c)) /\ WF_vars(TimeOut(c))
            /\ \A h \in Handler : WF_vars(HandlerStep(h))
            /\ WF_vars(WorkerStep)

FairSpec == Spec /\ Fairness

-----------------------------------------------------------------------------
(* Properties.                                                             *)

InQueue(p) == \E i \in 1..Len(queue) : queue[i] = p
Pending(p) == InQueue(p) \/ worker.job = p
Kept(p) == IF p.action = "OPEN_TRADE" THEN Taken(p.rid)
           ELSE p.trade \in TradeId => status[p.trade] = "CLOSED"

\* The variables have the shapes the code gives them.
TypeOK ==
    /\ asked \subseteq Payload
    /\ status \in [TradeId -> {"NONE", "ACTIVE", "CLOSED"}]
    /\ openedBy \in [TradeId -> Rid \cup {NoRid}]
    /\ closing \in [TradeId -> Nat]
    /\ metadata \in [TradeId -> Rid \cup {NoRid}]
    /\ closedBy \in [TradeId -> Rid \cup {NoRid}]
    /\ client \in [Client -> ClientRec]
    /\ handler \in [Handler -> HandlerRec]
    /\ queue \in Seq(Payload) /\ Len(queue) <= QueueMaxsize
    /\ worker \in WorkerRec
    /\ metrics \in [Counter -> Nat]
    /\ promised \subseteq Payload
    /\ dropped \in Nat
    /\ faults \in 0..MaxFaults
    /\ restarts \in 0..MaxRestarts

\* A trade has exactly one closing valuation when it is CLOSED and none
\* before: realised PnL is never lost and never booked twice, although several
\* queued requests may want to close the same trade.
OneClosingValuation ==
    \A t \in TradeId : closing[t] = IF status[t] = "CLOSED" THEN 1 ELSE 0

\* What the idempotency lookup of OPEN_TRADE found is still so at commit: the
\* UNIQUE constraint on client_request_id never turns a retry into an error.
ConstraintNeverFires ==
    worker.pc \in {"insert", "commit"} /\ worker.job.action = "OPEN_TRADE"
        => ~Taken(worker.job.rid)

\* Every payload that entered the queue is in the queue, in the worker's hands
\* or in exactly one of the worker's counters; what the counters miss are the
\* payloads whose failure could not even be audited.
Accounted ==
    metrics["accepted"] + Cardinality({h \in Handler : handler[h].pc = "accept"})
      = Len(queue) + (IF worker.pc = "get" THEN 0 ELSE 1)
        + metrics["processed"] + metrics["errors"] + metrics["duplicates"]
        + dropped

\* "processed" counts changes of the trades table: each payload counted, or
\* about to be, opened or closed a trade of its own, and every such change is
\* counted unless the audit write after the commit failed.
Effects == Cardinality({t \in TradeId : status[t] # "NONE"})
           + Cardinality({t \in TradeId : status[t] = "CLOSED"})
Counted == metrics["processed"] + (IF worker.pc = "postAudit" THEN 1 ELSE 0)
ProcessedAreEffects ==
    /\ Counted <= Effects
    /\ restarts = 0 => Effects <= Counted + faults

\* Between restarts a payload that was put on the queue is waiting, in work or
\* has had its effect; each call that raises costs at most one payload.
LossesAreFaults ==
    restarts = 0 =>
        Cardinality({p \in promised : ~Kept(p) /\ ~Pending(p)}) <= faults

\* A request, however often it is resent, changes the trades table at most
\* once.
ActsOnce ==
    [][<<status, closing>>' # <<status, closing>> =>
          \A t \in TradeId : /\ openedBy[t] # worker.job.rid
                             /\ closedBy[t] # worker.job.rid]_vars

\* The tables keep the promise of TradeLedger.
Ledger == INSTANCE TradeLedger
LedgerSpec == Ledger!Spec

\* The queue drains whatever the handler of a payload meets, and a queued
\* request has its effect unless a call raised or the process restarted.
QueuedFor(r) == \E p \in promised : p.rid = r /\ InQueue(p)
SettledFor(r) == \A p \in promised : p.rid = r => Kept(p)
Drains == \A r \in Rid :
    QueuedFor(r) ~> ~QueuedFor(r) /\ (SettledFor(r) \/ faults + restarts > 0)

\* The "IDEMPOTENCY check" of CLOSE_TRADE: a resent close whose first copy
\* closed the trade is ignored as a duplicate, not refused as an error.
RetriedCloseIsDuplicate ==
    worker.pc = "refuse" => \A t \in TradeId : closedBy[t] # worker.job.rid

\* "Trade action failed": the handler only reports a failure, and counts an
\* error, for a payload whose transaction was rolled back.
FailureMeansRolledBack == worker.pc = "except" => ~worker.committed
=============================================================================
