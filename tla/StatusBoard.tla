---------------------------- MODULE StatusBoard ----------------------------
(***************************************************************************)
(* What GET /status of trade-action-service shows: metrics.py keeps a list *)
(* of recent actions and the time stamps of accepted payloads under a lock *)
(* of its own.  HTTP handlers put a payload on the queue first and record  *)
(* its acceptance afterwards; the worker records its result whenever it    *)
(* gets to it, so the two may arrive in either order.                      *)
(*                                                                         *)
(* A payload is its client_request_id.  Time is the age of what happened:  *)
(* Tick makes every stamp one unit older.  The counters, the worker's      *)
(* database work and resent requests' time-outs are TradeAction's matter.  *)
(*                                                                         *)
(* An operator whose comment says "Slip:" is a bug one could plausibly     *)
(* make in the definition that follows it; no specification uses it.       *)
(***************************************************************************)
EXTENDS Naturals, Sequences, FiniteSets

CONSTANTS Rid, NoRid,
          Handler,      \* bound: requests served at the same time
          QueueMaxsize, \* TRADE_ACTION_QUEUE_MAXSIZE
          ActionsLimit, \* RECENT_ACTIONS_LIMIT
          Window,       \* THROUGHPUT_WINDOW_S
          MaxWait,      \* bound: time between a thread's time.time() and its lock
          MaxBatch,     \* bound: items of a batch
          MaxRequests   \* bound: requests submitted

ASSUME BoardAssumption ==
    /\ QueueMaxsize \in Nat \ {0} /\ ActionsLimit \in Nat \ {0}
    /\ Window \in Nat /\ MaxWait \in Nat
    /\ MaxBatch \in Nat \ {0} /\ MaxRequests \in Nat
    /\ NoRid \notin Rid

VARIABLES
    handler,  \* the threads that serve POST /trade-actions and .../batch
    queue,    \* worker.trade_queue
    job,      \* the payload trade_action_handler works on, or NoRid
    actions,  \* recent_actions, newest first
    stamps,   \* accepted_timestamps as ages, oldest entry first
    evicted,  \* history: evicted[r]: QUEUED entries of r that fell off the list
    tardy,    \* history: the requests whose acceptance was recorded after
              \* their last result
    lost,     \* history: the requests whose last result was never recorded
    requests  \* history: requests submitted

vars == <<handler, queue, job, actions, stamps, evicted, tardy, lost, requests>>

Result == {"QUEUED", "REJECTED", "PROCESSED", "DUPLICATE", "ERROR"}
Final == {"PROCESSED", "DUPLICATE", "ERROR"}
Entry == [rid : Rid \cup {NoRid}, result : Result]
\* An item that validate_trade_action lets pass has a client_request_id.
Item == [rid : Rid \cup {NoRid}, valid : BOOLEAN]
WellFormed(item) == item.valid => item.rid # NoRid

\* Ages beyond this one make no difference to any pruning.
Oldest == Window + 2 * MaxWait + 1
Older(age) == IF age < Oldest THEN age + 1 ELSE age
Least(a, b) == IF a < b THEN a ELSE b

FreeHandler == [pc |-> "free", items |-> <<>>, batch |-> FALSE, now |-> 0]
Init ==
    /\ handler = [h \in Handler |-> FreeHandler]
    /\ queue = <<>>
    /\ job = NoRid
    /\ actions = <<>>
    /\ stamps = <<>>
    /\ evicted = [r \in Rid |-> 0]
    /\ tardy = {}
    /\ lost = {}
    /\ requests = 0

-----------------------------------------------------------------------------
(* The list of recent actions: a deque with maxlen                         *)

\* Slip: a deque without maxlen.
AppendLeftUnbounded(entry) ==
    /\ actions' = <<entry>> \o actions
    /\ UNCHANGED evicted
\* recent_actions.appendleft(entry): the oldest entry falls off a full list.
AppendLeft(entry) ==
    /\ actions' = SubSeq(<<entry>> \o actions, 1, Least(ActionsLimit, Len(actions) + 1))
    /\ evicted' = [r \in Rid |->
          IF Len(actions) = ActionsLimit
             /\ actions[ActionsLimit] = [rid |-> r, result |-> "QUEUED"]
          THEN evicted[r] + 1 ELSE evicted[r]]

Mentioned(r) == \E i \in DOMAIN actions : actions[i].rid = r
\* Slip: the oldest entry of the request is updated.
OldestMention(r) == CHOOSE i \in DOMAIN actions :
                      /\ actions[i].rid = r
                      /\ \A j \in DOMAIN actions : actions[j].rid = r => j <= i
Newest(r) == CHOOSE i \in DOMAIN actions :
                /\ actions[i].rid = r
                /\ \A j \in DOMAIN actions : actions[j].rid = r => i <= j

\* Slip: every entry of the request is updated, not only the newest.
UpdateActionAll(r, result) ==
    IF Mentioned(r)
    THEN /\ actions' = [i \in DOMAIN actions |->
              IF actions[i].rid = r THEN [actions[i] EXCEPT !.result = result]
              ELSE actions[i]]
         /\ UNCHANGED evicted
    ELSE AppendLeft([rid |-> r, result |-> result])
\* _update_action: the newest entry of the request, or a new one.
UpdateAction(r, result) ==
    IF Mentioned(r)
    THEN /\ actions' = [actions EXCEPT ![Newest(r)].result = result]
         /\ UNCHANGED evicted
    ELSE AppendLeft([rid |-> r, result |-> result])

\* Slip: a stamp that is exactly one window old is dropped, too.
PruneEarly(s, now) ==
    LET Fresh == {i \in DOMAIN s : s[i] < now + Window}
    IN  IF Fresh = {} THEN <<>>
        ELSE SubSeq(s, CHOOSE i \in Fresh : \A j \in Fresh : i <= j, Len(s))
\* _prune_throughput(now_ts), for a now_ts read `now` units of time ago: drops
\* from the left, and stops at the first stamp that is fresh enough.
Prune(s, now) ==
    LET Fresh == {i \in DOMAIN s : s[i] <= now + Window}
    IN  IF Fresh = {} THEN <<>>
        ELSE SubSeq(s, CHOOSE i \in Fresh : \A j \in Fresh : i <= j, Len(s))

-----------------------------------------------------------------------------
(* Handler threads: submit_trade_action and submit_trade_action_batch      *)

board == <<actions, evicted>>

Submit(h) ==
    /\ handler[h].pc = "free" /\ requests < MaxRequests
    /\ requests' = requests + 1
    /\ \E n \in 1..MaxBatch, batch \in BOOLEAN :
         /\ ~batch => n = 1
         /\ \E items \in [1..n -> {item \in Item : WellFormed(item)}] :
              handler' = [handler EXCEPT ![h] =
                 [pc |-> "item", items |-> items, batch |-> batch, now |-> 0]]
    /\ UNCHANGED <<queue, job, board, stamps, tardy, lost>>

Current(h) == Head(handler[h].items)
AtItem(h) == handler[h].pc = "item"

\* What is left of a request after its current item.
Rest(req) == IF Len(req.items) = 1 THEN FreeHandler
             ELSE [req EXCEPT !.pc = "item", !.items = Tail(@), !.now = 0]

\* validate_trade_action refuses the item; a batch goes on with the next.  The
\* single endpoint's audit may raise before anything is recorded.
Reject(h) ==
    /\ AtItem(h) /\ ~Current(h).valid
    /\ handler' = [handler EXCEPT ![h] = Rest(@)]
    /\ \/ AppendLeft([rid |-> Current(h).rid, result |-> "REJECTED"])
       \/ ~handler[h].batch /\ UNCHANGED board
    /\ UNCHANGED <<queue, job, stamps, tardy, lost, requests>>

\* trade_queue.put(payload, block=False); record_accepted then reads the clock.
Put(h) ==
    /\ AtItem(h) /\ Current(h).valid
    /\ Len(queue) < QueueMaxsize
    /\ queue' = Append(queue, Current(h).rid)
    /\ handler' = [handler EXCEPT ![h].pc = "stamp", ![h].now = 0]
    /\ UNCHANGED <<job, board, stamps, tardy, lost, requests>>

\* queue.Full: the refusal is recorded (unless its audit raises), and a batch
\* ends here.
Overload(h) ==
    /\ AtItem(h) /\ Current(h).valid
    /\ Len(queue) = QueueMaxsize
    /\ handler' = [handler EXCEPT ![h] = FreeHandler]
    /\ \/ AppendLeft([rid |-> Current(h).rid, result |-> "REJECTED"])
       \/ UNCHANGED board
    /\ UNCHANGED <<queue, job, stamps, tardy, lost, requests>>

InQueue(r) == {i \in DOMAIN queue : queue[i] = r}
Unfinished(r) == Cardinality(InQueue(r)) + (IF job = r THEN 1 ELSE 0)

\* record_accepted has _lock: stamp, prune, and a new QUEUED entry.
RecordAccepted(h) ==
    /\ handler[h].pc = "stamp"
    /\ LET now == handler[h].now
           r == Current(h).rid
       IN  /\ stamps' = Prune(Append(stamps, now), now)
           /\ AppendLeft([rid |-> r, result |-> "QUEUED"])
           /\ tardy' = IF Unfinished(r) = 0 THEN tardy \cup {r} ELSE tardy
    /\ handler' = [handler EXCEPT ![h] = Rest(@)]
    /\ UNCHANGED <<queue, job, lost, requests>>

-----------------------------------------------------------------------------
(* The worker                                                              *)

Get ==
    /\ job = NoRid /\ queue # <<>>
    /\ job' = Head(queue)
    /\ queue' = Tail(queue)
    /\ UNCHANGED <<handler, board, stamps, tardy, lost, requests>>

\* record_processed, record_duplicate or record_error
RecordResult ==
    /\ job # NoRid
    /\ \E result \in Final : UpdateAction(job, result)
    /\ job' = NoRid
    /\ tardy' = tardy \ {job}
    /\ lost' = lost \ {job}
    /\ UNCHANGED <<handler, queue, stamps, requests>>

\* The audit of a failure raises: trade_action_worker goes on, nothing is
\* recorded.
LoseResult ==
    /\ job # NoRid
    /\ job' = NoRid
    /\ lost' = lost \cup {job}
    /\ UNCHANGED <<handler, queue, board, stamps, tardy, requests>>

-----------------------------------------------------------------------------
(* GET /status, and time                                                   *)

\* build_status: throughput_per_min is the number of stamps that are left.  It,
\* too, reads the clock some time before it has _lock.
BuildStatus(now) ==
    /\ stamps' = Prune(stamps, now)
    /\ UNCHANGED <<handler, queue, job, board, tardy, lost, requests>>

\* A handler between its time.time() and the lock is overtaken by time, but not
\* by more than MaxWait.
Tick ==
    /\ \A h \in Handler : handler[h].pc = "stamp" => handler[h].now < MaxWait
    /\ handler' = [h \in Handler |->
          IF handler[h].pc = "stamp" THEN [handler[h] EXCEPT !.now = @ + 1]
          ELSE handler[h]]
    /\ stamps' = [i \in DOMAIN stamps |-> Older(stamps[i])]
    /\ UNCHANGED <<queue, job, board, tardy, lost, requests>>

-----------------------------------------------------------------------------
HandlerStep(h) == \/ Submit(h) \/ Reject(h) \/ Put(h) \/ Overload(h)
                  \/ RecordAccepted(h)
WorkerStep == Get \/ RecordResult \/ LoseResult
StatusStep == \E now \in 0..MaxWait : BuildStatus(now)

Next == (\E h \in Handler : HandlerStep(h)) \/ WorkerStep \/ StatusStep \/ Tick

Spec == Init /\ [][Next]_vars

-----------------------------------------------------------------------------
(* Properties                                                              *)

\* Shape of the state; both deques respect their lengths.
TypeOK ==
    /\ handler \in [Handler -> [pc : {"free", "item", "stamp"},
                                items : Seq(Item), batch : BOOLEAN, now : 0..MaxWait]]
    /\ queue \in Seq(Rid) /\ Len(queue) <= QueueMaxsize
    /\ job \in Rid \cup {NoRid}
    /\ actions \in Seq(Entry) /\ Len(actions) <= ActionsLimit
    /\ stamps \in Seq(0..Oldest)
    /\ evicted \in [Rid -> Nat]
    /\ tardy \subseteq Rid /\ lost \subseteq Rid
    /\ requests \in 0..MaxRequests

Shown(r, results) == {i \in DOMAIN actions : actions[i].rid = r /\ actions[i].result \in results}
Unrecorded(r) == {h \in Handler : handler[h].pc = "stamp" /\ Current(h).rid = r}

\* The board does not understate the work that waits: for each copy of a
\* request in the queue or with the worker there is an entry "waiting in
\* buffer", but for those that a longer list pushed out and those a handler is
\* about to add.
WaitingIsShown ==
    \A r \in Rid : Unfinished(r) <= Cardinality(Shown(r, {"QUEUED"}))
                                    + Cardinality(Unrecorded(r)) + evicted[r]

\* A request that is done is shown with its result: its newest entry says
\* QUEUED only while a copy is unfinished, or when the handler was overtaken by
\* the worker (record_accepted comes after put), or the result was never
\* recorded.
DoneIsShown ==
    \A r \in Rid :
       (Mentioned(r) /\ Unfinished(r) = 0 /\ actions[Newest(r)].result = "QUEUED")
          => r \in tardy \cup lost

Within(age) == Cardinality({i \in DOMAIN stamps : stamps[i] <= age})

\* throughput_per_min counts every acceptance of the last minute, and nothing
\* that is older by more than the two delays between a thread's reading of the
\* clock and its turn at _lock, in whatever order the stamps were appended.
ThroughputRight ==
    [][/\ Tick \/ Within(Window)' >= Within(Window)
       /\ \A now \in 0..MaxWait : BuildStatus(now) =>
             \A i \in DOMAIN stamps' : stamps'[i] <= Window + 2 * MaxWait]_vars
=============================================================================
