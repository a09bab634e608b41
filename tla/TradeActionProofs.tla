------------------------- MODULE TradeActionProofs -------------------------
(***************************************************************************)
(* What holds of TradeAction for every set of requests, trades, clients    *)
(* and handler threads, every queue size and every number of faults and    *)
(* restarts: its type invariant; that a trade has a closing valuation      *)
(* exactly when it is CLOSED and the UNIQUE constraint never fires; that   *)
(* the service implements TradeLedger; and its accounts: a request acts at *)
(* most once however often it is resent, the counters add up, `processed'  *)
(* counts the changes of the trades table, and a request is lost only to a *)
(* call that raised.                                                       *)
(***************************************************************************)
EXTENDS TradeAction, FiniteSetTheorems, TLAPS

-----------------------------------------------------------------------------
(* Type correctness.                                                       *)

AttemptsLeft == \A c \in Client :
    client[c].pc = "ready" => client[c].attempt < MaxAttempts
JobTyped == worker.pc # "get" => worker.job \in Payload
AcceptHasItem == \A h \in Handler :
    handler[h].pc = "accept" => handler[h].items # <<>>
TypeInv == TypeOK /\ AttemptsLeft /\ JobTyped /\ AcceptHasItem

\* The initial records of clients, handlers and the worker are well typed.
LEMMA IdleTypes ==
    /\ FreeHandler \in HandlerRec /\ FreeHandler.pc = "free"
    /\ IdleClient \in ClientRec /\ IdleClient.pc = "idle"
    /\ IdleWorker \in WorkerRec /\ IdleWorker.pc = "get"
    /\ NoCounts \in [Counter -> Nat]
BY ParamAssumption DEF FreeHandler, IdleClient, IdleWorker, HandlerPc, ClientPc,
   WorkerPc, NoCounts, HandlerRec, ClientRec, WorkerRec

\* What a failed attempt leaves is a well-typed client with attempts left.
LEMMA AfterFailureType ==
    ASSUME NEW cl \in ClientRec
    PROVE  /\ AfterFailure(cl) \in ClientRec
           /\ AfterFailure(cl).pc = "ready" => AfterFailure(cl).attempt < MaxAttempts
<1>1. CASE cl.attempt = MaxAttempts
  BY <1>1, IdleTypes DEF AfterFailure
<1>2. CASE cl.attempt # MaxAttempts
  <2>1. AfterFailure(cl) = [cl EXCEPT !.pc = "ready", !.conn = NoHandler]
    BY <1>2 DEF AfterFailure
  <2>2. cl.attempt < MaxAttempts
    BY <1>2, ParamAssumption DEF ClientRec
  <2>3. AfterFailure(cl).attempt = cl.attempt
    BY <2>1 DEF ClientRec
  <2>4. AfterFailure(cl) \in ClientRec
    BY <2>1 DEF ClientRec, ClientPc
  <2> QED BY <2>2, <2>3, <2>4
<1> QED BY <1>1, <1>2

\* A counter that is incremented stays a number.
LEMMA CountType ==
    ASSUME NEW m \in Counter, metrics \in [Counter -> Nat], Count(m)
    PROVE  metrics' \in [Counter -> Nat]
BY DEF Count

\* A call that raises keeps within its bound.
LEMMA RaisedType ==
    ASSUME faults \in 0..MaxFaults, Raised
    PROVE  faults' \in 0..MaxFaults
BY ParamAssumption DEF Raised

\* Everything a client may want under a new id is a payload.
LEMMA WantedType == ASSUME NEW r \in Rid PROVE Wanted(r) \subseteq Payload
BY DEF Wanted, Payload, Action

\* The service starts well typed.
LEMMA TypeInit == Init => TypeInv
BY IdleTypes, ParamAssumption

DEF Init, TypeInv, TypeOK, AttemptsLeft, JobTyped, AcceptHasItem

\* Client steps keep the types.
LEMMA TypeClient ==
    ASSUME TypeInv, NEW c \in Client, ClientStep(c) PROVE TypeInv'
<1>1. CASE Generate(c)
  <2>1. PICK n \in 1..MaxBatch, batch \in BOOLEAN :
          \E items \in [1..n -> UNION {Wanted(r) : r \in Rid}] :
             /\ asked' = asked \cup {items[i] : i \in 1..n}
             /\ client' = [client EXCEPT ![c] =
                    [pc |-> "ready", items |-> items, batch |-> batch,
                     attempt |-> 0, conn |-> NoHandler]]
    BY <1>1 DEF Generate
  <2>2. PICK items \in [1..n -> UNION {Wanted(r) : r \in Rid}] :
             /\ asked' = asked \cup {items[i] : i \in 1..n}
             /\ client' = [client EXCEPT ![c] =
                    [pc |-> "ready", items |-> items, batch |-> batch,
                     attempt |-> 0, conn |-> NoHandler]]
    BY <2>1
  <2>3. items \in [1..n -> Payload]
    BY WantedType
  <2>4. n \in Nat
    BY ParamAssumption
  <2>5. items \in Seq(Payload)
    BY <2>3, <2>4
  <2>6. asked' \subseteq Payload
    BY <2>2, <2>3 DEF TypeInv, TypeOK
  <2> DEFINE cl == [pc |-> "ready", items |-> items, batch |-> batch,
                    attempt |-> 0, conn |-> NoHandler]
  <2>7. cl \in ClientRec /\ cl.attempt < MaxAttempts
    BY <2>5, ParamAssumption DEF ClientRec, ClientPc
  <2> QED
    BY <1>1, <2>2, <2>6, <2>7
    DEF TypeInv, TypeOK, AttemptsLeft, JobTyped, AcceptHasItem, Generate, db
<1>2. CASE Send(c)
  <2>1. PICK h \in Handler :
          /\ handler' = [handler EXCEPT ![h] = [pc |-> "item",
                            items |-> client[c].items, batch |-> client[c].batch]]
          /\ client' = [client EXCEPT ![c].pc = "waiting", ![c].conn = h,
                                      ![c].attempt = @ + 1]
    BY <1>2 DEF Send
  <2>2. client[c] \in ClientRec /\ client[c].attempt < MaxAttempts
    BY <1>2 DEF TypeInv, TypeOK, AttemptsLeft, Send
  <2>3. client[c].attempt + 1 \in 0..MaxAttempts
    BY <2>2, ParamAssumption DEF ClientRec
  <2>4. client' \in [Client -> ClientRec] /\ client'[c].pc = "waiting"
    BY <2>1, <2>2, <2>3 DEF TypeInv, TypeOK, ClientRec, ClientPc
  <2>5. handler' \in [Handler -> HandlerRec] /\ handler'[h].pc = "item"
    BY <2>1, <2>2 DEF TypeInv, TypeOK, ClientRec, HandlerRec, HandlerPc
  <2> QED
    BY <1>2, <2>1, <2>4, <2>5
    DEF TypeInv, TypeOK, AttemptsLeft, JobTyped, AcceptHasItem, Send, db
<1>3. CASE TimeOut(c)
  BY <1>3, AfterFailureType
  DEF TypeInv, TypeOK, AttemptsLeft, JobTyped, AcceptHasItem, TimeOut, db
<1> QED BY <1>1, <1>2, <1>3 DEF ClientStep

\* The item a handler works on is a payload, and so are those after it.
LEMMA ItemType ==
    ASSUME TypeOK, NEW h \in Handler, handler[h].items # <<>>
    PROVE  /\ Head(handler[h].items) \in Payload
           /\ Tail(handler[h].items) \in Seq(Payload)
<1>1. handler[h].items \in Seq(Payload)
  BY DEF TypeOK, HandlerRec
<1> QED BY <1>1

\* Handler steps keep the types.
LEMMA TypeHandler ==
    ASSUME TypeInv, NEW h \in Handler, HandlerStep(h) PROVE TypeInv'
<1> USE DEF TypeInv, TypeOK, AttemptsLeft, JobTyped, AcceptHasItem, db
<1>1. CASE Reject(h)
  <2>1. metrics' \in [Counter -> Nat] /\ faults' \in 0..MaxFaults
    BY <1>1, CountType, RaisedType DEF Reject, Counter
  <2>2. handler' \in [Handler -> HandlerRec] /\ handler'[h].pc \in {"item", "fail"}
    <3>1. handler[h] \in HandlerRec /\ Tail(handler[h].items) \in Seq(Payload)
      BY <1>1, ItemType DEF Reject
    <3>2. CASE handler' = [handler EXCEPT ![h].pc = "fail"]
      BY <3>1, <3>2 DEF HandlerRec, HandlerPc
    <3>3. CASE \E pc \in {"item", "fail"} :
                 handler' = [handler EXCEPT ![h] =
                    [pc |-> pc, items |-> Tail(handler[h].items),
                     batch |-> handler[h].batch]]
      BY <3>1, <3>3 DEF HandlerRec, HandlerPc
    <3> QED BY <1>1, <3>2, <3>3 DEF Reject
  <2>3. \A g \in Handler : g # h => handler'[g] = handler[g]
    BY <1>1 DEF Reject
  <2> QED BY <1>1, <2>1, <2>2, <2>3 DEF Reject
<1>2. CASE Put(h)
  <2>1. Head(handler[h].items) \in Payload
    BY <1>2, ItemType DEF Put
  <2>2. queue' \in Seq(Payload) /\ Len(queue') <= QueueMaxsize
    BY <1>2, <2>1, ParamAssumption DEF Put, Room
  <2> QED BY <1>2, <2>1, <2>2 DEF Put, HandlerRec, HandlerPc
<1>3. CASE RecordAccepted(h)
  <2>1. metrics' \in [Counter -> Nat]
    BY <1>3, CountType DEF RecordAccepted, Counter
  <2>2. handler' \in [Handler -> HandlerRec] /\ handler'[h].pc = "item"
    BY <1>3, ItemType DEF RecordAccepted, HandlerRec, HandlerPc
  <2>3. \A g \in Handler : g # h => handler'[g] = handler[g]
    BY <1>3 DEF RecordAccepted
  <2> QED BY <1>3, <2>1, <2>2, <2>3 DEF RecordAccepted
<1>4. CASE PutFull(h)
  BY <1>4 DEF PutFull, HandlerRec, HandlerPc
<1>5. CASE Overload(h)
  BY <1>5, CountType, RaisedType DEF Overload, HandlerRec, HandlerPc, Counter
<1>6. CASE Finish(h)
  BY <1>6 DEF Finish, HandlerRec, HandlerPc
<1>7. CASE Reply(h)
  <2>1. \A c \in Client :
           /\ client'[c] \in ClientRec
           /\ client'[c].pc = "ready" => client'[c].attempt < MaxAttempts
    BY <1>7, AfterFailureType, IdleTypes DEF Reply
  <2> QED BY <1>7, <2>1, IdleTypes DEF Reply
<1> QED BY <1>1, <1>2, <1>3, <1>4, <1>5, <1>6, <1>7 DEF HandlerStep

\* Worker steps keep the types.
LEMMA TypeWorker == ASSUME TypeInv, WorkerStep PROVE TypeInv'
<1> USE DEF TypeInv, TypeOK, AttemptsLeft, JobTyped, AcceptHasItem, db, outside
<1>1. CASE Get
  <2>1. Head(queue) \in Payload /\ queue' \in Seq(Payload)
    BY <1>1 DEF Get
  <2>2. Len(queue') <= QueueMaxsize
    BY <1>1, ParamAssumption DEF Get
  <2> QED BY <1>1, <2>1, <2>2 DEF Get, WorkerRec, WorkerPc
<1>2. CASE AuditStart
  BY <1>2 DEF AuditStart, Goto, WorkerRec, WorkerPc
<1>3. CASE OpenLookup
  BY <1>3 DEF OpenLookup, Goto, WorkerRec, WorkerPc
<1>4. CASE RecordDuplicate
  BY <1>4, CountType, IdleTypes DEF RecordDuplicate, Counter
<1>5. CASE Insert
  BY <1>5 DEF Insert, Goto, WorkerRec, WorkerPc
<1>6. CASE CloseLookup
  BY <1>6 DEF CloseLookup, Goto, WorkerRec, WorkerPc
<1>7. CASE AuditClose
  BY <1>7 DEF AuditClose, Goto, WorkerRec, WorkerPc
<1>8. CASE LockTrade
  BY <1>8 DEF LockTrade, Goto, WorkerRec, WorkerPc
<1>9. CASE RefuseClose
  BY <1>9, CountType, IdleTypes DEF RefuseClose, Counter
<1>10. CASE CommitOpen
  <2>1. worker.job.rid \in Rid
    BY <1>10 DEF CommitOpen, Payload, WorkerRec
  <2> QED BY <1>10, <2>1 DEF CommitOpen, WorkerRec, WorkerPc
<1>11. CASE CommitClose
  <2>1. worker.job.rid \in Rid
    BY <1>11 DEF CommitClose, Payload, WorkerRec
  <2>2. status' \in [TradeId -> {"NONE", "ACTIVE", "CLOSED"}]
    BY <1>11 DEF CommitClose
  <2>3. closing' \in [TradeId -> Nat]
    <3>1. closing' = [t \in TradeId |-> IF t = worker.job.trade
                                       THEN closing[t] + 1 ELSE closing[t]]
      BY <1>11 DEF CommitClose
    <3>2. \A t \in TradeId : closing[t] \in Nat
      OBVIOUS
    <3> QED BY <3>1, <3>2
  <2>4. closedBy' \in [TradeId -> Rid \cup {NoRid}]
    BY <1>11, <2>1 DEF CommitClose
  <2>5. worker' \in WorkerRec /\ worker'.job = worker.job
    BY <1>11 DEF CommitClose, WorkerRec, WorkerPc
  <2> QED BY <1>11, <2>2, <2>3, <2>4, <2>5 DEF CommitClose
<1>12. CASE RecordProcessed
  BY <1>12, CountType, IdleTypes DEF RecordProcessed, Counter
<1>13. CASE Raise
  BY <1>13, RaisedType DEF Raise, Goto, WorkerRec, WorkerPc
<1>14. CASE RecordFailure
  BY <1>14, CountType, IdleTypes DEF RecordFailure, Counter
<1>15. CASE DropFailure
  BY <1>15, RaisedType, IdleTypes DEF DropFailure
<1> QED
  BY <1>1, <1>2, <1>3, <1>4, <1>5, <1>6, <1>7, <1>8, <1>9, <1>10, <1>11, <1>12,
     <1>13, <1>14, <1>15 DEF WorkerStep

\* Every step keeps the types.
LEMMA TypeNext == TypeInv /\ [Next]_vars => TypeInv'
<1> SUFFICES ASSUME TypeInv, [Next]_vars PROVE TypeInv'
  OBVIOUS
<1>1. CASE Restart
  <2>1. /\ client' \in [Client -> ClientRec]
        /\ \A c \in Client : /\ client'[c].pc = client[c].pc
                             /\ client'[c].attempt = client[c].attempt
    BY <1>1 DEF TypeInv, TypeOK, Restart, ClientRec
  <2>2. restarts' \in 0..MaxRestarts
    BY <1>1, ParamAssumption DEF TypeInv, TypeOK, Restart
  <2>3. queue' \in Seq(Payload) /\ Len(queue') <= QueueMaxsize
    BY <1>1, ParamAssumption DEF Restart
  <2> QED
    BY <1>1, <2>1, <2>2, <2>3, IdleTypes
    DEF TypeInv, TypeOK, AttemptsLeft, JobTyped, AcceptHasItem, Restart, db
<1>2. CASE UNCHANGED vars
  BY <1>2
  DEF TypeInv, TypeOK, AttemptsLeft, JobTyped, AcceptHasItem, vars
<1> QED BY <1>1, <1>2, TypeClient, TypeHandler, TypeWorker DEF Next

\* The types of trade-action-service's state hold in every state.
THEOREM TypeCorrect == Spec => []TypeOK
<1>1. TypeInv => TypeOK
  BY DEF TypeInv
<1> QED BY <1>1, TypeInit, TypeNext, PTL DEF Spec

-----------------------------------------------------------------------------
(* The trades and valuations tables.  The worker is the only writer, so     *)
(* what it read before a commit still holds at the commit.                  *)

PcAction ==
    /\ worker.pc \in {"lookup", "insert"} => worker.job.action = "OPEN_TRADE"
    /\ worker.pc \in {"closeLookup", "closeAudit", "lock"}
          => worker.job.action # "OPEN_TRADE"
LockHolds ==
    worker.pc = "commit" /\ worker.job.action # "OPEN_TRADE"
        => worker.job.trade \in TradeId /\ status[worker.job.trade] = "ACTIVE"
TableInv == /\ OneClosingValuation
            /\ ConstraintNeverFires
            /\ PcAction
            /\ LockHolds

\* The tables start empty.
LEMMA TableInit == Init => TableInv
BY IdleTypes

DEF Init, TableInv, OneClosingValuation, ConstraintNeverFires, PcAction, LockHolds

\* Only the worker and a restart touch the tables and the worker's state.
LEMMA OthersLeaveTables ==
    ASSUME (\E c \in Client : ClientStep(c)) \/ (\E h \in Handler : HandlerStep(h))
           \/ UNCHANGED vars
    PROVE  UNCHANGED <<status, openedBy, closing, worker>>
BY DEF ClientStep, Generate, Send, TimeOut, HandlerStep, Reject, Put,
   RecordAccepted, PutFull, Overload, Finish, Reply, vars, db

\* The steps of the worker that leave the tables alone.
LEMMA TableReading ==
    ASSUME TypeInv, TableInv,
           \/ Get \/ AuditStart \/ OpenLookup \/ RecordDuplicate \/ Insert
           \/ CloseLookup \/ AuditClose \/ LockTrade \/ RefuseClose
           \/ RecordProcessed \/ Raise \/ RecordFailure \/ DropFailure
    PROVE  TableInv' /\ UNCHANGED <<status, openedBy, closing>>
<1> USE DEF TypeInv, TypeOK, TableInv, OneClosingValuation, ConstraintNeverFires,
            PcAction, LockHolds, Taken, db, outside, WorkerRec, Goto
<1>1. CASE Get
  BY <1>1 DEF Get
<1>2. CASE AuditStart
  BY <1>2 DEF AuditStart
<1>3. CASE OpenLookup
  BY <1>3 DEF OpenLookup, Existing
<1>4. CASE RecordDuplicate
  BY <1>4, IdleTypes DEF RecordDuplicate
<1>5. CASE Insert
  BY <1>5 DEF Insert
<1>6. CASE CloseLookup
  BY <1>6 DEF CloseLookup
<1>7. CASE AuditClose
  BY <1>7 DEF AuditClose
<1>8. CASE LockTrade
  BY <1>8 DEF LockTrade, Closable
<1>9. CASE RefuseClose
  BY <1>9, IdleTypes DEF RefuseClose
<1>10. CASE RecordProcessed
  BY <1>10, IdleTypes DEF RecordProcessed
<1>11. CASE Raise
  BY <1>11 DEF Raise
<1>12. CASE RecordFailure
  BY <1>12, IdleTypes DEF RecordFailure
<1>13. CASE DropFailure
  BY <1>13, IdleTypes DEF DropFailure
<1> QED BY <1>1, <1>2, <1>3, <1>4, <1>5, <1>6, <1>7, <1>8, <1>9, <1>10, <1>11,
           <1>12, <1>13

\* Every step keeps the tables right.
LEMMA TableNext == TypeInv /\ TableInv /\ [Next]_vars => TableInv'
<1> SUFFICES ASSUME TypeInv, TableInv, [Next]_vars PROVE TableInv'
  OBVIOUS
<1> USE DEF TableInv, OneClosingValuation, ConstraintNeverFires, PcAction, LockHolds
<1>1. CASE (\E c \in Client : ClientStep(c)) \/ (\E h \in Handler : HandlerStep(h))
           \/ UNCHANGED vars
  BY <1>1, OthersLeaveTables DEF Taken
<1>2. CASE CommitOpen
  <2>1. worker'.pc = "postAudit"
    BY <1>2 DEF CommitOpen, TypeInv, TypeOK, WorkerRec
  <2>2. PICK t \in TradeId : /\ status[t] = "NONE"
                             /\ status' = [status EXCEPT ![t] = "ACTIVE"]
    BY <1>2 DEF CommitOpen
  <2>3. OneClosingValuation'
    BY <1>2, <2>2 DEF CommitOpen, TypeInv, TypeOK
  <2> QED BY <2>1, <2>3
<1>3. CASE CommitClose
  <2>1. worker'.pc = "postAudit"
    BY <1>3 DEF CommitClose, TypeInv, TypeOK, WorkerRec
  <2>2. /\ worker.job.trade \in TradeId
        /\ status[worker.job.trade] = "ACTIVE"
    BY <1>3 DEF CommitClose
  <2>3. OneClosingValuation'
    BY <1>3, <2>2 DEF CommitClose, TypeInv, TypeOK
  <2> QED BY <2>1, <2>3
<1>4. CASE Restart
  BY <1>4, IdleTypes DEF Restart, db
<1> QED BY <1>1, <1>2, <1>3, <1>4, TableReading DEF Next, WorkerStep

\* In every state a trade has one closing valuation if it is CLOSED and none
\* otherwise: no close is booked twice or lost.
THEOREM ClosingCorrect == Spec => []OneClosingValuation
<1>1. TableInv => OneClosingValuation
  BY DEF TableInv
<1> QED BY <1>1, TypeInit, TypeNext, TableInit, TableNext, PTL DEF Spec

\* In no state can the worker's commit of a new trade violate the UNIQUE
\* constraint on client_request_id: its idempotency lookup is not stale.
THEOREM LookupCorrect == Spec => []ConstraintNeverFires
<1>1. TableInv => ConstraintNeverFires
  BY DEF TableInv
<1> QED BY <1>1, TypeInit, TypeNext, TableInit, TableNext, PTL DEF Spec

-----------------------------------------------------------------------------
(* Refinement.  Everything in flight was asked for by a client, so the      *)
(* worker's commits are the Open and Close steps of TradeLedger.            *)

InFlightAsked ==
    /\ \A c \in Client : client[c].items \in Seq(asked)
    /\ \A h \in Handler : handler[h].items \in Seq(asked)
    /\ queue \in Seq(asked)
    /\ worker.pc # "get" => worker.job \in asked

\* A sequence of elements of a set is one of elements of a larger set.
LEMMA SeqMono ==
    ASSUME NEW S, NEW T, S \subseteq T, NEW s \in Seq(S) PROVE s \in Seq(T)
<1>1. Len(s) \in Nat /\ s \in [1..Len(s) -> S]
  OBVIOUS
<1>2. s \in [1..Len(s) -> T]
  BY <1>1
<1> QED BY <1>1, <1>2

\* Idle records carry no payload.
LEMMA IdleItems ==
    /\ IdleClient.items = <<>> /\ FreeHandler.items = <<>>
    /\ \A S : <<>> \in Seq(S)
<1>1. \A S : <<>> \in Seq(S)
  OBVIOUS
<1> QED BY <1>1 DEF IdleClient, FreeHandler

\* At first nothing is held.
LEMMA AskedInit == Init => InFlightAsked
<1> SUFFICES ASSUME Init PROVE InFlightAsked
  OBVIOUS
<1>1. /\ \A c \in Client : client[c].items = <<>>
      /\ \A h \in Handler : handler[h].items = <<>>
      /\ queue = <<>> /\ worker.pc = "get"
  BY IdleItems, IdleTypes DEF Init
<1>2. <<>> \in Seq(asked)
  BY IdleItems
<1> QED BY <1>1, <1>2 DEF InFlightAsked

\* What a client sends it has asked for.
LEMMA AskedClient ==
    ASSUME TypeInv, InFlightAsked, NEW c \in Client, ClientStep(c)
    PROVE  InFlightAsked'
<1> USE DEF InFlightAsked, TypeInv, TypeOK, ClientRec, HandlerRec
<1>1. CASE Generate(c)
  <2>1. PICK n \in 1..MaxBatch, batch \in BOOLEAN :
          \E items \in [1..n -> UNION {Wanted(r) : r \in Rid}] :
             /\ asked' = asked \cup {items[i] : i \in 1..n}
             /\ client' = [client EXCEPT ![c] =
                    [pc |-> "ready", items |-> items, batch |-> batch,
                     attempt |-> 0, conn |-> NoHandler]]
    BY <1>1 DEF Generate
  <2>2. PICK items \in [1..n -> UNION {Wanted(r) : r \in Rid}] :
             /\ asked' = asked \cup {items[i] : i \in 1..n}
             /\ client' = [client EXCEPT ![c] =
                    [pc |-> "ready", items |-> items, batch |-> batch,
                     attempt |-> 0, conn |-> NoHandler]]
    BY <2>1
  <2>3. n \in Nat /\ items \in [1..n -> asked']
    <3>1. \A i \in 1..n : items[i] \in asked'
      BY <2>2
    <3> QED BY <3>1, ParamAssumption
  <2>4. items \in Seq(asked')
    BY <2>3
  <2>5. asked \subseteq asked'
    BY <2>2
  <2>6. \A d \in Client : client'[d].items \in Seq(asked')
    BY <2>2, <2>4, <2>5, SeqMono
  <2> QED BY <1>1, <2>5, <2>6, SeqMono DEF Generate, db
<1>2. CASE Send(c)
  BY <1>2 DEF Send, db
<1>3. CASE TimeOut(c)
  <2>1. client'[c].items \in Seq(asked)
    BY <1>3 DEF TimeOut, AfterFailure, IdleClient
  <2>2. \A d \in Client : d # c => client'[d] = client[d]
    BY <1>3 DEF TimeOut
  <2> QED BY <1>3, <2>1, <2>2 DEF TimeOut, db
<1> QED BY <1>1, <1>2, <1>3 DEF ClientStep

\* A handler puts what its request brought.
LEMMA AskedHandler ==
    ASSUME TypeInv, InFlightAsked, NEW h \in Handler, HandlerStep(h)
    PROVE  InFlightAsked'
<1>1. ASSUME handler[h].items # <<>>
      PROVE  /\ Head(handler[h].items) \in asked
             /\ Tail(handler[h].items) \in Seq(asked)
  BY <1>1 DEF InFlightAsked
<1> USE DEF InFlightAsked, TypeInv, TypeOK, ClientRec, HandlerRec
<1>2. CASE Reject(h)
  <2>1. handler'[h].items \in Seq(asked)
    <3>1. CASE handler' = [handler EXCEPT ![h].pc = "fail"]
      BY <3>1
    <3>2. CASE \E pc \in {"item", "fail"} :
                 handler' = [handler EXCEPT ![h] =
                    [pc |-> pc, items |-> Tail(handler[h].items),
                     batch |-> handler[h].batch]]
      BY <1>1, <1>2, <3>2 DEF Reject
    <3> QED BY <1>2, <3>1, <3>2 DEF Reject
  <2>2. \A g \in Handler : g # h => handler'[g] = handler[g]
    BY <1>2 DEF Reject
  <2> QED BY <1>2, <2>1, <2>2 DEF Reject, db
<1>3. CASE Put(h)
  <2>1. queue' \in Seq(asked)
    BY <1>1, <1>3 DEF Put
  <2> QED BY <1>3, <2>1 DEF Put
<1>4. CASE RecordAccepted(h)
  <2>1. handler'[h].items \in Seq(asked)
    BY <1>1, <1>4 DEF RecordAccepted, AcceptHasItem
  <2>2. \A g \in Handler : g # h => handler'[g] = handler[g]
    BY <1>4 DEF RecordAccepted
  <2> QED BY <1>4, <2>1, <2>2 DEF RecordAccepted
<1>5. CASE PutFull(h) \/ Overload(h) \/ Finish(h)
  BY <1>5 DEF PutFull, Overload, Finish
<1>6. CASE Reply(h)
  <2>1. \A c \in Client : client'[c].items \in Seq(asked)
    <3>1. \A c \in Client : client'[c] \in
             {client[c], IdleClient, AfterFailure(client[c])}
      BY <1>6 DEF Reply
    <3>2. \A c \in Client : AfterFailure(client[c]).items \in Seq(asked)
      BY IdleItems DEF AfterFailure
    <3> QED BY <3>1, <3>2, IdleItems
  <2>2. \A g \in Handler : handler'[g].items \in Seq(asked)
    BY <1>6, IdleItems DEF Reply
  <2> QED BY <1>6, <2>1, <2>2 DEF Reply
<1> QED BY <1>2, <1>3, <1>4, <1>5, <1>6 DEF HandlerStep

\* The worker takes what is in the queue.
LEMMA AskedWorker ==
    ASSUME TypeInv, InFlightAsked, WorkerStep PROVE InFlightAsked'
<1> USE DEF InFlightAsked, TypeInv, TypeOK, WorkerRec, outside
<1>1. CASE Get
  BY <1>1 DEF Get
<1>2. CASE AuditStart \/ OpenLookup \/ Insert \/ CloseLookup \/ AuditClose
           \/ LockTrade \/ Raise
  BY <1>2 DEF AuditStart, OpenLookup, Insert, CloseLookup, AuditClose,
     LockTrade, Raise, Goto
<1>3. CASE RecordDuplicate \/ RefuseClose \/ RecordProcessed \/ RecordFailure
           \/ DropFailure
  BY <1>3, IdleTypes DEF RecordDuplicate, RefuseClose, RecordProcessed,
     RecordFailure, DropFailure
<1>4. CASE CommitOpen \/ CommitClose
  BY <1>4 DEF CommitOpen, CommitClose
<1> QED BY <1>1, <1>2, <1>3, <1>4 DEF WorkerStep

\* Whatever is held was asked for, after every step.
LEMMA AskedNext == TypeInv /\ InFlightAsked /\ [Next]_vars => InFlightAsked'
<1> SUFFICES ASSUME TypeInv, InFlightAsked, [Next]_vars PROVE InFlightAsked'
  OBVIOUS
<1>1. CASE Restart
  <2>1. \A c \in Client : client'[c].items = client[c].items
    BY <1>1 DEF TypeInv, TypeOK, ClientRec, Restart
  <2> QED BY <1>1, <2>1, IdleTypes, IdleItems DEF InFlightAsked, Restart
<1>2. CASE UNCHANGED vars
  BY <1>2 DEF InFlightAsked, vars
<1> QED BY <1>1, <1>2, AskedClient, AskedHandler, AskedWorker DEF Next

\* The initial state is an initial state of the ledger.
LEMMA LedgerInit == Init => Ledger!Init
BY DEF Init, Ledger!Init

\* Every step is a step of the ledger or leaves it alone.
LEMMA LedgerStep ==
    TypeInv /\ TableInv /\ InFlightAsked /\ [Next]_vars => [Ledger!Next]_(Ledger!vars)
<1> SUFFICES ASSUME TypeInv, TableInv, InFlightAsked, [Next]_vars
             PROVE  [Ledger!Next]_(Ledger!vars)
  OBVIOUS
<1> USE DEF Ledger!Next, Ledger!vars
<1>1. Ledger!Payload = Payload
  BY DEF Payload, Action, Ledger!Payload, Ledger!Action
<1>2. ASSUME NEW c \in Client, Generate(c) PROVE Ledger!Ask
  <2>1. PICK n \in 1..MaxBatch, batch \in BOOLEAN :
          \E items \in [1..n -> UNION {Wanted(r) : r \in Rid}] :
             /\ \A i \in 1..n : \A p \in asked : items[i].rid # p.rid
             /\ asked' = asked \cup {items[i] : i \in 1..n}
    BY <1>2 DEF Generate
  <2>2. PICK items \in [1..n -> UNION {Wanted(r) : r \in Rid}] :
             /\ \A i \in 1..n : \A p \in asked : items[i].rid # p.rid
             /\ asked' = asked \cup {items[i] : i \in 1..n}
    BY <2>1
  <2> DEFINE new == {items[i] : i \in 1..n}
  <2>3. new \in SUBSET Payload
    BY WantedType
  <2>4. \A p \in new : \A q \in asked : p.rid # q.rid
    BY <2>2
  <2>5. asked' = asked \cup new
    BY <2>2
  <2>6. UNCHANGED <<status, openedBy, closing>>
    BY <1>2 DEF Generate, db
  <2> QED BY <1>1, <2>3, <2>4, <2>5, <2>6 DEF Ledger!Ask
<1>3. ASSUME NEW c \in Client, Send(c) \/ TimeOut(c) PROVE UNCHANGED Ledger!vars
  BY <1>3 DEF Send, TimeOut, db
<1>4. ASSUME NEW h \in Handler, HandlerStep(h) PROVE UNCHANGED Ledger!vars
  BY <1>4 DEF HandlerStep, Reject, Put, RecordAccepted, PutFull, Overload,
     Finish, Reply, db
<1>5. CASE CommitOpen
  <2>1. worker.job \in Payload /\ worker.job \in asked
    BY <1>5 DEF CommitOpen, TypeInv, TypeOK, InFlightAsked
  <2>2. PICK t \in TradeId :
          /\ status[t] = "NONE"
          /\ status' = [status EXCEPT ![t] = "ACTIVE"]
          /\ openedBy' = [openedBy EXCEPT ![t] = worker.job.rid]
    BY <1>5 DEF CommitOpen
  <2>3. \A u \in TradeId : openedBy[u] # worker.job.rid
    BY <1>5 DEF CommitOpen, Taken
  <2>4. Ledger!Open(worker.job, t)
    BY <1>5, <2>1, <2>2, <2>3 DEF CommitOpen, outside, Ledger!Open
  <2> QED BY <1>1, <2>1, <2>4
<1>6. CASE CommitClose
  <2>1. worker.job \in Payload /\ worker.job \in asked
    BY <1>6 DEF CommitClose, TypeInv, TypeOK, InFlightAsked, JobTyped
  <2>2. /\ worker.job.trade \in TradeId
        /\ status[worker.job.trade] = "ACTIVE"
    BY <1>6 DEF CommitClose, TableInv, LockHolds
  <2>3. closing[worker.job.trade] = 0
    BY <2>2 DEF TableInv, OneClosingValuation
  <2>4. Ledger!Close(worker.job)
    BY <1>6, <2>1, <2>2, <2>3 DEF CommitClose, outside, Ledger!Close
  <2> QED BY <1>1, <2>1, <2>4
<1>7. CASE Restart \/ UNCHANGED vars
  BY <1>7 DEF Restart, vars, db
<1>8. ASSUME \/ Get \/ AuditStart \/ OpenLookup \/ RecordDuplicate \/ Insert
             \/ CloseLookup \/ AuditClose \/ LockTrade \/ RefuseClose
             \/ RecordProcessed \/ Raise \/ RecordFailure \/ DropFailure
      PROVE  UNCHANGED Ledger!vars
  <2>1. UNCHANGED asked
    BY <1>8 DEF Get, AuditStart, OpenLookup, RecordDuplicate, Insert,
       CloseLookup, AuditClose, LockTrade, RefuseClose, RecordProcessed, Raise,
       RecordFailure, DropFailure, outside
  <2> QED BY <1>8, <2>1, TableReading
<1> QED
  BY <1>2, <1>3, <1>4, <1>5, <1>6, <1>7, <1>8 DEF Next, ClientStep, WorkerStep

\* trade-action-service implements TradeLedger: for any number of clients,
\* requests, resends, failing calls and restarts, a trade is opened at most once
\* per request that asked for it and closed at most once, with its valuation.
THEOREM ImplementsLedger == Spec => LedgerSpec
BY TypeInit, TypeNext, TableInit, TableNext, AskedInit, AskedNext, LedgerInit,
   LedgerStep, PTL DEF Spec, LedgerSpec, Ledger!Spec

-----------------------------------------------------------------------------
(* A request acts once.                                                     *)

\* A client_request_id names one payload.
UniqueAsked == \A p, q \in asked : p.rid = q.rid => p = q
\* A trade was opened by a request to open, and closed by one to close it.
OpenedAsked == \A t \in TradeId : openedBy[t] # NoRid =>
    \E p \in asked : p.action = "OPEN_TRADE" /\ p.rid = openedBy[t]
ClosedAsked == \A t \in TradeId : closedBy[t] # NoRid =>
    /\ status[t] = "CLOSED"
    /\ \E p \in asked : /\ p.action = "CLOSE_TRADE" /\ p.trade = t
                        /\ p.rid = closedBy[t]
OnceInv == UniqueAsked /\ OpenedAsked /\ ClosedAsked

\* At first nothing was asked for.
LEMMA OnceInit == Init => OnceInv
BY DEF Init, OnceInv, UniqueAsked, OpenedAsked, ClosedAsked

\* What a client adds to the payloads asked for: new ids, each used once, and a
\* trade only when it is closed and is in the database.
LEMMA GenerateAsks ==
    ASSUME NEW c \in Client, Generate(c)
    PROVE  \E new \in SUBSET Payload :
              /\ asked' = asked \cup new
              /\ \A p \in new : \A q \in asked : p.rid # q.rid
              /\ \A p, q \in new : p.rid = q.rid => p = q
              /\ \A p \in new : p.trade \in TradeId =>
                    p.action = "CLOSE_TRADE" /\ status[p.trade] # "NONE"
<1>1. PICK n \in 1..MaxBatch, batch \in BOOLEAN :
          \E items \in [1..n -> UNION {Wanted(r) : r \in Rid}] :
             /\ \A i \in 1..n : \A p \in asked : items[i].rid # p.rid
             /\ \A i, j \in 1..n : i # j => items[i].rid # items[j].rid
             /\ asked' = asked \cup {items[i] : i \in 1..n}
  BY DEF Generate
<1>2. PICK items \in [1..n -> UNION {Wanted(r) : r \in Rid}] :
             /\ \A i \in 1..n : \A p \in asked : items[i].rid # p.rid
             /\ \A i, j \in 1..n : i # j => items[i].rid # items[j].rid
             /\ asked' = asked \cup {items[i] : i \in 1..n}
  BY <1>1
<1> DEFINE new == {items[i] : i \in 1..n}
<1>3. new \in SUBSET Payload
  BY WantedType
<1>4. ASSUME NEW p \in new, p.trade \in TradeId
      PROVE  p.action = "CLOSE_TRADE" /\ status[p.trade] # "NONE"
  <2>1. PICK r \in Rid : p \in Wanted(r)
    OBVIOUS
  <2> QED BY <1>4, <2>1, NullAssumption DEF Wanted
<1>5. \A p, q \in new : p.rid = q.rid => p = q
  BY <1>2
<1>6. asked' = asked \cup new /\ \A p \in new : \A q \in asked : p.rid # q.rid
  BY <1>2
<1> HIDE DEF new
<1> QED BY <1>3, <1>4, <1>5, <1>6

\* Only commits change who opened or closed a trade, and only a client's new
\* request what was asked for.
LEMMA OnceNext ==
    TypeInv /\ TableInv /\ InFlightAsked /\ OnceInv /\ [Next]_vars => OnceInv'
<1> SUFFICES ASSUME TypeInv, TableInv, InFlightAsked, OnceInv, [Next]_vars
             PROVE  OnceInv'
  OBVIOUS
<1> USE DEF OnceInv
<1>1. ASSUME UNCHANGED <<asked, status, openedBy, closedBy>> PROVE OnceInv'
  BY <1>1 DEF UniqueAsked, OpenedAsked, ClosedAsked
<1>2. ASSUME NEW c \in Client, Generate(c) PROVE OnceInv'
  <2>1. UNCHANGED <<status, openedBy, closedBy>>
    BY <1>2 DEF Generate, db
  <2>2. UniqueAsked'
    BY <1>2, GenerateAsks DEF UniqueAsked
  <2>3. asked \subseteq asked'
    BY <1>2, GenerateAsks
  <2> QED BY <2>1, <2>2, <2>3 DEF OpenedAsked, ClosedAsked
<1>3. ASSUME NEW c \in Client, Send(c) \/ TimeOut(c) PROVE OnceInv'
  BY <1>1, <1>3 DEF Send, TimeOut, db
<1>4. ASSUME NEW h \in Handler, HandlerStep(h) PROVE OnceInv'
  <2>1. UNCHANGED <<asked, db>>
    BY <1>4 DEF HandlerStep, Reject, Put, RecordAccepted, PutFull, Overload,
       Finish, Reply
  <2> QED BY <1>1, <2>1 DEF db
<1>5. CASE CommitOpen
  <2>1. worker.job \in asked /\ asked' = asked /\ worker.job.action = "OPEN_TRADE"
    BY <1>5 DEF CommitOpen, InFlightAsked, outside
  <2>2. PICK t \in TradeId : /\ status[t] = "NONE"
                             /\ status' = [status EXCEPT ![t] = "ACTIVE"]
                             /\ openedBy' = [openedBy EXCEPT ![t] = worker.job.rid]
    BY <1>5 DEF CommitOpen
  <2>3. closedBy' = closedBy
    BY <1>5 DEF CommitOpen
  <2>4. OpenedAsked'
    BY <2>1, <2>2 DEF OpenedAsked, TypeInv, TypeOK
  <2>5. ClosedAsked'
    BY <2>1, <2>2, <2>3 DEF ClosedAsked, TypeInv, TypeOK
  <2> QED BY <2>1, <2>4, <2>5 DEF UniqueAsked
<1>6. CASE CommitClose
  <2>1. worker.job \in asked /\ asked' = asked /\ worker.job.action = "CLOSE_TRADE"
    BY <1>6 DEF CommitClose, InFlightAsked, outside
  <2>2. /\ worker.job.trade \in TradeId
        /\ status' = [status EXCEPT ![worker.job.trade] = "CLOSED"]
        /\ closedBy' = [closedBy EXCEPT ![worker.job.trade] = worker.job.rid]
        /\ openedBy' = openedBy
    BY <1>6 DEF CommitClose, TableInv, LockHolds
  <2>3. ClosedAsked'
    BY <2>1, <2>2 DEF ClosedAsked, TypeInv, TypeOK
  <2> QED BY <2>1, <2>2, <2>3 DEF UniqueAsked, OpenedAsked
<1>7. ASSUME \/ Get \/ AuditStart \/ OpenLookup \/ RecordDuplicate \/ Insert
             \/ CloseLookup \/ AuditClose \/ LockTrade \/ RefuseClose
             \/ RecordProcessed \/ Raise \/ RecordFailure \/ DropFailure
      PROVE  OnceInv'
  <2>1. UNCHANGED <<outside, db>>
    BY <1>7 DEF Get, AuditStart, OpenLookup, RecordDuplicate, Insert,
       CloseLookup, AuditClose, LockTrade, RefuseClose, RecordProcessed, Raise,
       RecordFailure, DropFailure
  <2> QED BY <1>1, <2>1 DEF outside, db
<1>8. CASE Restart \/ UNCHANGED vars
  BY <1>1, <1>8 DEF Restart, vars, db
<1> QED
  BY <1>2, <1>3, <1>4, <1>5, <1>6, <1>7, <1>8 DEF Next, ClientStep, WorkerStep

\* A step that changes the tables is the commit of a request that had changed
\* nothing before.
LEMMA ActsOnceStep ==
    ASSUME TypeInv, TableInv, InFlightAsked, OnceInv, [Next]_vars,
           <<status, closing>>' # <<status, closing>>, NEW t \in TradeId
    PROVE  openedBy[t] # worker.job.rid /\ closedBy[t] # worker.job.rid
<1>1. CASE CommitOpen
  <2>1. worker.job \in asked /\ worker.job \in Payload /\ ~Taken(worker.job.rid)
        /\ worker.job.action = "OPEN_TRADE"
    BY <1>1 DEF CommitOpen, InFlightAsked, TypeInv, JobTyped
  <2>2. worker.job.rid # NoRid
    BY <2>1, NullAssumption DEF Payload
  <2> QED BY <2>1, <2>2 DEF Taken, OnceInv, UniqueAsked, ClosedAsked
<1>2. CASE CommitClose
  <2>1. worker.job \in asked /\ worker.job \in Payload
        /\ worker.job.action = "CLOSE_TRADE" /\ worker.pc = "commit"
    BY <1>2 DEF CommitClose, InFlightAsked, TypeInv, JobTyped
  <2>2. worker.job.rid # NoRid /\ status[worker.job.trade] # "CLOSED"
    BY <2>1, NullAssumption DEF Payload, TableInv, LockHolds
  <2> QED BY <2>1, <2>2 DEF OnceInv, UniqueAsked, OpenedAsked, ClosedAsked
<1>3. CASE Restart
  BY <1>3 DEF Restart, db
<1> QED BY <1>1, <1>2, <1>3, OthersLeaveTables, TableReading DEF Next, WorkerStep

\* The invariants about requests hold of every behaviour.
LEMMA OnceInductive ==
    Spec => [](TypeInv /\ TableInv /\ InFlightAsked /\ OnceInv)
<1> DEFINE Inv == TypeInv /\ TableInv /\ InFlightAsked /\ OnceInv
<1>1. Init => Inv
  BY TypeInit, TableInit, AskedInit, OnceInit
<1>2. Inv /\ [Next]_vars => Inv'
  BY TypeNext, TableNext, AskedNext, OnceNext
<1> QED BY <1>1, <1>2, PTL DEF Spec

\* However often a request is queued, by time-outs, error statuses and retries,
\* it changes the trades and valuations tables at most once.
THEOREM RequestActsOnce == Spec => ActsOnce
<1>1. TypeInv /\ TableInv /\ InFlightAsked /\ OnceInv /\ [Next]_vars =>
         [<<status, closing>>' # <<status, closing>> =>
             \A t \in TradeId : /\ openedBy[t] # worker.job.rid
                                /\ closedBy[t] # worker.job.rid]_vars
  BY ActsOnceStep
<1> QED BY <1>1, OnceInductive, PTL DEF Spec, ActsOnce

-----------------------------------------------------------------------------
(* The counters add up.                                                     *)

\* The handler threads between put() and record_accepted(), and the two sides
\* of the account.
Accepting == {h \in Handler : handler[h].pc = "accept"}
Held == IF worker.pc = "get" THEN 0 ELSE 1
Entered == metrics["accepted"] + Cardinality(Accepting)
Settled == metrics["processed"] + metrics["errors"] + metrics["duplicates"] + dropped
AccountInv == IsFiniteSet(Accepting) /\ Entered = Len(queue) + Held + Settled

\* At first both sides of the account are zero.
LEMMA AccountInit == Init => AccountInv
<1> SUFFICES ASSUME Init PROVE AccountInv
  OBVIOUS
<1>1. Accepting = {}
  BY IdleTypes DEF Init, Accepting
<1>2. /\ \A m \in Counter : metrics[m] = 0
      /\ Len(queue) = 0 /\ worker.pc = "get" /\ dropped = 0
  BY IdleTypes DEF Init, NoCounts
<1> QED BY <1>1, <1>2, FS_EmptySet DEF AccountInv, Entered, Settled, Held, Counter

\* The terms of the account are numbers.
LEMMA AccountTypes ==
    ASSUME TypeInv, AccountInv
    PROVE  /\ Cardinality(Accepting) \in Nat /\ Len(queue) \in Nat /\ Held \in Nat
           /\ Entered \in Nat /\ Settled \in Nat
           /\ \A m \in Counter : metrics[m] \in Nat
<1>1. Cardinality(Accepting) \in Nat /\ Len(queue) \in Nat
  BY FS_CardinalityType DEF AccountInv, TypeInv, TypeOK
<1>2. \A m \in Counter : metrics[m] \in Nat
  BY DEF TypeInv, TypeOK
<1>3. dropped \in Nat
  BY DEF TypeInv, TypeOK
<1>4. /\ metrics["processed"] \in Nat /\ metrics["errors"] \in Nat
      /\ metrics["duplicates"] \in Nat /\ metrics["accepted"] \in Nat
  BY <1>2 DEF Counter
<1>5. \A a, b, e, d \in Nat : a + b \in Nat /\ a + b + e + d \in Nat
  OBVIOUS
<1>6. Entered \in Nat /\ Settled \in Nat
  BY <1>1, <1>3, <1>4, <1>5, Zenon DEF Entered, Settled
<1> QED BY <1>1, <1>2, <1>6 DEF Held

\* The account is kept by a step that leaves all of its terms alone.
LEMMA AccountKept ==
    ASSUME AccountInv, Accepting' = Accepting, Len(queue)' = Len(queue),
           Held' = Held, UNCHANGED dropped,
           \A m \in Counter : m \notin {"rejected_400", "overload_503"} =>
              metrics'[m] = metrics[m]
    PROVE  AccountInv'
<1>1. /\ metrics'["accepted"] = metrics["accepted"]
      /\ metrics'["processed"] = metrics["processed"]
      /\ metrics'["errors"] = metrics["errors"]
      /\ metrics'["duplicates"] = metrics["duplicates"]
  BY DEF Counter
<1>2. Entered' = Entered /\ Settled' = Settled
  BY <1>1 DEF Entered, Settled
<1>3. Len(queue') = Len(queue)
  OBVIOUS
<1> QED BY <1>2, <1>3 DEF AccountInv

\* Handlers: put() adds to the queue and to the accepting threads, and
\* record_accepted() moves one from those to the counter.
LEMMA AccountHandler ==
    ASSUME TypeInv, AccountInv, NEW h \in Handler, HandlerStep(h) PROVE AccountInv'
<1>0. handler \in [Handler -> HandlerRec] /\ metrics \in [Counter -> Nat]
  BY DEF TypeInv, TypeOK
<1>1. Cardinality(Accepting) \in Nat /\ IsFiniteSet(Accepting)
  BY FS_CardinalityType DEF AccountInv
<1>2. ASSUME \A g \in Handler : g # h => handler'[g] = handler[g],
             handler[h].pc # "accept", handler'[h].pc # "accept",
             UNCHANGED <<queue, worker, dropped>>,
             \A m \in Counter : m \notin {"rejected_400", "overload_503"} =>
                metrics'[m] = metrics[m]
      PROVE  AccountInv'
  <2>1. Accepting' = Accepting
    BY <1>2 DEF Accepting
  <2> QED BY <1>2, <2>1, AccountKept DEF Held
<1>3. CASE Reject(h)
  <2>1. handler'[h].pc # "accept" /\ \A g \in Handler : g # h => handler'[g] = handler[g]
    BY <1>0, <1>3 DEF Reject, HandlerRec
  <2>2. \A m \in Counter : m # "rejected_400" => metrics'[m] = metrics[m]
    BY <1>0, <1>3 DEF Reject, Count
  <2> QED BY <1>2, <1>3, <2>1, <2>2 DEF Reject
<1>4. CASE Put(h)
  <2>1. Accepting' = Accepting \cup {h} /\ h \notin Accepting
    BY <1>0, <1>4 DEF Put, Accepting, HandlerRec
  <2>2. /\ IsFiniteSet(Accepting')
        /\ Cardinality(Accepting') = Cardinality(Accepting) + 1
    BY <1>1, <2>1, FS_AddElement
  <2>3. Len(queue') = Len(queue) + 1
    BY <1>4 DEF Put, TypeInv, TypeOK
  <2>4. UNCHANGED <<metrics, worker, dropped>>
    BY <1>4 DEF Put
  <2>5. Settled' = Settled /\ Held' = Held
    BY <2>4, Zenon DEF Settled, Held
  <2>6. Entered' = Entered + 1
    <3>1. PICK n \in Nat, m \in Nat : n = metrics["accepted"] /\ m = Cardinality(Accepting)
      <4>1. metrics["accepted"] \in Nat
        BY <1>0 DEF Counter
      <4> QED BY <1>1, <4>1
    <3>2. metrics'["accepted"] = n /\ Cardinality(Accepting') = m + 1
      BY <2>2, <2>4, <3>1
    <3>3. Entered = n + m /\ Entered' = n + (m + 1)
      BY <3>1, <3>2, Zenon DEF Entered
    <3> QED BY <3>3
  <2> QED BY <2>2, <2>3, <2>5, <2>6, AccountTypes DEF AccountInv
<1>5. CASE RecordAccepted(h)
  <2>1. Accepting' = Accepting \ {h} /\ h \in Accepting
    BY <1>0, <1>5 DEF RecordAccepted, Accepting, HandlerRec
  <2>2. /\ IsFiniteSet(Accepting')
        /\ Cardinality(Accepting') = Cardinality(Accepting) - 1
    BY <1>1, <2>1, FS_RemoveElement
  <2>3. /\ metrics'["accepted"] = metrics["accepted"] + 1
        /\ metrics'["processed"] = metrics["processed"]
        /\ metrics'["errors"] = metrics["errors"]
        /\ metrics'["duplicates"] = metrics["duplicates"]
    BY <1>0, <1>5 DEF RecordAccepted, Count, Counter
  <2>4. metrics["accepted"] \in Nat
    BY AccountTypes DEF Counter
  <2>5. Entered' = Entered
    BY <1>1, <2>2, <2>3, <2>4 DEF Entered
  <2>6. Settled' = Settled /\ Held' = Held /\ UNCHANGED queue
    BY <1>5, <2>3 DEF RecordAccepted, Settled, Held
  <2> QED BY <2>2, <2>5, <2>6 DEF AccountInv
<1>6. CASE PutFull(h) \/ Finish(h)
  BY <1>0, <1>2, <1>6 DEF PutFull, Finish, HandlerRec
<1>7. CASE Overload(h)
  <2>1. \A m \in Counter : m # "overload_503" => metrics'[m] = metrics[m]
    BY <1>0, <1>7 DEF Overload, Count
  <2> QED BY <1>0, <1>2, <1>7, <2>1 DEF Overload, HandlerRec
<1>8. CASE Reply(h)
  <2>1. handler'[h].pc # "accept" /\ \A g \in Handler : g # h => handler'[g] = handler[g]
    BY <1>0, <1>8, IdleTypes DEF Reply
  <2> QED BY <1>2, <1>8, <2>1 DEF Reply
<1> QED BY <1>3, <1>4, <1>5, <1>6, <1>7, <1>8 DEF HandlerStep

\* A payload leaves the worker's hands for one counter.
LEMMA AccountCounted ==
    ASSUME TypeInv, AccountInv, NEW m \in {"processed", "errors", "duplicates"},
           Count(m), worker.pc # "get", worker' = IdleWorker,
           UNCHANGED <<handler, queue, dropped>>
    PROVE  AccountInv'
<1>1. Accepting' = Accepting /\ Held = 1 /\ Held' = 0
  BY IdleTypes DEF Accepting, Held
<1>2. metrics' = [metrics EXCEPT ![m] = metrics[m] + 1] /\ metrics \in [Counter -> Nat]
  BY DEF Count, TypeInv, TypeOK
<1>3. \A k \in Counter : metrics'[k] = IF k = m THEN metrics[k] + 1 ELSE metrics[k]
  BY <1>2
<1>4. dropped \in Nat /\ \A k \in Counter : metrics[k] \in Nat
  BY <1>2 DEF TypeInv, TypeOK
<1>5. Settled' = Settled + 1
  BY <1>3, <1>4 DEF Settled, Counter
<1>6. Entered' = Entered
  BY <1>1, <1>3 DEF Entered, Counter
<1> QED BY <1>1, <1>5, <1>6, AccountTypes DEF AccountInv

\* The worker: a payload leaves the queue for the worker's hands and those for
\* one counter, or for `dropped'.
LEMMA AccountWorker ==
    ASSUME TypeInv, AccountInv, WorkerStep PROVE AccountInv'
<1>0. worker \in WorkerRec
  BY DEF TypeInv, TypeOK
<1>1. UNCHANGED handler
  BY DEF WorkerStep, Get, AuditStart, OpenLookup, RecordDuplicate, Insert,
     CloseLookup, AuditClose, LockTrade, RefuseClose, CommitOpen, CommitClose,
     RecordProcessed, Raise, RecordFailure, DropFailure, outside
<1>2. Accepting' = Accepting
  BY <1>1 DEF Accepting
<1>3. CASE Get
  <2>1. Len(queue') = Len(queue) - 1
    BY <1>3 DEF Get, TypeInv, TypeOK
  <2>2. Held = 0 /\ Held' = 1 /\ UNCHANGED <<metrics, dropped>>
    BY <1>3 DEF Get, Held
  <2>3. Entered' = Entered /\ Settled' = Settled
    BY <1>2, <2>2 DEF Entered, Settled
  <2> QED BY <1>2, <2>1, <2>2, <2>3, AccountTypes DEF AccountInv
<1>4. ASSUME worker.pc # "get", worker'.pc # "get", UNCHANGED <<queue, metrics, dropped>>
      PROVE  AccountInv'
  BY <1>2, <1>4, AccountKept DEF Held
<1>5. CASE \/ AuditStart \/ OpenLookup \/ Insert \/ CloseLookup \/ AuditClose
           \/ LockTrade \/ CommitOpen \/ CommitClose \/ Raise
  BY <1>0, <1>4, <1>5 DEF AuditStart, OpenLookup, Insert, CloseLookup, AuditClose,
     LockTrade, CommitOpen, CommitClose, Raise, Goto, WorkerRec
<1>6. CASE RecordDuplicate
  BY <1>1, <1>6, AccountCounted DEF RecordDuplicate
<1>7. CASE RefuseClose
  BY <1>1, <1>7, AccountCounted DEF RefuseClose
<1>8. CASE RecordProcessed
  BY <1>1, <1>8, AccountCounted DEF RecordProcessed
<1>9. CASE RecordFailure
  BY <1>1, <1>9, AccountCounted DEF RecordFailure
<1>10. CASE DropFailure
  <2>1. /\ Held = 1 /\ Held' = 0 /\ dropped' = dropped + 1
        /\ UNCHANGED <<queue, metrics>>
    BY <1>10, IdleTypes DEF DropFailure, Held
  <2>2. dropped \in Nat /\ \A m \in Counter : metrics[m] \in Nat
    BY AccountTypes DEF TypeInv, TypeOK
  <2>3. Settled' = Settled + 1 /\ Entered' = Entered
    BY <1>2, <2>1, <2>2 DEF Settled, Entered, Counter
  <2> QED BY <1>2, <2>1, <2>3, AccountTypes DEF AccountInv
<1> QED BY <1>3, <1>5, <1>6, <1>7, <1>8, <1>9, <1>10 DEF WorkerStep

\* Every step keeps the account.
LEMMA AccountNext == TypeInv /\ AccountInv /\ [Next]_vars => AccountInv'
<1> SUFFICES ASSUME TypeInv, AccountInv, [Next]_vars PROVE AccountInv'
  OBVIOUS
<1>1. ASSUME NEW c \in Client, ClientStep(c) PROVE AccountInv'
  <2>1. UNCHANGED <<queue, worker, metrics, dropped>> /\ Held' = Held
    BY <1>1 DEF ClientStep, Generate, Send, TimeOut, Held
  <2>2. Accepting' = Accepting
    <3>1. CASE Generate(c) \/ TimeOut(c)
      BY <3>1 DEF Generate, TimeOut, Accepting
    <3>2. CASE Send(c)
      BY <3>2 DEF Send, Accepting, TypeInv, TypeOK
    <3> QED BY <1>1, <3>1, <3>2 DEF ClientStep
  <2> QED BY <2>1, <2>2, AccountKept
<1>2. CASE Restart
  <2>1. Accepting' = {}
    BY <1>2, IdleTypes DEF Restart, Accepting
  <2>2. /\ \A m \in Counter : metrics'[m] = 0
        /\ Len(queue') = 0 /\ worker'.pc = "get" /\ dropped' = 0
    BY <1>2, IdleTypes DEF Restart, NoCounts
  <2> QED BY <2>1, <2>2, FS_EmptySet DEF AccountInv, Entered, Settled, Held, Counter
<1>3. CASE UNCHANGED vars
  BY <1>3, AccountKept DEF vars, Accepting, Held
<1> QED BY <1>1, <1>2, <1>3, AccountHandler, AccountWorker DEF Next

\* No payload is lost track of: between put() and the counters every accepted
\* payload is in the queue, in the worker's hands or counted once, whatever
\* raises and however many handler threads put at the same time.
THEOREM CountersAddUp == Spec => []Accounted
<1>1. TypeInv /\ AccountInv => Accounted
  <2> SUFFICES ASSUME TypeInv, AccountInv PROVE Accounted
    OBVIOUS
  <2>1. dropped \in Nat /\ \A m \in Counter : metrics[m] \in Nat
    BY AccountTypes DEF TypeInv, TypeOK
  <2>2. /\ metrics["processed"] \in Nat /\ metrics["errors"] \in Nat
        /\ metrics["duplicates"] \in Nat /\ metrics["accepted"] \in Nat
        /\ Len(queue) \in Nat /\ Held \in Nat /\ Cardinality(Accepting) \in Nat
    BY <2>1, AccountTypes DEF Counter
  <2>3. metrics["accepted"] + Cardinality(Accepting) = Len(queue) + Held
           + metrics["processed"] + metrics["errors"] + metrics["duplicates"]
           + dropped
    BY <2>1, <2>2 DEF AccountInv, Entered, Settled
  <2> QED BY <2>3, Zenon DEF Accounted, Accepting, Held
<1> QED BY <1>1, TypeInit, TypeNext, AccountInit, AccountNext, PTL DEF Spec

-----------------------------------------------------------------------------
(* `processed' counts the changes of the trades table.                      *)

Opened == {t \in TradeId : status[t] # "NONE"}
Closed == {t \in TradeId : status[t] = "CLOSED"}
EffectInv == IsFiniteSet(Opened) /\ IsFiniteSet(Closed) /\ ProcessedAreEffects

\* The terms of the claim are numbers.
LEMMA EffectTypes ==
    ASSUME TypeInv, EffectInv
    PROVE  /\ Effects \in Nat /\ Counted \in Nat /\ faults \in Nat
           /\ Effects = Cardinality(Opened) + Cardinality(Closed)
           /\ Cardinality(Opened) \in Nat /\ Cardinality(Closed) \in Nat
<1>1. Cardinality(Opened) \in Nat /\ Cardinality(Closed) \in Nat
  BY FS_CardinalityType DEF EffectInv
<1>2. Effects = Cardinality(Opened) + Cardinality(Closed)
  BY Zenon DEF Effects, Opened, Closed
<1>3. metrics["processed"] \in Nat
  BY DEF TypeInv, TypeOK, Counter
<1>4. Counted \in Nat
  BY <1>3 DEF Counted
<1>5. faults \in Nat
  BY ParamAssumption DEF TypeInv, TypeOK
<1> QED BY <1>1, <1>2, <1>4, <1>5

\* At first there is no row and no count.
LEMMA EffectInit == Init => EffectInv
<1> SUFFICES ASSUME Init PROVE EffectInv
  OBVIOUS
<1>1. Opened = {} /\ Closed = {}
  BY DEF Init, Opened, Closed
<1>2. Effects = 0
  <2>1. Cardinality(Opened) = 0 /\ Cardinality(Closed) = 0
    BY <1>1, FS_EmptySet
  <2>2. Effects = Cardinality(Opened) + Cardinality(Closed)
    BY Zenon DEF Effects, Opened, Closed
  <2> QED BY <2>1, <2>2
<1>3. Counted = 0 /\ faults = 0
  BY IdleTypes DEF Init, NoCounts, Counted, Counter
<1> QED BY <1>1, <1>2, <1>3, FS_EmptySet DEF EffectInv, ProcessedAreEffects

\* A step that leaves the table alone counts no change; it may lose the count
\* of one when a call raises.
LEMMA EffectKept ==
    ASSUME TypeInv, TypeInv', EffectInv, UNCHANGED <<status, restarts>>,
           \/ Counted' = Counted /\ faults' >= faults
           \/ Counted' = Counted - 1 /\ faults' = faults + 1
    PROVE  EffectInv'
<1>1. Opened' = Opened /\ Closed' = Closed /\ Effects' = Effects
  BY DEF Opened, Closed, Effects
<1>2. EffectInv => /\ Counted <= Effects
                   /\ restarts = 0 => Effects <= Counted + faults
  BY DEF EffectInv, ProcessedAreEffects
<1>3. Counted' \in Int /\ faults' \in Nat
  BY EffectTypes, ParamAssumption DEF TypeInv, TypeOK
<1>4. /\ Counted' <= Effects
      /\ restarts = 0 => Effects <= Counted' + faults'
  BY <1>2, <1>3, EffectTypes
<1> QED BY <1>1, <1>4 DEF EffectInv, ProcessedAreEffects

\* A commit changes the table once and is about to be counted once.
LEMMA EffectCommit ==
    ASSUME TypeInv, EffectInv, CommitOpen \/ CommitClose, LockHolds
    PROVE  EffectInv'
<1>1. Counted' = Counted + 1 /\ UNCHANGED <<faults, restarts>>
  <2>1. worker.pc = "commit" /\ worker'.pc = "postAudit" /\ UNCHANGED metrics
    BY DEF CommitOpen, CommitClose, TypeInv, TypeOK, WorkerRec
  <2>2. metrics["processed"] \in Nat
    BY DEF TypeInv, TypeOK, Counter
  <2>3. Counted = metrics["processed"] /\ Counted' = metrics["processed"] + 1
    BY <2>1, <2>2 DEF Counted
  <2> QED BY <2>3 DEF CommitOpen, CommitClose, outside
<1>2. /\ IsFiniteSet(Opened') /\ IsFiniteSet(Closed')
      /\ Cardinality(Opened') + Cardinality(Closed')
            = Cardinality(Opened) + Cardinality(Closed) + 1
  <2>0. IsFiniteSet(Opened) /\ IsFiniteSet(Closed)
    BY DEF EffectInv
  <2>1. CASE CommitOpen
    <3>1. PICK t \in TradeId : /\ status[t] = "NONE"
                               /\ status' = [status EXCEPT ![t] = "ACTIVE"]
      BY <2>1 DEF CommitOpen
    <3>2. Opened' = Opened \cup {t} /\ t \notin Opened /\ Closed' = Closed
      BY <3>1 DEF Opened, Closed, TypeInv, TypeOK
    <3>3. IsFiniteSet(Opened') /\ Cardinality(Opened') = Cardinality(Opened) + 1
      BY <2>0, <3>2, FS_AddElement
    <3> QED BY <2>0, <3>2, <3>3, EffectTypes
  <2>2. CASE CommitClose
    <3> DEFINE t == worker.job.trade
    <3>1. t \in TradeId /\ status[t] = "ACTIVE"
          /\ status' = [status EXCEPT ![t] = "CLOSED"]
      BY <2>2 DEF CommitClose, LockHolds
    <3>2. Closed' = Closed \cup {t} /\ t \notin Closed /\ Opened' = Opened
      BY <3>1 DEF Opened, Closed, TypeInv, TypeOK
    <3>3. IsFiniteSet(Closed') /\ Cardinality(Closed') = Cardinality(Closed) + 1
      BY <2>0, <3>2, FS_AddElement
    <3> QED BY <2>0, <3>2, <3>3, EffectTypes
  <2> QED BY <2>1, <2>2
<1>3. Effects' = Cardinality(Opened') + Cardinality(Closed')
  BY Zenon DEF Effects, Opened, Closed
<1>4. Effects' = Effects + 1
  BY <1>2, <1>3, EffectTypes
<1>5. Counted <= Effects /\ (restarts = 0 => Effects <= Counted + faults)
  BY DEF EffectInv, ProcessedAreEffects
<1>6. Counted' <= Effects' /\ (restarts' = 0 => Effects' <= Counted' + faults')
  BY <1>1, <1>4, <1>5, EffectTypes
<1> QED BY <1>2, <1>6 DEF EffectInv, ProcessedAreEffects

\* Every step keeps count and changes together.
LEMMA EffectNext ==
    TypeInv /\ TypeInv' /\ TableInv /\ EffectInv /\ [Next]_vars => EffectInv'
<1> SUFFICES ASSUME TypeInv, TypeInv', TableInv, EffectInv, [Next]_vars
             PROVE  EffectInv'
  OBVIOUS
<1>0. metrics \in [Counter -> Nat] /\ worker \in WorkerRec /\ faults \in Nat
  BY ParamAssumption DEF TypeInv, TypeOK
<1>1. ASSUME UNCHANGED <<status, restarts, worker>>,
             metrics'["processed"] = metrics["processed"], faults' >= faults
      PROVE  EffectInv'
  BY <1>1, EffectKept DEF Counted
<1>2. ASSUME NEW c \in Client, ClientStep(c) PROVE EffectInv'
  <2>1. UNCHANGED <<status, restarts, worker, metrics, faults>>
    BY <1>2 DEF ClientStep, Generate, Send, TimeOut, db
  <2> QED BY <1>0, <1>1, <2>1
<1>3. ASSUME NEW h \in Handler, HandlerStep(h) PROVE EffectInv'
  <2>1. UNCHANGED <<status, restarts, worker>>
    BY <1>3 DEF HandlerStep, Reject, Put, RecordAccepted, PutFull, Overload,
       Finish, Reply, db
  <2>2. metrics'["processed"] = metrics["processed"] /\ faults' >= faults
    BY <1>0, <1>3 DEF HandlerStep, Reject, Put, RecordAccepted, PutFull, Overload,
       Finish, Reply, Count, Raised, Counter
  <2> QED BY <1>1, <2>1, <2>2
<1>4. ASSUME worker.pc # "postAudit", worker'.pc # "postAudit",
             UNCHANGED <<status, restarts>>,
             metrics'["processed"] = metrics["processed"], faults' >= faults
      PROVE  EffectInv'
  BY <1>4, EffectKept DEF Counted
<1>5. CASE \/ Get \/ AuditStart \/ OpenLookup \/ Insert \/ CloseLookup
           \/ AuditClose \/ LockTrade
  BY <1>0, <1>4, <1>5 DEF Get, AuditStart, OpenLookup, Insert, CloseLookup,
     AuditClose, LockTrade, Goto, WorkerRec, outside, db
<1>6. CASE RecordDuplicate \/ RefuseClose \/ RecordFailure \/ DropFailure
  <2>1. worker.pc # "postAudit" /\ worker'.pc # "postAudit"
        /\ UNCHANGED <<status, restarts>>
    BY <1>6, IdleTypes DEF RecordDuplicate, RefuseClose, RecordFailure,
       DropFailure, outside, db
  <2>2. metrics'["processed"] = metrics["processed"] /\ faults' >= faults
    BY <1>0, <1>6 DEF RecordDuplicate, RefuseClose, RecordFailure, DropFailure,
       Count, Raised, Counter
  <2> QED BY <1>4, <2>1, <2>2
<1>7. CASE RecordProcessed
  <2>1. metrics'["processed"] = metrics["processed"] + 1
        /\ metrics["processed"] \in Nat
    BY <1>0, <1>7 DEF RecordProcessed, Count, Counter
  <2>2. worker.pc = "postAudit" /\ worker'.pc # "postAudit"
    BY <1>7, IdleTypes DEF RecordProcessed
  <2>3. Counted' = Counted
    BY <2>1, <2>2 DEF Counted
  <2> QED BY <1>0, <1>7, <2>3, EffectKept DEF RecordProcessed, outside, db
<1>8. CASE Raise
  <2>1. worker'.pc = "except" /\ UNCHANGED <<status, restarts, metrics>>
    BY <1>0, <1>8 DEF Raise, Goto, WorkerRec, outside, db
  <2>2. CASE worker.pc # "postAudit"
    BY <1>0, <1>4, <1>8, <2>1, <2>2 DEF Raise, Raised
  <2>3. CASE worker.pc = "postAudit"
    <3>1. faults' = faults + 1
      BY <1>8, <2>3 DEF Raise, Raised
    <3>2. Counted' = Counted - 1
      <4>1. metrics["processed"] \in Nat
        BY <1>0 DEF Counter
      <4> QED BY <2>1, <2>3, <4>1 DEF Counted
    <3> QED BY <2>1, <3>1, <3>2, EffectKept
  <2> QED BY <2>2, <2>3
<1>9. CASE CommitOpen \/ CommitClose
  BY <1>9, EffectCommit DEF TableInv
<1>10. CASE Restart
  <2>1. restarts' # 0 /\ Opened' = Opened /\ Closed' = Closed /\ Effects' = Effects
    BY <1>10, ParamAssumption
    DEF Restart, db, Opened, Closed, Effects, TypeInv, TypeOK
  <2>2. Counted' = 0
    BY <1>10, IdleTypes DEF Restart, NoCounts, Counted, Counter
  <2> QED BY <2>1, <2>2, EffectTypes DEF EffectInv, ProcessedAreEffects
<1>11. CASE UNCHANGED vars
  BY <1>0, <1>1, <1>11 DEF vars
<1> QED BY <1>2, <1>3, <1>5, <1>6, <1>7, <1>8, <1>9, <1>10, <1>11
        DEF Next, WorkerStep

\* `processed' is the number of changes the worker made to the trades table
\* since the start, but for those whose audit write after the commit raised.
THEOREM ProcessedCorrect == Spec => []ProcessedAreEffects
<1> DEFINE Inv == TypeInv /\ TableInv /\ EffectInv
<1>1. Init => Inv
  BY TypeInit, TableInit, EffectInit
<1>2. Inv /\ [Next]_vars => Inv'
  BY TypeNext, TableNext, EffectNext
<1>3. Inv => ProcessedAreEffects
  BY DEF EffectInv
<1> QED BY <1>1, <1>2, <1>3, PTL DEF Spec

-----------------------------------------------------------------------------
(* A request is lost only to a call that raised.                            *)

\* A row exists when, and only when, a request opened it.
StatusOpened == \A t \in TradeId : status[t] = "NONE" <=> openedBy[t] = NoRid
\* No close ever writes its id where the idempotency check looks for it.
NoMetadata == \A t \in TradeId : metadata[t] = NoRid
\* A trade is only named by a request to close it, and once it is in the table.
AskedTrades == \A p \in asked :
    p.trade \in TradeId => p.action = "CLOSE_TRADE" /\ status[p.trade] # "NONE"
\* What the worker counts as duplicate, refuses or has committed has its effect.
SettledJob == worker.pc \in {"duplicate", "refuse", "postAudit"} => Kept(worker.job)
RowInv == /\ StatusOpened /\ NoMetadata /\ AskedTrades /\ SettledJob
          /\ promised \subseteq asked /\ IsFiniteSet(promised)

\* A payload stops waiting when the call that works on it raises, and that call
\* has paid for it.
Waiting(p) == InQueue(p) \/ (worker.job = p /\ worker.pc \notin {"get", "except"})
Unpaid == {p \in promised : ~Kept(p) /\ ~Waiting(p)}
LossInv == restarts = 0 => Cardinality(Unpaid) <= faults

\* What was done for a request is never undone.
LEMMA KeptStays ==
    ASSUME TypeInv, TableInv, StatusOpened, [Next]_vars, NEW p \in Payload, Kept(p)
    PROVE  Kept(p)'
<1>0. p.rid # NoRid
  BY NullAssumption DEF Payload
<1>1. ASSUME UNCHANGED <<status, openedBy>> PROVE Kept(p)'
  BY <1>1 DEF Kept, Taken
<1>2. CASE CommitOpen
  <2>1. PICK t \in TradeId : /\ status[t] = "NONE"
                             /\ status' = [status EXCEPT ![t] = "ACTIVE"]
                             /\ openedBy' = [openedBy EXCEPT ![t] = worker.job.rid]
    BY <1>2 DEF CommitOpen
  <2>2. openedBy[t] = NoRid
    BY <2>1 DEF StatusOpened
  <2>3. Taken(p.rid) => Taken(p.rid)'
    BY <1>0, <2>1, <2>2 DEF Taken, TypeInv, TypeOK
  <2>4. \A u \in TradeId : status[u] = "CLOSED" => status'[u] = "CLOSED"
    BY <2>1 DEF TypeInv, TypeOK
  <2> QED BY <2>3, <2>4 DEF Kept
<1>3. CASE CommitClose
  <2>1. UNCHANGED openedBy
    BY <1>3 DEF CommitClose
  <2>2. \A u \in TradeId : status[u] = "CLOSED" => status'[u] = "CLOSED"
    BY <1>3 DEF CommitClose, TypeInv, TypeOK
  <2> QED BY <2>1, <2>2 DEF Kept, Taken
<1>4. CASE Restart
  BY <1>1, <1>4 DEF Restart, db
<1> QED BY <1>1, <1>2, <1>3, <1>4, OthersLeaveTables, TableReading DEF Next, WorkerStep

\* At first there is no row.
LEMMA RowInit == Init => RowInv
BY IdleTypes, FS_EmptySet

DEF Init, RowInv, StatusOpened, NoMetadata, AskedTrades, SettledJob

\* The worker's steps keep RowInv.
LEMMA RowWorker ==
    ASSUME TypeInv, TableInv, InFlightAsked, RowInv, WorkerStep PROVE RowInv'
<1>0. /\ worker \in WorkerRec /\ UNCHANGED <<asked, promised, metadata>>
      /\ status \in [TradeId -> {"NONE", "ACTIVE", "CLOSED"}]
      /\ openedBy \in [TradeId -> Rid \cup {NoRid}]
      /\ worker.pc # "get" => worker.job \in asked /\ worker.job \in Payload
  BY DEF TypeInv, TypeOK, JobTyped, InFlightAsked, WorkerStep, Get, AuditStart,
     OpenLookup, RecordDuplicate, Insert, CloseLookup, AuditClose, LockTrade,
     RefuseClose, CommitOpen, CommitClose, RecordProcessed, Raise, RecordFailure,
     DropFailure, outside, db
<1>1. ASSUME UNCHANGED <<status, openedBy>>, SettledJob' PROVE RowInv'
  BY <1>0, <1>1 DEF RowInv, StatusOpened, NoMetadata, AskedTrades
<1>2. CASE \/ Get \/ AuditStart \/ Insert \/ AuditClose \/ Raise
           \/ RecordDuplicate \/ RefuseClose \/ RecordProcessed \/ RecordFailure
           \/ DropFailure
  <2>1. worker'.pc \notin {"duplicate", "refuse", "postAudit"}
    BY <1>0, <1>2, IdleTypes DEF Get, AuditStart, Insert, AuditClose, Raise,
       RecordDuplicate, RefuseClose, RecordProcessed, RecordFailure, DropFailure,
       Goto, WorkerRec
  <2>2. UNCHANGED <<status, openedBy>>
    BY <1>2, TableReading
  <2> QED BY <1>1, <2>1, <2>2 DEF SettledJob
<1>3. CASE OpenLookup
  <2>1. UNCHANGED <<status, openedBy>>
    BY <1>3, TableReading
  <2>2. worker'.job = worker.job /\ worker.job.action = "OPEN_TRADE"
        /\ worker'.pc \in {"duplicate", "insert"}
        /\ (worker'.pc = "duplicate" => Taken(worker.job.rid))
    BY <1>0, <1>3 DEF OpenLookup, Goto, WorkerRec, Existing, TableInv, PcAction
  <2>3. SettledJob'
    BY <2>1, <2>2 DEF SettledJob, Kept, Taken
  <2> QED BY <1>1, <2>1, <2>3
<1>4. CASE CloseLookup
  <2>1. UNCHANGED <<status, openedBy>>
    BY <1>4, TableReading
  <2>2. worker.job.rid # NoRid
    BY <1>0, <1>4, NullAssumption DEF CloseLookup, Payload
  <2>3. worker'.pc = "closeAudit"
    BY <1>0, <1>4, <2>2 DEF CloseLookup, Goto, WorkerRec, RowInv, NoMetadata
  <2> QED BY <1>1, <2>1, <2>3 DEF SettledJob
<1>5. CASE LockTrade
  <2>1. UNCHANGED <<status, openedBy>>
    BY <1>5, TableReading
  <2>2. worker'.job = worker.job /\ worker.job.action # "OPEN_TRADE"
        /\ worker.job \in asked /\ worker'.pc \in {"commit", "refuse"}
        /\ (worker'.pc = "refuse" /\ worker.job.trade \in TradeId
               => status[worker.job.trade] # "ACTIVE")
    BY <1>0, <1>5 DEF LockTrade, Goto, WorkerRec, Closable, TableInv, PcAction
  <2>3. worker'.pc = "refuse" /\ worker.job.trade \in TradeId
               => status[worker.job.trade] = "CLOSED"
    BY <1>0, <2>2 DEF RowInv, AskedTrades
  <2>4. SettledJob'
    BY <2>1, <2>2, <2>3 DEF SettledJob, Kept
  <2> QED BY <1>1, <2>1, <2>4
<1>6. CASE CommitOpen
  <2>1. PICK t \in TradeId : /\ status[t] = "NONE"
                             /\ status' = [status EXCEPT ![t] = "ACTIVE"]
                             /\ openedBy' = [openedBy EXCEPT ![t] = worker.job.rid]
    BY <1>6 DEF CommitOpen
  <2>2. worker.job.rid # NoRid /\ worker'.job = worker.job
        /\ worker.job.action = "OPEN_TRADE"
    BY <1>0, <1>6, NullAssumption DEF CommitOpen, Payload, WorkerRec
  <2>3. StatusOpened'
    BY <1>0, <2>1, <2>2 DEF RowInv, StatusOpened
  <2>4. AskedTrades'
    BY <1>0, <2>1 DEF RowInv, AskedTrades
  <2>5. SettledJob'
    BY <1>0, <2>1, <2>2 DEF SettledJob, Kept, Taken
  <2> QED BY <1>0, <2>3, <2>4, <2>5 DEF RowInv, NoMetadata
<1>7. CASE CommitClose
  <2>1. /\ worker.job.trade \in TradeId /\ status[worker.job.trade] = "ACTIVE"
        /\ status' = [status EXCEPT ![worker.job.trade] = "CLOSED"]
        /\ UNCHANGED openedBy /\ worker'.job = worker.job
        /\ worker.job.action = "CLOSE_TRADE"
    BY <1>0, <1>7 DEF CommitClose, TableInv, LockHolds, WorkerRec
  <2>2. StatusOpened'
    BY <1>0, <2>1 DEF RowInv, StatusOpened
  <2>3. AskedTrades'
    BY <1>0, <2>1 DEF RowInv, AskedTrades
  <2>4. SettledJob'
    BY <1>0, <2>1 DEF SettledJob, Kept
  <2> QED BY <1>0, <2>2, <2>3, <2>4 DEF RowInv, NoMetadata
<1> QED BY <1>2, <1>3, <1>4, <1>5, <1>6, <1>7 DEF WorkerStep

\* Every step keeps what is known of rows and requests.
LEMMA RowNext ==
    TypeInv /\ TableInv /\ InFlightAsked /\ RowInv /\ [Next]_vars => RowInv'
<1> SUFFICES ASSUME TypeInv, TableInv, InFlightAsked, RowInv, [Next]_vars
             PROVE  RowInv'
  OBVIOUS
<1>1. ASSUME UNCHANGED <<status, openedBy, metadata, worker>>, AskedTrades',
             promised' \subseteq asked', IsFiniteSet(promised')
      PROVE  RowInv'
  BY <1>1 DEF RowInv, StatusOpened, NoMetadata, SettledJob, Kept, Taken
<1>2. ASSUME NEW c \in Client, Generate(c) PROVE RowInv'
  <2>1. UNCHANGED <<status, openedBy, metadata, worker, promised>>
    BY <1>2 DEF Generate, db
  <2>2. AskedTrades' /\ asked \subseteq asked'
    BY <1>2, <2>1, GenerateAsks DEF RowInv, AskedTrades
  <2> QED BY <1>1, <2>1, <2>2 DEF RowInv
<1>3. ASSUME UNCHANGED <<asked, status, openedBy, metadata, worker, promised>>
      PROVE  RowInv'
  BY <1>1, <1>3 DEF RowInv, AskedTrades
<1>4. ASSUME NEW c \in Client, Send(c) \/ TimeOut(c) PROVE RowInv'
  BY <1>3, <1>4 DEF Send, TimeOut, db
<1>5. ASSUME NEW h \in Handler, Put(h) PROVE RowInv'
  <2>1. UNCHANGED <<asked, status, openedBy, metadata, worker>>
    BY <1>5 DEF Put, db
  <2>2. Head(handler[h].items) \in asked
    BY <1>5 DEF Put, InFlightAsked
  <2>3. promised' \subseteq asked /\ IsFiniteSet(promised')
    BY <1>5, <2>2, FS_AddElement DEF Put, RowInv
  <2> QED BY <1>1, <2>1, <2>3 DEF RowInv, AskedTrades
<1>6. ASSUME NEW h \in Handler, HandlerStep(h), ~Put(h) PROVE RowInv'
  <2>1. UNCHANGED <<asked, status, openedBy, metadata, worker, promised>>
    BY <1>6 DEF HandlerStep, Reject, RecordAccepted, PutFull, Overload, Finish,
       Reply, db
  <2> QED BY <1>3, <2>1
<1>7. CASE Restart
  <2>1. worker'.pc = "get" /\ UNCHANGED <<asked, status, openedBy, metadata, promised>>
    BY <1>7, IdleTypes DEF Restart, db
  <2> QED BY <2>1 DEF RowInv, StatusOpened, NoMetadata, AskedTrades, SettledJob
<1>8. CASE UNCHANGED vars
  BY <1>3, <1>8 DEF vars
<1> QED BY <1>2, <1>4, <1>5, <1>6, <1>7, <1>8, RowWorker DEF Next, ClientStep

\* A step that makes no payload stop waiting before it has had its effect costs
\* nothing; a call that raises costs at most the payload in work.
LEMMA LossKept ==
    ASSUME TypeInv, TypeInv', RowInv, LossInv, restarts' = restarts, faults' >= faults,
           \A p \in promised' : p \in promised \/ Waiting(p)',
           \A p \in promised : Kept(p) => Kept(p)',
           \A p \in promised : Waiting(p) => Waiting(p)' \/ Kept(p)'
    PROVE  LossInv'
<1>1. Unpaid \subseteq promised /\ IsFiniteSet(promised)
  BY DEF Unpaid, RowInv
<1>2. IsFiniteSet(Unpaid)
  BY <1>1, FS_Subset
<1>3. Unpaid' \subseteq Unpaid
  BY DEF Unpaid
<1>4. Cardinality(Unpaid') <= Cardinality(Unpaid) /\ Cardinality(Unpaid') \in Nat
      /\ Cardinality(Unpaid) \in Nat
  BY <1>2, <1>3, FS_Subset, FS_CardinalityType
<1>5. faults \in Nat /\ faults' \in Nat
  BY ParamAssumption DEF TypeInv, TypeOK
<1> QED BY <1>4, <1>5 DEF LossInv

\* ... and a call that raises has paid for that one payload.
LEMMA LossCharged ==
    ASSUME TypeInv, TypeInv', RowInv, LossInv, restarts' = restarts,
           faults' = faults + 1, promised' = promised,
           \A p \in promised : Kept(p) => Kept(p)',
           \A p \in promised : p # worker.job /\ Waiting(p) => Waiting(p)'
    PROVE  LossInv'
<1>1. Unpaid \subseteq promised /\ IsFiniteSet(promised)
  BY DEF Unpaid, RowInv
<1>2. IsFiniteSet(Unpaid)
  BY <1>1, FS_Subset
<1>3. Unpaid' \subseteq Unpaid \cup {worker.job}
  BY DEF Unpaid
<1> DEFINE more == Unpaid \cup {worker.job}
<1>4. /\ IsFiniteSet(more) /\ Cardinality(Unpaid) \in Nat
      /\ Cardinality(more) <= Cardinality(Unpaid) + 1 /\ Cardinality(more) \in Nat
  BY <1>2, FS_AddElement, FS_CardinalityType
<1>5. Cardinality(Unpaid') <= Cardinality(more) /\ Cardinality(Unpaid') \in Nat
  BY <1>3, <1>4, FS_Subset, FS_CardinalityType
<1>6. faults \in Nat
  BY ParamAssumption DEF TypeInv, TypeOK
<1> HIDE DEF more
<1> QED BY <1>4, <1>5, <1>6 DEF LossInv

\* What put() and get() do to the payloads in the queue.
LEMMA QueuePut ==
    ASSUME queue \in Seq(Payload), NEW p \in Payload, queue' = Append(queue, p)
    PROVE  InQueue(p)' /\ \A q \in Payload : InQueue(q) => InQueue(q)'
<1>1. /\ Len(queue) \in Nat /\ Len(queue') = Len(queue) + 1
      /\ queue'[Len(queue) + 1] = p
      /\ \A i \in 1..Len(queue) : queue'[i] = queue[i]
  OBVIOUS
<1> QED BY <1>1 DEF InQueue

\* get() leaves every payload where LossInv looks for it.
LEMMA QueueGet ==
    ASSUME queue \in Seq(Payload), queue # <<>>, queue' = Tail(queue)
    PROVE  \A q \in Payload : InQueue(q) => InQueue(q)' \/ q = Head(queue)
<1> SUFFICES ASSUME NEW q \in Payload, InQueue(q), q # Head(queue) PROVE InQueue(q)'
  OBVIOUS
<1>1. PICK i \in 1..Len(queue) : queue[i] = q
  BY DEF InQueue
<1>2. Len(queue) \in Nat /\ Len(queue') = Len(queue) - 1 /\ i # 1
  BY <1>1
<1>3. i - 1 \in 1..Len(queue')
  BY <1>2
<1>4. queue'[i - 1] = q
  BY <1>1, <1>2, <1>3
<1> QED BY <1>3, <1>4 DEF InQueue

\* At first nothing was promised.
LEMMA LossInit == Init => LossInv
<1> SUFFICES ASSUME Init PROVE LossInv
  OBVIOUS
<1>1. Unpaid = {}
  BY DEF Init, Unpaid
<1> QED BY <1>1, FS_EmptySet DEF Init, LossInv

\* The worker's steps.
LEMMA LossWorker ==
    ASSUME TypeInv, TypeInv', TableInv, RowInv, LossInv, WorkerStep,
           \A p \in promised : Kept(p) => Kept(p)'
    PROVE  LossInv'
<1>0. /\ worker \in WorkerRec /\ UNCHANGED <<promised, restarts>>
      /\ queue \in Seq(Payload) /\ promised \subseteq Payload /\ faults \in Nat
      /\ worker.pc # "get" => worker.job \in Payload
  BY ParamAssumption
  DEF TypeInv, TypeOK, JobTyped, WorkerStep, Get, AuditStart,
     OpenLookup, RecordDuplicate, Insert, CloseLookup, AuditClose, LockTrade,
     RefuseClose, CommitOpen, CommitClose, RecordProcessed, Raise, RecordFailure,
     DropFailure, outside
<1>1. ASSUME faults' >= faults, \A p \in promised : Waiting(p) => Waiting(p)' \/ Kept(p)'
      PROVE  LossInv'
  BY <1>0, <1>1, LossKept
<1>2. ASSUME UNCHANGED queue PROVE \A p \in promised : InQueue(p)' = InQueue(p)
  BY <1>2 DEF InQueue
<1>3. CASE Get
  <2>1. worker.pc = "get" /\ worker'.pc = "start" /\ worker'.job = Head(queue)
        /\ queue # <<>> /\ queue' = Tail(queue) /\ UNCHANGED faults
    BY <1>3 DEF Get
  <2>2. \A p \in promised : Waiting(p) => Waiting(p)'
    BY <1>0, <2>1, QueueGet DEF Waiting
  <2> QED BY <1>0, <1>1, <2>1, <2>2
<1>4. CASE \/ AuditStart \/ OpenLookup \/ Insert \/ CloseLookup \/ AuditClose
           \/ LockTrade \/ CommitOpen \/ CommitClose
  <2>1. worker'.job = worker.job /\ worker'.pc \notin {"get", "except"}
        /\ UNCHANGED <<queue, faults>>
    BY <1>0, <1>4 DEF AuditStart, OpenLookup, Insert, CloseLookup, AuditClose,
       LockTrade, CommitOpen, CommitClose, Goto, WorkerRec
  <2>2. \A p \in promised : Waiting(p) => Waiting(p)'
    BY <1>2, <2>1 DEF Waiting
  <2> QED BY <1>0, <1>1, <2>1, <2>2
<1>5. CASE RecordDuplicate \/ RefuseClose \/ RecordProcessed
  <2>1. worker.pc \in {"duplicate", "refuse", "postAudit"} /\ UNCHANGED <<queue, faults>>
    BY <1>5 DEF RecordDuplicate, RefuseClose, RecordProcessed
  <2>2. Kept(worker.job)
    BY <2>1 DEF RowInv, SettledJob
  <2>3. \A p \in promised : Waiting(p) => Waiting(p)' \/ Kept(p)'
    BY <1>2, <2>1, <2>2 DEF Waiting
  <2> QED BY <1>0, <1>1, <2>1, <2>3
<1>6. CASE RecordFailure \/ DropFailure
  <2>1. worker.pc = "except" /\ UNCHANGED queue /\ faults' >= faults
    BY <1>0, <1>6 DEF RecordFailure, DropFailure, Raised
  <2>2. \A p \in promised : Waiting(p) => Waiting(p)'
    BY <1>2, <2>1 DEF Waiting
  <2> QED BY <1>1, <2>1, <2>2
<1>7. CASE Raise
  <2>1. UNCHANGED queue
    BY <1>7 DEF Raise
  <2>2. CASE faults' = faults + 1
    <3>1. \A p \in promised : p # worker.job /\ Waiting(p) => Waiting(p)'
      BY <1>2, <2>1 DEF Waiting
    <3> QED BY <1>0, <2>2, <3>1, LossCharged
  <2>3. CASE worker.job.action = "OPEN_TRADE" /\ Taken(worker.job.rid) /\ UNCHANGED faults
    <3>1. Kept(worker.job)
      BY <2>3 DEF Kept
    <3>2. \A p \in promised : Waiting(p) => Waiting(p)' \/ Kept(p)'
      BY <1>2, <2>1, <3>1 DEF Waiting
    <3> QED BY <1>0, <1>1, <2>3, <3>2
  <2> QED BY <1>7, <2>2, <2>3 DEF Raise, Raised
<1> QED BY <1>3, <1>4, <1>5, <1>6, <1>7 DEF WorkerStep

\* Every step keeps the losses paid for.
LEMMA LossNext ==
    /\ TypeInv /\ TypeInv' /\ TableInv /\ InFlightAsked /\ RowInv /\ LossInv
    /\ [Next]_vars
    => LossInv'
<1> SUFFICES ASSUME TypeInv, TypeInv', TableInv, InFlightAsked, RowInv, LossInv,
                    [Next]_vars
             PROVE  LossInv'
  OBVIOUS
<1>0. promised \subseteq Payload /\ queue \in Seq(Payload) /\ faults \in Nat
  BY ParamAssumption DEF TypeInv, TypeOK
<1>1. \A p \in promised : Kept(p) => Kept(p)'
  BY <1>0, KeptStays DEF RowInv
<1>2. ASSUME UNCHANGED <<queue, worker, promised, restarts>>, faults' >= faults
      PROVE  LossInv'
  <2>1. \A p \in promised : Waiting(p) => Waiting(p)'
    BY <1>2 DEF Waiting, InQueue
  <2> QED BY <1>1, <1>2, <2>1, LossKept
<1>3. ASSUME NEW c \in Client, ClientStep(c) PROVE LossInv'
  <2>1. UNCHANGED <<queue, worker, promised, restarts, faults>>
    BY <1>3 DEF ClientStep, Generate, Send, TimeOut
  <2> QED BY <1>0, <1>2, <2>1
<1>4. ASSUME NEW h \in Handler, Put(h) PROVE LossInv'
  <2>1. PICK p \in Payload : p = Head(handler[h].items)
    BY <1>4, ItemType DEF Put, TypeInv
  <2>2. /\ queue' = Append(queue, p) /\ promised' = promised \cup {p}
        /\ UNCHANGED <<worker, restarts, faults>>
    BY <1>4, <2>1 DEF Put
  <2>3. InQueue(p)' /\ \A q \in Payload : InQueue(q) => InQueue(q)'
    BY <1>0, <2>2, QueuePut
  <2>4. /\ \A q \in promised' : q \in promised \/ Waiting(q)'
        /\ \A q \in promised : Waiting(q) => Waiting(q)'
    BY <1>0, <2>2, <2>3 DEF Waiting
  <2>5. faults' >= faults
    BY <1>0, <2>2
  <2> QED BY <1>1, <2>2, <2>4, <2>5, LossKept
<1>5. ASSUME NEW h \in Handler, HandlerStep(h), ~Put(h) PROVE LossInv'
  <2>1. UNCHANGED <<queue, worker, promised, restarts>>
    BY <1>5 DEF HandlerStep, Reject, RecordAccepted, PutFull, Overload, Finish, Reply
  <2>2. faults' >= faults
    BY <1>0, <1>5 DEF HandlerStep, Reject, RecordAccepted, PutFull, Overload, Finish,
       Reply, Raised
  <2> QED BY <1>2, <2>1, <2>2
<1>6. CASE WorkerStep
  BY <1>1, <1>6, LossWorker
<1>7. CASE Restart
  BY <1>7, ParamAssumption DEF Restart, LossInv, TypeInv, TypeOK
<1>8. CASE UNCHANGED vars
  BY <1>0, <1>2, <1>8 DEF vars
<1> QED BY <1>3, <1>4, <1>5, <1>6, <1>7, <1>8 DEF Next

\* Between restarts every payload that put() took is in the queue, in work or
\* has had its effect, but for one per call that raised: however the queue,
\* the retries and the two threads interleave, nothing else is ever lost.
THEOREM LossesPaidFor == Spec => []LossesAreFaults
<1> DEFINE Inv == TypeInv /\ TableInv /\ InFlightAsked /\ RowInv /\ LossInv
<1>1. Init => Inv
  BY TypeInit, TableInit, AskedInit, RowInit, LossInit
<1>2. Inv /\ [Next]_vars => Inv'
  BY TypeNext, TableNext, AskedNext, RowNext, LossNext
<1>3. Inv => LossesAreFaults
  <2> SUFFICES ASSUME Inv PROVE LossesAreFaults
    OBVIOUS
  <2> DEFINE lost == {p \in promised : ~Kept(p) /\ ~Pending(p)}
  <2>1. Unpaid \subseteq promised /\ IsFiniteSet(promised)
    BY DEF Unpaid, RowInv
  <2>2. IsFiniteSet(Unpaid)
    BY <2>1, FS_Subset
  <2>3. lost \subseteq Unpaid
    BY DEF Unpaid, Pending, Waiting
  <2>4. Cardinality(lost) <= Cardinality(Unpaid) /\ Cardinality(lost) \in Nat
        /\ Cardinality(Unpaid) \in Nat
    BY <2>2, <2>3, FS_Subset, FS_CardinalityType
  <2>5. faults \in Nat
    BY ParamAssumption DEF TypeInv, TypeOK
  <2> HIDE DEF lost
  <2>6. restarts = 0 => Cardinality(lost) <= faults
    BY <2>4, <2>5 DEF LossInv
  <2> QED BY <2>6 DEF LossesAreFaults, lost
<1> QED BY <1>1, <1>2, <1>3, PTL DEF Spec
=============================================================================
