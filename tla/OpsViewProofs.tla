--------------------------- MODULE OpsViewProofs ---------------------------
(***************************************************************************)
(* Proofs about OpsView: what the monitoring page counts, what a summary   *)
(* of books adds up, and how often a blotter that is up is called DOWN.    *)
(* The page's eventual state (PageFollows) is a liveness property and is   *)
(* model-checked only.                                                     *)
(***************************************************************************)
EXTENDS OpsView, Counting, FunctionTheorems

-----------------------------------------------------------------------------
(* The blotter's requests and the alarms they raise                        *)

Request == [pc : {"idle", "iterate", "ok", "error", "broken"}, size : Nat, pos : Nat]

\* The types of the blotter's half, and its cache within its bound.
BlotterType ==
    /\ cache \in Seq({"empty", "valued"}) /\ Len(cache) <= MaxTrades
    /\ health \in Request
    /\ summary \in Request

\* The GET /health in work is answered with an error, or will be: the cache has
\* grown since its iteration began.
Spoilt == \/ health.pc = "error"
          \/ health.pc = "iterate" /\ Len(cache) # health.size

\* Every alarm is paid for by a trade that came into the cache, of this start
\* of the blotter or of an earlier one, and the one on its way is paid for too.
AlarmsPaid ==
    /\ alarms \in Nat /\ boots \in Nat \ {0}
    /\ Blotter \in up =>
          alarms + (IF Spoilt THEN 1 ELSE 0) <= MaxTrades * (boots - 1) + Len(cache)
    /\ Blotter \notin up =>
          /\ cache = <<>> /\ health.pc \in {"idle", "broken"}
          /\ alarms <= MaxTrades * boots

\* What one turn of an iteration leaves is a request, and ends it well only
\* when the cache has not grown and the iteration has been over all of it.
LEMMA AdvanceEffect ==
    ASSUME NEW req \in Request, req.pc = "iterate"
    PROVE  /\ A!Advance(req) \in Request
           /\ A!Advance(req).pc = "ok" => Len(cache) = req.size /\ ~(req.pos < req.size)
           /\ A!Advance(req).pc = "error" => Len(cache) # req.size
           /\ A!Advance(req).pc = "iterate" => Len(cache) = req.size
           /\ A!Advance(req).pc = "iterate" => A!Advance(req).size = req.size
<1>1. CASE Len(cache) # req.size
  <2>1. A!Advance(req) = [pc |-> "error", size |-> 0, pos |-> 0]
    BY <1>1 DEF A!Advance, A!Ended, A!Idle
  <2>2. [pc |-> "error", size |-> 0, pos |-> 0] \in Request
    BY DEF Request
  <2> QED BY <2>1, <2>2, <1>1
<1>2. CASE Len(cache) = req.size /\ req.pos < req.size
  <2>1. A!Advance(req) = [req EXCEPT !.pos = @ + 1]
    BY <1>2 DEF A!Advance
  <2>2. [req EXCEPT !.pos = @ + 1] \in Request
    BY DEF Request
  <2>3. /\ [req EXCEPT !.pos = @ + 1].pc = "iterate"
        /\ [req EXCEPT !.pos = @ + 1].size = req.size
    BY DEF Request
  <2> QED BY <2>1, <2>2, <2>3, <1>2
<1>3. CASE Len(cache) = req.size /\ ~(req.pos < req.size)
  <2>1. A!Advance(req) = [pc |-> "ok", size |-> 0, pos |-> 0]
    BY <1>3 DEF A!Advance, A!Ended, A!Idle
  <2>2. [pc |-> "ok", size |-> 0, pos |-> 0] \in Request
    BY DEF Request
  <2> QED BY <2>1, <2>2, <1>3
<1> QED BY <1>1, <1>2, <1>3

\* The other values a request takes.
LEMMA RequestValues ==
    ASSUME cache \in Seq({"empty", "valued"})
    PROVE  /\ A!Idle \in Request /\ A!Idle.pc = "idle"
           /\ A!Begin \in Request /\ A!Begin.pc = "iterate" /\ A!Begin.size = Len(cache)
           /\ A!Ended("broken") \in Request /\ A!Ended("broken").pc = "broken"
<1>1. Len(cache) \in Nat
  BY LenProperties
<1>2. A!Idle = [pc |-> "idle", size |-> 0, pos |-> 0]
  BY DEF A!Idle
<1>3. A!Begin \in Request /\ A!Begin.pc = "iterate" /\ A!Begin.size = Len(cache)
  <2>1. PICK idle \in Request : idle = A!Idle
    BY <1>2 DEF Request
  <2>2. PICK n \in Nat : n = Len(cache)
    BY <1>1
  <2>3. [idle EXCEPT !.pc = "iterate", !.size = n] \in Request
    BY DEF Request
  <2>4. /\ [idle EXCEPT !.pc = "iterate", !.size = n].pc = "iterate"
        /\ [idle EXCEPT !.pc = "iterate", !.size = n].size = n
    BY DEF Request
  <2> QED BY <2>1, <2>2, <2>3, <2>4, Zenon DEF A!Begin
<1>4. A!Ended("broken") = [pc |-> "broken", size |-> 0, pos |-> 0]
  BY DEF A!Ended, A!Idle
<1> QED BY <1>1, <1>2, <1>3, <1>4 DEF Request

\* The bound on trades is a number.
LEMMA ViewNumbers == MaxTrades \in Nat
BY ViewAssumption

\* A blotter that has just started owes no alarm.
LEMMA BlotterInit == Init => BlotterType /\ AlarmsPaid
<1> SUFFICES ASSUME Init PROVE BlotterType /\ AlarmsPaid
  OBVIOUS
<1>1. cache = <<>> /\ health = A!Idle /\ summary = A!Idle /\ boots = 1 /\ alarms = 0
  BY DEF Init, A!Init
<1>2. cache \in Seq({"empty", "valued"}) /\ Len(cache) = 0
  BY <1>1
<1>3. BlotterType
  BY <1>1, <1>2, RequestValues, ViewNumbers DEF BlotterType
<1>4. ~Spoilt /\ health.pc = "idle"
  BY <1>1, <1>2, RequestValues DEF Spoilt
<1>5. MaxTrades * (boots - 1) = 0 /\ MaxTrades * boots = MaxTrades
  BY <1>1, ViewNumbers
<1> QED BY <1>1, <1>2, <1>3, <1>4, <1>5, ViewNumbers DEF AlarmsPaid

\* The types are kept by every step.
LEMMA BlotterTypeStep == BlotterType /\ [Next]_vars => BlotterType'
<1> SUFFICES ASSUME BlotterType, [Next]_vars PROVE BlotterType'
  OBVIOUS
<1> USE DEF BlotterType
<1>1. CASE UNCHANGED blotter
  BY <1>1 DEF blotter
<1>2. CASE ProbeBlotter
  BY <1>2, RequestValues DEF ProbeBlotter, A!BeginHealth
<1>3. CASE BlotterAnswers \/ ProbeTimesOut
  BY <1>3, RequestValues DEF BlotterAnswers, ProbeTimesOut
<1>4. CASE A!InsertKey
  <2>1. PICK c \in Seq({"empty", "valued"}) : c = cache
    OBVIOUS
  <2>2. Append(c, "empty") \in Seq({"empty", "valued"}) /\ Len(Append(c, "empty")) = Len(c) + 1
    BY AppendProperties
  <2>3. Len(c) < MaxTrades /\ Len(c) \in Nat
    BY <1>4, <2>1 DEF A!InsertKey
  <2> QED BY <1>4, <2>1, <2>2, <2>3, ViewNumbers DEF A!InsertKey
<1>5. CASE A!AppendValuation
  <2>1. PICK c \in Seq({"empty", "valued"}) : c = cache
    OBVIOUS
  <2>2. c # <<>> /\ Len(c) \in 1..Len(c)
    <3>1. c # <<>>
      BY <1>5, <2>1 DEF A!AppendValuation, A!Inserting
    <3> QED BY <3>1, EmptySeq, LenProperties
  <2>3. /\ [c EXCEPT ![Len(c)] = "valued"] \in Seq({"empty", "valued"})
        /\ Len([c EXCEPT ![Len(c)] = "valued"]) = Len(c)
    BY <2>2, ExceptSeq
  <2> QED BY <1>5, <2>1, <2>3 DEF A!AppendValuation
<1>6. CASE A!AdvanceHealth
  BY <1>6, AdvanceEffect DEF A!AdvanceHealth
<1>7. CASE A!BeginSummary
  BY <1>7, RequestValues DEF A!BeginSummary
<1>8. CASE A!AdvanceSummary
  BY <1>8, AdvanceEffect DEF A!AdvanceSummary
<1>9. CASE A!Crash
  <2>1. cache' = <<>> /\ summary' = A!Idle /\ health' \in {A!Idle, A!Ended("broken")}
    BY <1>9 DEF A!Crash
  <2>2. <<>> \in Seq({"empty", "valued"}) /\ Len(<<>>) = 0
    OBVIOUS
  <2> QED BY <2>1, <2>2, RequestValues, ViewNumbers
<1> QED BY <1>1, <1>2, <1>3, <1>4, <1>5, <1>6, <1>7, <1>8, <1>9
        DEF Next, MonitorStep, Probe, BlotterStep, A!BlotterStep, GoDown, GoUp, vars, blotter

\* A step of the payments: the product is a number of its own.
LEMMA Earlier ==
    ASSUME NEW b \in Nat \ {0}
    PROVE  /\ MaxTrades * (b - 1) \in Nat
           /\ MaxTrades * b = MaxTrades * (b - 1) + MaxTrades
           /\ MaxTrades * ((b + 1) - 1) = MaxTrades * b
<1>1. PICK c \in Nat : b = c + 1
  <2>1. b - 1 \in Nat /\ b = (b - 1) + 1
    OBVIOUS
  <2> QED BY <2>1
<1>2. b - 1 = c /\ (b + 1) - 1 = b
  BY <1>1
<1>3. MaxTrades * c \in Nat /\ MaxTrades * (c + 1) = MaxTrades * c + MaxTrades
  BY <1>1, ViewNumbers
<1> QED BY <1>1, <1>2, <1>3

\* A trade that comes in pays for the alarm that it may cause, a start of the
\* blotter keeps what the trades of the last one have paid.
LEMMA AlarmsStep == BlotterType /\ AlarmsPaid /\ [Next]_vars => AlarmsPaid'
<1> SUFFICES ASSUME BlotterType, AlarmsPaid, [Next]_vars PROVE AlarmsPaid'
  OBVIOUS
<1>0. /\ Len(cache) \in Nat /\ Len(cache') \in Nat /\ Len(cache') <= MaxTrades
      /\ cache \in Seq({"empty", "valued"})
      /\ health \in Request
  BY BlotterTypeStep, LenProperties DEF BlotterType
<1>1. PICK paid \in Nat, full \in Nat :
         /\ paid = MaxTrades * (boots - 1) /\ full = MaxTrades * boots
         /\ full = paid + MaxTrades
  BY Earlier, ViewNumbers DEF AlarmsPaid
<1>2. ASSUME UNCHANGED <<blotter, world, alarms>> PROVE AlarmsPaid'
  BY <1>2 DEF AlarmsPaid, Spoilt, blotter, world
<1>3. CASE ProbeBlotter
  <2>1. /\ health.pc = "idle" /\ health'.pc = "iterate" /\ health'.size = Len(cache)
        /\ Blotter \in up /\ UNCHANGED <<cache, up, boots, alarms>>
    BY <1>3, <1>0, RequestValues DEF ProbeBlotter, A!BeginHealth, world
  <2>2. ~Spoilt' /\ ~Spoilt
    BY <2>1 DEF Spoilt
  <2> QED BY <2>1, <2>2 DEF AlarmsPaid
<1>4. CASE BlotterAnswers
  <2>1. /\ health'.pc = "idle" /\ UNCHANGED <<cache, up, boots>>
        /\ alarms' = IF health.pc = "error" THEN alarms + 1 ELSE alarms
    BY <1>4, <1>0, RequestValues DEF BlotterAnswers, world
  <2>2. ~Spoilt'
    BY <2>1 DEF Spoilt
  <2>3. health.pc = "error" => Spoilt
    BY DEF Spoilt
  <2>4. CASE Blotter \in up
    <3>1. alarms' <= paid + Len(cache)
      BY <2>1, <2>3, <2>4, <1>0, <1>1 DEF AlarmsPaid
    <3> QED BY <2>1, <2>2, <2>4, <3>1, <1>1, <1>0 DEF AlarmsPaid
  <2>5. CASE Blotter \notin up
    BY <2>1, <2>5 DEF AlarmsPaid
  <2> QED BY <2>4, <2>5
<1>5. ASSUME Blotter \in up, A!BlotterStep, UNCHANGED <<world, alarms>> PROVE AlarmsPaid'
  <2>0. alarms \in Nat /\ alarms + (IF Spoilt THEN 1 ELSE 0) <= paid + Len(cache)
    BY <1>1, <1>5 DEF AlarmsPaid
  <2>1. ASSUME alarms + (IF Spoilt' THEN 1 ELSE 0) <= paid + Len(cache') PROVE AlarmsPaid'
    BY <2>1, <1>1, <1>5 DEF AlarmsPaid, world
  <2>2. CASE A!InsertKey
    <3>1. Len(cache') = Len(cache) + 1 /\ UNCHANGED health
      BY <2>2, <1>0, AppendProperties DEF A!InsertKey
    <3> QED BY <3>1, <2>0, <2>1, <1>0 DEF Spoilt
  <2>3. CASE A!AppendValuation
    <3>1. PICK c \in Seq({"empty", "valued"}) : c = cache
      BY <1>0
    <3>2. c # <<>> /\ Len(c) \in 1..Len(c)
      <4>1. c # <<>>
        BY <2>3, <3>1 DEF A!AppendValuation, A!Inserting
      <4> QED BY <4>1, EmptySeq, LenProperties
    <3>3. Len([c EXCEPT ![Len(c)] = "valued"]) = Len(c)
      BY <3>2, ExceptSeq
    <3>4. Len(cache') = Len(cache) /\ UNCHANGED health
      BY <2>3, <3>1, <3>3 DEF A!AppendValuation
    <3> QED BY <3>4, <2>0, <2>1 DEF Spoilt
  <2>4. CASE A!AdvanceHealth
    <3>1. /\ health'.pc = "error" => Len(cache) # health.size
          /\ health'.pc = "iterate" => health'.size = Len(cache)
          /\ health.pc = "iterate" /\ UNCHANGED cache
      BY <2>4, <1>0, AdvanceEffect DEF A!AdvanceHealth
    <3>2. Spoilt' => Spoilt
      BY <3>1 DEF Spoilt
    <3> QED BY <3>1, <3>2, <2>0, <2>1, <1>0
  <2>5. CASE A!BeginSummary \/ A!AdvanceSummary
    BY <2>5, <2>0, <2>1 DEF A!BeginSummary, A!AdvanceSummary, Spoilt
  <2> QED BY <1>5, <2>2, <2>3, <2>4, <2>5 DEF A!BlotterStep
<1>6. ASSUME NEW s \in M!Service, GoDown(s) PROVE AlarmsPaid'
  <2>1. CASE s # Blotter
    BY <1>6, <2>1 DEF GoDown, AlarmsPaid, Spoilt, blotter
  <2>2. CASE s = Blotter
    <3>1. /\ cache' = <<>> /\ health'.pc \in {"idle", "broken"} /\ Blotter \notin up'
          /\ Blotter \in up /\ UNCHANGED <<boots, alarms>>
      BY <1>6, <2>2, <1>0, RequestValues DEF GoDown, A!Crash
    <3>2. alarms <= full
      <4>1. alarms \in Nat /\ alarms <= paid + Len(cache)
        BY <3>1, <1>0, <1>1 DEF AlarmsPaid
      <4>2. Len(cache) <= MaxTrades
        BY DEF BlotterType
      <4> QED BY <4>1, <4>2, <1>0, <1>1, ViewNumbers
    <3> QED BY <3>1, <3>2, <1>1 DEF AlarmsPaid
  <2> QED BY <2>1, <2>2
<1>7. ASSUME NEW s \in M!Service, GoUp(s) PROVE AlarmsPaid'
  <2>1. CASE s # Blotter
    BY <1>7, <2>1 DEF GoUp, AlarmsPaid, Spoilt, blotter
  <2>2. CASE s = Blotter
    <3>1. /\ Blotter \notin up /\ Blotter \in up' /\ boots' = boots + 1
          /\ UNCHANGED <<cache, health, alarms>>
      BY <1>7, <2>2 DEF GoUp, blotter
    <3>2. ~Spoilt' /\ Len(cache') = 0 /\ alarms <= full
      BY <3>1, <1>1 DEF AlarmsPaid, Spoilt
    <3>3. MaxTrades * (boots' - 1) = full /\ boots' \in Nat \ {0}
      BY <3>1, <1>1, Earlier DEF AlarmsPaid
    <3> QED BY <3>1, <3>2, <3>3, <1>1 DEF AlarmsPaid
  <2> QED BY <2>1, <2>2
<1>8. CASE ProbeTimesOut
  <2>1. health'.pc = "idle" /\ UNCHANGED <<cache, up, boots, alarms>>
    BY <1>8, <1>0, RequestValues DEF ProbeTimesOut
  <2>2. ~Spoilt'
    BY <2>1 DEF Spoilt
  <2>3. CASE Blotter \in up
    <3>1. alarms \in Nat /\ alarms <= paid + Len(cache)
      BY <2>3, <1>0, <1>1 DEF AlarmsPaid
    <3> QED BY <2>1, <2>2, <2>3, <3>1, <1>1, <1>0 DEF AlarmsPaid
  <2>4. CASE Blotter \notin up
    BY <2>1, <2>4 DEF AlarmsPaid
  <2> QED BY <2>3, <2>4
<1> QED BY <1>2, <1>3, <1>4, <1>5, <1>6, <1>7, <1>8
        DEF Next, MonitorStep, Probe, BlotterStep, vars, blotter, world

\* A blotter that is up answers a probe with an error at most once for every trade
\* that is new to its cache in one of its starts: app.py's GET /health iterates over a
\* dict that valuation_worker grows, and the probe that it breaks is DOWN.
THEOREM AlarmsBounded == Spec => []FalseAlarmsBounded
<1>1. Init => BlotterType /\ AlarmsPaid
  BY BlotterInit
<1>2. (BlotterType /\ AlarmsPaid) /\ [Next]_vars => (BlotterType /\ AlarmsPaid)'
  BY BlotterTypeStep, AlarmsStep
<1>3. BlotterType /\ AlarmsPaid => FalseAlarmsBounded
  <2> SUFFICES ASSUME BlotterType, AlarmsPaid PROVE alarms <= MaxTrades * boots
    BY DEF FalseAlarmsBounded
  <2>1. PICK paid \in Nat, full \in Nat :
           /\ paid = MaxTrades * (boots - 1) /\ full = MaxTrades * boots
           /\ full = paid + MaxTrades
    BY Earlier, ViewNumbers DEF AlarmsPaid
  <2>2. Len(cache) \in Nat /\ Len(cache) <= MaxTrades
    BY LenProperties DEF BlotterType
  <2>3. CASE Blotter \in up
    BY <2>1, <2>2, <2>3, ViewNumbers DEF AlarmsPaid
  <2>4. CASE Blotter \notin up
    BY <2>4 DEF AlarmsPaid
  <2> QED BY <2>3, <2>4
<1> QED BY <1>1, <1>2, <1>3, PTL DEF Spec

\* fetch_book_summary never answers with sums that miss a trade: an iteration
\* that runs to its end has been over every history in the cache, whatever
\* valuation_worker put there meanwhile.
THEOREM SummaryIsWhole == Spec => SummaryWhole
<1>1. Init => BlotterType
  BY BlotterInit
<1>2. BlotterType /\ [Next]_vars => BlotterType'
  BY BlotterTypeStep
<1> DEFINE Whole == (summary.pc = "iterate" /\ summary'.pc = "ok") =>
                       \A t \in DOMAIN cache : cache[t] = "valued" => t <= summary.pos
<1>3. BlotterType /\ [Next]_vars => [Whole]_A!blotter
  <2> SUFFICES ASSUME BlotterType, [Next]_vars, summary.pc = "iterate", summary'.pc = "ok",
                      NEW t \in DOMAIN cache
               PROVE  t <= summary.pos
    OBVIOUS
  <2>1. summary \in Request /\ cache \in Seq({"empty", "valued"})
    BY DEF BlotterType
  <2>2. A!Idle.pc = "idle" /\ A!Begin.pc = "iterate"
    BY <2>1, RequestValues
  <2>3. summary' # summary /\ summary' # A!Idle /\ summary' # A!Begin
    BY <2>2
  <2>4. A!AdvanceSummary
    BY <2>3 DEF Next, MonitorStep, Probe, ProbeBlotter, BlotterAnswers, ProbeTimesOut,
                BlotterStep, A!BlotterStep, A!InsertKey, A!AppendValuation, A!AdvanceHealth,
                A!BeginSummary, A!BeginHealth, A!Crash, GoDown, GoUp, vars, blotter
  <2>5. summary' = A!Advance(summary)
    BY <2>4 DEF A!AdvanceSummary
  <2>6. Len(cache) = summary.size /\ ~(summary.pos < summary.size)
    BY <2>1, <2>5, AdvanceEffect
  <2>7. t \in 1..Len(cache) /\ summary.pos \in Nat /\ summary.size \in Nat
    BY <2>1, LenProperties DEF Request
  <2> QED BY <2>6, <2>7
<1>4. Spec => [][Whole]_A!blotter
  BY <1>1, <1>2, <1>3, PTL DEF Spec
<1> QED BY <1>4 DEF SummaryWhole, A!SummaryWhole

-----------------------------------------------------------------------------
(* The error counts of the page                                            *)

Cycle == (0..(Window + 1)) \X SUBSET M!Service

\* Cycle i of l is in the window and found s DOWN that was not so before it.
Starts(l, i, s) == /\ l[i][1] <= Window /\ s \in l[i][2]
                   /\ i > 1 => s \notin l[i - 1][2]

LogType == /\ log \in Seq(Cycle)
           /\ errors \in SUBSET ((0..(Window + 1)) \X M!Service)
           /\ done => log # <<>>
           /\ ~done => \A i \in DOMAIN log : log[i][1] > 0

\* No two cycles of the window are of the same age.
CyclesApart == \A i, j \in DOMAIN log :
                  log[i][1] = log[j][1] /\ log[i][1] <= Window => i = j

\* The error events of the window are the beginnings of its outages, one each.
EventsAreStarts ==
    \A a \in 0..Window, s \in M!Service :
       (<<a, s>> \in errors) <=> (\E i \in DOMAIN log : log[i][1] = a /\ Starts(log, i, s))

\* previous_states is the last cycle, also when it has left the window.
LastKnown ==
    \A s \in M!Service :
       (previous[s] = "DOWN") <=> (log # <<>> /\ s \in log[Len(log)][2])

\* What the page shows was counted from the events, and none of them is old.
Counted ==
    done => /\ \A e \in errors : e[1] <= Window
            /\ \A s \in M!Service : shown.services[s].errors_5m = M!CountOf(s, errors)

PageInv == LogType /\ CyclesApart /\ EventsAreStarts /\ LastKnown /\ Counted

\* The window and the pause between cycles are numbers.
LEMMA WindowNumbers == /\ Window \in Nat /\ MaxPause \in Nat \ {0}
                       /\ 0 \in 0..(Window + 1) /\ 0 \in 0..Window
BY ViewAssumption

\* What a cycle is, and that its fields determine it.
LEMMA CycleParts ==
    ASSUME NEW c \in Cycle
    PROVE  c[1] \in 0..(Window + 1) /\ c[1] \in Nat /\ c[2] \in SUBSET M!Service
BY WindowNumbers DEF Cycle

\* At first the log and the events are empty.
LEMMA PageInit == Init => PageInv
<1> SUFFICES ASSUME Init PROVE PageInv
  OBVIOUS
<1>1. log = <<>> /\ errors = {} /\ done = FALSE
      /\ previous = [s \in M!Service |-> "None"]
  BY DEF Init, M!Init
<1>2. log \in Seq(Cycle) /\ DOMAIN log = {}
  BY <1>1
<1>3. LogType /\ CyclesApart /\ Counted
  BY <1>1, <1>2 DEF LogType, CyclesApart, Counted
<1>4. EventsAreStarts
  BY <1>1, <1>2 DEF EventsAreStarts
<1>5. LastKnown
  BY <1>1 DEF LastKnown
<1> QED BY <1>3, <1>4, <1>5 DEF PageInv

\* The new cycle is at the end of the log; the old ones are as they were.
LEMMA AppendedCycle ==
    ASSUME NEW l \in Seq(Cycle), NEW c \in Cycle, NEW s
    PROVE  LET m == Append(l, c)
           IN  /\ m \in Seq(Cycle) /\ Len(m) = Len(l) + 1 /\ m[Len(m)] = c
               /\ DOMAIN m = (DOMAIN l) \cup {Len(l) + 1}
               /\ \A i \in DOMAIN l : m[i] = l[i] /\ (Starts(m, i, s) <=> Starts(l, i, s))
               /\ Starts(m, Len(l) + 1, s) <=>
                     /\ c[1] <= Window /\ s \in c[2]
                     /\ l # <<>> => s \notin l[Len(l)][2]
<1> DEFINE n == Len(l)
<1>1. PICK m : m = Append(l, c)
  OBVIOUS
<1>2. /\ m \in Seq(Cycle) /\ Len(m) = n + 1 /\ m[n + 1] = c
      /\ \A i \in 1..n : m[i] = l[i]
  BY <1>1, AppendProperties
<1>3. n \in Nat /\ DOMAIN l = 1..n /\ DOMAIN m = 1..(n + 1)
  BY <1>2, LenProperties
<1>4. 1..(n + 1) = (1..n) \cup {n + 1}
  BY <1>3
<1>5. ASSUME NEW i \in 1..n PROVE Starts(m, i, s) <=> Starts(l, i, s)
  <2>1. m[i] = l[i] /\ (i > 1 => m[i - 1] = l[i - 1])
    BY <1>2, <1>3, <1>5
  <2> QED BY <2>1, Zenon DEF Starts
<1>6. Starts(m, n + 1, s) <=>
         /\ c[1] <= Window /\ s \in c[2]
         /\ l # <<>> => s \notin l[n][2]
  <2>1. (n + 1) - 1 = n /\ (n + 1 > 1 <=> l # <<>>)
    <3>1. n = 0 <=> l = <<>>
      BY EmptySeq
    <3> QED BY <3>1, <1>3
  <2>2. l # <<>> => m[n] = l[n]
    BY <2>1, <1>2, <1>3
  <2> QED BY <2>1, <2>2, <1>2, Zenon DEF Starts
<1>7. m \in Seq(Cycle) /\ Len(m) = n + 1 /\ m[Len(m)] = c
  BY <1>2
<1>8. DOMAIN m = (DOMAIN l) \cup {n + 1}
  BY <1>3, <1>4
<1>9. \A i \in DOMAIN l : m[i] = l[i] /\ (Starts(m, i, s) <=> Starts(l, i, s))
  BY <1>2, <1>3, <1>5
<1> QED BY <1>1, <1>6, <1>7, <1>8, <1>9, Zenon

\* _prune_errors and build_status_payload keep the account: the transitions of
\* the cycle that ends are the outages that begin in it.
LEMMA PublishKeeps == PageInv /\ M!Publish => PageInv'
<1> SUFFICES ASSUME PageInv, M!Publish PROVE PageInv'
  OBVIOUS
<1>1. PICK now, fresh, events, c :
        /\ fresh = {s \in M!Service : now[s] = "DOWN" /\ previous[s] # "DOWN"}
        /\ events = {e \in errors \cup {<<0, s>> : s \in fresh} : e[1] <= Window}
        /\ c = <<0, {s \in M!Service : now[s] = "DOWN"}>>
        /\ errors' = events /\ previous' = now /\ log' = Append(log, c)
        /\ shown' = M!Payload(now, fresh, events)
  BY DEF M!Publish, M!Transitions, M!Prune
<1>2. done' = TRUE /\ ~done /\ log \in Seq(Cycle)
      /\ errors \in SUBSET ((0..(Window + 1)) \X M!Service)
      /\ \A i \in DOMAIN log : log[i][1] > 0
  BY DEF M!Publish, PageInv, LogType
<1>3. c \in Cycle /\ c[1] = 0 /\ c[2] = {s \in M!Service : now[s] = "DOWN"}
  BY <1>1, WindowNumbers DEF Cycle
<1>4. /\ log' \in Seq(Cycle) /\ Len(log') = Len(log) + 1 /\ log'[Len(log')] = c
      /\ DOMAIN log' = (DOMAIN log) \cup {Len(log) + 1}
      /\ \A i \in DOMAIN log : log'[i] = log[i]
      /\ Len(log) + 1 \notin DOMAIN log /\ log'[Len(log) + 1] = c
  <2>1. Len(log) + 1 \notin DOMAIN log
    BY <1>2, LenProperties
  <2> QED BY <1>1, <1>2, <1>3, <2>1, AppendedCycle
<1>5. \A s \in M!Service :
         /\ \A i \in DOMAIN log : Starts(log', i, s) <=> Starts(log, i, s)
         /\ Starts(log', Len(log) + 1, s) <=> s \in fresh
  <2> TAKE s \in M!Service
  <2>1. /\ \A i \in DOMAIN log : Starts(log', i, s) <=> Starts(log, i, s)
        /\ Starts(log', Len(log) + 1, s) <=>
              /\ c[1] <= Window /\ s \in c[2]
              /\ log # <<>> => s \notin log[Len(log)][2]
    <3>1. PICK m : m = Append(log, c)
      OBVIOUS
    <3>2. /\ \A i \in DOMAIN log : Starts(m, i, s) <=> Starts(log, i, s)
          /\ Starts(m, Len(log) + 1, s) <=>
                /\ c[1] <= Window /\ s \in c[2]
                /\ log # <<>> => s \notin log[Len(log)][2]
      BY <3>1, <1>2, <1>3, AppendedCycle, Zenon
    <3> QED BY <3>1, <3>2, <1>1, Zenon
  <2>2. (previous[s] = "DOWN") <=> (log # <<>> /\ s \in log[Len(log)][2])
    BY DEF PageInv, LastKnown
  <2>3. c[1] <= Window
    BY <1>3, WindowNumbers
  <2>4. s \in fresh <=> (s \in c[2] /\ ~(previous[s] = "DOWN"))
    BY <1>1, <1>3
  <2> QED BY <2>1, <2>2, <2>3, <2>4, Zenon
<1>6. \A a \in 0..Window, s \in M!Service :
         <<a, s>> \in errors' <=> (<<a, s>> \in errors \/ (a = 0 /\ s \in fresh))
  <2> SUFFICES ASSUME NEW a \in 0..Window, NEW s \in M!Service
               PROVE  <<a, s>> \in errors' <=> (<<a, s>> \in errors \/ (a = 0 /\ s \in fresh))
    OBVIOUS
  <2>1. PICK e : e = <<a, s>> /\ e[1] = a
    <3>1. <<a, s>>[1] = a
      OBVIOUS
    <3> QED BY <3>1, Zenon
  <2>2. e \in errors' <=> ((e \in errors \/ \E t \in fresh : e = <<0, t>>) /\ e[1] <= Window)
    BY <1>1
  <2>3. e[1] <= Window
    BY <2>1, WindowNumbers
  <2>4. (\E t \in fresh : e = <<0, t>>) <=> (a = 0 /\ s \in fresh)
    BY <2>1
  <2> QED BY <2>1, <2>2, <2>3, <2>4
<1>7. LogType'
  <2>1. errors' \in SUBSET ((0..(Window + 1)) \X M!Service)
    BY <1>1, <1>2, WindowNumbers
  <2>2. log' # <<>>
    BY <1>1, <1>2, <1>3, AppendProperties
  <2> QED BY <2>1, <2>2, <1>2, <1>4 DEF LogType
<1>8. CyclesApart'
  BY <1>2, <1>3, <1>4 DEF CyclesApart, PageInv
<1>9. EventsAreStarts'
  <2> SUFFICES ASSUME NEW a \in 0..Window, NEW s \in M!Service
               PROVE  (<<a, s>> \in errors') <=>
                        (\E i \in DOMAIN log' : log'[i][1] = a /\ Starts(log', i, s))
    BY DEF EventsAreStarts
  <2>1. <<a, s>> \in errors <=> (\E i \in DOMAIN log : log[i][1] = a /\ Starts(log, i, s))
    BY DEF EventsAreStarts, PageInv
  <2>2. (\E i \in DOMAIN log' : log'[i][1] = a /\ Starts(log', i, s)) <=>
          \/ \E i \in DOMAIN log : log[i][1] = a /\ Starts(log, i, s)
          \/ c[1] = a /\ s \in fresh
    BY <1>4, <1>5
  <2> QED BY <2>1, <2>2, <1>3, <1>6
<1>10. LastKnown'
  <2> SUFFICES ASSUME NEW s \in M!Service
               PROVE  (now[s] = "DOWN") <=> (log' # <<>> /\ s \in log'[Len(log')][2])
    BY <1>1 DEF LastKnown
  <2>1. log' # <<>>
    BY <1>1, <1>2, <1>3, AppendProperties
  <2> QED BY <2>1, <1>3, <1>4
<1>11. Counted'
  <2>1. \A e \in errors' : e[1] <= Window
    BY <1>1
  <2>2. ASSUME NEW s \in M!Service
        PROVE  shown'.services[s].errors_5m = M!CountOf(s, errors')
    BY <1>1, <2>2 DEF M!Payload, M!Entry
  <2> QED BY <2>1, <2>2 DEF Counted, M!CountOf
<1> QED BY <1>7, <1>8, <1>9, <1>10, <1>11 DEF PageInv

\* The age of what was a old, u units later.
Older(a, u) == IF a + u > Window THEN Window + 1 ELSE a + u

\* Ages grow by the pause until they are past the window, where they stop.
LEMMA OlderEffect ==
    ASSUME NEW a \in 0..(Window + 1), NEW u \in 1..MaxPause
    PROVE  /\ Older(a, u) \in 0..(Window + 1) /\ Older(a, u) > 0
           /\ \A b \in 0..Window : Older(a, u) = b <=> (b >= u /\ a = b - u)
           /\ Older(a, u) <= Window <=> a + u <= Window
BY WindowNumbers DEF Older

\* The end of l from k on has the cycles of the window, and the one before them.
KeepsWindow(l, k) ==
    \A i \in DOMAIN l : l[i][1] <= Window => i > k \/ (i = k /\ k = 1)

\* m is that end, and an outage of s begins in it where one begins in l.
IsEnd(m, l, k, s) ==
    /\ m \in Seq(Cycle) /\ m # <<>> /\ m[Len(m)] = l[Len(l)]
    /\ \A j \in DOMAIN m : /\ (j + k) - 1 \in DOMAIN l
                           /\ m[j] = l[(j + k) - 1]
                           /\ Starts(m, j, s) <=> Starts(l, (j + k) - 1, s)
    /\ \A i \in DOMAIN l : l[i][1] <= Window =>
          /\ (i - k) + 1 \in DOMAIN m /\ (((i - k) + 1) + k) - 1 = i

\* The log that is kept is its end, from the cycle before the window on, or all
\* of it when the window has its first cycle.
LEMMA RecentEffect ==
    ASSUME NEW l \in Seq(Cycle), l # <<>>
    PROVE  \E k \in 1..Len(l) : M!Recent(l) = SubSeq(l, k, Len(l)) /\ KeepsWindow(l, k)
<1> DEFINE In == {i \in DOMAIN l : l[i][1] <= Window}
<1>0. DOMAIN l = 1..Len(l) /\ Len(l) \in Nat /\ Len(l) # 0
  BY EmptySeq, LenProperties
<1>1. CASE In = {}
  <2>1. M!Recent(l) = SubSeq(l, Len(l), Len(l))
    BY <1>1 DEF M!Recent
  <2>2. Len(l) \in 1..Len(l)
    BY <1>0
  <2> QED BY <2>1, <2>2, <1>1 DEF KeepsWindow
<1>2. CASE In # {}
  <2>1. \E i \in In : \A j \in In : i <= j
    <3>1. In \in SUBSET (DOMAIN l)
      OBVIOUS
    <3> HIDE DEF In
    <3> QED BY <3>1, <1>2, FirstPosition
  <2>2. PICK first \in In : /\ first = CHOOSE i \in In : \A j \in In : i <= j
                            /\ \A j \in In : first <= j
    BY <2>1
  <2>3. PICK k : k = IF first = 1 THEN 1 ELSE first - 1
    OBVIOUS
  <2>4. M!Recent(l) = SubSeq(l, k, Len(l))
    BY <1>2, <2>2, <2>3 DEF M!Recent
  <2>5. k \in 1..Len(l) /\ \A i \in In : i > k \/ (i = k /\ k = 1)
    <3>1. first \in 1..Len(l) /\ \A i \in In : i \in Nat /\ first <= i
      <4>1. In \in SUBSET (1..Len(l))
        BY <1>0
      <4> HIDE DEF In
      <4>2. \A j \in In : first <= j
        BY <2>2
      <4>3. first \in In
        OBVIOUS
      <4> QED BY <4>1, <4>2, <4>3, <1>0
    <3> HIDE DEF In
    <3>2. CASE first = 1
      <4>1. k = 1
        BY <2>3, <3>2
      <4> QED BY <1>0, <3>1, <3>2, <4>1
    <3>3. CASE first # 1
      <4>1. k = first - 1
        BY <2>3, <3>3
      <4> QED BY <1>0, <3>1, <3>3, <4>1
    <3> QED BY <3>2, <3>3
  <2> QED BY <2>4, <2>5 DEF KeepsWindow
<1> QED BY <1>1, <1>2

\* What was in the window of a log is in the window of the end that is kept.
LEMMA CutEffect ==
    ASSUME NEW l \in Seq(Cycle), NEW k \in 1..Len(l), NEW s, NEW m,
           m = SubSeq(l, k, Len(l)),
           KeepsWindow(l, k)
    PROVE  IsEnd(m, l, k, s)
<1> DEFINE n == Len(l)
<1>0. n \in Nat /\ DOMAIN l = 1..n /\ k \in Nat /\ k >= 1 /\ k <= n /\ n \in Int /\ k \in Int
  BY LenProperties
<1>1. \A i \in k..n : l[i] \in Cycle
  BY <1>0, ElementOfSeq
<1>2. /\ m \in Seq(Cycle) /\ Len(m) = (n - k) + 1
      /\ \A i \in 1..((n - k) + 1) : m[i] = l[(k + i) - 1]
  <2>1. /\ SubSeq(l, k, n) \in Seq(Cycle)
        /\ Len(SubSeq(l, k, n)) = IF k <= n THEN n - k + 1 ELSE 0
        /\ \A i \in 1..(n - k + 1) : SubSeq(l, k, n)[i] = l[k + i - 1]
    BY <1>0, <1>1, SubSeqProperties
  <2>2. Len(SubSeq(l, k, n)) = n - k + 1
    BY <2>1, <1>0
  <2> QED BY <2>1, <2>2
<1>3. DOMAIN m = 1..((n - k) + 1)
  BY <1>2, LenProperties
<1>4. m # <<>> /\ m[Len(m)] = l[n]
  <2>1. Len(m) # 0 /\ Len(m) \in 1..((n - k) + 1) /\ (k + Len(m)) - 1 = n
    BY <1>0, <1>2
  <2>2. m # <<>>
    BY <2>1
  <2> QED BY <1>2, <2>1, <2>2
<1>5. ASSUME NEW j \in DOMAIN m
      PROVE  /\ (j + k) - 1 \in DOMAIN l
             /\ m[j] = l[(j + k) - 1]
             /\ Starts(m, j, s) <=> Starts(l, (j + k) - 1, s)
  <2>1. PICK i : i = (j + k) - 1 /\ i = (k + j) - 1
    BY <1>0, <1>3, <1>5
  <2>2. i \in DOMAIN l /\ m[j] = l[i]
    BY <1>0, <1>2, <1>3, <1>5, <2>1
  <2>3. CASE j > 1
    <3>1. j - 1 \in 1..((n - k) + 1) /\ (k + (j - 1)) - 1 = i - 1 /\ i > 1
      <4>1. j \in 1..((n - k) + 1)
        BY <1>3, <1>5
      <4>2. j \in Int /\ 1 <= j /\ j <= (n - k) + 1 /\ k \in Int /\ n \in Int /\ k >= 1
        BY <4>1, <1>0
      <4>3. i = (j + k) - 1 /\ j > 1
        BY <2>1, <2>3
      <4> HIDE DEF n
      <4>4. j - 1 \in 1..((n - k) + 1)
        BY <4>2, <4>3
      <4>5. (k + (j - 1)) - 1 = i - 1
        BY <4>2, <4>3
      <4> QED BY <4>2, <4>3, <4>4, <4>5
    <3>2. m[j - 1] = l[i - 1]
      BY <1>2, <3>1
    <3>3. Starts(m, j, s) <=> Starts(l, i, s)
      BY <2>2, <2>3, <3>1, <3>2, Zenon DEF Starts
    <3> QED BY <2>1, <2>2, <3>3
  <2>4. CASE ~(j > 1)
    <3>1. i = k
      BY <1>0, <1>3, <1>5, <2>1, <2>4
    <3>2. l[i][1] <= Window => ~(i > 1)
      BY <1>0, <2>2, <3>1 DEF KeepsWindow
    <3>3. Starts(m, j, s) <=> Starts(l, i, s)
      BY <2>2, <2>4, <3>2, Zenon DEF Starts
    <3> QED BY <2>1, <2>2, <3>3
  <2> QED BY <2>3, <2>4
<1>6. ASSUME NEW i \in DOMAIN l, l[i][1] <= Window
      PROVE  (i - k) + 1 \in DOMAIN m /\ (((i - k) + 1) + k) - 1 = i
  <2>1. i \in 1..n /\ i >= k
    BY <1>0, <1>6 DEF KeepsWindow
  <2> QED BY <2>1, <1>0, <1>3
<1> QED BY <1>2, <1>4, <1>5, <1>6 DEF IsEnd

\* The pause between two cycles makes everything older and loses no event of
\* the window, nor the cycle that the first of them has to be compared with.
LEMMA WakeKeeps ==
    ASSUME NEW units \in 1..MaxPause, PageInv, M!Wake(units)
    PROVE  PageInv'
<1>1. PICK l :
        /\ l = [i \in DOMAIN log |-> <<Older(log[i][1], units), log[i][2]>>]
        /\ errors' = {<<Older(e[1], units), e[2]>> : e \in errors}
        /\ log' = M!Recent(l)
        /\ done /\ done' = FALSE /\ UNCHANGED <<previous, shown>>
  BY DEF M!Wake, Older
<1>2. /\ log \in Seq(Cycle) /\ log # <<>> /\ Len(log) \in Nat /\ DOMAIN log = 1..Len(log)
      /\ errors \in SUBSET ((0..(Window + 1)) \X M!Service)
  BY <1>1, LenProperties DEF PageInv, LogType
<1>3. ASSUME NEW i \in DOMAIN log
      PROVE  /\ l[i] \in Cycle /\ l[i][2] = log[i][2] /\ l[i][1] > 0
             /\ \A b \in 0..Window : l[i][1] = b <=> (b >= units /\ log[i][1] = b - units)
             /\ l[i][1] <= Window <=> log[i][1] + units <= Window
  <2>1. PICK c \in Cycle : c = log[i]
    BY <1>2, <1>3, ElementOfSeq
  <2>2. c[1] \in 0..(Window + 1) /\ c[2] \in SUBSET M!Service
    BY CycleParts
  <2>3. PICK a \in 0..(Window + 1) :
           /\ a = Older(c[1], units) /\ a > 0
           /\ \A b \in 0..Window : a = b <=> (b >= units /\ c[1] = b - units)
           /\ a <= Window <=> c[1] + units <= Window
    BY <2>2, OlderEffect
  <2>4. l[i] = <<a, c[2]>>
    BY <1>1, <1>3, <2>1, <2>3
  <2>5. l[i] \in Cycle /\ l[i][1] = a /\ l[i][2] = c[2]
    BY <2>2, <2>4 DEF Cycle
  <2> QED BY <2>1, <2>3, <2>5
<1>4. /\ l \in Seq(Cycle) /\ l # <<>> /\ Len(l) = Len(log) /\ DOMAIN l = DOMAIN log
  <2>1. l \in [1..Len(log) -> Cycle]
    BY <1>1, <1>2, <1>3
  <2>2. l \in Seq(Cycle) /\ Len(l) = Len(log)
    BY <2>1, <1>2
  <2>3. Len(log) # 0
    BY <1>2, EmptySeq
  <2> QED BY <1>1, <2>2, <2>3, EmptySeq
<1>5. PICK k \in 1..Len(l) : log' = SubSeq(l, k, Len(l)) /\ KeepsWindow(l, k)
  BY <1>1, <1>4, RecentEffect
<1>e. ASSUME NEW s PROVE IsEnd(log', l, k, s)
  <2>1. PICK m : m = log' /\ m = SubSeq(l, k, Len(l))
    BY <1>5
  <2>2. l \in Seq(Cycle) /\ KeepsWindow(l, k) /\ k \in 1..Len(l)
    BY <1>4, <1>5
  <2>3. IsEnd(m, l, k, s)
    BY <2>1, <2>2, CutEffect, Zenon
  <2> QED BY <2>1, <2>3, Zenon
<1>6. /\ log' \in Seq(Cycle) /\ log' # <<>> /\ log'[Len(log')] = l[Len(l)]
      /\ \A j \in DOMAIN log' : (j + k) - 1 \in DOMAIN l /\ log'[j] = l[(j + k) - 1]
  <2>1. PICK s : IsEnd(log', l, k, s)
    BY <1>e
  <2> QED BY <2>1, Zenon DEF IsEnd
<1>7. ASSUME NEW s \in M!Service
      PROVE  /\ \A j \in DOMAIN log' : Starts(log', j, s) <=> Starts(l, (j + k) - 1, s)
             /\ \A i \in DOMAIN l : l[i][1] <= Window =>
                   \E j \in DOMAIN log' : (j + k) - 1 = i
  <2>1. IsEnd(log', l, k, s)
    BY <1>e
  <2> QED BY <2>1, Zenon DEF IsEnd
<1>8. ASSUME NEW i \in DOMAIN l, NEW s
      PROVE  Starts(l, i, s) <=> (l[i][1] <= Window /\ Starts(log, i, s))
  <2>1. i > 1 => i - 1 \in DOMAIN log
    BY <1>2, <1>4, <1>8
  <2>2. l[i][2] = log[i][2] /\ (i > 1 => l[i - 1][2] = log[i - 1][2])
    BY <1>3, <1>4, <2>1
  <2>3. l[i][1] <= Window => log[i][1] <= Window
    <3>1. PICK c \in Cycle : c = log[i]
      BY <1>2, <1>4, <1>8, ElementOfSeq
    <3>2. c[1] \in Nat /\ units \in Nat
      BY CycleParts, WindowNumbers
    <3>3. l[i][1] <= Window => c[1] + units <= Window
      BY <1>3, <1>4, <1>8, <3>1
    <3> QED BY <3>1, <3>2, <3>3, WindowNumbers
  <2> QED BY <2>2, <2>3, Zenon DEF Starts
<1>9. LogType'
  <2>1. errors' \in SUBSET ((0..(Window + 1)) \X M!Service)
    <3> SUFFICES ASSUME NEW e \in errors
                 PROVE  <<Older(e[1], units), e[2]>> \in (0..(Window + 1)) \X M!Service
      BY <1>1
    <3>1. e[1] \in 0..(Window + 1) /\ e[2] \in M!Service
      BY <1>2
    <3> QED BY <3>1, OlderEffect
  <2>2. \A j \in DOMAIN log' : log'[j][1] > 0
    BY <1>3, <1>4, <1>6
  <2> QED BY <1>1, <1>6, <2>1, <2>2 DEF LogType
<1>10. CyclesApart'
  <2> SUFFICES ASSUME NEW i \in DOMAIN log', NEW j \in DOMAIN log',
                      log'[i][1] = log'[j][1], log'[i][1] <= Window
               PROVE  i = j
    BY DEF CyclesApart
  <2>1. PICK x \in DOMAIN log, y \in DOMAIN log :
           x = (i + k) - 1 /\ y = (j + k) - 1 /\ log'[i] = l[x] /\ log'[j] = l[y]
    BY <1>4, <1>6
  <2>2. PICK b \in 0..Window : b = l[x][1] /\ b = l[y][1]
    <3>1. l[x][1] \in Nat /\ l[x][1] = l[y][1] /\ l[x][1] <= Window
      BY <1>3, <2>1, CycleParts
    <3> QED BY <3>1, WindowNumbers
  <2>3. log[x][1] = b - units /\ log[y][1] = b - units /\ b - units <= Window
    <3>1. b \in Nat /\ b - units <= Window
      BY WindowNumbers
    <3> QED BY <1>3, <2>2, <3>1
  <2>4. x = y
    BY <2>3 DEF PageInv, CyclesApart
  <2>5. i \in Nat /\ j \in Nat /\ k \in Nat
    <3>1. DOMAIN log' = 1..Len(log')
      BY <1>6, LenProperties
    <3> QED BY <3>1
  <2> QED BY <2>1, <2>4, <2>5
<1>11. EventsAreStarts'
  <2> SUFFICES ASSUME NEW a \in 0..Window, NEW s \in M!Service
               PROVE  (<<a, s>> \in errors') <=>
                        (\E j \in DOMAIN log' : log'[j][1] = a /\ Starts(log', j, s))
    BY DEF EventsAreStarts
  <2>0. a \in Nat /\ a <= Window /\ units \in Nat /\ units > 0
    BY WindowNumbers
  <2>1. (<<a, s>> \in errors') <=> (a >= units /\ <<a - units, s>> \in errors)
    <3>1. (<<a, s>> \in errors') <=> (\E e \in errors : a = Older(e[1], units) /\ s = e[2])
      BY <1>1
    <3>2. ASSUME NEW e \in errors
          PROVE  /\ e = <<e[1], e[2]>>
                 /\ a = Older(e[1], units) <=> (a >= units /\ e[1] = a - units)
      <4>1. e[1] \in 0..(Window + 1) /\ e = <<e[1], e[2]>>
        BY <1>2, <3>2
      <4> QED BY <4>1, OlderEffect
    <3>3. ASSUME <<a - units, s>> \in errors
          PROVE  \E e \in errors : e[1] = a - units /\ e[2] = s
      BY <3>3
    <3> QED BY <3>1, <3>2, <3>3
  <2>2. (\E j \in DOMAIN log' : log'[j][1] = a /\ Starts(log', j, s)) <=>
          (\E i \in DOMAIN l : l[i][1] = a /\ Starts(l, i, s))
    <3>1. ASSUME NEW j \in DOMAIN log', log'[j][1] = a, Starts(log', j, s)
          PROVE  \E i \in DOMAIN l : l[i][1] = a /\ Starts(l, i, s)
      BY <1>6, <1>7, <3>1
    <3>2. ASSUME NEW i \in DOMAIN l, l[i][1] = a, Starts(l, i, s)
          PROVE  \E j \in DOMAIN log' : log'[j][1] = a /\ Starts(log', j, s)
      <4>1. PICK j \in DOMAIN log' : (j + k) - 1 = i
        BY <1>7, <2>0, <3>2
      <4> QED BY <1>6, <1>7, <3>2, <4>1
    <3> QED BY <3>1, <3>2
  <2>3. (\E i \in DOMAIN l : l[i][1] = a /\ Starts(l, i, s)) <=>
          (a >= units /\ \E i \in DOMAIN log : log[i][1] = a - units /\ Starts(log, i, s))
    <3>1. \A i \in DOMAIN log : l[i][1] = a <=> (a >= units /\ log[i][1] = a - units)
      BY <1>3
    <3>2. \A i \in DOMAIN log : Starts(l, i, s) <=> (l[i][1] <= Window /\ Starts(log, i, s))
      BY <1>4, <1>8
    <3> QED BY <1>4, <2>0, <3>1, <3>2
  <2>4. ASSUME a >= units
        PROVE  <<a - units, s>> \in errors <=>
                 (\E i \in DOMAIN log : log[i][1] = a - units /\ Starts(log, i, s))
    <3>1. a - units \in 0..Window
      BY <2>0, <2>4, WindowNumbers
    <3> QED BY <3>1 DEF PageInv, EventsAreStarts
  <2> QED BY <2>1, <2>2, <2>3, <2>4
<1>12. LastKnown'
  <2>1. Len(l) \in DOMAIN log /\ Len(l) = Len(log)
    BY <1>2, <1>4, EmptySeq
  <2>2. log'[Len(log')][2] = log[Len(log)][2]
    BY <1>3, <1>6, <2>1
  <2> QED BY <1>1, <1>2, <1>6, <2>2 DEF LastKnown, PageInv
<1>13. Counted'
  BY <1>1 DEF Counted
<1> QED BY <1>9, <1>10, <1>11, <1>12, <1>13 DEF PageInv

\* Only the end of a cycle and the end of a pause concern the page.
LEMMA PageStep == PageInv /\ [Next]_vars => PageInv'
<1> SUFFICES ASSUME PageInv, [Next]_vars PROVE PageInv'
  OBVIOUS
<1>1. CASE UNCHANGED <<previous, errors, shown, done, log>>
  BY <1>1 DEF PageInv, LogType, CyclesApart, EventsAreStarts, LastKnown, Counted,
              Starts, M!CountOf
<1>2. CASE M!Publish
  BY <1>2, PublishKeeps
<1>3. ASSUME NEW units \in 1..MaxPause, M!Wake(units) PROVE PageInv'
  BY <1>3, WakeKeeps
<1> QED BY <1>1, <1>2, <1>3
        DEF Next, MonitorStep, Probe, ProbeBlotter, BlotterAnswers, ProbeTimesOut, M!Answer,
            BlotterStep, GoDown, GoUp, vars, monitor

\* The instance's Cardinality is that of FiniteSets.
LEMMA SameCardinality == ASSUME NEW S PROVE M!Cardinality(S) = Cardinality(S)
BY Zenon DEF M!Cardinality, Cardinality

\* An event for every outage and an outage for every event: as many of each.
LEMMA EventsCountOutages ==
    ASSUME PageInv, done, NEW s \in M!Service
    PROVE  M!CountOf(s, errors) = M!Outages(s)
<1> DEFINE I == {i \in DOMAIN log : Starts(log, i, s)}
           E == {e \in errors : e[2] = s}
<1>1. /\ log \in Seq(Cycle) /\ DOMAIN log = 1..Len(log) /\ Len(log) \in Nat
      /\ errors \in SUBSET ((0..(Window + 1)) \X M!Service)
  BY LenProperties DEF PageInv, LogType
<1>2. M!CountOf(s, errors) = Cardinality(E) /\ M!Outages(s) = Cardinality(I)
  <2>1. M!CountOf(s, errors) = Cardinality(E)
    <3>1. M!CountOf(s, errors) = M!Cardinality(E)
      BY Zenon DEF M!CountOf
    <3> HIDE DEF E
    <3> QED BY <3>1, SameCardinality
  <2>2. PICK J : J = {i \in DOMAIN log :
                        /\ log[i][1] <= Window /\ s \in log[i][2]
                        /\ i > 1 => s \notin log[i - 1][2]}
    OBVIOUS
  <2>3. J = I
    BY <2>2 DEF Starts
  <2>4. M!Outages(s) = Cardinality(J)
    <3>1. M!Outages(s) = M!Cardinality(J)
      BY <2>2, Zenon DEF M!Outages
    <3> QED BY <3>1, SameCardinality
  <2> HIDE DEF I, E
  <2> QED BY <2>1, <2>3, <2>4
<1>3. IsFiniteSet(I)
  <2>1. IsFiniteSet(1..Len(log))
    <3>1. 1 \in Int /\ Len(log) \in Int
      BY <1>1
    <3> QED BY <3>1, FS_Interval
  <2>2. I \in SUBSET (1..Len(log))
    BY <1>1
  <2> HIDE DEF I
  <2> QED BY <2>1, <2>2, FS_Subset
<1>4. PICK f : f = [i \in I |-> <<log[i][1], s>>]
  OBVIOUS
<1>5. ASSUME NEW i \in I
      PROVE  log[i][1] \in 0..Window /\ f[i] = <<log[i][1], s>>
  <2>1. PICK c \in Cycle : c = log[i]
    BY <1>1, ElementOfSeq
  <2>2. c[1] \in Nat /\ log[i][1] <= Window
    BY CycleParts DEF Starts
  <2>3. log[i][1] \in 0..Window
    BY <2>1, <2>2, WindowNumbers
  <2> QED BY <2>3, <1>4
<1>6. f \in [I -> E]
  <2>1. ASSUME NEW i \in I PROVE f[i] \in E
    <3>1. PICK a \in 0..Window : a = log[i][1] /\ f[i] = <<a, s>>
      BY <1>5
    <3>2. <<a, s>> \in errors
      BY <3>1 DEF PageInv, EventsAreStarts
    <3> QED BY <3>1, <3>2
  <2> QED BY <1>4, <2>1
<1>7. ASSUME NEW i \in I, NEW j \in I, f[i] = f[j] PROVE i = j
  <2>1. log[i][1] = log[j][1] /\ log[i][1] <= Window
    <3>1. <<log[i][1], s>> = <<log[j][1], s>> /\ log[i][1] \in 0..Window
      BY <1>5, <1>7
    <3> QED BY <3>1, WindowNumbers
  <2> QED BY <2>1 DEF PageInv, CyclesApart
<1>8. ASSUME NEW e \in E PROVE \E i \in I : f[i] = e
  <2>1. e[1] \in 0..Window /\ e = <<e[1], s>>
    <3>1. e[1] \in 0..(Window + 1) /\ e = <<e[1], e[2]>> /\ e[2] = s
      BY <1>1
    <3>2. e[1] <= Window
      BY DEF PageInv, Counted
    <3> QED BY <3>1, <3>2, WindowNumbers
  <2>2. <<e[1], s>> \in errors
    BY <2>1
  <2>3. PICK i \in DOMAIN log : log[i][1] = e[1] /\ Starts(log, i, s)
    BY <2>1, <2>2 DEF PageInv, EventsAreStarts
  <2> QED BY <2>1, <2>3, <1>5
<1>9. f \in Bijection(I, E)
  <2> HIDE DEF I, E
  <2> QED BY <1>6, <1>7, <1>8, Fun_IsBij
<1>10. Cardinality(E) = Cardinality(I)
  <2> HIDE DEF I, E
  <2> QED BY <1>3, <1>9, FS_Bijection DEF ExistsBijection
<1> QED BY <1>2, <1>10

\* The error counts of the monitoring page are the outages of the window:
\* monitoring_worker counts each DOWN transition once, at the cycle that found
\* it, and _prune_errors drops it when and only when it has left the window.
THEOREM ErrorsCounted == Spec => []ErrorsAreOutages
<1>1. PageInv => ErrorsAreOutages
  <2> SUFFICES ASSUME PageInv, done, NEW s \in M!Service
               PROVE  shown.services[s].errors_5m = M!Outages(s)
    BY DEF ErrorsAreOutages, M!ErrorsAreOutages
  <2>1. shown.services[s].errors_5m = M!CountOf(s, errors)
    BY DEF PageInv, Counted
  <2> QED BY <2>1, EventsCountOutages
<1> QED BY <1>1, PageInit, PageStep, PTL DEF Spec
=============================================================================
