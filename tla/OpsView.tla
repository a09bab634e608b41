------------------------------ MODULE OpsView ------------------------------
(***************************************************************************)
(* What an operator sees on the monitoring page of services that fail and  *)
(* come back, the blotter among them: the monitor's probe of the blotter   *)
(* is a GET /health whose iteration over the cache a new trade may break,  *)
(* and the HTTP error it is answered with counts as DOWN.                  *)
(*                                                                         *)
(* Composes Monitoring and BlotterApi.  All that an outage of another      *)
(* service does to the monitor is that its probe fails.                    *)
(***************************************************************************)
EXTENDS Naturals, Sequences, FiniteSets

CONSTANTS Targets, Window, MaxPause, MaxTrades, MaxSummaries,
          Blotter,    \* the service BlotterApi describes
          MaxOutages  \* bound: times a service goes down or is slow to answer

ASSUME ViewAssumption ==
    /\ Len(Targets) \in Nat \ {0}
    /\ \A i, j \in DOMAIN Targets : i # j => Targets[i] # Targets[j]
    /\ Blotter \in {Targets[i] : i \in DOMAIN Targets}
    /\ Window \in Nat /\ MaxPause \in Nat \ {0}
    /\ MaxTrades \in Nat /\ MaxSummaries \in Nat /\ MaxOutages \in Nat

VARIABLES current, previous, errors, shown, done, log,
          cache, health, summary, summaries,
          up,       \* the services that answer
          outages,  \* history: times a service went down or was slow to answer
          boots,    \* history: times the blotter was started
          alarms    \* history: probes that a blotter that was up answered with an
                    \* error

M == INSTANCE Monitoring
A == INSTANCE BlotterApi

monitor == <<current, previous, errors, shown, done, log>>
blotter == <<cache, health, summary, summaries>>
world == <<up, outages, boots>>
vars == <<current, previous, errors, shown, done, log, cache,
          health, summary, summaries, up, outages, boots, alarms>>

Init == /\ M!Init /\ A!Init
        /\ up = M!Service
        /\ outages = 0
        /\ boots = 1
        /\ alarms = 0

GoDown(s) ==
    /\ s \in up /\ outages < MaxOutages
    /\ up' = up \ {s}
    /\ outages' = outages + 1
    /\ IF s = Blotter THEN A!Crash ELSE UNCHANGED blotter
    /\ UNCHANGED <<monitor, boots, alarms>>

GoUp(s) ==
    /\ s \notin up
    /\ up' = up \cup {s}
    /\ boots' = IF s = Blotter THEN boots + 1 ELSE boots
    /\ UNCHANGED <<monitor, blotter, outages, alarms>>

\* The probe of a service other than the blotter, or of a blotter that is down.
Probe ==
    /\ M!Probing
    /\ M!Target \notin up \/ M!Target # Blotter
    /\ health.pc = "idle"
    /\ M!Answer(IF M!Target \in up THEN "UP" ELSE "DOWN")
    /\ UNCHANGED <<blotter, world, alarms>>

\* The probe of the blotter: a GET /health begins ...
ProbeBlotter ==
    /\ M!Probing /\ M!Target = Blotter /\ Blotter \in up
    /\ A!BeginHealth
    /\ UNCHANGED <<monitor, world, alarms>>

\* ... and is answered, or its connection breaks.
BlotterAnswers ==
    /\ M!Probing /\ M!Target = Blotter
    /\ health.pc \in {"ok", "error", "broken"}
    /\ M!Answer(IF health.pc = "ok" THEN "UP" ELSE "DOWN")
    /\ health' = A!Idle
    /\ alarms' = IF health.pc = "error" THEN alarms + 1 ELSE alarms
    /\ UNCHANGED <<cache, summary, summaries, world>>

\* urlopen gives up after 2 s on a service that is up: the probe says DOWN, and
\* nobody waits any more for the answer of a GET /health that is being served.
ProbeTimesOut ==
    /\ M!Probing /\ M!Target \in up
    /\ outages < MaxOutages /\ outages' = outages + 1
    /\ M!Answer("DOWN")
    /\ health' = A!Idle
    /\ UNCHANGED <<cache, summary, summaries, up, boots, alarms>>

MonitorStep ==
    \/ Probe \/ ProbeBlotter \/ BlotterAnswers
    \/ M!Publish /\ UNCHANGED <<blotter, world, alarms>>
    \/ \E units \in 1..MaxPause : M!Wake(units) /\ UNCHANGED <<blotter, world, alarms>>

BlotterStep == Blotter \in up /\ A!BlotterStep /\ UNCHANGED <<monitor, world, alarms>>

Next == \/ MonitorStep \/ BlotterStep \/ ProbeTimesOut
        \/ \E s \in M!Service : GoDown(s) \/ GoUp(s)

Spec == Init /\ [][Next]_vars

\* The monitor's thread and the blotter's handlers are scheduled; services need
\* not fail, and need not come back.
FairSpec == /\ Spec
            /\ WF_vars(MonitorStep)
            /\ WF_vars(A!AdvanceHealth /\ UNCHANGED <<monitor, world, alarms>>)

-----------------------------------------------------------------------------
(* Properties                                                              *)

\* The error counts shown are those of the window's probe results.
ErrorsAreOutages == M!ErrorsAreOutages

\* A summary of books that is answered misses no trade.
SummaryWhole == A!SummaryWhole

\* A blotter that is up answers a probe with an error at most once for every
\* trade that is new to its cache: the broken iteration does not repeat.
FalseAlarmsBounded == alarms <= MaxTrades * boots

\* The page follows the services: a service that stays down is shown DOWN for
\* good, one that stays up UP (the blotter, too, whatever trades come in, and
\* whatever was slow to answer some probes), the environment's status is that of
\* the services, and an outage, over or lasting, leaves the counts of errors once
\* the window has passed.
PageFollows ==
    /\ \A s \in M!Service :
          /\ (<>[](s \notin up)) => (<>[](shown.services[s].status = "DOWN"))
          /\ (<>[](s \in up)) => (<>[](shown.services[s].status = "UP"))
          /\ <>[](shown.services[s].errors_5m = 0)
    /\ (<>[](up = M!Service)) => (<>[](shown.environment = "HEALTHY"))
=============================================================================
