---------------------------- MODULE Monitoring ----------------------------
(***************************************************************************)
(* monitoring-service: one thread probes the /health of every service, one *)
(* after the other, compares the results with those of the cycle before,   *)
(* keeps the DOWN transitions of the last ERROR_WINDOW_SECONDS and         *)
(* replaces status_payload, which GET /status returns.                     *)
(*                                                                         *)
(* A probe says UP or DOWN: every service's /health reports UP when it     *)
(* answers at all, and whatever urlopen raises within its 2 s is DOWN.     *)
(* Time is the age of what happened, in units of which a cycle takes one   *)
(* to MaxPause.  Of the payload the states and the error counts are kept;  *)
(* response times and the texts and times it passes through are not.       *)
(*                                                                         *)
(* An operator whose comment says "Slip:" is a bug one could plausibly     *)
(* make in the definition that follows it; no specification uses it.       *)
(***************************************************************************)
EXTENDS Naturals, Sequences, FiniteSets

CONSTANTS Targets,  \* PROBE_TARGETS, a sequence of services
          Window,   \* ERROR_WINDOW_SECONDS
          MaxPause  \* bound: units of time from one cycle to the next

VARIABLES current,  \* current_states, as the sequence of probe results so far
          previous, \* previous_states
          errors,   \* _error_events: <<age, service>>, no two of them equal
                    \* unless they are past the window and about to be pruned
          shown,    \* status_payload
          done,     \* the cycle is published and monitoring_worker sleeps
          log       \* history: <<age, the services probed DOWN>> of each cycle
                    \* of the window, and of the last one before it

monitor == <<current, previous, errors, shown, done, log>>

Service == {Targets[i] : i \in DOMAIN Targets}

Init == /\ current = <<>>
        /\ previous = [s \in Service |-> "None"]
        /\ errors = {}
        /\ shown = [services |-> [s \in Service |-> [status |-> "None", errors_5m |-> 0]],
                    environment |-> "None"]
        /\ done = FALSE
        /\ log = <<>>

\* The service check_service_health asks next.
Probing == Len(current) < Len(Targets)
Target == Targets[Len(current) + 1]

\* check_service_health returns.
Answer(state) ==
    /\ Probing
    /\ current' = Append(current, state)
    /\ UNCHANGED <<previous, errors, shown, done, log>>

\* The services that are DOWN now and were not.
Transitions(now) == {s \in Service : now[s] = "DOWN" /\ previous[s] # "DOWN"}

\* Slip: an event exactly as old as the window is pruned.
PruneEarly(events) == {e \in events : e[1] < Window}
\* _prune_errors: the deque is in the order of times, so that all events older
\* than the cutoff are at its left end.
Prune(events) == {e \in events : e[1] <= Window}

\* environment["status"] from the numbers of services up and down.
Rollup(now) ==
    LET down == {s \in Service : now[s] = "DOWN"}
    IN  CASE down = {} -> "HEALTHY" [] down = Service -> "DOWN" [] OTHER -> "DEGRADED"

CountOf(s, events) == Cardinality({e \in events : e[2] = s})
\* _enrich_service_entry
Entry(s, now, events) == [status |-> now[s], errors_5m |-> CountOf(s, events)]

\* Slip: the payload is only rebuilt when a service went DOWN.
PayloadOnError(now, fresh, events) ==
    IF fresh = {} THEN shown
    ELSE [services |-> [s \in Service |-> Entry(s, now, events)],
          environment |-> Rollup(now)]
\* build_status_payload
Payload(now, fresh, events) ==
    [services |-> [s \in Service |-> Entry(s, now, events)],
     environment |-> Rollup(now)]

\* The cycle's results: new error events, previous_states, status_payload.
Publish ==
    /\ ~Probing /\ ~done
    /\ LET now == [s \in Service |-> current[CHOOSE i \in DOMAIN Targets : Targets[i] = s]]
           fresh == Transitions(now)
           events == Prune(errors \cup {<<0, s>> : s \in fresh})
       IN  /\ errors' = events
           /\ previous' = now
           /\ shown' = Payload(now, fresh, events)
           /\ log' = Append(log, <<0, {s \in Service : now[s] = "DOWN"}>>)
    /\ done' = TRUE
    /\ UNCHANGED current

\* Cycles that still matter to the window: its own, and the one before those.
Recent(l) ==
    LET In == {i \in DOMAIN l : l[i][1] <= Window}
        first == CHOOSE i \in In : \A j \in In : i <= j
    IN  IF In = {} THEN SubSeq(l, Len(l), Len(l))
        ELSE SubSeq(l, IF first = 1 THEN 1 ELSE first - 1, Len(l))

\* time.sleep(1) is over, `units` after the last cycle was published.
Wake(units) ==
    LET Age(age) == IF age + units > Window THEN Window + 1 ELSE age + units
    IN  /\ done
        /\ done' = FALSE
        /\ current' = <<>>
        /\ errors' = {<<Age(e[1]), e[2]>> : e \in errors}
        /\ log' = Recent([i \in DOMAIN log |-> <<Age(log[i][1]), log[i][2]>>])
        /\ UNCHANGED <<previous, shown>>

-----------------------------------------------------------------------------
(* Properties                                                              *)

\* The error counts on the page are the outages of the window: for each service
\* the number of cycles in it that found the service DOWN after a cycle, the
\* one before the window included, that did not.
Outages(s) == Cardinality({i \in DOMAIN log :
                 /\ log[i][1] <= Window /\ s \in log[i][2]
                 /\ i > 1 => s \notin log[i - 1][2]})
ErrorsAreOutages == done => \A s \in Service : shown.services[s].errors_5m = Outages(s)
=============================================================================
