-------------------------- MODULE TradeGenerator --------------------------
(***************************************************************************)
(* trade-generation-service: POST /start and /stop flip is_running, which  *)
(* generator threads look at once per iteration; GET /generate-once and    *)
(* /generate-batch build intentions in the thread that serves them.        *)
(*                                                                         *)
(* A thread of CPython 3.11, the version every Dockerfile pins, gives way  *)
(* to another one at calls and loop ends only: the test of is_running and  *)
(* the assignment after it are one step, the constructor call that follows *)
(* is not.  The module is composed with the services it calls in           *)
(* TradeDesk.                                                              *)
(*                                                                         *)
(* An operator whose comment says "Slip:" is a bug one could plausibly     *)
(* make in the definition that follows it; no specification uses it.       *)
(***************************************************************************)
EXTENDS Naturals, Sequences, FiniteSets

CONSTANTS Thread,       \* bound: threading.Thread objects made by /start
          Caller,       \* bound: requests served at the same time
          NoThread, Book, TradeId,
          BatchSize,    \* count=10 of /generate-batch
          MaxAttempts,  \* @retry(max_attempts=3)
          MaxIntentions \* bound: intentions generated

VARIABLES isRunning,  \* generator_state["is_running"]
          thread,     \* generator_state["thread"]
          actor,      \* the generator threads and the threads that serve requests
          generated,  \* generator_state["total_generated"]
          afterStop,  \* history: intentions each thread generated since /stop
          overlap     \* history: a /start came while an earlier generator lived

control == <<isRunning, thread, overlap>>
generator == <<isRunning, thread, actor, generated, afterStop, overlap>>

Actor == Thread \cup Caller
Building == {"choose", "pick", "send"}

At(pc) == [pc |-> pc, items |-> <<>>, left |-> 0, books |-> {}, tries |-> 0]
Init ==
    /\ isRunning = FALSE
    /\ thread = NoThread
    /\ actor = [a \in Actor |-> At(IF a \in Thread THEN "unused" ELSE "free")]
    /\ generated = 0
    /\ afterStop = [t \in Thread |-> 0]
    /\ overlap = FALSE

Goto(a, pc) == actor' = [actor EXCEPT ![a] = At(pc)]
InLoop == {t \in Thread : actor[t].pc \in {"check", "sleep"} \cup Building}
Alive == InLoop \cup {t \in Thread : actor[t].pc = "started"}
Starting == {c \in Caller : actor[c].pc \in {"create", "launch"}}

-----------------------------------------------------------------------------
(* POST /start and POST /stop; when there is nothing to do they answer 400 *)

\* Slip: is_running is set last, by the thread that has been started.
StartUnset(c) ==
    /\ actor[c].pc = "free" /\ ~isRunning
    /\ overlap' = (overlap \/ Alive # {})
    /\ Goto(c, "create")
    /\ UNCHANGED <<isRunning, thread, generated, afterStop>>
Start(c) ==
    /\ actor[c].pc = "free" /\ ~isRunning
    /\ isRunning' = TRUE
    /\ overlap' = (overlap \/ Alive # {} \/ Starting # {})
    /\ Goto(c, "create")
    /\ UNCHANGED <<thread, generated, afterStop>>

NewThread == CHOOSE t \in Thread : actor[t].pc = "unused"

\* Slip: the Thread object of the last run is kept.
CreateThreadOnce(c) ==
    /\ actor[c].pc = "create"
    /\ thread' = IF thread = NoThread THEN NewThread ELSE thread
    /\ actor' = [actor EXCEPT ![c] = At("launch"),
                    ![thread'] = IF thread = NoThread THEN At("made") ELSE @]
    /\ UNCHANGED <<isRunning, overlap, generated, afterStop>>
CreateThread(c) ==
    /\ actor[c].pc = "create"
    /\ \E t \in Thread : actor[t].pc = "unused"
    /\ thread' = NewThread
    /\ actor' = [actor EXCEPT ![c] = At("launch"), ![NewThread] = At("made")]
    /\ UNCHANGED <<isRunning, overlap, generated, afterStop>>

\* `.daemon = True` and `.start()` act on what generator_state holds by then;
\* if that thread has been started before, they raise and the answer is 500.
Launch(c) ==
    /\ actor[c].pc = "launch"
    /\ actor' = [actor EXCEPT ![c] = At("free"),
                    ![thread] = IF @.pc = "made" THEN At("started") ELSE @]
    /\ UNCHANGED <<control, generated, afterStop>>

Stop(c) ==
    /\ actor[c].pc = "free" /\ isRunning
    /\ isRunning' = FALSE
    /\ afterStop' = [t \in Thread |-> 0]
    /\ UNCHANGED <<thread, actor, generated, overlap>>

-----------------------------------------------------------------------------
(* trade_generation_worker                                                 *)

\* "Trade generation worker started" is written to the audit log; if that
\* raises (fails), the thread ends and is_running stays TRUE.
AuditStarted(t, fails) ==
    /\ actor[t].pc = "started"
    /\ Goto(t, IF fails THEN "dead" ELSE "check")
    /\ UNCHANGED <<control, generated, afterStop>>

Build(a, n) == actor' = [actor EXCEPT ![a] = [At("choose") EXCEPT !.left = n]]

\* Slip: `while True`.
CheckAlways(t) ==
    /\ actor[t].pc = "check"
    /\ Build(t, 1)
    /\ UNCHANGED <<control, generated, afterStop>>
Check(t) ==
    /\ actor[t].pc = "check"
    /\ IF isRunning THEN Build(t, 1) ELSE Goto(t, "stopping")
    /\ UNCHANGED <<control, generated, afterStop>>

WakeUp(t) ==
    /\ actor[t].pc = "sleep"
    /\ Goto(t, "check")
    /\ UNCHANGED <<control, generated, afterStop>>

\* "Trade generation worker stopped" is audited, and the thread ends.
End(t) ==
    /\ actor[t].pc = "stopping"
    /\ Goto(t, "ended")
    /\ UNCHANGED <<control, generated, afterStop>>

-----------------------------------------------------------------------------
(* Building and sending intentions, in generator threads and in handlers   *)

\* GET /generate-once or /generate-batch: is_running only makes a difference
\* to what is logged.
GenerateOnRequest(c, n) ==
    /\ actor[c].pc = "free"
    /\ Build(c, n)
    /\ UNCHANGED <<control, generated, afterStop>>

\* generate_random_intention returned an intention or None; a batch goes on,
\* and nothing is sent when there is nothing to send.
Return(a, new) ==
    /\ generated + Len(new) <= MaxIntentions
    /\ generated' = generated + Len(new)
    /\ afterStop' = IF a \in Thread /\ ~isRunning
                    THEN [afterStop EXCEPT ![a] = @ + Len(new)] ELSE afterStop
    /\ LET items == actor[a].items \o new
           left == actor[a].left - 1
       IN  actor' = [actor EXCEPT ![a] =
              [pc |-> CASE left > 0 -> "choose"
                        [] left = 0 /\ items # <<>> -> "send"
                        [] OTHER -> IF a \in Thread THEN "sleep" ELSE "free",
               items |-> items, left |-> left, books |-> {}, tries |-> 0]]
    /\ UNCHANGED control

\* generate_request_id: a client_request_id nobody has used, here a number.
RequestId == generated + 1

\* CLOSE_TRADE was drawn, and `active` are the ACTIVE trades just read; any
\* error on the way ends in None.
ChooseClose(a, active) ==
    /\ actor[a].pc = "choose"
    /\ \/ \E t \in active : Return(a, <<<<"CLOSE", t, RequestId>>>>)
       \/ Return(a, <<>>)

\* OPEN_TRADE was drawn, or there was nothing to close: GET /books answered.
FetchBooks(a, answer) ==
    /\ actor[a].pc = "choose"
    /\ actor' = [actor EXCEPT ![a].pc = "pick", ![a].books = answer]
    /\ UNCHANGED <<control, generated, afterStop>>

\* After GET /symbols: a book of that answer, unless it has no symbols.
Pick(a) ==
    /\ actor[a].pc = "pick"
    /\ \/ \E b \in actor[a].books : Return(a, <<<<"OPEN", b, RequestId>>>>)
       \/ Return(a, <<>>)

GoOn(a) == Goto(a, IF a \in Thread THEN "sleep" ELSE "free")

\* An attempt of fetch_json to POST the payload, or the batch, is answered 202.
Send(a) ==
    /\ actor[a].pc = "send"
    /\ GoOn(a)
    /\ UNCHANGED <<control, generated, afterStop>>

\* It raises: a time-out, an HTTP error, a lost connection.  fetch_json tries
\* again with the same payload, and send_to_trade_action_service swallows what
\* the last attempt raises.
SendFails(a) ==
    /\ actor[a].pc = "send"
    /\ IF actor[a].tries + 1 < MaxAttempts
       THEN actor' = [actor EXCEPT ![a].tries = @ + 1] ELSE GoOn(a)
    /\ UNCHANGED <<control, generated, afterStop>>
=============================================================================
