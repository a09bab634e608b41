---------------------------- MODULE BlotterApi ----------------------------
(***************************************************************************)
(* blotter-service's valuation_cache between the thread that reads the     *)
(* valuation stream and the threads that serve GET /health and GET         *)
(* /books/summary.  Nothing locks the dict: both requests iterate over     *)
(* .values(), which raises RuntimeError when its size has changed since    *)
(* the iteration began.                                                    *)
(*                                                                         *)
(* Trades are numbered in the order in which they come into the cache, so  *)
(* that the dict is a sequence; of a trade's history only whether it is    *)
(* empty is kept (Valuations has the stream and the histories).            *)
(*                                                                         *)
(* An operator whose comment says "Slip:" is a bug one could plausibly     *)
(* make in the definition that follows it; no specification uses it.       *)
(***************************************************************************)
EXTENDS Naturals, Sequences

CONSTANTS MaxTrades, \* bound: trades that are valued
          MaxSummaries \* bound: GET /books/summary requests

VARIABLES cache,     \* valuation_cache: a history "empty" or "valued" per trade
          health,    \* the GET /health request in work
          summary,   \* the GET /books/summary request in work
          summaries  \* history: such requests begun

blotter == <<cache, health, summary, summaries>>

\* An iteration: where it is, and the size of the dict when it began.
Idle == [pc |-> "idle", size |-> 0, pos |-> 0]

Init == cache = <<>> /\ health = Idle /\ summary = Idle /\ summaries = 0

-----------------------------------------------------------------------------
(* valuation_worker                                                        *)

\* update_cache has given the newest trade its history and is about to append.
Inserting == cache # <<>> /\ cache[Len(cache)] = "empty"

\* Slip: the cache is keyed by valuation, not by trade.
InsertKeyAlways ==
    /\ ~Inserting
    /\ cache' = IF Len(cache) <= MaxTrades THEN Append(cache, "empty") ELSE <<"empty">>
    /\ UNCHANGED <<health, summary, summaries>>
\* update_cache: a trade that is new gets an empty history first ...
InsertKey ==
    /\ ~Inserting
    /\ Len(cache) < MaxTrades
    /\ cache' = Append(cache, "empty")
    /\ UNCHANGED <<health, summary, summaries>>

\* ... to which its first valuation is appended.
AppendValuation ==
    /\ Inserting
    /\ cache' = [cache EXCEPT ![Len(cache)] = "valued"]
    /\ UNCHANGED <<health, summary, summaries>>

-----------------------------------------------------------------------------
(* Requests                                                                *)

Ended(pc) == [Idle EXCEPT !.pc = pc]
Begin == [Idle EXCEPT !.pc = "iterate", !.size = Len(cache)]

\* Slip: the iteration goes over list(valuation_cache.values()).
AdvanceOverCopy(req) ==
    IF req.pos < req.size THEN [req EXCEPT !.pos = @ + 1] ELSE Ended("ok")
\* One turn of `for history in valuation_cache.values()`.
Advance(req) ==
    CASE Len(cache) # req.size -> Ended("error")
      [] Len(cache) = req.size /\ req.pos < req.size -> [req EXCEPT !.pos = @ + 1]
      [] OTHER -> Ended("ok")

\* get_health: sum(len(v) for v in cache.values()).
BeginHealth == /\ health.pc = "idle"
               /\ health' = Begin
               /\ UNCHANGED <<cache, summary, summaries>>
AdvanceHealth == /\ health.pc = "iterate"
                 /\ health' = Advance(health)
                 /\ UNCHANGED <<cache, summary, summaries>>

\* fetch_book_summary has its books and its counts of active trades: it adds up
\* the newest valuations, skipping empty histories.
BeginSummary == /\ summary.pc # "iterate"
                /\ summaries < MaxSummaries
                /\ summaries' = summaries + 1
                /\ summary' = Begin
                /\ UNCHANGED <<cache, health>>
AdvanceSummary == /\ summary.pc = "iterate"
                  /\ summary' = Advance(summary)
                  /\ UNCHANGED <<cache, health, summaries>>

\* The process ends: the cache is gone, and a health request loses its answer.
Crash == /\ cache' = <<>>
         /\ health' = IF health.pc = "idle" THEN Idle ELSE Ended("broken")
         /\ summary' = Idle
         /\ UNCHANGED summaries

BlotterStep ==
    InsertKey \/ AppendValuation \/ AdvanceHealth \/ BeginSummary \/ AdvanceSummary

-----------------------------------------------------------------------------
(* Properties                                                              *)

\* A summary of books that is answered has added up every trade the blotter has
\* a valuation of at that moment: a trade that comes in during the iteration
\* makes the request fail, it is never silently missing from the sums.
SummaryWhole ==
    [][(summary.pc = "iterate" /\ summary'.pc = "ok") =>
          \A t \in DOMAIN cache : cache[t] = "valued" => t <= summary.pos]_blotter
=============================================================================
