--------------------------- MODULE TradeDeskProofs ---------------------------
(***************************************************************************)
(* What holds of TradeDesk for every set of books, trades, threads and     *)
(* callers: at most one more intention after /stop, no flag without a      *)
(* thread, no second generator without a restart, who ends a failed        *)
(* session of books-service, and that trade-generation-service brings a    *)
(* deleted book no business but what was under way, whatever other callers *)
(* post.                                                                   *)
(***************************************************************************)
EXTENDS TradeDesk, FiniteSetTheorems, TLAPS

-----------------------------------------------------------------------------
(* The generator: its steps and the types of its state.                    *)

Pc == {"unused", "free", "create", "launch", "made", "started", "dead", "check",
       "choose", "pick", "send", "sleep", "stopping", "ended"}
Id == Nat \cup ForeignId
Item == ({"OPEN"} \X Book \X Id) \cup ({"CLOSE"} \X TradeId \X Id)
ActorRec == [pc : Pc, items : Seq(Item), left : Nat, books : SUBSET Book, tries : Nat]
NewItems == {<<>>} \cup {<<item>> : item \in Item}

GenType ==
    /\ isRunning \in BOOLEAN /\ overlap \in BOOLEAN
    /\ thread \in Thread \cup {NoThread}
    /\ actor \in [G!Actor -> ActorRec]
    /\ generated \in Nat
    /\ afterStop \in [Thread -> Nat]
\* What generator threads and request threads may be at.
Roles == /\ \A t \in Thread : actor[t].pc \notin {"free", "create", "launch"}
         /\ \A c \in Caller : actor[c].pc \in {"free", "create", "launch",
                                              "choose", "pick", "send"}
\* A request thread that has made a Thread object finds one in generator_state.
LaunchHasThread == (\E c \in Caller : actor[c].pc = "launch") => thread \in Thread
\* How many intentions an actor still builds; a generator thread builds one.
Building ==
    /\ \A a \in G!Actor : actor[a].pc \in {"choose", "pick"} => actor[a].left > 0
    /\ \A t \in Thread : actor[t].pc \in {"choose", "pick"} =>
                            actor[t].left = 1 /\ actor[t].items = <<>>
GenInv == GenType /\ Roles /\ LaunchHasThread /\ Building

\* generate_random_intention returns: from a CLOSE or an OPEN, with one
\* intention or none.
Returns(a, new) == actor[a].pc \in {"choose", "pick"} /\ G!Return(a, new)
\* An attempt to POST what was built ends, well or not.
Posts(a) == G!Send(a) \/ G!SendFails(a)

GenStep ==
    \/ \E c \in Caller : \/ G!Start(c) \/ G!Stop(c) \/ G!CreateThread(c) \/ G!Launch(c)
                         \/ \E n \in {1, BatchSize} : G!GenerateOnRequest(c, n)
    \/ \E t \in Thread : \/ G!Check(t) \/ G!WakeUp(t) \/ G!End(t)
                         \/ \E fails \in BOOLEAN : G!AuditStarted(t, fails)
    \/ \E a \in G!Actor : \/ \E new \in NewItems : Returns(a, new)
                          \/ \E answer \in SUBSET Book : G!FetchBooks(a, answer)
                          \/ Posts(a)

\* Every step of the desk is one of the generator's or leaves it alone.
LEMMA GenSteps == ASSUME GenInv, [Next]_vars PROVE GenStep \/ UNCHANGED generator
<1>0. G!RequestId \in Id
  BY DEF G!RequestId, Id, GenInv, GenType
<1>1. ASSUME NEW a \in G!Actor, Build(a) PROVE \E new \in NewItems : Returns(a, new)
  <2>1. CASE G!ChooseClose(a, ActiveTrades)
    <3>1. actor[a].pc = "choose"
      BY <2>1 DEF G!ChooseClose
    <3>2. CASE G!Return(a, <<>>)
      BY <3>1, <3>2 DEF Returns, NewItems
    <3>3. ASSUME NEW t \in ActiveTrades, G!Return(a, <<<<"CLOSE", t, G!RequestId>>>>)
          PROVE  \E new \in NewItems : Returns(a, new)
      <4>1. <<<<"CLOSE", t, G!RequestId>>>> \in NewItems
        BY <1>0 DEF NewItems, Item, ActiveTrades
      <4> QED BY <3>1, <3>3, <4>1 DEF Returns
    <3> QED BY <2>1, <3>2, <3>3 DEF G!ChooseClose
  <2>2. CASE G!Pick(a)
    <3>1. actor[a].pc = "pick" /\ actor[a].books \subseteq Book
      BY <2>2 DEF G!Pick, GenInv, GenType, ActorRec
    <3>2. CASE G!Return(a, <<>>)
      BY <3>1, <3>2 DEF Returns, NewItems
    <3>3. ASSUME NEW b \in actor[a].books, G!Return(a, <<<<"OPEN", b, G!RequestId>>>>)
          PROVE  \E new \in NewItems : Returns(a, new)
      <4>1. <<<<"OPEN", b, G!RequestId>>>> \in NewItems
        BY <1>0, <3>1 DEF NewItems, Item
      <4> QED BY <3>1, <3>3, <4>1 DEF Returns
    <3> QED BY <2>2, <3>2, <3>3 DEF G!Pick
  <2> QED BY <1>1, <2>1, <2>2 DEF Build
<1>2. CASE Internal
  BY <1>1, <1>2 DEF Internal, FinishStart, Loop, GenStep
<1>3. ASSUME NEW t \in Thread, AuditFails(t) PROVE GenStep
  BY <1>3 DEF AuditFails, GenStep
<1>4. ASSUME NEW a \in G!Actor, FetchBooks(a) \/ Send(a) PROVE GenStep
  BY <1>4 DEF FetchBooks, Send, Posts, GenStep
<1>5. ASSUME NEW c \in Caller, Control(c) PROVE GenStep
  BY <1>5 DEF Control, GenStep
<1>6. CASE \/ CreateBooks \/ GetBook \/ Deactivate \/ PostDirectly
           \/ \E b \in Book : UpdateBook(b) \/ CountTrades(b)
           \/ \E p \in intake : Process(p)
  BY <1>6 DEF CreateBooks, GetBook, Deactivate, PostDirectly, Process, UpdateBook, CountTrades
<1>7. CASE UNCHANGED vars
  BY <1>7 DEF vars, generator
<1> QED BY <1>2, <1>3, <1>4, <1>5, <1>6, <1>7 DEF Next

\* The records an actor moves to.
LEMMA AtType ==
    ASSUME NEW pc \in Pc
    PROVE  /\ G!At(pc) \in ActorRec /\ G!At(pc).pc = pc /\ G!At(pc).items = <<>>
           /\ G!At(pc).books = {} /\ G!At(pc).left = 0
BY DEF G!At, ActorRec

\* An actor that begins to build n intentions.
LEMMA BuildType ==
    ASSUME actor \in [G!Actor -> ActorRec], NEW a \in G!Actor, NEW n \in Nat, G!Build(a, n)
    PROVE  \E rec \in ActorRec : /\ actor' = [actor EXCEPT ![a] = rec]
                                 /\ rec.pc = "choose" /\ rec.left = n
                                 /\ rec.items = <<>> /\ rec.books = {}
<1>1. G!At("choose") \in ActorRec /\ G!At("choose").pc = "choose"
      /\ G!At("choose").items = <<>> /\ G!At("choose").books = {}
  BY AtType DEF Pc
<1>2. PICK r : r = G!At("choose")
  OBVIOUS
<1>3. PICK rec : rec = [r EXCEPT !.left = n]
  OBVIOUS
<1>4. rec \in ActorRec /\ rec.pc = "choose" /\ rec.left = n /\ rec.items = <<>>
      /\ rec.books = {}
  BY <1>1, <1>2, <1>3 DEF ActorRec
<1>5. actor' = [actor EXCEPT ![a] = rec]
  BY <1>2, <1>3, Zenon DEF G!Build
<1> QED BY <1>4, <1>5

\* What the return of generate_random_intention does.
LEMMA ReturnEffect ==
    ASSUME GenInv, NEW a \in G!Actor, NEW new \in NewItems, Returns(a, new)
    PROVE  /\ actor' \in [G!Actor -> ActorRec] /\ generated' \in Nat
           /\ Len(new) \in {0, 1}
           /\ \A o \in G!Actor : o # a => actor'[o] = actor[o]
           /\ actor'[a].left = actor[a].left - 1 /\ actor'[a].books = {}
           /\ actor'[a].items = actor[a].items \o new
           /\ actor'[a].pc = IF actor[a].left > 1 THEN "choose"
                             ELSE IF actor[a].items \o new # <<>> THEN "send"
                             ELSE IF a \in Thread THEN "sleep" ELSE "free"
           /\ afterStop' = IF a \in Thread /\ ~isRunning
                           THEN [afterStop EXCEPT ![a] = @ + Len(new)] ELSE afterStop
           /\ UNCHANGED <<isRunning, thread, overlap>>
<1>1. actor[a] \in ActorRec /\ actor[a].left \in Nat \ {0} /\ new \in Seq(Item)
      /\ Len(new) \in {0, 1}
  <2>1. actor[a] \in ActorRec /\ actor[a].left \in Nat \ {0}
    BY DEF GenInv, GenType, Building, Returns, ActorRec
  <2>2. new \in Seq(Item) /\ Len(new) \in {0, 1}
    <3>1. CASE new = <<>>
      BY <3>1
    <3>2. ASSUME NEW item \in Item, new = <<item>>
          PROVE  new \in Seq(Item) /\ Len(new) \in {0, 1}
      BY <3>2
    <3> QED BY <3>1, <3>2 DEF NewItems
  <2> QED BY <2>1, <2>2
<1> DEFINE items == actor[a].items \o new
           left == actor[a].left - 1
           pc == IF left > 0 THEN "choose"
                 ELSE IF items # <<>> THEN "send"
                 ELSE IF a \in Thread THEN "sleep" ELSE "free"
           rec == [pc |-> pc, items |-> items, left |-> left, books |-> {}, tries |-> 0]
<1>2. items \in Seq(Item) /\ left \in Nat
  BY <1>1 DEF ActorRec
<1>3. actor' = [actor EXCEPT ![a] = rec]
  <2> DEFINE code == CASE left > 0 -> "choose"
                       [] left = 0 /\ items # <<>> -> "send"
                       [] OTHER -> IF a \in Thread THEN "sleep" ELSE "free"
  <2>1. actor' = [actor EXCEPT ![a] = [pc |-> code, items |-> items, left |-> left,
                                       books |-> {}, tries |-> 0]]
    BY Zenon DEF Returns, G!Return
  <2>2. code = pc
    <3> HIDE DEF left, items
    <3>1. left > 0 \/ left = 0
      BY <1>2
    <3> QED BY <1>2, <3>1
  <2> QED BY <2>1, <2>2, Zenon
<1>4. rec \in ActorRec
  BY <1>2 DEF ActorRec, Pc
<1>5. actor \in [G!Actor -> ActorRec] /\ generated' \in Nat
  BY <1>1 DEF GenInv, GenType, Returns, G!Return
<1>6. actor'[a] = rec /\ actor' \in [G!Actor -> ActorRec]
  BY <1>3, <1>4, <1>5
<1>7. (left > 0) <=> (actor[a].left > 1)
  BY <1>1
<1> QED BY <1>1, <1>3, <1>5, <1>6, <1>7 DEF Returns, G!Return, G!control

\* What an attempt to POST does: the sender goes on, or tries again.
LEMMA PostEffect ==
    ASSUME GenInv, NEW a \in G!Actor, Posts(a)
    PROVE  /\ actor[a].pc = "send"
           /\ UNCHANGED <<isRunning, thread, overlap, generated, afterStop>>
           /\ \E rec \in ActorRec :
                 /\ actor' = [actor EXCEPT ![a] = rec]
                 /\ rec.pc \in {"send", IF a \in Thread THEN "sleep" ELSE "free"}
                 /\ rec.items \in {actor[a].items, <<>>} /\ rec.books \in {actor[a].books, {}}
<1>1. PICK was \in ActorRec : was = actor[a]
  BY DEF GenInv, GenType
<1>2. actor[a].pc = "send"
      /\ UNCHANGED <<isRunning, thread, overlap, generated, afterStop>>
  BY DEF Posts, G!Send, G!SendFails, G!control
<1>3. CASE G!GoOn(a)
  <2>1. PICK pc \in Pc : /\ pc = IF a \in Thread THEN "sleep" ELSE "free"
                         /\ actor' = [actor EXCEPT ![a] = G!At(pc)]
    BY <1>3 DEF G!GoOn, G!Goto, Pc
  <2>2. PICK rec \in ActorRec : rec = G!At(pc) /\ rec.pc = pc /\ rec.items = <<>>
                                /\ rec.books = {}
    BY AtType
  <2>3. actor' = [actor EXCEPT ![a] = rec]
    BY <2>1, <2>2
  <2> QED BY <1>2, <2>1, <2>2, <2>3
<1>4. CASE actor' = [actor EXCEPT ![a].tries = @ + 1]
  <2>1. PICK rec : rec = [was EXCEPT !.tries = @ + 1]
    OBVIOUS
  <2>2. rec \in ActorRec /\ rec.pc = was.pc /\ rec.items = was.items /\ rec.books = was.books
    BY <2>1 DEF ActorRec
  <2>3. actor' = [actor EXCEPT ![a] = rec]
    BY <1>1, <1>4, <2>1
  <2> QED BY <1>1, <1>2, <2>2, <2>3
<1> QED BY <1>3, <1>4 DEF Posts, G!Send, G!SendFails

\* At first no thread was made.
LEMMA GenInit == Init => GenInv
<1> SUFFICES ASSUME Init PROVE GenInv
  OBVIOUS
<1>1. \A a \in G!Actor : actor[a] = G!At(IF a \in Thread THEN "unused" ELSE "free")
  BY DEF Init, G!Init
<1>2. \A a \in G!Actor : /\ actor[a] \in ActorRec
                         /\ actor[a].pc = IF a \in Thread THEN "unused" ELSE "free"
  BY <1>1, AtType DEF Pc
<1>3. actor \in [G!Actor -> ActorRec]
  BY <1>2 DEF Init, G!Init
<1> QED BY <1>2, <1>3, DeskAssumption
        DEF Init, G!Init, GenInv, GenType, Roles, LaunchHasThread, Building, G!Actor

\* The Thread object POST /start makes is a new one.
LEMMA NewIsUnused ==
    ASSUME \E t \in Thread : actor[t].pc = "unused"
    PROVE  G!NewThread \in Thread /\ actor[G!NewThread].pc = "unused"
BY DEF G!NewThread

\* One actor moves, and the counters stay.
LEMMA OneMoves ==
    ASSUME GenInv, NEW a \in G!Actor, NEW rec \in ActorRec,
           actor' = [actor EXCEPT ![a] = rec],
           isRunning' \in BOOLEAN, overlap' \in BOOLEAN,
           UNCHANGED <<thread, generated, afterStop>>,
           a \in Thread => rec.pc \notin {"free", "create", "launch"},
           a \in Caller => rec.pc \in {"free", "create", "launch", "choose", "pick", "send"},
           rec.pc = "launch" => thread \in Thread,
           rec.pc \in {"choose", "pick"} => rec.left > 0,
           a \in Thread /\ rec.pc \in {"choose", "pick"} => rec.left = 1 /\ rec.items = <<>>
    PROVE  GenInv'
<1>1. /\ actor' \in [G!Actor -> ActorRec] /\ actor'[a] = rec
      /\ \A o \in G!Actor : o # a => actor'[o] = actor[o]
  BY DEF GenInv, GenType
<1>2. Thread \subseteq G!Actor /\ Caller \subseteq G!Actor
  BY DEF G!Actor
<1>3. GenType'
  BY <1>1 DEF GenInv, GenType, G!Actor
<1>4. Roles'
  BY <1>1, <1>2 DEF GenInv, Roles
<1>5. LaunchHasThread'
  BY <1>1, <1>2 DEF GenInv, LaunchHasThread
<1>6. Building'
  <2>1. \A o \in G!Actor : actor'[o].pc \in {"choose", "pick"} => actor'[o].left > 0
    BY <1>1 DEF GenInv, Building
  <2>2. \A t \in Thread : actor'[t].pc \in {"choose", "pick"} =>
                             actor'[t].left = 1 /\ actor'[t].items = <<>>
    BY <1>1, <1>2 DEF GenInv, Building
  <2> QED BY <2>1, <2>2 DEF Building, G!Actor
<1> QED BY <1>3, <1>4, <1>5, <1>6 DEF GenInv

\* A request thread and a Thread object move at once.
LEMMA TwoMove ==
    ASSUME GenInv, NEW c \in Caller, NEW t \in Thread,
           NEW r1 \in ActorRec, NEW r2 \in ActorRec,
           r1.pc \in {"launch", "free"},
           r2.pc \in {"made", "started"} \/ r2 = actor[t],
           actor' = [actor EXCEPT ![c] = r1, ![t] = r2],
           thread' \in Thread,
           UNCHANGED <<isRunning, overlap, generated, afterStop>>
    PROVE  GenInv'
<1>1. /\ actor \in [G!Actor -> ActorRec] /\ Thread \cap Caller = {}
      /\ Thread \subseteq G!Actor /\ Caller \subseteq G!Actor
  BY DeskAssumption DEF G!Actor, GenInv, GenType
<1>3. /\ actor' \in [G!Actor -> ActorRec] /\ actor'[c] = r1 /\ actor'[t] = r2
      /\ \A o \in G!Actor \ {c, t} : actor'[o] = actor[o]
  BY <1>1
<1>4. GenType'
  BY <1>3 DEF GenInv, GenType, G!Actor
<1>5. Roles'
  BY <1>1, <1>3 DEF GenInv, Roles
<1>6. LaunchHasThread'
  BY DEF LaunchHasThread
<1>7. Building'
  <2>1. \A o \in G!Actor : actor'[o].pc \in {"choose", "pick"} => actor'[o] = actor[o]
    BY <1>1, <1>3
  <2> QED BY <1>1, <2>1 DEF GenInv, Building, G!Actor
<1> QED BY <1>4, <1>5, <1>6, <1>7 DEF GenInv

\* POST /start, POST /stop and the requests for intentions.
LEMMA GenCaller ==
    ASSUME GenInv, NEW c \in Caller,
           \/ G!Start(c) \/ G!Stop(c) \/ G!CreateThread(c) \/ G!Launch(c)
           \/ \E n \in {1, BatchSize} : G!GenerateOnRequest(c, n)
    PROVE  GenInv'
<1>0. c \in G!Actor /\ c \notin Thread /\ actor[c] \in ActorRec
  BY DeskAssumption DEF G!Actor, GenInv, GenType
<1>1. CASE G!Start(c)
  <2>1. actor' = [actor EXCEPT ![c] = G!At("create")] /\ isRunning' \in BOOLEAN
        /\ overlap' \in BOOLEAN /\ UNCHANGED <<thread, generated, afterStop>>
    BY <1>1 DEF G!Start, G!Goto, GenInv, GenType
  <2> QED BY <1>0, <2>1, AtType, OneMoves DEF Pc
<1>2. CASE G!Stop(c)
  <2>1. afterStop' = [t \in Thread |-> 0] /\ isRunning' = FALSE
        /\ UNCHANGED <<thread, actor, generated, overlap>>
    BY <1>2 DEF G!Stop
  <2> QED BY <2>1 DEF GenInv, GenType, Roles, LaunchHasThread, Building, G!Actor
<1>3. CASE G!CreateThread(c)
  <2>1. PICK t \in Thread : t = G!NewThread /\ t # c /\ actor[t].pc = "unused"
    BY <1>0, <1>3, NewIsUnused DEF G!CreateThread
  <2>2. actor' = [actor EXCEPT ![c] = G!At("launch"), ![t] = G!At("made")]
        /\ thread' = t /\ UNCHANGED <<isRunning, overlap, generated, afterStop>>
    BY <1>3, <2>1 DEF G!CreateThread
  <2>3. PICK r : r = G!At("launch")
    OBVIOUS
  <2>4. PICK m : m = G!At("made")
    OBVIOUS
  <2>5. actor' = [actor EXCEPT ![c] = r, ![t] = m]
    BY <2>2, <2>3, <2>4, Zenon
  <2>6. r \in ActorRec /\ r.pc = "launch" /\ m \in ActorRec /\ m.pc = "made"
    BY <2>3, <2>4, AtType DEF Pc
  <2>7. thread' \in Thread /\ UNCHANGED <<isRunning, overlap, generated, afterStop>>
    BY <2>2
  <2> QED BY <2>5, <2>6, <2>7, TwoMove
<1>4. CASE G!Launch(c)
  <2>1. PICK t \in Thread : t = thread /\ t # c /\ actor[t] \in ActorRec
    BY <1>0, <1>4 DEF G!Launch, GenInv, GenType, LaunchHasThread, G!Actor
  <2>2. PICK r : r = IF actor[t].pc = "made" THEN G!At("started") ELSE actor[t]
    OBVIOUS
  <2>3. actor' = [actor EXCEPT ![c] = G!At("free"), ![t] = r]
    BY <1>0, <1>4, <2>1, <2>2 DEF G!Launch, GenInv, GenType, G!Actor
  <2>4. thread' \in Thread /\ UNCHANGED <<isRunning, overlap, generated, afterStop>>
    BY <1>4, <2>1 DEF G!Launch, G!control
  <2>5. PICK f : f = G!At("free")
    OBVIOUS
  <2>6. actor' = [actor EXCEPT ![c] = f, ![t] = r]
    BY <2>3, <2>5, Zenon
  <2>7. f \in ActorRec /\ f.pc = "free"
        /\ r \in ActorRec /\ (r.pc = "started" \/ r = actor[t])
    BY <2>1, <2>2, <2>5, AtType DEF Pc
  <2> QED BY <2>4, <2>6, <2>7, TwoMove
<1>5. ASSUME NEW n \in {1, BatchSize}, G!GenerateOnRequest(c, n) PROVE GenInv'
  <2>0. n \in Nat \ {0} /\ G!Build(c, n) /\ actor \in [G!Actor -> ActorRec]
    BY <1>5, DeskAssumption DEF G!GenerateOnRequest, GenInv, GenType
  <2>1. PICK rec \in ActorRec : /\ actor' = [actor EXCEPT ![c] = rec]
                               /\ rec.pc = "choose" /\ rec.left = n
    BY <1>0, <2>0, BuildType
  <2>2. rec.left > 0 /\ UNCHANGED <<isRunning, thread, overlap, generated, afterStop>>
    BY <1>5, <2>0, <2>1 DEF G!GenerateOnRequest, G!control
  <2>3. isRunning' \in BOOLEAN /\ overlap' \in BOOLEAN
    BY <2>2 DEF GenInv, GenType
  <2>4. /\ c \in Thread => rec.pc \notin {"free", "create", "launch"}
        /\ rec.pc \in {"free", "create", "launch", "choose", "pick", "send"}
        /\ rec.pc = "launch" => thread \in Thread
        /\ c \in Thread /\ rec.pc \in {"choose", "pick"} => rec.left = 1 /\ rec.items = <<>>
        /\ UNCHANGED <<thread, generated, afterStop>>
    BY <1>0, <2>1, <2>2
  <2> QED BY <1>0, <2>1, <2>2, <2>3, <2>4, OneMoves
<1> QED BY <1>1, <1>2, <1>3, <1>4, <1>5

\* The generator threads, but for building and sending.
LEMMA GenThread ==
    ASSUME GenInv, NEW t \in Thread,
           \/ G!Check(t) \/ G!WakeUp(t) \/ G!End(t)
           \/ \E fails \in BOOLEAN : G!AuditStarted(t, fails)
    PROVE  GenInv'
<1>0. t \in G!Actor /\ t \notin Caller /\ actor[t] \in ActorRec
  BY DeskAssumption DEF G!Actor, GenInv, GenType
<1>1. CASE G!Check(t)
  <2>1. UNCHANGED <<isRunning, thread, overlap, generated, afterStop>>
        /\ isRunning' \in BOOLEAN /\ overlap' \in BOOLEAN
    BY <1>1 DEF G!Check, G!control, GenInv, GenType
  <2>2. CASE G!Build(t, 1)
    <3>1. PICK rec \in ActorRec :
                /\ actor' = [actor EXCEPT ![t] = rec]
                /\ rec.pc = "choose" /\ rec.left = 1 /\ rec.items = <<>>
      BY <1>0, <2>2, BuildType DEF GenInv, GenType
    <3>2. rec.pc \notin {"free", "create", "launch"} /\ rec.left > 0
      BY <3>1
    <3> QED BY <1>0, <2>1, <3>1, <3>2, OneMoves
  <2>3. CASE actor' = [actor EXCEPT ![t] = G!At("stopping")]
    BY <1>0, <2>1, <2>3, AtType, OneMoves DEF Pc
  <2> QED BY <1>1, <2>2, <2>3 DEF G!Check, G!Goto
<1>2. ASSUME NEW pc \in {"check", "ended", "dead"}, actor' = [actor EXCEPT ![t] = G!At(pc)],
             UNCHANGED <<isRunning, thread, overlap, generated, afterStop>>
      PROVE  GenInv'
  <2>1. isRunning' \in BOOLEAN /\ overlap' \in BOOLEAN /\ pc \in Pc
    BY <1>2 DEF GenInv, GenType, Pc
  <2> QED BY <1>0, <1>2, <2>1, AtType, OneMoves
<1>3. CASE G!WakeUp(t)
  BY <1>2, <1>3 DEF G!WakeUp, G!Goto, G!control
<1>4. CASE G!End(t)
  BY <1>2, <1>4 DEF G!End, G!Goto, G!control
<1>5. ASSUME NEW fails \in BOOLEAN, G!AuditStarted(t, fails) PROVE GenInv'
  BY <1>2, <1>5 DEF G!AuditStarted, G!Goto, G!control
<1> QED BY <1>1, <1>3, <1>4, <1>5

\* Building and sending intentions.
LEMMA GenBuilder ==
    ASSUME GenInv, NEW a \in G!Actor,
           \/ \E new \in NewItems : Returns(a, new)
           \/ \E answer \in SUBSET Book : G!FetchBooks(a, answer)
           \/ Posts(a)
    PROVE  GenInv'
<1>0. actor[a] \in ActorRec /\ Thread \cap Caller = {} /\ (a \in Thread \/ a \in Caller)
  BY DeskAssumption DEF G!Actor, GenInv, GenType
<1>1. ASSUME NEW new \in NewItems, Returns(a, new) PROVE GenInv'
  <2>0. actor[a].left \in Nat \ {0} /\ Len(new) \in Nat
        /\ (a \in Thread => actor[a].left = 1)
    BY <1>0, <1>1, ReturnEffect DEF GenInv, Building, Returns, ActorRec
  <2>1. /\ actor' \in [G!Actor -> ActorRec] /\ generated' \in Nat
        /\ \A o \in G!Actor : o # a => actor'[o] = actor[o]
        /\ actor'[a].left = actor[a].left - 1
        /\ actor'[a].pc = IF actor[a].left > 1 THEN "choose"
                          ELSE IF actor[a].items \o new # <<>> THEN "send"
                          ELSE IF a \in Thread THEN "sleep" ELSE "free"
        /\ UNCHANGED <<isRunning, thread, overlap>>
    BY <1>1, ReturnEffect
  <2>2. afterStop' \in [Thread -> Nat]
    <3>1. PICK n \in Nat : n = Len(new)
      BY <2>0
    <3>2. afterStop \in [Thread -> Nat]
      BY DEF GenInv, GenType
    <3>3. \/ a \in Thread /\ afterStop' = [afterStop EXCEPT ![a] = @ + n]
          \/ afterStop' = afterStop
      <4>1. afterStop' = IF a \in Thread /\ ~isRunning
                         THEN [afterStop EXCEPT ![a] = @ + Len(new)] ELSE afterStop
        BY <1>1, ReturnEffect, Zenon
      <4> QED BY <3>1, <4>1
    <3> QED BY <3>1, <3>2, <3>3
  <2>3. /\ actor'[a].pc = "choose" => a \notin Thread /\ actor'[a].left > 0
        /\ actor'[a].pc \in {"choose", "send", "sleep", "free"}
        /\ actor'[a].pc = "sleep" => a \in Thread
        /\ actor'[a].pc = "free" => a \notin Thread
    BY <2>0, <2>1
  <2>4. Roles' /\ Building' /\ LaunchHasThread'
    BY <1>0, <2>1, <2>3
    DEF GenInv, Roles, Building, LaunchHasThread, G!Actor
  <2> QED BY <2>1, <2>2, <2>4 DEF GenInv, GenType
<1>2. ASSUME NEW answer \in SUBSET Book, G!FetchBooks(a, answer) PROVE GenInv'
  <2>1. PICK rec : /\ rec = [actor[a] EXCEPT !.pc = "pick", !.books = answer]
                   /\ actor[a].left > 0
                   /\ a \in Thread => actor[a].left = 1 /\ actor[a].items = <<>>
    BY <1>2 DEF G!FetchBooks, GenInv, Building
  <2>2. rec \in ActorRec /\ rec.pc = "pick" /\ rec.left = actor[a].left
        /\ rec.items = actor[a].items
    BY <1>0, <2>1 DEF ActorRec, Pc
  <2>3. actor' = [actor EXCEPT ![a] = rec]
    BY <1>0, <1>2, <2>1, Zenon DEF G!FetchBooks, GenInv, GenType
  <2>4. isRunning' \in BOOLEAN /\ overlap' \in BOOLEAN
        /\ UNCHANGED <<thread, generated, afterStop>>
    BY <1>2 DEF G!FetchBooks, G!control, GenInv, GenType
  <2>5. rec.left > 0 /\ (a \in Thread => rec.left = 1 /\ rec.items = <<>>)
    BY <2>1, <2>2
  <2> QED BY <2>2, <2>3, <2>4, <2>5, OneMoves
<1>3. CASE Posts(a)
  <2>1. PICK rec \in ActorRec :
              /\ actor' = [actor EXCEPT ![a] = rec]
              /\ rec.pc \in {"send", IF a \in Thread THEN "sleep" ELSE "free"}
              /\ UNCHANGED <<isRunning, thread, overlap, generated, afterStop>>
    BY <1>3, PostEffect
  <2>2. isRunning' \in BOOLEAN /\ overlap' \in BOOLEAN
    BY <2>1 DEF GenInv, GenType
  <2>3. /\ a \in Thread => rec.pc \notin {"free", "create", "launch"}
        /\ a \in Caller => rec.pc \in {"free", "create", "launch", "choose", "pick", "send"}
        /\ rec.pc \notin {"launch", "choose", "pick"}
    BY <1>0, <2>1
  <2> QED BY <2>1, <2>2, <2>3, OneMoves
<1> QED BY <1>1, <1>2, <1>3

\* Every step keeps the types of the generator.
LEMMA GenNext == GenInv /\ [Next]_vars => GenInv'
<1> SUFFICES ASSUME GenInv, [Next]_vars PROVE GenInv'
  OBVIOUS
<1>1. CASE GenStep
  BY <1>1, GenCaller, GenThread, GenBuilder DEF GenStep
<1>2. CASE UNCHANGED generator
  BY <1>2 DEF generator, GenInv, GenType, Roles, LaunchHasThread, Building
<1> QED BY <1>1, <1>2, GenSteps

-----------------------------------------------------------------------------
(* is_running and the generator threads.                                   *)

Busy == {"choose", "pick", "send"}
Live == {"started", "check", "sleep"} \cup Busy

\* What a generator thread does by itself, and a request for intentions.
Working ==
    \/ \E c \in Caller : \E n \in {1, BatchSize} : G!GenerateOnRequest(c, n)
    \/ \E t \in Thread : \/ G!Check(t) \/ G!WakeUp(t) \/ G!End(t)
                         \/ \E fails \in BOOLEAN : G!AuditStarted(t, fails)
    \/ \E a \in G!Actor : \/ \E new \in NewItems : Returns(a, new)
                          \/ \E answer \in SUBSET Book : G!FetchBooks(a, answer)
                          \/ Posts(a)

\* One step of one thread's work: a generator thread stays alive unless its
\* audit write fails or is_running is not set; it comes to life elsewhere.
Works(a) ==
    /\ \A o \in G!Actor \ {a} : actor'[o] = actor[o]
    /\ a \in Caller => /\ actor[a].pc \in {"free"} \cup Busy
                       /\ actor'[a].pc \in {"free"} \cup Busy
    /\ a \in Thread => \/ actor[a].pc \in Live /\ actor'[a].pc \in Live \cup {"dead"}
                       \/ actor[a].pc \in Live /\ actor'[a].pc = "stopping" /\ ~isRunning
                       \/ actor[a].pc = "stopping" /\ actor'[a].pc = "ended"

\* An actor that goes on by itself leaves is_running and the thread object alone.
LEMMA WorkingWorks ==
    ASSUME GenInv, Working
    PROVE  UNCHANGED <<isRunning, thread, overlap>> /\ \E a \in G!Actor : Works(a)
<1>0. /\ actor \in [G!Actor -> ActorRec] /\ Thread \cap Caller = {}
      /\ Thread \subseteq G!Actor /\ Caller \subseteq G!Actor
  BY DeskAssumption DEF GenInv, GenType, G!Actor
<1>1. ASSUME NEW a \in G!Actor, NEW pc \in Pc, actor' = [actor EXCEPT ![a] = G!At(pc)]
      PROVE  actor'[a].pc = pc /\ \A o \in G!Actor \ {a} : actor'[o] = actor[o]
  BY <1>0, <1>1, AtType
<1>2. ASSUME NEW a \in G!Actor, NEW n \in {1, BatchSize}, G!Build(a, n)
      PROVE  actor'[a].pc = "choose" /\ \A o \in G!Actor \ {a} : actor'[o] = actor[o]
  <2>1. PICK rec \in ActorRec : actor' = [actor EXCEPT ![a] = rec] /\ rec.pc = "choose"
    BY <1>0, <1>2, BuildType, DeskAssumption
  <2> QED BY <1>0, <2>1
<1>3. ASSUME NEW c \in Caller, NEW n \in {1, BatchSize}, G!GenerateOnRequest(c, n)
      PROVE  UNCHANGED <<isRunning, thread, overlap>> /\ Works(c)
  BY <1>0, <1>2, <1>3 DEF G!GenerateOnRequest, G!control, Works, Busy
<1>4. ASSUME NEW t \in Thread, G!Check(t)
      PROVE  UNCHANGED <<isRunning, thread, overlap>> /\ Works(t)
  <2>1. actor[t].pc = "check" /\ t \in G!Actor /\ t \notin Caller
        /\ UNCHANGED <<isRunning, thread, overlap>>
    BY <1>0, <1>4 DEF G!Check, G!control
  <2>2. CASE isRunning
    <3>1. G!Build(t, 1)
      BY <1>4, <2>2 DEF G!Check
    <3> QED BY <1>2, <2>1, <3>1 DEF Works, Live, Busy
  <2>3. CASE ~isRunning
    <3>1. actor' = [actor EXCEPT ![t] = G!At("stopping")]
      BY <1>4, <2>3 DEF G!Check, G!Goto
    <3> QED BY <1>1, <2>1, <2>3, <3>1 DEF Works, Live, Pc
  <2> QED BY <2>2, <2>3
<1>5. ASSUME NEW t \in Thread,
             \/ G!WakeUp(t) \/ G!End(t) \/ \E fails \in BOOLEAN : G!AuditStarted(t, fails)
      PROVE  UNCHANGED <<isRunning, thread, overlap>> /\ Works(t)
  <2>1. t \in G!Actor /\ t \notin Caller /\ UNCHANGED <<isRunning, thread, overlap>>
    BY <1>0, <1>5 DEF G!WakeUp, G!End, G!AuditStarted, G!control
  <2>2. CASE G!WakeUp(t)
    BY <1>1, <2>1, <2>2 DEF G!WakeUp, G!Goto, Works, Live, Pc
  <2>3. CASE G!End(t)
    BY <1>1, <2>1, <2>3 DEF G!End, G!Goto, Works, Live, Pc
  <2>4. ASSUME NEW fails \in BOOLEAN, G!AuditStarted(t, fails) PROVE Works(t)
    <3>1. PICK pc \in {"dead", "check"} : actor' = [actor EXCEPT ![t] = G!At(pc)]
      BY <2>4 DEF G!AuditStarted, G!Goto
    <3> QED BY <1>1, <2>1, <2>4, <3>1 DEF G!AuditStarted, Works, Live, Pc
  <2> QED BY <1>5, <2>1, <2>2, <2>3, <2>4
<1>6. ASSUME NEW a \in G!Actor, NEW new \in NewItems, Returns(a, new)
      PROVE  UNCHANGED <<isRunning, thread, overlap>> /\ Works(a)
  <2>1. /\ \A o \in G!Actor \ {a} : actor'[o] = actor[o]
        /\ actor'[a].pc \in Busy \cup {IF a \in Thread THEN "sleep" ELSE "free"}
        /\ UNCHANGED <<isRunning, thread, overlap>>
    BY <1>6, ReturnEffect DEF Busy
  <2> QED BY <1>0, <1>6, <2>1 DEF Returns, Works, Live, Busy
<1>7. ASSUME NEW a \in G!Actor, NEW answer \in SUBSET Book, G!FetchBooks(a, answer)
      PROVE  UNCHANGED <<isRunning, thread, overlap>> /\ Works(a)
  <2>1. /\ \A o \in G!Actor \ {a} : actor'[o] = actor[o]
        /\ actor'[a].pc = "pick" /\ actor[a].pc = "choose"
        /\ UNCHANGED <<isRunning, thread, overlap>>
    BY <1>0, <1>7 DEF G!FetchBooks, G!control, ActorRec
  <2> QED BY <2>1 DEF Works, Live, Busy
<1>8. ASSUME NEW a \in G!Actor, Posts(a)
      PROVE  UNCHANGED <<isRunning, thread, overlap>> /\ Works(a)
  <2>1. /\ actor[a].pc = "send" /\ UNCHANGED <<isRunning, thread, overlap>>
        /\ \E rec \in ActorRec :
              /\ actor' = [actor EXCEPT ![a] = rec]
              /\ rec.pc \in {"send", IF a \in Thread THEN "sleep" ELSE "free"}
    BY <1>8, PostEffect
  <2>2. /\ actor'[a].pc \in {"send", IF a \in Thread THEN "sleep" ELSE "free"}
        /\ \A o \in G!Actor \ {a} : actor'[o] = actor[o]
    BY <1>0, <2>1
  <2> QED BY <1>0, <2>1, <2>2 DEF Works, Live, Busy
<1> QED BY <1>0, <1>3, <1>4, <1>5, <1>6, <1>7, <1>8 DEF Working

\* What is_running stands for: a thread that is alive, or one that died of its
\* audit write, or a /start on its way to a thread it can start.
Going == isRunning =>
           \/ \E t \in Thread : actor[t].pc \in Live \cup {"dead"}
           \/ \E c \in Caller : \/ actor[c].pc = "create"
                                \/ actor[c].pc = "launch" /\ actor[thread].pc = "made"
\* Unless a /start overlapped, one thread is alive or one /start is under way.
Engaged == {t \in Thread : actor[t].pc \in Live}
             \cup {c \in Caller : actor[c].pc \in {"create", "launch"}}
Lone == overlap \/ \A x, y \in Engaged : x = y
\* An intention that is begun while is_running is not set is the first one.
LastOne == \A t \in Thread : /\ afterStop[t] <= 1
                             /\ actor[t].pc \in {"choose", "pick"} /\ ~isRunning
                                  => afterStop[t] = 0

\* The living threads, by their program counters.
LEMMA AliveEngaged == /\ G!Alive = {t \in Thread : actor[t].pc \in Live}
                      /\ G!Alive \cup G!Starting = Engaged
BY DEF G!Alive, G!InLoop, G!Starting, G!Building, Live, Busy, Engaged

\* A step of the generator is an actor going on, or one of /start or /stop.
LEMMA GenStepKinds ==
    ASSUME GenStep
    PROVE  \/ Working
           \/ \E c \in Caller : G!Start(c) \/ G!Stop(c) \/ G!CreateThread(c) \/ G!Launch(c)
BY DEF GenStep, Working

\* Who moves in POST /start's steps.
LEMMA StartMoves ==
    ASSUME GenInv, NEW c \in Caller, G!Start(c)
    PROVE  /\ actor[c].pc = "free" /\ actor'[c].pc = "create"
           /\ \A o \in G!Actor \ {c} : actor'[o] = actor[o]
           /\ ~isRunning /\ isRunning' /\ overlap' = (overlap \/ Engaged # {})
<1>1. actor \in [G!Actor -> ActorRec] /\ c \in G!Actor
  BY DEF GenInv, GenType, G!Actor
<1>2. actor' = [actor EXCEPT ![c] = G!At("create")] /\ actor[c].pc = "free"
  BY DEF G!Start, G!Goto
<1>3. actor'[c].pc = "create" /\ \A o \in G!Actor \ {c} : actor'[o] = actor[o]
  BY <1>1, <1>2, AtType DEF Pc
<1>4. overlap' = (overlap \/ Engaged # {})
  <2>1. overlap' = (overlap \/ G!Alive # {} \/ G!Starting # {})
    BY Zenon DEF G!Start
  <2> QED BY <2>1, AliveEngaged, Zenon
<1> QED BY <1>2, <1>3, <1>4 DEF G!Start

\* /start makes a Thread object ...
LEMMA CreateMoves ==
    ASSUME GenInv, NEW c \in Caller, G!CreateThread(c)
    PROVE  /\ thread' \in Thread /\ actor[thread'].pc = "unused"
           /\ actor'[thread'].pc = "made"
           /\ actor[c].pc = "create" /\ actor'[c].pc = "launch"
           /\ \A o \in G!Actor \ {c, thread'} : actor'[o] = actor[o]
           /\ UNCHANGED <<isRunning, overlap>>
<1>1. actor \in [G!Actor -> ActorRec] /\ c \in G!Actor /\ c \notin Thread
      /\ Thread \subseteq G!Actor
  BY DeskAssumption DEF GenInv, GenType, G!Actor
<1>2. PICK t \in Thread : t = G!NewThread /\ actor[t].pc = "unused"
  BY NewIsUnused DEF G!CreateThread
<1>3. /\ actor' = [actor EXCEPT ![c] = G!At("launch"), ![t] = G!At("made")]
      /\ thread' = t /\ actor[c].pc = "create" /\ UNCHANGED <<isRunning, overlap>>
  BY <1>2 DEF G!CreateThread
<1> QED BY <1>1, <1>2, <1>3, AtType DEF Pc

\* ... and starts the one that generator_state holds by then.
LEMMA LaunchMoves ==
    ASSUME GenInv, NEW c \in Caller, G!Launch(c)
    PROVE  /\ thread \in Thread
           /\ actor'[thread].pc = IF actor[thread].pc = "made" THEN "started"
                                  ELSE actor[thread].pc
           /\ actor[c].pc = "launch" /\ actor'[c].pc = "free"
           /\ \A o \in G!Actor \ {c, thread} : actor'[o] = actor[o]
           /\ UNCHANGED <<isRunning, thread, overlap>>
<1>1. actor \in [G!Actor -> ActorRec] /\ c \in G!Actor /\ c \notin Thread
      /\ Thread \subseteq G!Actor
  BY DeskAssumption DEF GenInv, GenType, G!Actor
<1>2. /\ thread \in Thread /\ actor[c].pc = "launch"
      /\ UNCHANGED <<isRunning, thread, overlap>>
  BY DEF G!Launch, G!control, GenInv, LaunchHasThread
<1>3. actor' = [actor EXCEPT ![c] = G!At("free"),
                  ![thread] = IF actor[thread].pc = "made" THEN G!At("started")
                              ELSE actor[thread]]
  BY <1>1, <1>2 DEF G!Launch
<1> QED BY <1>1, <1>2, <1>3, AtType DEF Pc

\* is_running keeps its meaning.
LEMMA GoingNext == GenInv /\ GenInv' /\ Going /\ GenStep => Going'
<1> SUFFICES ASSUME GenInv, GenInv', Going, GenStep, isRunning' PROVE Going'
  BY DEF Going
<1>0. Thread \subseteq G!Actor /\ Caller \subseteq G!Actor /\ Thread \cap Caller = {}
  BY DeskAssumption DEF G!Actor
<1>1. CASE Working
  <2>1. isRunning /\ thread' = thread /\ \E a \in G!Actor : Works(a)
    BY <1>1, WorkingWorks
  <2>2. PICK a \in G!Actor : Works(a)
    BY <2>1
  <2>3. CASE \E t \in Thread : actor[t].pc \in Live \cup {"dead"}
    <3>1. PICK t \in Thread : actor[t].pc \in Live \cup {"dead"}
      BY <2>3
    <3>2. actor'[t].pc \in Live \cup {"dead"}
      BY <1>0, <2>1, <2>2, <3>1 DEF Works, Live, Busy
    <3> QED BY <3>2 DEF Going
  <2>4. CASE \E c \in Caller : actor[c].pc = "create"
    BY <1>0, <2>2, <2>4 DEF Works, Busy, Going
  <2>5. CASE \E c \in Caller : actor[c].pc = "launch" /\ actor[thread].pc = "made"
    <3>1. thread \in Thread
      BY <2>5 DEF GenInv, LaunchHasThread
    <3> QED BY <1>0, <2>1, <2>2, <2>5, <3>1 DEF Works, Live, Busy, Going
  <2> QED BY <2>1, <2>3, <2>4, <2>5 DEF Going
<1>2. ASSUME NEW c \in Caller, G!Start(c) PROVE Going'
  BY <1>2, StartMoves DEF Going
<1>3. ASSUME NEW c \in Caller, G!Stop(c) PROVE FALSE
  BY <1>3 DEF G!Stop
<1>4. ASSUME NEW c \in Caller, G!CreateThread(c) PROVE Going'
  <2>1. actor'[c].pc = "launch" /\ actor'[thread'].pc = "made"
    BY <1>4, CreateMoves
  <2> QED BY <2>1 DEF Going
<1>5. ASSUME NEW c \in Caller, G!Launch(c) PROVE Going'
  <2>1. /\ thread \in Thread
        /\ actor'[thread].pc = IF actor[thread].pc = "made" THEN "started"
                               ELSE actor[thread].pc
        /\ actor[c].pc = "launch"
        /\ \A o \in G!Actor \ {c, thread} : actor'[o] = actor[o]
        /\ isRunning
    BY <1>5, LaunchMoves
  <2>2. CASE \E t \in Thread : actor[t].pc \in Live \cup {"dead"}
    BY <1>0, <2>1, <2>2 DEF Live, Busy, Going
  <2>3. CASE \E d \in Caller : actor[d].pc = "create"
    BY <1>0, <2>1, <2>3 DEF Going
  <2>4. CASE actor[thread].pc = "made"
    BY <2>1, <2>4 DEF Live, Going
  <2> QED BY <2>1, <2>2, <2>3, <2>4 DEF Going
<1> QED BY <1>1, <1>2, <1>3, <1>4, <1>5, GenStepKinds

\* A second engaged thread comes only with an overlap.
LEMMA LoneNext == GenInv /\ Lone /\ GenStep => Lone'
<1> SUFFICES ASSUME GenInv, Lone, GenStep PROVE Lone'
  OBVIOUS
<1>0. Thread \subseteq G!Actor /\ Caller \subseteq G!Actor /\ Thread \cap Caller = {}
  BY DeskAssumption DEF G!Actor
<1>1. ASSUME overlap' = overlap, Engaged' \subseteq Engaged PROVE Lone'
  BY <1>1 DEF Lone
<1>2. CASE Working
  <2>1. overlap' = overlap /\ \E a \in G!Actor : Works(a)
    BY <1>2, WorkingWorks
  <2>2. PICK a \in G!Actor : Works(a)
    BY <2>1
  <2>3. \A t \in Thread : actor'[t].pc \in Live => actor[t].pc \in Live
    BY <1>0, <2>2 DEF Works, Live, Busy
  <2>4. \A c \in Caller : actor'[c].pc \in {"create", "launch"}
                            => actor[c].pc \in {"create", "launch"}
    BY <1>0, <2>2 DEF Works, Busy
  <2>5. Engaged' \subseteq Engaged
    BY <2>3, <2>4 DEF Engaged
  <2> QED BY <1>1, <2>1, <2>5
<1>3. ASSUME NEW c \in Caller, G!Start(c) PROVE Lone'
  <2>1. /\ \A o \in G!Actor \ {c} : actor'[o] = actor[o]
        /\ overlap' = (overlap \/ Engaged # {})
    BY <1>3, StartMoves
  <2>2. Engaged' \subseteq Engaged \cup {c}
    BY <1>0, <2>1 DEF Engaged
  <2> QED BY <2>1, <2>2 DEF Lone
<1>4. ASSUME NEW c \in Caller, G!Stop(c) PROVE Lone'
  BY <1>1, <1>4 DEF G!Stop, Engaged
<1>5. ASSUME NEW c \in Caller, G!CreateThread(c) PROVE Lone'
  <2>1. /\ thread' \in Thread /\ actor'[thread'].pc = "made"
        /\ actor[c].pc = "create"
        /\ \A o \in G!Actor \ {c, thread'} : actor'[o] = actor[o]
        /\ overlap' = overlap
    BY <1>5, CreateMoves
  <2>2. Engaged' \subseteq Engaged
    BY <1>0, <2>1 DEF Engaged, Live, Busy
  <2> QED BY <1>1, <2>1, <2>2
<1>6. ASSUME NEW c \in Caller, G!Launch(c) PROVE Lone'
  <2>1. /\ thread \in Thread
        /\ actor'[thread].pc = IF actor[thread].pc = "made" THEN "started"
                               ELSE actor[thread].pc
        /\ actor[c].pc = "launch" /\ actor'[c].pc = "free"
        /\ \A o \in G!Actor \ {c, thread} : actor'[o] = actor[o]
        /\ overlap' = overlap
    BY <1>6, LaunchMoves
  <2>2. c \in Engaged /\ Engaged' \subseteq (Engaged \ {c}) \cup {thread}
    BY <1>0, <2>1 DEF Engaged
  <2> QED BY <2>1, <2>2 DEF Lone
<1> QED BY <1>2, <1>3, <1>4, <1>5, <1>6, GenStepKinds

\* A stopped thread does not begin a second intention.
LEMMA LastOneNext == GenInv /\ LastOne /\ GenStep => LastOne'
<1> SUFFICES ASSUME GenInv, LastOne, GenStep PROVE LastOne'
  OBVIOUS
<1>0. /\ actor \in [G!Actor -> ActorRec] /\ afterStop \in [Thread -> Nat]
      /\ Thread \subseteq G!Actor /\ Caller \subseteq G!Actor /\ Thread \cap Caller = {}
  BY DeskAssumption DEF GenInv, GenType, G!Actor

\* Most steps leave afterStop and is_running, and begin no intention unless
\* is_running is set.
<1>1. ASSUME UNCHANGED <<afterStop, isRunning>>,
             NEW a \in G!Actor, \A o \in G!Actor \ {a} : actor'[o] = actor[o],
             a \in Thread /\ actor'[a].pc \in {"choose", "pick"} =>
                isRunning \/ actor[a].pc \in {"choose", "pick"}
      PROVE  LastOne'
  BY <1>0, <1>1 DEF LastOne
<1>2. ASSUME NEW c \in Caller, G!Start(c) PROVE LastOne'
  <2>1. isRunning' /\ afterStop' = afterStop
    BY <1>2, StartMoves DEF G!Start
  <2> QED BY <2>1 DEF LastOne
<1>3. ASSUME NEW c \in Caller, G!Stop(c) PROVE LastOne'
  <2>1. \A t \in Thread : afterStop'[t] = 0
    BY <1>3 DEF G!Stop
  <2> QED BY <2>1 DEF LastOne
<1>4. ASSUME NEW c \in Caller, G!CreateThread(c) PROVE LastOne'
  <2>1. /\ \A o \in G!Actor \ {c, thread'} : actor'[o] = actor[o]
        /\ actor'[thread'].pc = "made" /\ UNCHANGED <<afterStop, isRunning>>
    BY <1>4, CreateMoves DEF G!CreateThread
  <2> QED BY <1>0, <2>1 DEF LastOne
<1>5. ASSUME NEW c \in Caller, G!Launch(c) PROVE LastOne'
  <2>1. /\ \A o \in G!Actor \ {c, thread} : actor'[o] = actor[o]
        /\ actor'[thread].pc = IF actor[thread].pc = "made" THEN "started"
                               ELSE actor[thread].pc
        /\ UNCHANGED <<afterStop, isRunning>>
    BY <1>5, LaunchMoves DEF G!Launch
  <2> QED BY <1>0, <2>1 DEF LastOne
<1>6. ASSUME NEW a \in G!Actor, NEW new \in NewItems, Returns(a, new) PROVE LastOne'
  <2>1. /\ \A o \in G!Actor \ {a} : actor'[o] = actor[o]
        /\ Len(new) \in {0, 1} /\ isRunning' = isRunning
        /\ actor'[a].pc = IF actor[a].left > 1 THEN "choose"
                          ELSE IF actor[a].items \o new # <<>> THEN "send"
                          ELSE IF a \in Thread THEN "sleep" ELSE "free"
        /\ afterStop' = IF a \in Thread /\ ~isRunning
                        THEN [afterStop EXCEPT ![a] = @ + Len(new)] ELSE afterStop
    BY <1>6, ReturnEffect
  <2>2. CASE a \in Thread
    <3>1. actor[a].left = 1 /\ (~isRunning => afterStop[a] = 0)
      BY <1>6, <2>2 DEF GenInv, Building, Returns, LastOne
    <3>2. actor'[a].pc \notin {"choose", "pick"}
      BY <2>1, <2>2, <3>1
    <3>3. \A t \in Thread : t # a => afterStop'[t] = afterStop[t]
      BY <1>0, <2>1
    <3>4. afterStop'[a] <= 1
      <4>1. CASE isRunning
        BY <2>1, <2>2, <4>1 DEF LastOne
      <4>2. CASE ~isRunning
        <5>1. afterStop'[a] = 0 + Len(new)
          BY <1>0, <2>1, <2>2, <3>1, <4>2
        <5>2. PICK n \in {0, 1} : n = Len(new)
          BY <2>1
        <5> QED BY <5>1, <5>2
      <4> QED BY <4>1, <4>2
    <3> QED BY <1>0, <2>1, <3>2, <3>3, <3>4 DEF LastOne
  <2>3. CASE a \notin Thread
    BY <1>0, <2>1, <2>3 DEF LastOne
  <2> QED BY <2>2, <2>3
<1>7. ASSUME NEW a \in G!Actor, NEW answer \in SUBSET Book, G!FetchBooks(a, answer)
      PROVE  LastOne'
  <2>1. /\ \A o \in G!Actor \ {a} : actor'[o] = actor[o]
        /\ actor[a].pc = "choose" /\ UNCHANGED <<afterStop, isRunning>>
    BY <1>0, <1>7 DEF G!FetchBooks, G!control
  <2> QED BY <1>1, <2>1
<1>8. ASSUME NEW a \in G!Actor, NEW pc \in Pc \ {"choose", "pick"}, G!Goto(a, pc),
             UNCHANGED <<afterStop, isRunning>>
      PROVE  LastOne'
  <2>1. actor'[a].pc = pc /\ \A o \in G!Actor \ {a} : actor'[o] = actor[o]
    BY <1>0, <1>8, AtType DEF G!Goto
  <2> QED BY <1>1, <1>8, <2>1
<1>9. ASSUME NEW a \in G!Actor, Posts(a) PROVE LastOne'
  <2>1. PICK rec \in ActorRec :
              /\ actor' = [actor EXCEPT ![a] = rec] /\ rec.pc \notin {"choose", "pick"}
              /\ UNCHANGED <<afterStop, isRunning>>
    BY <1>9, PostEffect
  <2>2. actor'[a].pc = rec.pc /\ \A o \in G!Actor \ {a} : actor'[o] = actor[o]
    BY <1>0, <2>1
  <2> QED BY <1>1, <2>1, <2>2
<1>10. ASSUME NEW t \in Thread,
              \/ G!WakeUp(t) \/ G!End(t) \/ \E fails \in BOOLEAN : G!AuditStarted(t, fails)
       PROVE  LastOne'
  <2>1. \E pc \in Pc \ {"choose", "pick"} : G!Goto(t, pc)
    BY <1>10 DEF G!WakeUp, G!End, G!AuditStarted, Pc
  <2>2. UNCHANGED <<afterStop, isRunning>>
    BY <1>10 DEF G!WakeUp, G!End, G!AuditStarted, G!control
  <2> QED BY <1>0, <1>8, <2>1, <2>2
<1>11. ASSUME NEW t \in Thread, G!Check(t) PROVE LastOne'
  <2>1. UNCHANGED <<afterStop, isRunning>>
    BY <1>11 DEF G!Check, G!control
  <2>2. CASE isRunning
    <3>1. PICK rec \in ActorRec : actor' = [actor EXCEPT ![t] = rec]
      BY <1>0, <1>11, <2>2, BuildType DEF G!Check
    <3>2. \A o \in G!Actor \ {t} : actor'[o] = actor[o]
      BY <1>0, <3>1
    <3> QED BY <1>0, <1>1, <2>1, <2>2, <3>2
  <2>3. CASE ~isRunning
    <3>1. G!Goto(t, "stopping") /\ "stopping" \in Pc \ {"choose", "pick"}
      BY <1>11, <2>3 DEF G!Check, Pc
    <3> QED BY <1>0, <1>8, <2>1, <3>1
  <2> QED BY <2>2, <2>3
<1>12. ASSUME NEW c \in Caller, NEW n \in {1, BatchSize}, G!GenerateOnRequest(c, n)
       PROVE  LastOne'
  <2>0. UNCHANGED <<afterStop, isRunning>> /\ n \in Nat /\ G!Build(c, n)
    BY <1>12, DeskAssumption DEF G!GenerateOnRequest, G!control
  <2>1. PICK rec \in ActorRec : actor' = [actor EXCEPT ![c] = rec]
    BY <1>0, <2>0, BuildType
  <2>2. c \notin Thread /\ \A o \in G!Actor \ {c} : actor'[o] = actor[o]
    BY <1>0, <2>1
  <2> QED BY <1>0, <1>1, <2>0, <2>2
<1> QED BY <1>2, <1>3, <1>4, <1>5, <1>6, <1>7, <1>9, <1>10, <1>11, <1>12 DEF GenStep

\* The generator's inductive invariant.
ControlInv == GenInv /\ Going /\ Lone /\ LastOne

\* The generator's invariant holds of every behaviour.
LEMMA ControlInduction == Spec => []ControlInv
<1>1. Init => ControlInv
  <2> SUFFICES ASSUME Init PROVE ControlInv
    OBVIOUS
  <2>1. GenInv
    BY GenInit
  <2>2. \A a \in G!Actor : actor[a].pc = IF a \in Thread THEN "unused" ELSE "free"
    BY AtType DEF Init, G!Init, Pc
  <2>3. Engaged = {}
    BY <2>2, DeskAssumption DEF Engaged, G!Actor, Live, Busy
  <2> QED BY <2>1, <2>2, <2>3
          DEF ControlInv, Init, G!Init, Going, Lone, LastOne, G!Actor
<1>2. ControlInv /\ [Next]_vars => ControlInv'
  <2> SUFFICES ASSUME ControlInv, [Next]_vars PROVE ControlInv'
    OBVIOUS
  <2>1. GenInv'
    BY GenNext DEF ControlInv
  <2>2. CASE GenStep
    BY <2>1, <2>2, GoingNext, LoneNext, LastOneNext DEF ControlInv
  <2>3. CASE UNCHANGED generator
    BY <2>1, <2>3 DEF generator, ControlInv, Going, Lone, Engaged, LastOne
  <2> QED BY <2>2, <2>3, GenSteps DEF ControlInv
<1> QED BY <1>1, <1>2, PTL DEF Spec

\* After POST /stop a generator thread generates at most one more intention,
\* whatever /start and /stop follow.
THEOREM OneMoreIntention == Spec => []OneMoreAtMost
<1>1. ControlInv => OneMoreAtMost
  BY DEF ControlInv, LastOne, OneMoreAtMost
<1> QED BY <1>1, ControlInduction, PTL

\* generator_state's is_running is set only while a thread generates, or is
\* about to, or has died of its audit write.
THEOREM RunningHasThread == Spec => []RunningMeansAlive
<1>1. ControlInv => RunningMeansAlive
  BY AliveEngaged DEF ControlInv, Going, RunningMeansAlive, G!Starting
<1> QED BY <1>1, ControlInduction, PTL

\* Two generator threads at once take a POST /start that came while an earlier
\* generator lived: two POST /start requests alone never make them.
THEOREM OneGenerator == Spec => []TwoOnlyAfterRestart
<1>1. ControlInv => TwoOnlyAfterRestart
  <2> SUFFICES ASSUME ControlInv, ~overlap PROVE ~(Cardinality(G!InLoop) > 1)
    BY DEF TwoOnlyAfterRestart
  <2>1. \A x, y \in G!InLoop : x = y
    BY AliveEngaged DEF ControlInv, Lone, G!Alive
  <2>2. CASE G!InLoop = {}
    BY <2>2, FS_EmptySet
  <2>3. ASSUME NEW t \in G!InLoop PROVE Cardinality(G!InLoop) = 1
    <3>1. G!InLoop = {t}
      BY <2>1, <2>3
    <3> QED BY <3>1, FS_Singleton
  <2> QED BY <2>2, <2>3
<1> QED BY <1>1, ControlInduction, PTL

-----------------------------------------------------------------------------
(* The session of books-service.                                           *)

\* Only POST /books ends a failed session, and it always does.
THEOREM PostRevives == Spec => OnlyPostRevives
<1>1. ASSUME [Next]_vars
      PROVE  [/\ session = "failed" /\ session' = "clean" => CreateBooks
              /\ session' = "failed" => ~CreateBooks]_vars
  <2>1. CreateBooks => session' = "clean"
    BY DEF CreateBooks, B!CreateBooks
  <2>2. ASSUME session = "failed", Next PROVE CreateBooks \/ session' # "clean"
    <3>1. ASSUME UNCHANGED session PROVE session' # "clean"
      BY <2>2, <3>1
    <3>2. CASE GetBook
      BY <2>2, <3>2 DEF GetBook, B!GetBook, B!Usable
    <3>3. CASE Deactivate
      BY <2>2, <3>3 DEF Deactivate, B!Deactivate, B!Breaks
    <3>4. ASSUME NEW b \in Book, UpdateBook(b) \/ CountTrades(b) PROVE FALSE
      BY <2>2, <3>4 DEF UpdateBook, CountTrades, B!UpdateBook, B!CountTrades, B!Usable
    <3>5. ASSUME NEW a \in G!Actor, FetchBooks(a) PROVE session' # "clean"
      <4>1. PICK answer \in SUBSET Book : B!GetBooks(answer)
        BY <3>5 DEF FetchBooks
      <4> QED BY <2>2, <4>1 DEF B!GetBooks, B!Usable
    <3>6. CASE \/ \E c \in Caller : Control(c)
               \/ Internal /\ UNCHANGED <<books, trade, faults, intake, requests, history>>
               \/ \E t \in Thread : AuditFails(t)
               \/ \E a \in G!Actor : Send(a)
               \/ PostDirectly \/ \E p \in intake : Process(p)
      BY <3>1, <3>6 DEF Control, AuditFails, Send, PostDirectly, Process, books
    <3> QED BY <2>2, <3>2, <3>3, <3>4, <3>5, <3>6 DEF Next
  <2> QED BY <1>1, <2>1, <2>2
<1> QED BY <1>1, PTL DEF Spec, OnlyPostRevives

-----------------------------------------------------------------------------
(* Deleted books.                                                          *)

BookRow == [name : Name, active : BOOLEAN]
TradeRow == [book : Book, status : {"ACTIVE", "CLOSED"}, openedBy : Id]

RowsType ==
    /\ book \in [Book -> {NoRow} \cup BookRow]
    /\ trade \in [TradeId -> {NoRow} \cup TradeRow]
    /\ intake \subseteq Item
    /\ deleting \in Book \cup {NoBook}
    /\ retired \subseteq Book /\ stragglers \in [Book -> Nat]
    /\ direct \in [Book -> SUBSET ForeignId]
\* So far only finitely many trades have been opened, finitely many threads
\* have a book to pick, and finitely many payloads are under way.
Opened == {t \in TradeId : trade[t] # NoRow}
Choosing == {a \in G!Actor : actor[a].books # {}}
Pending == intake \cup Carried
Finite == IsFiniteSet(Opened) /\ IsFiniteSet(Choosing) /\ IsFiniteSet(Pending)

\* What counts for b: the trades opened in it and the openings still to come,
\* without those that other callers have asked for since.
Load(b) == Cardinality(Indirect(b)) + OnTheirWay(b)

\* From the count of its trades on, a book is not listed, and what it takes in
\* was on its way.
Gone ==
    /\ \A b \in retired : book[b] # NoRow /\ ~book[b].active
    /\ deleting \in Book => book[deleting] # NoRow
    /\ \A b \in Book : b \in retired \/ b = deleting => Load(b) <= stragglers[b]

DeskInv == GenInv /\ RowsType /\ Finite /\ Gone

\* Sizes of parts of a finite set, and of one with an element more or less.
LEMMA PartSizes ==
    ASSUME NEW X, IsFiniteSet(X), NEW P
    PROVE  /\ Cardinality(X) \in Nat
           /\ P \subseteq X => Cardinality(P) \in Nat /\ Cardinality(P) <= Cardinality(X)
           /\ \A e : P \subseteq X \cup {e} =>
                 Cardinality(P) \in Nat /\ Cardinality(P) <= Cardinality(X) + 1
           /\ \A e \in X : P \subseteq X \ {e} =>
                 Cardinality(P) \in Nat /\ Cardinality(P) + 1 <= Cardinality(X)
<1>1. Cardinality(X) \in Nat
  BY FS_CardinalityType
<1>2. ASSUME NEW Y, IsFiniteSet(Y), P \subseteq Y
      PROVE  Cardinality(P) \in Nat /\ Cardinality(P) <= Cardinality(Y)
  BY <1>2, FS_Subset, FS_CardinalityType
<1>3. ASSUME NEW e, P \subseteq X \cup {e}
      PROVE  Cardinality(P) \in Nat /\ Cardinality(P) <= Cardinality(X) + 1
  <2>1. PICK Y : Y = X \cup {e}
    OBVIOUS
  <2>2. IsFiniteSet(Y) /\ (Cardinality(Y) = Cardinality(X) \/ Cardinality(Y) = Cardinality(X) + 1)
    BY <2>1, FS_AddElement
  <2>3. Cardinality(P) \in Nat /\ Cardinality(P) <= Cardinality(Y)
    BY <1>2, <1>3, <2>1, <2>2
  <2> QED BY <1>1, <2>2, <2>3
<1>4. ASSUME NEW e \in X, P \subseteq X \ {e}
      PROVE  Cardinality(P) \in Nat /\ Cardinality(P) + 1 <= Cardinality(X)
  <2>1. PICK Y : Y = X \ {e}
    OBVIOUS
  <2>2. IsFiniteSet(Y) /\ Cardinality(Y) = Cardinality(X) - 1
    BY <2>1, FS_RemoveElement
  <2>3. Cardinality(P) \in Nat /\ Cardinality(P) <= Cardinality(Y)
    BY <1>2, <1>4, <2>1, <2>2
  <2> QED BY <1>1, <2>2, <2>3
<1> QED BY <1>1, <1>2, <1>3, <1>4

\* How a step may move what counts for a book from the books to be picked (Y)
\* to the payloads (Z), and from there to the trades (X), without adding to it.
Moves(X, Y, Z, x, y, z) ==
    \/ x \subseteq X /\ y \subseteq Y /\ z \subseteq Z
    \/ x \subseteq X /\ (\E a \in Y : y \subseteq Y \ {a}) /\ (\E p : z \subseteq Z \cup {p})
    \/ (\E t : x \subseteq X \cup {t}) /\ y \subseteq Y /\ (\E p \in Z : z \subseteq Z \ {p})

\* The sum of the three does not grow.
LEMMA MovesSum ==
    ASSUME NEW X, NEW Y, NEW Z, NEW x, NEW y, NEW z,
           IsFiniteSet(X), IsFiniteSet(Y), IsFiniteSet(Z), Moves(X, Y, Z, x, y, z)
    PROVE  Cardinality(x) + (Cardinality(y) + Cardinality(z))
             <= Cardinality(X) + (Cardinality(Y) + Cardinality(Z))
<1>1. PICK k \in Nat, l \in Nat, m \in Nat :
            k = Cardinality(X) /\ l = Cardinality(Y) /\ m = Cardinality(Z)
  BY FS_CardinalityType
<1>2. CASE x \subseteq X /\ y \subseteq Y /\ z \subseteq Z
  <2>1. /\ Cardinality(x) \in Nat /\ Cardinality(x) <= k
        /\ Cardinality(y) \in Nat /\ Cardinality(y) <= l
        /\ Cardinality(z) \in Nat /\ Cardinality(z) <= m
    BY <1>1, <1>2, PartSizes
  <2> QED BY <1>1, <2>1
<1>3. ASSUME x \subseteq X, NEW a \in Y, y \subseteq Y \ {a}, NEW p, z \subseteq Z \cup {p}
      PROVE  Cardinality(x) + (Cardinality(y) + Cardinality(z)) <= k + (l + m)
  <2>1. /\ Cardinality(x) \in Nat /\ Cardinality(x) <= k
        /\ Cardinality(y) \in Nat /\ Cardinality(y) + 1 <= l
        /\ Cardinality(z) \in Nat /\ Cardinality(z) <= m + 1
    BY <1>1, <1>3, PartSizes
  <2> QED BY <1>1, <2>1
<1>4. ASSUME NEW t, x \subseteq X \cup {t}, y \subseteq Y, NEW p \in Z, z \subseteq Z \ {p}
      PROVE  Cardinality(x) + (Cardinality(y) + Cardinality(z)) <= k + (l + m)
  <2>1. /\ Cardinality(x) \in Nat /\ Cardinality(x) <= k + 1
        /\ Cardinality(y) \in Nat /\ Cardinality(y) <= l
        /\ Cardinality(z) \in Nat /\ Cardinality(z) + 1 <= m
    BY <1>1, <1>4, PartSizes
  <2> QED BY <1>1, <2>1
<1> QED BY <1>1, <1>2, <1>3, <1>4 DEF Moves

\* What counts for a book is finite.
Loads ==
    \A b \in Book :
       /\ IsFiniteSet(Indirect(b)) /\ IsFiniteSet(Wanting(b)) /\ IsFiniteSet(Coming(b))
       /\ OnTheirWay(b) \in Nat /\ Load(b) \in Nat
       /\ Load(b) = Cardinality(Indirect(b))
                    + (Cardinality(Wanting(b)) + Cardinality(Coming(b)))

\* So it is now ...
LEMMA LoadsNow == Finite => Loads
<1> SUFFICES ASSUME Finite, NEW b \in Book
             PROVE  /\ IsFiniteSet(Indirect(b)) /\ IsFiniteSet(Wanting(b))
                    /\ IsFiniteSet(Coming(b)) /\ OnTheirWay(b) \in Nat /\ Load(b) \in Nat
                    /\ Load(b) = Cardinality(Indirect(b))
                                 + (Cardinality(Wanting(b)) + Cardinality(Coming(b)))
  BY DEF Loads
<1>1. IsFiniteSet(Indirect(b))
  <2>1. Indirect(b) \in SUBSET Opened
    BY DEF Indirect, B!ActiveTrades, Opened
  <2> QED BY <2>1, FS_Subset DEF Finite
<1>2. IsFiniteSet(Wanting(b))
  <2>1. Wanting(b) \in SUBSET Choosing
    BY DEF Wanting, Choosing
  <2> QED BY <2>1, FS_Subset DEF Finite
<1>3. IsFiniteSet(Coming(b))
  <2>1. Coming(b) \in SUBSET Pending
    BY DEF Coming, Pending
  <2> QED BY <2>1, FS_Subset DEF Finite
<1>4. /\ Cardinality(Indirect(b)) \in Nat /\ Cardinality(Wanting(b)) \in Nat
      /\ Cardinality(Coming(b)) \in Nat
  BY <1>1, <1>2, <1>3, FS_CardinalityType
<1>5. /\ OnTheirWay(b) = Cardinality(Wanting(b)) + Cardinality(Coming(b))
      /\ Load(b) = Cardinality(Indirect(b)) + OnTheirWay(b)
  BY DEF OnTheirWay, Load
<1> QED BY <1>1, <1>2, <1>3, <1>4, <1>5

\* ... and after a step.
LEMMA LoadsThen == Finite' => Loads'
BY LoadsNow, PTL

MovesLoad(b) == Moves(Indirect(b), Wanting(b), Coming(b), Indirect(b)', Wanting(b)', Coming(b)')

\* A step that leaves the books, and moves what counts for deleted ones.
LEMMA GoneKept ==
    ASSUME DeskInv, GenInv', RowsType', Finite',
           UNCHANGED <<book, deleting, retired, stragglers>>,
           \A b \in Book : b \in retired \/ b = deleting => MovesLoad(b)
    PROVE  DeskInv'
<1>1. Loads /\ Loads'
  BY LoadsNow, LoadsThen DEF DeskInv
<1>2. ASSUME NEW b \in Book, b \in retired \/ b = deleting PROVE Load(b)' <= stragglers'[b]
  <2>1. Load(b) \in Nat /\ Load(b)' \in Nat /\ stragglers[b] \in Nat
    BY <1>1 DEF Loads, DeskInv, RowsType
  <2>2. /\ Load(b) = Cardinality(Indirect(b))
                     + (Cardinality(Wanting(b)) + Cardinality(Coming(b)))
        /\ Load(b)' = Cardinality(Indirect(b)')
                      + (Cardinality(Wanting(b)') + Cardinality(Coming(b)'))
        /\ IsFiniteSet(Indirect(b)) /\ IsFiniteSet(Wanting(b)) /\ IsFiniteSet(Coming(b))
    BY <1>1 DEF Loads
  <2>3. Load(b)' <= Load(b)
    BY <1>2, <2>2, MovesSum DEF MovesLoad
  <2>4. Load(b) <= stragglers[b] /\ stragglers' = stragglers
    BY <1>2 DEF DeskInv, Gone
  <2> QED BY <2>1, <2>3, <2>4
<1> QED BY <1>2 DEF DeskInv, Gone

\* Most steps leave what an actor builds, or it drops it.
Fades(a) == /\ actor'[a].items \in {actor[a].items, <<>>}
            /\ actor'[a].books \in {actor[a].books, {}}

\* Then no more books wait for a choice, and no more payloads are carried.
LEMMA FadeShrinks ==
    ASSUME \A a \in G!Actor : Fades(a)
    PROVE  /\ Choosing' \subseteq Choosing /\ Carried' \subseteq Carried
           /\ \A b \in Book : Wanting(b)' \subseteq Wanting(b)
<1>1. Choosing' \subseteq Choosing
  BY DEF Choosing, Fades, G!Actor
<1>2. \A b \in Book : Wanting(b)' \subseteq Wanting(b)
  BY DEF Wanting, Fades, G!Actor
<1>3. Carried' \subseteq Carried
  <2> SUFFICES ASSUME NEW a \in G!Actor, NEW i \in DOMAIN actor'[a].items
               PROVE  actor'[a].items[i] \in Carried
    BY DEF Carried, G!Actor
  <2>1. actor'[a].items = actor[a].items
    BY DEF Fades
  <2> QED BY <2>1 DEF Carried
<1> QED BY <1>1, <1>2, <1>3

\* All steps of the generator but the return of an intention and GET /books.
LEMMA MostFade ==
    ASSUME GenInv,
           \/ \E c \in Caller : \/ G!Start(c) \/ G!Stop(c) \/ G!CreateThread(c) \/ G!Launch(c)
                                \/ \E n \in {1, BatchSize} : G!GenerateOnRequest(c, n)
           \/ \E t \in Thread : \/ G!Check(t) \/ G!WakeUp(t) \/ G!End(t)
                                \/ \E fails \in BOOLEAN : G!AuditStarted(t, fails)
           \/ \E a \in G!Actor : Posts(a)
    PROVE  \A a \in G!Actor : Fades(a)
<1>0. /\ actor \in [G!Actor -> ActorRec] /\ Thread \cap Caller = {}
      /\ Thread \subseteq G!Actor /\ Caller \subseteq G!Actor /\ BatchSize \in Nat \ {0}
  BY DeskAssumption DEF GenInv, GenType, G!Actor
<1>1. ASSUME NEW a \in G!Actor, NEW pc \in Pc, G!Goto(a, pc)
      PROVE  \A o \in G!Actor : Fades(o)
  <2>1. PICK r \in ActorRec : r = G!At(pc) /\ r.items = <<>> /\ r.books = {}
    BY AtType
  <2>2. actor' = [actor EXCEPT ![a] = r]
    BY <1>1, <2>1, Zenon DEF G!Goto
  <2> QED BY <1>0, <2>1, <2>2 DEF Fades
<1>2. ASSUME NEW a \in G!Actor, NEW n \in {1, BatchSize}, G!Build(a, n)
      PROVE  \A o \in G!Actor : Fades(o)
  <2>1. n \in Nat
    BY <1>0
  <2>2. PICK rec \in ActorRec : /\ actor' = [actor EXCEPT ![a] = rec]
                                /\ rec.items = <<>> /\ rec.books = {}
    BY <1>0, <1>2, <2>1, BuildType
  <2> QED BY <1>0, <2>2 DEF Fades
<1>3. ASSUME NEW c \in Caller, G!Start(c) PROVE \A a \in G!Actor : Fades(a)
  BY <1>0, <1>1, <1>3 DEF G!Start, Pc
<1>4. ASSUME NEW c \in Caller, G!Stop(c) PROVE \A a \in G!Actor : Fades(a)
  BY <1>4 DEF G!Stop, Fades
<1>5. ASSUME NEW c \in Caller, G!CreateThread(c) PROVE \A a \in G!Actor : Fades(a)
  <2>1. PICK t \in Thread : t = G!NewThread
    BY <1>5, NewIsUnused DEF G!CreateThread
  <2>2. actor' = [actor EXCEPT ![c] = G!At("launch"), ![t] = G!At("made")]
    BY <1>5, <2>1 DEF G!CreateThread
  <2>3. PICK r \in ActorRec, m \in ActorRec :
              /\ r = G!At("launch") /\ r.items = <<>> /\ r.books = {}
              /\ m = G!At("made") /\ m.items = <<>> /\ m.books = {}
    BY AtType DEF Pc
  <2>4. actor' = [actor EXCEPT ![c] = r, ![t] = m]
    BY <2>2, <2>3, Zenon
  <2> QED BY <1>0, <2>3, <2>4 DEF Fades
<1>6. ASSUME NEW c \in Caller, G!Launch(c) PROVE \A a \in G!Actor : Fades(a)
  <2>1. PICK r \in ActorRec, m \in ActorRec :
              /\ r = G!At("free") /\ r.items = <<>> /\ r.books = {}
              /\ m = G!At("started") /\ m.items = <<>> /\ m.books = {}
    BY AtType DEF Pc
  <2>2. PICK t \in Thread : t = thread
    BY <1>6 DEF G!Launch, GenInv, LaunchHasThread
  <2>3. PICK k : k = IF actor[t].pc = "made" THEN m ELSE actor[t]
    OBVIOUS
  <2>4. actor' = [actor EXCEPT ![c] = r, ![t] = k]
    BY <1>0, <1>6, <2>1, <2>2, <2>3 DEF G!Launch
  <2> QED BY <1>0, <2>1, <2>3, <2>4 DEF Fades
<1>7. ASSUME NEW c \in Caller, NEW n \in {1, BatchSize}, G!GenerateOnRequest(c, n)
      PROVE  \A a \in G!Actor : Fades(a)
  BY <1>0, <1>2, <1>7 DEF G!GenerateOnRequest
<1>8. ASSUME NEW t \in Thread, G!Check(t) PROVE \A a \in G!Actor : Fades(a)
  BY <1>0, <1>1, <1>2, <1>8 DEF G!Check, Pc
<1>9. ASSUME NEW t \in Thread,
             \/ G!WakeUp(t) \/ G!End(t) \/ \E fails \in BOOLEAN : G!AuditStarted(t, fails)
      PROVE  \A a \in G!Actor : Fades(a)
  <2>1. \E pc \in Pc : G!Goto(t, pc)
    BY <1>9 DEF G!WakeUp, G!End, G!AuditStarted, Pc
  <2> QED BY <1>0, <1>1, <2>1
<1>10. ASSUME NEW a \in G!Actor, Posts(a) PROVE \A o \in G!Actor : Fades(o)
  <2>1. PICK rec \in ActorRec :
              /\ actor' = [actor EXCEPT ![a] = rec]
              /\ rec.items \in {actor[a].items, <<>>} /\ rec.books \in {actor[a].books, {}}
    BY <1>10, PostEffect
  <2> QED BY <1>0, <2>1 DEF Fades
<1> QED BY <1>3, <1>4, <1>5, <1>6, <1>7, <1>8, <1>9, <1>10

\* What actors carry are payloads.
LEMMA CarriedType == GenInv => Carried \subseteq Item
<1> SUFFICES ASSUME GenInv, NEW a \in G!Actor, NEW i \in DOMAIN actor[a].items
             PROVE  actor[a].items[i] \in Item
  BY DEF Carried
<1>1. actor[a].items \in Seq(Item)
  BY DEF GenInv, GenType, ActorRec
<1> QED BY <1>1

\* Steps that leave the tables, bring no payload and fill no actor's hands.
LEMMA DeskFades ==
    ASSUME DeskInv, GenInv', \A a \in G!Actor : Fades(a),
           UNCHANGED <<book, deleting, retired, stragglers, direct, trade>>,
           intake' \subseteq Pending
    PROVE  DeskInv'
<1>1. /\ Choosing' \subseteq Choosing /\ Carried' \subseteq Carried
      /\ \A b \in Book : Wanting(b)' \subseteq Wanting(b)
  BY FadeShrinks
<1>2. Pending' \subseteq Pending /\ Opened' = Opened
  BY <1>1 DEF Pending, Opened
<1>3. Finite'
  <2>1. Choosing' \in SUBSET Choosing /\ Pending' \in SUBSET Pending
    BY <1>1, <1>2
  <2> QED BY <1>2, <2>1, FS_Subset DEF DeskInv, Finite
<1>4. RowsType'
  <2>1. Carried \subseteq Item
    BY CarriedType DEF DeskInv
  <2> QED BY <2>1 DEF DeskInv, RowsType, Pending
<1>5. ASSUME NEW b \in Book PROVE MovesLoad(b)
  <2>1. Indirect(b)' = Indirect(b)
    BY DEF Indirect, B!ActiveTrades
  <2>2. Coming(b)' \subseteq Coming(b)
    BY <1>2 DEF Coming, Pending, Existing
  <2> QED BY <1>1, <2>1, <2>2 DEF MovesLoad, Moves
<1> QED BY <1>3, <1>4, <1>5, GoneKept

\* generate_random_intention returns: what it chose is carried.
LEMMA ReturnCarries ==
    ASSUME GenInv, NEW a \in G!Actor, NEW new \in NewItems, Returns(a, new)
    PROVE  /\ Choosing' \subseteq Choosing
           /\ \A b \in Book : Wanting(b)' \subseteq Wanting(b) \ {a}
           /\ \A p \in Carried' : p \in Carried \/ new = <<p>>
<1>1. /\ \A o \in G!Actor : o # a => actor'[o] = actor[o]
      /\ actor'[a].books = {} /\ actor'[a].items = actor[a].items \o new
  BY ReturnEffect
<1>2. Choosing' \subseteq Choosing /\ \A b \in Book : Wanting(b)' \subseteq Wanting(b) \ {a}
  BY <1>1 DEF Choosing, Wanting, G!Actor
<1>3. ASSUME NEW i \in DOMAIN actor'[a].items
      PROVE  actor'[a].items[i] \in Carried \/ new = <<actor'[a].items[i]>>
  <2>1. PICK s \in Seq(Item) : s = actor[a].items
    BY DEF GenInv, GenType, ActorRec
  <2>2. CASE new = <<>>
    <3>1. actor'[a].items = s
      BY <1>1, <2>1, <2>2
    <3> QED BY <1>3, <2>1, <3>1 DEF Carried
  <2>3. ASSUME NEW item \in Item, new = <<item>>
        PROVE  actor'[a].items[i] \in Carried \/ new = <<actor'[a].items[i]>>
    <3>0. /\ s \o <<item>> \in Seq(Item) /\ Len(s \o <<item>>) = Len(s) + 1
          /\ \A j \in 1..Len(s) : (s \o <<item>>)[j] = s[j]
          /\ (s \o <<item>>)[Len(s) + 1] = item
      OBVIOUS
    <3>1. PICK t \in Seq(Item) : t = s \o <<item>> /\ Len(t) = Len(s) + 1
                                 /\ t[Len(s) + 1] = item /\ \A j \in 1..Len(s) : t[j] = s[j]
      BY <3>0
    <3>2. actor'[a].items = t
      BY <1>1, <2>1, <2>3, <3>1
    <3>3. i \in 1..Len(s) \/ i = Len(s) + 1
      <4>1. i \in 1..Len(t) /\ Len(s) \in Nat
        BY <1>3, <3>1, <3>2
      <4> QED BY <3>1, <4>1
    <3>4. CASE i \in 1..Len(s)
      <4>1. actor'[a].items[i] = s[i] /\ i \in DOMAIN s
        BY <3>1, <3>2, <3>4
      <4> QED BY <2>1, <4>1 DEF Carried
    <3>5. CASE i = Len(s) + 1
      BY <2>3, <3>1, <3>2, <3>5
    <3> QED BY <3>3, <3>4, <3>5
  <2> QED BY <2>2, <2>3 DEF NewItems
<1>4. ASSUME NEW p \in Carried' PROVE p \in Carried \/ new = <<p>>
  <2>1. PICK o \in G!Actor : \E i \in DOMAIN actor'[o].items : p = actor'[o].items[i]
    BY DEF Carried, G!Actor
  <2>2. CASE o = a
    BY <1>3, <2>1, <2>2
  <2>3. CASE o # a
    BY <1>1, <2>1, <2>3 DEF Carried
  <2> QED BY <2>2, <2>3
<1> QED BY <1>2, <1>4

\* The intention's book, if it opens a trade, was in the answer the actor had.
LEMMA BuildReturns ==
    ASSUME GenInv, NEW a \in G!Actor, Build(a)
    PROVE  \E new \in NewItems :
              /\ Returns(a, new)
              /\ \A p : new = <<p>> /\ p[1] = "OPEN" => p[2] \in actor[a].books
<1>0. G!RequestId \in Id
  BY DEF G!RequestId, Id, GenInv, GenType
<1>1. CASE (actor[a].pc = "choose" \/ actor[a].pc = "pick") /\ G!Return(a, <<>>)
  <2>1. <<>> \in NewItems /\ \A p : <<>> # <<p>>
    BY DEF NewItems
  <2> QED BY <1>1, <2>1 DEF Returns
<1>2. ASSUME actor[a].pc = "choose",
             NEW t \in ActiveTrades, G!Return(a, <<<<"CLOSE", t, G!RequestId>>>>)
      PROVE  \E new \in NewItems :
                /\ Returns(a, new)
                /\ \A p : new = <<p>> /\ p[1] = "OPEN" => p[2] \in actor[a].books
  <2>0. <<"CLOSE", t, G!RequestId>> \in Item
    BY <1>0 DEF Item, ActiveTrades
  <2>1. PICK item \in Item : item = <<"CLOSE", t, G!RequestId>> /\ item[1] = "CLOSE"
    BY <2>0
  <2>2. <<item>> \in NewItems /\ \A p : <<item>> = <<p>> => p = item
    BY DEF NewItems
  <2>3. Returns(a, <<item>>)
    BY <1>2, <2>1 DEF Returns
  <2> QED BY <2>1, <2>2, <2>3
<1>3. ASSUME actor[a].pc = "pick",
             NEW b \in actor[a].books, G!Return(a, <<<<"OPEN", b, G!RequestId>>>>)
      PROVE  \E new \in NewItems :
                /\ Returns(a, new)
                /\ \A p : new = <<p>> /\ p[1] = "OPEN" => p[2] \in actor[a].books
  <2>0. <<"OPEN", b, G!RequestId>> \in Item
    <3>1. b \in Book
      BY DEF GenInv, GenType, ActorRec
    <3> QED BY <1>0, <3>1 DEF Item
  <2>1. PICK item \in Item : item = <<"OPEN", b, G!RequestId>> /\ item[2] = b
    BY <2>0
  <2>2. <<item>> \in NewItems /\ \A p : <<item>> = <<p>> => p = item
    BY DEF NewItems
  <2>3. Returns(a, <<item>>)
    BY <1>3, <2>1 DEF Returns
  <2> QED BY <2>1, <2>2, <2>3
<1> QED BY <1>1, <1>2, <1>3 DEF Build, G!ChooseClose, G!Pick

\* An intention to open a trade in b takes the place of the answer that lists b.
LEMMA DeskBuild ==
    ASSUME DeskInv, GenInv', NEW a \in G!Actor, Build(a),
           UNCHANGED <<book, deleting, retired, stragglers, direct, trade, intake>>
    PROVE  DeskInv'
<1>1. PICK new \in NewItems :
            /\ Returns(a, new)
            /\ \A p : new = <<p>> /\ p[1] = "OPEN" => p[2] \in actor[a].books
  BY BuildReturns DEF DeskInv
<1>2. /\ Choosing' \subseteq Choosing
      /\ \A b \in Book : Wanting(b)' \subseteq Wanting(b) \ {a}
      /\ \A p \in Carried' : p \in Carried \/ new = <<p>>
  BY <1>1, ReturnCarries DEF DeskInv
<1>3. PICK item : \A p \in Pending' : p \in Pending \/ (p = item /\ new = <<item>>)
  <2>1. CASE new = <<>>
    BY <1>2, <2>1 DEF Pending
  <2>2. ASSUME NEW one \in Item, new = <<one>>
        PROVE  \E item : \A p \in Pending' : p \in Pending \/ (p = item /\ new = <<item>>)
    BY <1>2, <2>2 DEF Pending
  <2> QED BY <2>1, <2>2 DEF NewItems
<1>4. Finite'
  <2>1. Choosing' \in SUBSET Choosing /\ Pending' \in SUBSET (Pending \cup {item})
        /\ Opened' = Opened
    BY <1>2, <1>3 DEF Opened
  <2> QED BY <2>1, FS_AddElement, FS_Subset DEF DeskInv, Finite
<1>5. RowsType'
  BY DEF DeskInv, RowsType
<1>6. ASSUME NEW b \in Book PROVE MovesLoad(b)
  <2>1. Indirect(b)' \subseteq Indirect(b)
    BY DEF Indirect, B!ActiveTrades
  <2>2. ASSUME NEW p \in Coming(b)'
        PROVE  p \in Coming(b) \/ (p = item /\ a \in Wanting(b))
    <3>1. p \in Pending' /\ p[1] = "OPEN" /\ p[2] = b /\ p[3] \notin direct[b] /\ ~Existing(p[3])
      BY DEF Coming, Pending, Existing
    <3>2. CASE p \in Pending
      BY <3>1, <3>2 DEF Coming, Pending
    <3>3. CASE p = item /\ new = <<item>>
      <4>1. b \in actor[a].books
        BY <1>1, <3>1, <3>3
      <4> QED BY <3>3, <4>1 DEF Wanting
    <3> QED BY <1>3, <3>1, <3>2, <3>3
  <2>3. CASE a \in Wanting(b)
    <3>1. Coming(b)' \subseteq Coming(b) \cup {item} /\ Wanting(b)' \subseteq Wanting(b) \ {a}
      BY <1>2, <2>2
    <3> QED BY <2>1, <2>3, <3>1 DEF MovesLoad, Moves
  <2>4. CASE a \notin Wanting(b)
    <3>1. Coming(b)' \subseteq Coming(b) /\ Wanting(b)' \subseteq Wanting(b)
      BY <1>2, <2>2, <2>4
    <3> QED BY <2>1, <3>1 DEF MovesLoad, Moves
  <2> QED BY <2>3, <2>4
<1> QED BY <1>4, <1>5, <1>6, GoneKept

\* GET /books is served: no DELETE is under way, and no deleted book is listed.
LEMMA DeskFetch ==
    ASSUME DeskInv, GenInv', NEW a \in G!Actor, FetchBooks(a)
    PROVE  DeskInv'
<1>1. PICK answer \in SUBSET Book : B!GetBooks(answer) /\ G!FetchBooks(a, answer)
  BY DEF FetchBooks
<1>2. /\ deleting = NoBook /\ UNCHANGED <<book, deleting>>
      /\ answer = {} \/ answer = B!Listed
  BY <1>1 DEF B!GetBooks, B!Free, B!Breaks
<1>3. UNCHANGED <<retired, stragglers, direct, trade, intake>>
  BY DEF FetchBooks, history
<1>4. /\ \A o \in G!Actor : o # a => actor'[o] = actor[o]
      /\ actor'[a].books = answer /\ actor'[a].items = actor[a].items
  <2>1. PICK was \in ActorRec : was = actor[a]
    BY DEF DeskInv, GenInv, GenType
  <2>2. PICK rec : rec = [was EXCEPT !.pc = "pick", !.books = answer]
    OBVIOUS
  <2>3. rec.books = answer /\ rec.items = was.items
    BY <2>2 DEF ActorRec
  <2>4. actor' = [actor EXCEPT ![a] = rec] /\ actor \in [G!Actor -> ActorRec]
    BY <1>1, <2>1, <2>2, Zenon DEF G!FetchBooks, DeskInv, GenInv, GenType
  <2> QED BY <2>1, <2>3, <2>4
<1>5. Pending' = Pending /\ Choosing' \subseteq Choosing \cup {a}
      /\ \A b \in Book : b \notin answer => Wanting(b)' \subseteq Wanting(b)
  <2>1. Carried' = Carried
    <3>1. \A o \in G!Actor : actor'[o].items = actor[o].items
      BY <1>4
    <3> QED BY <3>1 DEF Carried, G!Actor
  <2>2. Choosing' \subseteq Choosing \cup {a}
    BY <1>4 DEF Choosing, G!Actor
  <2>3. \A b \in Book : b \notin answer => Wanting(b)' \subseteq Wanting(b)
    BY <1>4 DEF Wanting, G!Actor
  <2> QED BY <1>3, <2>1, <2>2, <2>3 DEF Pending
<1>6. RowsType' /\ Finite'
  <2>1. Choosing' \in SUBSET (Choosing \cup {a}) /\ Opened' = Opened
    BY <1>3, <1>5 DEF Opened
  <2>2. Finite'
    BY <1>5, <2>1, FS_AddElement, FS_Subset DEF DeskInv, Finite
  <2> QED BY <1>2, <1>3, <2>2 DEF DeskInv, RowsType
<1>7. ASSUME NEW b \in Book, b \in retired \/ b = deleting PROVE MovesLoad(b)
  <2>1. b \notin answer
    BY <1>2, <1>7, DeskAssumption DEF B!Listed, DeskInv, Gone
  <2>2. Indirect(b)' = Indirect(b) /\ Coming(b)' = Coming(b)
    BY <1>3, <1>5 DEF Indirect, B!ActiveTrades, Coming, Pending, Existing
  <2> QED BY <1>5, <2>1, <2>2 DEF MovesLoad, Moves
<1> QED BY <1>2, <1>3, <1>6, <1>7, GoneKept

\* A POST /trade-intentions arrives, in part or not at all: what is enqueued was
\* carried.
LEMMA DeskSend ==
    ASSUME DeskInv, GenInv', NEW a \in G!Actor, Send(a)
    PROVE  DeskInv'
<1>1. Posts(a) /\ UNCHANGED <<book, deleting, retired, stragglers, direct, trade>>
  BY DEF Send, Posts, books, history
<1>2. \A o \in G!Actor : Fades(o)
  BY <1>1, MostFade DEF DeskInv
<1>3. \E n \in 0..Len(actor[a].items) : intake' = intake \cup FirstOf(a, n)
  <2>1. PICK l \in Nat : l = Len(actor[a].items)
    BY DEF DeskInv, GenInv, GenType, ActorRec
  <2> QED BY <2>1 DEF Send
<1>4. PICK n \in 0..Len(actor[a].items) : intake' = intake \cup FirstOf(a, n)
  BY <1>3
<1>5. FirstOf(a, n) \subseteq Carried
  <2>1. PICK s \in Seq(Item) : s = actor[a].items
    BY DEF DeskInv, GenInv, GenType, ActorRec
  <2>2. \A i \in 1..n : i \in DOMAIN s
    <3>1. DOMAIN s = 1..Len(s) /\ Len(s) \in Nat /\ n \in 0..Len(s)
      BY <2>1
    <3> QED BY <3>1
  <2> QED BY <2>1, <2>2 DEF FirstOf, Carried
<1> QED BY <1>1, <1>2, <1>4, <1>5, DeskFades DEF Pending

\* A payload of another caller, under request r.
PostsOne(r, item) ==
    /\ intake' = intake \cup {item} /\ item[3] = r
    /\ \/ /\ item[1] = "OPEN" /\ item[2] \in Book
          /\ direct' = [direct EXCEPT ![item[2]] = @ \cup {r}]
       \/ item[1] = "CLOSE" /\ direct' = direct

\* Another caller posts: the request is in direct[b] from then on.
LEMMA DeskPost ==
    ASSUME DeskInv, GenInv', PostDirectly
    PROVE  DeskInv'
<1>1. UNCHANGED <<book, deleting, retired, stragglers, trade, actor>>
  BY DEF PostDirectly, books, generator
<1>2. PICK r \in ForeignId, item \in Item : PostsOne(r, item)
  <2>1. PICK r \in ForeignId :
              \/ \E b \in Book : /\ intake' = intake \cup {<<"OPEN", b, r>>}
                                 /\ direct' = [direct EXCEPT ![b] = @ \cup {r}]
              \/ \E t \in TradeId : /\ intake' = intake \cup {<<"CLOSE", t, r>>}
                                    /\ direct' = direct
    BY DEF PostDirectly, B!Rows
  <2>2. ASSUME NEW b \in Book, intake' = intake \cup {<<"OPEN", b, r>>},
               direct' = [direct EXCEPT ![b] = @ \cup {r}]
        PROVE  \E item \in Item : PostsOne(r, item)
    <3>1. <<"OPEN", b, r>> \in Item
      BY DEF Item, Id
    <3>2. PICK item \in Item : item = <<"OPEN", b, r>> /\ item[1] = "OPEN" /\ item[2] = b
                               /\ item[3] = r
      BY <3>1
    <3> QED BY <2>2, <3>2 DEF PostsOne
  <2>3. ASSUME NEW t \in TradeId, intake' = intake \cup {<<"CLOSE", t, r>>}, direct' = direct
        PROVE  \E item \in Item : PostsOne(r, item)
    <3>1. <<"CLOSE", t, r>> \in Item
      BY DEF Item, Id
    <3>2. PICK item \in Item : item = <<"CLOSE", t, r>> /\ item[1] = "CLOSE" /\ item[3] = r
      BY <3>1
    <3> QED BY <2>3, <3>2 DEF PostsOne
  <2> QED BY <2>1, <2>2, <2>3
<1>3. /\ direct \in [Book -> SUBSET ForeignId] /\ direct' \in [Book -> SUBSET ForeignId]
      /\ \A b \in Book : direct[b] \subseteq direct'[b]
      /\ \A b \in Book : item[1] = "OPEN" /\ item[2] = b => item[3] \in direct'[b]
  <2>1. direct \in [Book -> SUBSET ForeignId]
    BY DEF DeskInv, RowsType
  <2> QED BY <1>2, <2>1 DEF PostsOne
<1>4. RowsType'
  BY <1>1, <1>2, <1>3 DEF DeskInv, RowsType, PostsOne
<1>5. Carried' = Carried /\ Choosing' = Choosing /\ Opened' = Opened
      /\ \A b \in Book : Wanting(b)' = Wanting(b)
  BY <1>1 DEF Carried, Choosing, Opened, Wanting, G!Actor
<1>6. Finite'
  <2>1. Pending' \in SUBSET (Pending \cup {item})
    BY <1>2, <1>5 DEF Pending, PostsOne
  <2> QED BY <1>5, <2>1, FS_AddElement, FS_Subset DEF DeskInv, Finite
<1>7. ASSUME NEW b \in Book PROVE MovesLoad(b)
  <2>1. Indirect(b)' \subseteq Indirect(b)
    BY <1>1, <1>3 DEF Indirect, B!ActiveTrades
  <2>2. ASSUME NEW p \in Coming(b)' PROVE p \in Coming(b)
    <3>1. /\ p \in intake' \cup Carried' /\ p[1] = "OPEN" /\ p[2] = b
          /\ p[3] \notin direct'[b] /\ ~Existing(p[3])'
      BY DEF Coming
    <3>2. p # item /\ p[3] \notin direct[b] /\ ~Existing(p[3])
      BY <1>1, <1>3, <3>1 DEF Existing
    <3> QED BY <1>2, <1>5, <3>1, <3>2 DEF Coming, PostsOne
  <2> QED BY <1>5, <2>1, <2>2 DEF MovesLoad, Moves
<1> QED BY <1>1, <1>4, <1>6, <1>7, GoneKept

\* The worker opens a trade in place of a payload, or closes one, or does not.
LEMMA DeskProcess ==
    ASSUME DeskInv, GenInv', NEW p \in intake, Process(p)
    PROVE  DeskInv'
<1>1. /\ UNCHANGED <<book, deleting, retired, stragglers, direct, actor>>
      /\ intake' \subseteq intake
  BY DEF Process, books, history, generator
<1>2. trade \in [TradeId -> {NoRow} \cup TradeRow] /\ IsFiniteSet(Opened) /\ p \in Item
  BY DEF DeskInv, RowsType, Finite
<1>3. /\ Carried' = Carried /\ Choosing' = Choosing /\ Pending' \subseteq Pending
      /\ \A b \in Book : Wanting(b)' = Wanting(b)
  <2>1. Carried' = Carried /\ Choosing' = Choosing /\ \A b \in Book : Wanting(b)' = Wanting(b)
    BY <1>1 DEF Carried, Choosing, Wanting, G!Actor
  <2> QED BY <1>1, <2>1 DEF Pending

\* What is left to show of a step that writes one row.
<1>4. ASSUME NEW t \in TradeId, NEW row \in TradeRow, trade' = [trade EXCEPT ![t] = row],
             trade[t] # NoRow => row.openedBy = trade[t].openedBy,
             \A b \in Book : MovesLoad(b)
      PROVE  DeskInv'
  <2>1. RowsType'
    BY <1>1, <1>2, <1>4 DEF DeskInv, RowsType
  <2>2. Finite'
    <3>1. Opened' \in SUBSET (Opened \cup {t}) /\ Pending' \in SUBSET Pending
      BY <1>2, <1>3, <1>4 DEF Opened
    <3> QED BY <1>3, <3>1, FS_AddElement, FS_Subset DEF DeskInv, Finite
  <2> QED BY <1>1, <1>4, <2>1, <2>2, GoneKept
<1>5. ASSUME NEW t \in TradeId, NEW row \in TradeRow, trade' = [trade EXCEPT ![t] = row],
             trade[t] # NoRow => row.openedBy = trade[t].openedBy
      PROVE  /\ \A r \in Id : Existing(r) => Existing(r)'
             /\ Existing(row.openedBy)'
             /\ \A b \in Book : Coming(b)' \subseteq Coming(b)
  <2>1. row # NoRow
    BY DeskAssumption DEF TradeRow, Id
  <2>2. \A r : Existing(r) => Existing(r)'
    BY <1>2, <1>5, <2>1 DEF Existing
  <2>3. Existing(row.openedBy)'
    BY <1>2, <1>5, <2>1 DEF Existing
  <2>4. ASSUME NEW b \in Book PROVE Coming(b)' \subseteq Coming(b)
    BY <1>1, <1>3, <2>2 DEF Coming, Pending
  <2> QED BY <2>2, <2>3, <2>4

<1>6. CASE UNCHANGED trade
  <2>1. RowsType' /\ Finite'
    <3>1. Opened' = Opened /\ Pending' \in SUBSET Pending
      BY <1>3, <1>6 DEF Opened
    <3>2. Finite'
      BY <1>3, <3>1, FS_Subset DEF DeskInv, Finite
    <3> QED BY <1>1, <1>6, <3>2 DEF DeskInv, RowsType
  <2>2. ASSUME NEW b \in Book PROVE MovesLoad(b)
    <3>1. Indirect(b)' = Indirect(b) /\ Coming(b)' \subseteq Coming(b)
      BY <1>1, <1>3, <1>6 DEF Indirect, B!ActiveTrades, Coming, Pending, Existing
    <3> QED BY <1>3, <3>1 DEF MovesLoad, Moves
  <2> QED BY <1>1, <2>1, <2>2, GoneKept
<1>7. ASSUME p[1] = "OPEN", ~Existing(p[3]), \E t \in TradeId : trade[t] = NoRow,
             trade' = [trade EXCEPT ![NewTrade] =
                          [book |-> p[2], status |-> "ACTIVE", openedBy |-> p[3]]]
      PROVE  DeskInv'
  <2>1. PICK new \in TradeId : new = NewTrade /\ trade[new] = NoRow
    BY <1>7, Zenon DEF NewTrade
  <2>2. p[2] \in Book /\ p[3] \in Id
    BY <1>2, <1>7 DEF Item
  <2>3. PICK row \in TradeRow : /\ row = [book |-> p[2], status |-> "ACTIVE", openedBy |-> p[3]]
                                /\ row.book = p[2] /\ row.openedBy = p[3]
    <3>1. [book |-> p[2], status |-> "ACTIVE", openedBy |-> p[3]] \in TradeRow
      BY <2>2 DEF TradeRow
    <3> QED BY <3>1
  <2>4. trade' = [trade EXCEPT ![new] = row]
    BY <1>7, <2>1, <2>3
  <2>5. Existing(p[3])' /\ \A b \in Book : Coming(b)' \subseteq Coming(b)
    BY <1>5, <2>1, <2>3, <2>4
  <2>6. ASSUME NEW b \in Book PROVE MovesLoad(b)
    <3>1. ASSUME NEW t \in Indirect(b)'
          PROVE  t \in Indirect(b) \/ (t = new /\ p[2] = b /\ p[3] \notin direct[b])
      <4>1. /\ t \in TradeId /\ trade'[t] # NoRow /\ trade'[t].book = b
            /\ trade'[t].status = "ACTIVE" /\ trade'[t].openedBy \notin direct[b]
        BY <1>1 DEF Indirect, B!ActiveTrades
      <4>2. CASE t = new
        BY <1>2, <2>3, <2>4, <4>1, <4>2
      <4>3. CASE t # new
        BY <1>2, <2>4, <4>1, <4>3 DEF Indirect, B!ActiveTrades
      <4> QED BY <4>2, <4>3
    <3>2. CASE p[2] = b /\ p[3] \notin direct[b]
      <4>1. p \in Coming(b)
        BY <1>7, <3>2 DEF Coming
      <4>2. p \notin Coming(b)'
        BY <2>5 DEF Coming
      <4>3. Coming(b)' \subseteq Coming(b) \ {p} /\ Indirect(b)' \subseteq Indirect(b) \cup {new}
        BY <2>5, <3>1, <4>2
      <4> QED BY <1>3, <4>1, <4>3 DEF MovesLoad, Moves
    <3>3. CASE ~(p[2] = b /\ p[3] \notin direct[b])
      <4>1. Indirect(b)' \subseteq Indirect(b)
        BY <3>1, <3>3
      <4> QED BY <1>3, <2>5, <4>1 DEF MovesLoad, Moves
    <3> QED BY <3>2, <3>3
  <2> QED BY <1>4, <2>1, <2>4, <2>6
<1>8. ASSUME p[2] \in ActiveTrades, trade' = [trade EXCEPT ![p[2]].status = "CLOSED"]
      PROVE  DeskInv'
  <2>1. PICK old \in TradeId : old = p[2] /\ trade[old] # NoRow
    BY <1>8 DEF ActiveTrades
  <2>2. PICK was \in TradeRow : was = trade[old]
    BY <1>2, <2>1
  <2>3. PICK row : row = [was EXCEPT !.status = "CLOSED"]
    OBVIOUS
  <2>4. row \in TradeRow /\ row.status = "CLOSED" /\ row.openedBy = was.openedBy
    BY <2>3 DEF TradeRow
  <2>5. trade' = [trade EXCEPT ![old] = row]
    BY <1>2, <1>8, <2>1, <2>2, <2>3
  <2>6. \A b \in Book : Coming(b)' \subseteq Coming(b)
    BY <1>5, <2>2, <2>4, <2>5
  <2>7. ASSUME NEW b \in Book PROVE MovesLoad(b)
    <3>1. ASSUME NEW t \in Indirect(b)' PROVE t \in Indirect(b)
      <4>1. /\ t \in TradeId /\ trade'[t] # NoRow /\ trade'[t].book = b
            /\ trade'[t].status = "ACTIVE" /\ trade'[t].openedBy \notin direct[b]
        BY <1>1 DEF Indirect, B!ActiveTrades
      <4>2. t # old
        BY <1>2, <2>4, <2>5, <4>1
      <4> QED BY <1>2, <2>5, <4>1, <4>2 DEF Indirect, B!ActiveTrades
    <3> QED BY <1>3, <2>6, <3>1 DEF MovesLoad, Moves
  <2> QED BY <1>4, <2>2, <2>4, <2>5, <2>7
<1> QED BY <1>6, <1>7, <1>8 DEF Process

\* A request to books-service leaves what books take in, but for the requests
\* of other callers that DELETE forgets.
LEMMA BooksLeave ==
    ASSUME DeskInv, UNCHANGED <<trade, actor, intake>>
    PROVE  /\ Finite' /\ Loads'
           /\ \A b \in Book : /\ Load(b) \in Nat
                              /\ direct'[b] = direct[b] => Load(b)' = Load(b)
<1>1. Finite' /\ Loads /\ Loads'
  <2>1. Finite'
    BY DEF DeskInv, Finite, Opened, Choosing, Pending, Carried, G!Actor
  <2> QED BY <2>1, LoadsNow, LoadsThen DEF DeskInv
<1>2. ASSUME NEW b \in Book, direct'[b] = direct[b] PROVE Load(b)' = Load(b)
  <2>1. Indirect(b)' = Indirect(b)
    BY <1>2 DEF Indirect, B!ActiveTrades
  <2>2. Coming(b)' = Coming(b) /\ Wanting(b)' = Wanting(b)
    BY <1>2 DEF Coming, Carried, Existing, Wanting, G!Actor
  <2> QED BY <2>1, <2>2 DEF Load, OnTheirWay
<1> QED BY <1>1, <1>2 DEF Loads

\* POST /books makes books that are active, under new identifiers.
LEMMA CreateType ==
    ASSUME DeskInv, CreateBooks
    PROVE  /\ deleting = NoBook /\ deleting' = NoBook
           /\ book' \in [Book -> {NoRow} \cup BookRow]
           /\ \A b \in B!Rows : book'[b] = book[b]
<1>1. deleting = NoBook /\ deleting' = NoBook
  BY DEF CreateBooks, B!CreateBooks, B!Free
<1>2. book \in [Book -> {NoRow} \cup BookRow]
  BY DEF DeskInv, RowsType
<1>3. ASSUME NEW names \in B!Payloads, B!Acceptable(names),
             NEW id \in [DOMAIN names -> Book \ B!Rows],
             book' = [b \in Book |->
                        IF \E i \in DOMAIN names : id[i] = b
                        THEN [name |-> names[CHOOSE i \in DOMAIN names : id[i] = b],
                              active |-> TRUE]
                        ELSE book[b]]
      PROVE  /\ book' \in [Book -> {NoRow} \cup BookRow]
             /\ \A b \in B!Rows : book'[b] = book[b]
  <2>1. \A i \in DOMAIN names : names[i] \in Name
    <3>1. PICK n \in 1..MaxBatch : names \in [1..n -> Name \cup {NoName}]
      BY DEF B!Payloads
    <3>2. \A i \in DOMAIN names : names[i] # NoName
      BY <1>3 DEF B!Acceptable
    <3> QED BY <3>1, <3>2
  <2>2. ASSUME NEW b \in Book PROVE book'[b] \in {NoRow} \cup BookRow
    <3>1. CASE \E i \in DOMAIN names : id[i] = b
      <4>1. PICK j \in DOMAIN names : j = CHOOSE i \in DOMAIN names : id[i] = b
        BY <3>1
      <4>2. book'[b] = [name |-> names[j], active |-> TRUE]
        BY <1>3, <3>1, <4>1
      <4> QED BY <2>1, <4>2 DEF BookRow
    <3>2. CASE ~ \E i \in DOMAIN names : id[i] = b
      BY <1>2, <1>3, <3>2
    <3> QED BY <3>1, <3>2
  <2>3. ASSUME NEW b \in B!Rows PROVE book'[b] = book[b]
    <3>1. b \in Book /\ ~ \E i \in DOMAIN names : id[i] = b
      BY DEF B!Rows
    <3> QED BY <1>3, <3>1
  <2> QED BY <1>3, <2>2, <2>3
<1>4. CASE book' = book
  BY <1>1, <1>2, <1>4 DEF B!Rows
<1> QED BY <1>1, <1>3, <1>4 DEF CreateBooks, B!CreateBooks, B!Raised

\* PUT and DELETE /books/<book_id> on the table.
LEMMA UpdateType ==
    ASSUME DeskInv, NEW b \in Book, UpdateBook(b)
    PROVE  /\ deleting = NoBook /\ deleting' = NoBook
           /\ book' \in [Book -> {NoRow} \cup BookRow]
           /\ \A c \in Book : c # b => book'[c] = book[c]
           /\ book' # book => book'[b] \in BookRow
<1>1. deleting = NoBook /\ deleting' = NoBook
  BY DEF UpdateBook, B!UpdateBook, B!Free
<1>2. book \in [Book -> {NoRow} \cup BookRow]
  BY DEF DeskInv, RowsType
<1>3. ASSUME NEW name \in Name, NEW active \in BOOLEAN,
             book' = [book EXCEPT ![b] = [name |-> name, active |-> active]]
      PROVE  /\ book' \in [Book -> {NoRow} \cup BookRow]
             /\ \A c \in Book : c # b => book'[c] = book[c]
             /\ book'[b] \in BookRow
  <2>1. PICK row \in BookRow : row = [name |-> name, active |-> active]
    <3>1. [name |-> name, active |-> active] \in BookRow
      BY DEF BookRow
    <3> QED BY <3>1
  <2>2. book' = [book EXCEPT ![b] = row]
    BY <1>3, <2>1
  <2> QED BY <1>2, <2>2
<1>4. CASE book' = book
  BY <1>1, <1>2, <1>4 DEF B!Rows
<1> QED BY <1>1, <1>3, <1>4 DEF UpdateBook, B!UpdateBook, B!Refuse, B!Breaks

\* The commit of delete_book deactivates one row, or fails.
LEMMA DeactivateType ==
    ASSUME DeskInv, Deactivate
    PROVE  /\ deleting \in Book /\ deleting' = NoBook
           /\ book' \in [Book -> {NoRow} \cup BookRow]
           /\ \A c \in Book : c # deleting => book'[c] = book[c]
           /\ \/ book'[deleting] # NoRow /\ ~book'[deleting].active
              \/ book' = book /\ session' # "clean"
<1>1. deleting \in Book /\ deleting' = NoBook
  BY DEF Deactivate, B!Deactivate, DeskInv, RowsType
<1>2. book \in [Book -> {NoRow} \cup BookRow]
  BY DEF DeskInv, RowsType
<1>3. CASE book' = [book EXCEPT ![deleting].active = FALSE]
  <2>1. PICK was \in BookRow : was = book[deleting]
    BY <1>1, <1>2 DEF DeskInv, Gone
  <2>2. PICK row : row = [was EXCEPT !.active = FALSE]
    OBVIOUS
  <2>3. row \in BookRow /\ ~row.active
    BY <2>2 DEF BookRow
  <2>4. book' = [book EXCEPT ![deleting] = row]
    BY <1>1, <1>2, <1>3, <2>1, <2>2
  <2>5. row # NoRow
    BY <2>3, DeskAssumption DEF BookRow
  <2> QED BY <1>1, <1>2, <2>3, <2>4, <2>5
<1>4. CASE book' = book /\ session' # "clean"
  BY <1>1, <1>2, <1>4
<1> QED BY <1>3, <1>4 DEF Deactivate, B!Deactivate, B!Breaks

\* Requests to books-service.
LEMMA DeskBooks ==
    ASSUME DeskInv, GenInv',
           \/ CreateBooks \/ GetBook \/ Deactivate
           \/ \E b \in Book : UpdateBook(b) \/ CountTrades(b)
    PROVE  DeskInv'
<1>0. UNCHANGED <<trade, actor, intake>>
  BY DEF CreateBooks, GetBook, Deactivate, UpdateBook, CountTrades, generator
<1>1. /\ Finite' /\ Loads'
      /\ \A b \in Book : /\ Load(b) \in Nat
                         /\ direct'[b] = direct[b] => Load(b)' = Load(b)
  BY <1>0, BooksLeave
<1>2. RowsType /\ Gone
  BY DEF DeskInv
<1>3. CASE CreateBooks
  <2>1. /\ deleting' = NoBook /\ book' \in [Book -> {NoRow} \cup BookRow]
        /\ \A b \in B!Rows : book'[b] = book[b]
    BY <1>3, CreateType
  <2>2. UNCHANGED <<retired, stragglers, direct>>
    BY <1>3 DEF CreateBooks, history
  <2>3. RowsType'
    BY <1>0, <1>2, <2>1, <2>2 DEF RowsType
  <2>4. retired \subseteq B!Rows
    BY <1>2 DEF RowsType, Gone, B!Rows
  <2>5. Gone'
    BY <1>1, <1>2, <2>1, <2>2, <2>4, DeskAssumption DEF Gone
  <2> QED BY <1>1, <2>3, <2>5 DEF DeskInv
<1>4. CASE GetBook
  <2>1. UNCHANGED <<book, deleting, retired, stragglers, direct>>
    BY <1>4 DEF GetBook, B!GetBook, B!Breaks, history
  <2>2. RowsType'
    BY <1>0, <1>2, <2>1 DEF RowsType
  <2>3. Gone'
    BY <1>1, <1>2, <2>1 DEF Gone
  <2> QED BY <1>1, <2>2, <2>3 DEF DeskInv
<1>5. ASSUME NEW b \in Book, UpdateBook(b) PROVE DeskInv'
  <2>1. /\ deleting' = NoBook /\ book' \in [Book -> {NoRow} \cup BookRow]
        /\ \A c \in Book : c # b => book'[c] = book[c]
        /\ book' # book => book'[b] \in BookRow
    BY <1>5, UpdateType
  <2>2. /\ stragglers' = stragglers /\ direct' = direct
        /\ retired' = IF book' # book /\ book'[b].active THEN retired \ {b} ELSE retired
    BY <1>5 DEF UpdateBook
  <2>3. RowsType'
    BY <1>0, <1>2, <2>1, <2>2 DEF RowsType
  <2>4. ASSUME NEW c \in retired' PROVE book'[c] # NoRow /\ ~book'[c].active
    <3>1. c \in retired /\ c \in Book /\ book[c] # NoRow /\ ~book[c].active
      BY <1>2, <2>2, <2>4 DEF RowsType, Gone
    <3>2. CASE book' = book \/ c # b
      BY <2>1, <3>1, <3>2
    <3>3. CASE book' # book /\ c = b
      <4>1. ~book'[c].active
        BY <2>2, <2>4, <3>3
      <4>2. book'[c] \in BookRow
        BY <2>1, <3>3
      <4> QED BY <4>1, <4>2, DeskAssumption DEF BookRow
    <3> QED BY <3>2, <3>3
  <2>5. retired' \subseteq retired /\ deleting' \notin Book
    BY <2>1, <2>2, DeskAssumption
  <2>6. Gone'
    BY <1>1, <1>2, <2>2, <2>4, <2>5 DEF Gone
  <2> QED BY <1>1, <2>3, <2>6 DEF DeskInv
<1>6. ASSUME NEW b \in Book, CountTrades(b) PROVE DeskInv'
  <2>1. /\ deleting = NoBook /\ UNCHANGED <<book, retired>>
        /\ \/ deleting' = NoBook
           \/ deleting' = b /\ b \in B!Rows /\ B!ActiveTrades(b) = {}
        /\ direct' = IF deleting' = b THEN [direct EXCEPT ![b] = {}] ELSE direct
        /\ stragglers' = IF deleting' = b THEN [stragglers EXCEPT ![b] = OnTheirWay(b)']
                         ELSE stragglers
    BY <1>6 DEF CountTrades, B!CountTrades, B!Free, B!Refuse, B!Breaks
  <2>2. CASE deleting' = NoBook
    <3>1. stragglers' = stragglers /\ direct' = direct
      BY <2>1, <2>2, DeskAssumption
    <3>2. RowsType'
      BY <1>0, <1>2, <2>1, <2>2, <3>1 DEF RowsType
    <3>3. Gone'
      BY <1>1, <1>2, <2>1, <2>2, <3>1, DeskAssumption DEF Gone
    <3> QED BY <1>1, <3>2, <3>3 DEF DeskInv
  <2>3. CASE deleting' = b /\ b \in B!Rows /\ B!ActiveTrades(b) = {}
    <3>1. PICK n \in Nat : n = OnTheirWay(b)'
      BY <1>1 DEF Loads
    <3>2. /\ stragglers' = [stragglers EXCEPT ![b] = n]
          /\ direct' = [direct EXCEPT ![b] = {}]
      BY <2>1, <2>3, <3>1
    <3>3. Load(b)' = n
      <4>1. Indirect(b)' = {}
        BY <1>0, <2>3 DEF Indirect, B!ActiveTrades
      <4>2. Cardinality(Indirect(b)') = 0
        BY <4>1, FS_EmptySet
      <4>3. Load(b)' = Cardinality(Indirect(b)') + OnTheirWay(b)'
        BY DEF Load
      <4> QED BY <3>1, <4>2, <4>3
    <3>4. RowsType'
      BY <1>0, <1>2, <2>1, <2>3, <3>2 DEF RowsType
    <3>5. ASSUME NEW c \in Book, c \in retired' \/ c = deleting'
          PROVE  Load(c)' <= stragglers'[c]
      <4>1. stragglers \in [Book -> Nat] /\ direct \in [Book -> SUBSET ForeignId]
        BY <1>2 DEF RowsType
      <4>2. CASE c = b
        BY <3>2, <3>3, <4>1, <4>2
      <4>3. CASE c # b
        <5>1. Load(c)' = Load(c)
          BY <1>1, <3>2, <4>1, <4>3
        <5>2. Load(c) <= stragglers[c]
          BY <1>2, <2>1, <2>3, <3>5, <4>3 DEF Gone
        <5> QED BY <3>2, <4>1, <4>3, <5>1, <5>2
      <4> QED BY <4>2, <4>3
    <3>6. Gone'
      BY <1>2, <2>1, <2>3, <3>5 DEF Gone, B!Rows
    <3> QED BY <1>1, <3>4, <3>6 DEF DeskInv
  <2> QED BY <2>1, <2>2, <2>3
<1>7. CASE Deactivate
  <2>1. /\ deleting \in Book /\ deleting' = NoBook
        /\ book' \in [Book -> {NoRow} \cup BookRow]
        /\ \A c \in Book : c # deleting => book'[c] = book[c]
        /\ \/ book'[deleting] # NoRow /\ ~book'[deleting].active
           \/ book' = book /\ session' # "clean"
    BY <1>7, DeactivateType
  <2>2. /\ stragglers' = stragglers /\ direct' = direct
        /\ retired' = IF session' = "clean" THEN retired \cup {deleting} ELSE retired
    BY <1>7 DEF Deactivate
  <2>3. RowsType'
    BY <1>0, <1>2, <2>1, <2>2 DEF RowsType
  <2>4. ASSUME NEW c \in retired' PROVE book'[c] # NoRow /\ ~book'[c].active
    BY <1>2, <2>1, <2>2, <2>4 DEF RowsType, Gone
  <2>5. Gone'
    BY <1>1, <1>2, <2>1, <2>2, <2>4, DeskAssumption DEF Gone
  <2> QED BY <1>1, <2>3, <2>5 DEF DeskInv
<1> QED BY <1>3, <1>4, <1>5, <1>6, <1>7

\* At first no book is gone.
LEMMA DeskInit == Init => DeskInv
<1> SUFFICES ASSUME Init PROVE DeskInv
  OBVIOUS
<1>1. GenInv
  BY GenInit
<1>2. RowsType
  BY DEF Init, B!Init, RowsType
<1>3. \A a \in G!Actor : actor[a].items = <<>> /\ actor[a].books = {}
  BY DEF Init, G!Init, G!At
<1>4. Opened = {} /\ Choosing = {} /\ Pending = {}
  BY <1>3 DEF Opened, Choosing, Pending, Carried, Init
<1>5. Finite
  BY <1>4, FS_EmptySet DEF Finite
<1>6. Gone
  BY DeskAssumption DEF Gone, Init, B!Init
<1> QED BY <1>1, <1>2, <1>5, <1>6 DEF DeskInv

\* Every step keeps the invariant of the desk.
LEMMA DeskNext == DeskInv /\ [Next]_vars => DeskInv'
<1> SUFFICES ASSUME DeskInv, [Next]_vars PROVE DeskInv'
  OBVIOUS
<1>1. GenInv'
  BY GenNext DEF DeskInv
<1>2. CASE \/ CreateBooks \/ GetBook \/ Deactivate
           \/ \E b \in Book : UpdateBook(b) \/ CountTrades(b)
  BY <1>1, <1>2, DeskBooks
<1>3. ASSUME NEW c \in Caller, Control(c) PROVE DeskInv'
  <2>1. UNCHANGED <<book, deleting, retired, stragglers, direct, trade, intake>>
    BY <1>3 DEF Control, books, history
  <2>2. \A a \in G!Actor : Fades(a)
    BY <1>3, MostFade DEF Control, DeskInv
  <2> QED BY <1>1, <2>1, <2>2, DeskFades DEF Pending
<1>4. CASE Internal /\ UNCHANGED <<books, trade, faults, intake, requests, history>>
  <2>1. UNCHANGED <<book, deleting, retired, stragglers, direct, trade, intake>>
    BY <1>4 DEF books, history
  <2>2. ASSUME NEW a \in G!Actor, Build(a) PROVE DeskInv'
    BY <1>1, <2>1, <2>2, DeskBuild
  <2>3. CASE (\E c \in Caller : FinishStart(c)) \/ (\E t \in Thread : Loop(t))
    <3>1. \A a \in G!Actor : Fades(a)
      BY <2>3, MostFade DEF FinishStart, Loop, DeskInv
    <3> QED BY <1>1, <2>1, <3>1, DeskFades DEF Pending
  <2> QED BY <1>4, <2>2, <2>3 DEF Internal
<1>5. ASSUME NEW t \in Thread, AuditFails(t) PROVE DeskInv'
  <2>1. UNCHANGED <<book, deleting, retired, stragglers, direct, trade, intake>>
    BY <1>5 DEF AuditFails, books, history
  <2>2. \A a \in G!Actor : Fades(a)
    BY <1>5, MostFade DEF AuditFails, DeskInv
  <2> QED BY <1>1, <2>1, <2>2, DeskFades DEF Pending
<1>6. ASSUME NEW a \in G!Actor, FetchBooks(a) \/ Send(a) PROVE DeskInv'
  BY <1>1, <1>6, DeskFetch, DeskSend
<1>7. CASE PostDirectly \/ \E p \in intake : Process(p)
  BY <1>1, <1>7, DeskPost, DeskProcess
<1>8. CASE UNCHANGED vars
  <2>1. UNCHANGED <<book, deleting, retired, stragglers, direct, trade, intake>>
    BY <1>8 DEF vars
  <2>2. \A a \in G!Actor : Fades(a)
    BY <1>8 DEF vars, Fades
  <2> QED BY <1>1, <2>1, <2>2, DeskFades DEF Pending
<1> QED BY <1>2, <1>3, <1>4, <1>5, <1>6, <1>7, <1>8 DEF Next

\* The invariant of the desk holds of every behaviour.
LEMMA DeskInduction == Spec => []DeskInv
BY DeskInit, DeskNext, PTL DEF Spec

\* For every set of books, trades, threads and callers, any number of attempts
\* to POST, of copies they leave, and of requests: after DELETE /books has
\* deactivated a book, its active trades and the openings still to come, but for
\* those that other callers have POSTed since, are no more than what was on its
\* way when delete_book counted.
THEOREM DeletedBookSafe == Spec => []DeletedTakesNoMore
<1>1. DeskInv => DeletedTakesNoMore
  BY DEF DeskInv, RowsType, Gone, Load, DeletedTakesNoMore
<1> QED BY <1>1, DeskInduction, PTL
=============================================================================
