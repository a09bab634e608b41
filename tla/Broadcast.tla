----------------------------- MODULE Broadcast -----------------------------
(***************************************************************************)
(* What GET /stream promises its clients, without queues, locks or         *)
(* threads: ticks <<cycle, position>> are published one after the other,   *)
(* each to every member at once; members join and leave between two cycles *)
(* only; a member takes what it was sent in the order it was sent.         *)
(***************************************************************************)
EXTENDS Naturals, Sequences

CONSTANTS Reader, N, MaxCycle

VARIABLES last,     \* the tick that was published last
          members,  \* the readers that are being sent ticks
          past,     \* the readers that are members or have been
          sent,     \* sent[r]: every tick r was sent
          taken     \* taken[r]: those of them r has taken

vars == <<last, members, past, sent, taken>>

Following(tick) == IF tick[2] < N THEN <<tick[1], tick[2] + 1>> ELSE <<tick[1] + 1, 1>>
BetweenCycles == last[2] = N

\* One cycle is generated before anybody can connect.
Init == /\ last = <<1, N>>
        /\ members = {} /\ past = {}
        /\ sent = [r \in Reader |-> <<>>]
        /\ taken = [r \in Reader |-> <<>>]

Publish == /\ Following(last)[1] <= MaxCycle
           /\ last' = Following(last)
           /\ sent' = [r \in Reader |-> IF r \in members THEN Append(sent[r], last')
                                        ELSE sent[r]]
           /\ UNCHANGED <<members, past, taken>>

Join(r) == /\ BetweenCycles /\ r \notin past
           /\ members' = members \cup {r}
           /\ past' = past \cup {r}
           /\ UNCHANGED <<last, sent, taken>>

Leave(r) == /\ BetweenCycles
            /\ members' = members \ {r}
            /\ UNCHANGED <<last, past, sent, taken>>

Take(r) == /\ Len(taken[r]) < Len(sent[r])
           /\ taken' = [taken EXCEPT ![r] = Append(@, sent[r][Len(@) + 1])]
           /\ UNCHANGED <<last, members, past, sent>>

Next == Publish \/ \E r \in Reader : Join(r) \/ Leave(r) \/ Take(r)

Spec == Init /\ [][Next]_vars
=============================================================================
