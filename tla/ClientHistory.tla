--------------------------- MODULE ClientHistory ---------------------------
(***************************************************************************)
(* What the history of clients promises to those who ask for the state of  *)
(* a client at a time.  They are told one state or none.  A round asks all *)
(* clients there are and then tells of each what it saw, from the time it  *)
(* began at: what was told of earlier times stays so.  A client of whom    *)
(* nothing is known may stay so.  What is forgotten is older than what is  *)
(* kept.                                                                   *)
(***************************************************************************)
EXTENDS Naturals

CONSTANTS
  Clients,
  Data,     \* the states a client can be in
  NotSeen,  \* nothing is told
  MaxNow    \* bound on the time

Times == 0..MaxNow
Nothing == [t \in Times |-> NotSeen]

VARIABLES
  seen,   \* of each client: what the round that began at each time saw
  told,   \* of each client: the state that is told of each time
  step,   \* of the round: "idle", "loaded" (it asks), "saved" (it has told)
  asked,  \* the clients that the running or last round asks
  begun   \* the time at which it began

historyVars == <<seen, told, step, asked, begun>>

HistoryInit ==
  /\ seen = [c \in Clients |-> Nothing] /\ told = [c \in Clients |-> Nothing]
  /\ step = "idle" /\ asked = {} /\ begun = 0

Begins(S) ==
  /\ step = "idle" /\ step' = "loaded" /\ S # {} /\ asked' = S
  /\ begun' \in Times /\ begun < begun'
  /\ UNCHANGED <<seen, told>>

Since(c, data) == [t \in Times |-> IF t < begun THEN told[c][t] ELSE data]

Reports(found) ==
  /\ step = "loaded" /\ step' = "saved"
  /\ seen' = [c \in Clients |->
                IF c \in asked THEN [seen[c] EXCEPT ![begun] = found[c]] ELSE seen[c]]
  /\ \E silent \in SUBSET {c \in asked : told[c] = Nothing} :
       told' = [c \in Clients |-> IF c \in asked \ silent THEN Since(c, found[c]) ELSE told[c]]
  /\ UNCHANGED <<asked, begun>>

GivesUp == step # "idle" /\ step' = "idle" /\ UNCHANGED <<seen, told, asked, begun>>

\* At any time, and at the end of a round.
Forgets ==
  /\ told' \in [Clients -> [Times -> Data \cup {NotSeen}]]
  /\ \A c \in Clients, t \in Times :
       told'[c][t] # NotSeen => \A u \in t..MaxNow : told'[c][u] = told[c][u]
  /\ step' = step \/ (step = "saved" /\ step' = "idle")
  /\ UNCHANGED <<seen, asked, begun>>

HistoryNext ==
  \/ \E S \in SUBSET Clients : Begins(S)
  \/ \E found \in [Clients -> Data] : Reports(found)
  \/ GivesUp \/ Forgets

HistorySpec == HistoryInit /\ [][HistoryNext]_historyVars
=============================================================================
