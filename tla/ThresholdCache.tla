--------------------------- MODULE ThresholdCache ---------------------------
(***************************************************************************)
(* The threshold overrides of one maintenance: a row, and a module-level   *)
(* dictionary that evaluations read.  GET loads the row into a new         *)
(* dictionary, an evaluation does so when there is none, PUT changes the   *)
(* dictionary and the row, reset empties both.  Every database call is an  *)
(* await at which the others go on.                                        *)
(***************************************************************************)
EXTENDS Naturals

CONSTANTS
  Requests,   \* slots for calls in flight: the bound on them
  Overrides,  \* values a threshold may be set to
  Default     \* NULL in the row, a missing key in the dictionary

ASSUME ThresholdAssumption == Overrides \subseteq Nat /\ Default \notin Nat

\* Each threshold comes as a pair: the request is refused when both are sent and cross.
Fields == {"min", "max"}
Values == [Fields -> Overrides \cup {Default}]
Plain == [f \in Fields |-> Default]
NoRow == [f \in {} |-> Default]      \* no row, or no dictionary yet
Sendable == {u \in UNION {[fs -> Overrides \cup {Default}] : fs \in (SUBSET Fields) \ {{}}} :
           DOMAIN u = Fields /\ Default \notin {u["min"], u["max"]} => u["min"] < u["max"]}

VARIABLES
  stored,   \* threshold_config
  cache,    \* _cache
  request,  \* of each slot: kind, step, the row it read, what it sent
  clean     \* history: nothing has set cache and row apart since the last load

thresholdVars == <<stored, cache, request, clean>>

NoRequest == [op |-> "none"]
Request == [op : {"load", "update", "reset"}, step : {"called", "read"},
            saw : Values \cup {NoRow}, sent : Sendable \cup {NoRow},
            mine : BOOLEAN]   \* the dictionary it took hold of is still the cache

ThresholdTypeOK ==
  /\ stored \in Values \cup {NoRow}
  /\ cache \in Values \cup {NoRow}
  /\ request \in [Requests -> Request \cup {NoRequest}]
  /\ clean \in BOOLEAN

ThresholdInit ==
  /\ stored = NoRow /\ cache = NoRow /\ clean = TRUE
  /\ request = [c \in Requests |-> NoRequest]

Overridden(old, u) == [f \in Fields |-> IF f \in DOMAIN u THEN u[f] ELSE old[f]]
AsCache(row) == IF row = NoRow THEN Plain ELSE row
Busy(c) == request[c] # NoRequest
Alone(c) == \A d \in Requests \ {c} : ~Busy(d)

\* A new dictionary takes the place of the one that others may hold.
Orphaned(reqs) ==
  [d \in Requests |-> IF reqs[d] = NoRequest THEN NoRequest ELSE [reqs[d] EXCEPT !.mine = FALSE]]

Call(op, u) == [op |-> op, step |-> "called", saw |-> NoRow, sent |-> u, mine |-> TRUE]

-----------------------------------------------------------------------------
\* GET always loads; ensure_cache only when there is no dictionary.
LoadReads(c) ==
  /\ ~Busy(c)
  /\ request' = [request EXCEPT ![c] =
       [Call("load", NoRow) EXCEPT !.step = "read", !.saw = stored]]
  /\ clean' = (clean /\ Alone(c))
  /\ UNCHANGED <<stored, cache>>

LoadSets(c) ==
  /\ request[c].op = "load"
  /\ cache' = AsCache(request[c].saw)
  /\ request' = Orphaned([request EXCEPT ![c] = NoRequest])
  /\ clean' = IF request[c].saw = stored /\ Alone(c) THEN TRUE ELSE clean
  /\ UNCHANGED stored

\* setdefault: an empty dictionary when none was loaded, whatever the row holds.
UpdateCalled(c, u) ==
  /\ ~Busy(c)
  /\ cache' = AsCache(cache)
  /\ request' = [request EXCEPT ![c] = Call("update", u)]
  /\ clean' = (clean /\ Alone(c) /\ (cache = NoRow => stored = NoRow))
  /\ UNCHANGED stored

\* The row read, the dictionary changed, before the commit.
UpdateReads(c) ==
  /\ request[c].op = "update" /\ request[c].step = "called"
  /\ cache' = IF request[c].mine THEN Overridden(cache, request[c].sent) ELSE cache
  /\ request' = [request EXCEPT ![c].step = "read", ![c].saw = stored]
  /\ UNCHANGED <<stored, clean>>

\* reset: the dictionary first, then the row.
ResetCalled(c) ==
  /\ ~Busy(c)
  /\ cache' = Plain
  /\ request' = [Orphaned(request) EXCEPT ![c] = Call("reset", Plain)]
  /\ clean' = (clean /\ Alone(c))
  /\ UNCHANGED stored

RowReadBy(c) ==
  /\ request[c].op = "reset" /\ request[c].step = "called"
  /\ request' = [request EXCEPT ![c].step = "read", ![c].saw = stored]
  /\ UNCHANGED <<stored, cache, clean>>

\* Mutant: reset leaves the row.
AssignedOnUpdate(r) == IF r.op = "reset" THEN {} ELSE {f \in DOMAIN r.sent : r.saw[f] # r.sent[f]}
\* The columns written: those assigned a value other than the one read.
Assigned(r) == {f \in DOMAIN r.sent : r.saw[f] # r.sent[f]}

\* An update of a maintenance without a row inserts one; a second insert is refused.
Accepted(r) == r.op = "update" /\ r.saw = NoRow => stored = NoRow

Commits(c) ==
  /\ request[c].op \in {"update", "reset"} /\ request[c].step = "read"
  /\ Accepted(request[c])
  /\ LET r == request[c] IN
       stored' = CASE r.saw = NoRow /\ r.op = "reset"  -> stored
                   [] r.saw = NoRow /\ r.op = "update" -> Overridden(Plain, r.sent)
                   [] OTHER -> [f \in Fields |-> IF f \in Assigned(r) THEN r.sent[f] ELSE stored[f]]
  /\ request' = [request EXCEPT ![c] = NoRequest]
  /\ UNCHANGED <<cache, clean>>

\* The database is away, or refuses the insert: the dictionary stays as it is.
RequestFails(c) ==
  /\ Busy(c)
  /\ request' = [request EXCEPT ![c] = NoRequest]
  /\ clean' = (clean /\ request[c].op = "load")
  /\ UNCHANGED <<stored, cache>>

ProcessRestarts ==
  /\ cache # NoRow
  /\ cache' = NoRow
  /\ request' = [c \in Requests |-> NoRequest]
  /\ clean' = TRUE
  /\ UNCHANGED stored

ThresholdNext ==
  \/ \E c \in Requests :
       \/ LoadReads(c) \/ LoadSets(c) \/ ResetCalled(c) \/ RowReadBy(c)
       \/ UpdateReads(c) \/ Commits(c) \/ RequestFails(c)
       \/ \E u \in Sendable : UpdateCalled(c, u)
  \/ ProcessRestarts

ThresholdSpec == ThresholdInit /\ [][ThresholdNext]_thresholdVars

-----------------------------------------------------------------------------
(* Properties. *)

InForce == cache # NoRow => cache = AsCache(stored)
AtRest == \A c \in Requests : ~Busy(c)

\* At rest the thresholds that evaluations apply are those of the row, unless calls
\* crossed, one failed, or an update met a dictionary not loaded yet; a load by itself
\* mends all three (load_thresholds, update_thresholds, reset_thresholds).
CleanCacheInForce == AtRest /\ clean => InForce
=============================================================================
