-------------------------- MODULE CollectionProofs --------------------------
(***************************************************************************)
(* Theorems about what is collected and shown (ApiRound and Indicators)    *)
(* and what a deletion leaves (MaintenanceRemoval), for any number of      *)
(* hosts, attempts, counters, viewers and categories.                      *)
(*                                                                         *)
(* A round needs what each attempt has done by the time it returned, error *)
(* counters what the batches that are left say of those that are gone, and *)
(* a deletion what its statements have emptied so far and who can still    *)
(* write there.                                                            *)
(***************************************************************************)
EXTENDS ApiRound, Indicators, MaintenanceRemoval, FiniteSetTheorems, SequenceTheorems, TLAPS

-----------------------------------------------------------------------------
(* API rounds. *)

\* Attempts begin in their order; one that returned has no task left.
AttemptsInOrder ==
  /\ \A n \in Attempts : n > attempt => gathered[n] = "none" /\ \A h \in Targets : task[n][h] = "none"
  /\ \A n \in Attempts : n <= attempt => gathered[n] # "none"
  /\ \A n \in Attempts : gathered[n] = "returned" =>
       \A h \in Targets : task[n][h] \in {"ok", "fail"}

\* A host that always answers fails only where the client was closed under its task.
FailsWhenClosed ==
  \A n \in Attempts, h \in Targets :
    h \notin Silent /\ task[n][h] \in {"failing", "fail"} => gathered[n] \in {"deadlock", "raised"}

EmptyHasFailed ==
  \A h \in Targets : data[h] = "empty" => \E n \in Attempts : task[n][h] = "fail"
ErrorsMatch == \A h \in Targets : data[h] = "empty" <=> h \in errored

ApiInv == ApiTypeOK /\ AttemptsInOrder /\ FailsWhenClosed /\ EmptyHasFailed /\ ErrorsMatch

TaskStates ==
  {"none", "queued", "fetching", "saving", "failing", "ok", "fail", "deadlock", "raised"}

LEMMA ApiInitInv == ApiInit => ApiInv
BY ApiAssumption DEF ApiInit, ApiInv, ApiTypeOK, AttemptsInOrder, FailsWhenClosed, EmptyHasFailed,
   ErrorsMatch, Attempts

LEMMA BeginKeeps ==
  ASSUME ApiInv, NEW k \in 0..Retries, Begin(k)
  PROVE  ApiInv'
<1> DEFINE n == attempt + 1
<1>1. /\ n \in Attempts /\ attempt' = n /\ tries' = k /\ UNCHANGED <<data, errored>>
      /\ n > attempt /\ attempt \in Nat
  BY ApiAssumption DEF Begin, ApiInv, ApiTypeOK, Attempts
<1>2. /\ gathered' = [gathered EXCEPT ![n] = "open"]
      /\ task' = [task EXCEPT ![n] = [h \in Targets |-> "queued"]]
  BY DEF Begin
<1> HIDE DEF n
<1>3. ApiTypeOK'
  BY <1>1, <1>2, ApiAssumption DEF ApiInv, ApiTypeOK, Attempts
<1>4. /\ gathered'[n] = "open" /\ \A m \in Attempts \ {n} : gathered'[m] = gathered[m]
      /\ \A h \in Targets : task'[n][h] = "queued"
      /\ \A m \in Attempts \ {n} : task'[m] = task[m]
      /\ \A h \in Targets : task[n][h] = "none"
  BY <1>1, <1>2 DEF ApiInv, ApiTypeOK, Attempts, AttemptsInOrder
<1>5. \A m \in Attempts \ {n} : (m > attempt' => m > attempt) /\ (m <= attempt' => m <= attempt)
  BY <1>1 DEF Attempts, n
<1>6. AttemptsInOrder'
  <2>1. ASSUME NEW m \in Attempts, m = n
        PROVE  ~(m > attempt') /\ gathered'[m] = "open"
    BY <1>1, <1>4, <2>1 DEF Attempts
  <2>2. ASSUME NEW m \in Attempts, m # n
        PROVE  /\ m > attempt' => gathered'[m] = "none" /\ \A h \in Targets : task'[m][h] = "none"
               /\ m <= attempt' => gathered'[m] # "none"
               /\ gathered'[m] = "returned" => \A h \in Targets : task'[m][h] \in {"ok", "fail"}
    BY <1>4, <1>5, <2>2 DEF ApiInv, AttemptsInOrder
  <2> QED BY <2>1, <2>2 DEF AttemptsInOrder
<1>7. FailsWhenClosed' /\ ErrorsMatch' /\ EmptyHasFailed'
  BY <1>1, <1>4 DEF ApiInv, FailsWhenClosed, ErrorsMatch, EmptyHasFailed
<1> QED BY <1>3, <1>6, <1>7 DEF ApiInv

LEMMA GatherKeeps ==
  ASSUME ApiInv, NEW n \in Attempts, NEW how \in {"returned", "deadlock", "raised"},
         GatherEnds(n, how), how = "returned" => \A h \in Targets : task[n][h] \in {"ok", "fail"}
  PROVE  ApiInv'
<1>1. /\ gathered[n] = "open" /\ gathered' = [gathered EXCEPT ![n] = how]
      /\ UNCHANGED <<attempt, tries, task, data, errored>>
  BY DEF GatherEnds
<1>2. gathered'[n] = how /\ \A m \in Attempts \ {n} : gathered'[m] = gathered[m]
  BY <1>1 DEF ApiInv, ApiTypeOK, Attempts
<1>3. ApiTypeOK'
  BY <1>1 DEF ApiInv, ApiTypeOK
<1>4. AttemptsInOrder'
  BY <1>1, <1>2 DEF ApiInv, AttemptsInOrder
<1>5. FailsWhenClosed'
  BY <1>1, <1>2 DEF ApiInv, FailsWhenClosed
<1>6. EmptyHasFailed' /\ ErrorsMatch'
  BY <1>1 DEF ApiInv, EmptyHasFailed, ErrorsMatch
<1> QED BY <1>3, <1>4, <1>5, <1>6 DEF ApiInv

\* What the turn of one task does to all.
LEMMA TurnsLemma ==
  ASSUME ApiInv, NEW n \in Attempts, NEW h \in Targets, NEW to \in TaskStates, Turns(n, h, to)
  PROVE  /\ task'[n][h] = to
         /\ \A m \in Attempts, g \in Targets : <<m, g>> # <<n, h>> => task'[m][g] = task[m][g]
         /\ task' \in [Attempts -> [Targets -> TaskStates]]
BY DEF Turns, ApiInv, ApiTypeOK, TaskStates

\* A task that has begun and goes on, to a failure only where that has its reason.
LEMMA TurnKeeps ==
  ASSUME ApiInv, NEW n \in Attempts, NEW h \in Targets, NEW to \in TaskStates \ {"none"},
         Turns(n, h, to), UNCHANGED <<attempt, tries, gathered>>,
         task[n][h] \in {"queued", "fetching", "saving", "failing"},
         to \in {"failing", "fail"} =>
           \/ h \in Silent \/ gathered[n] # "open" \/ task[n][h] = "failing"
  PROVE  AttemptsInOrder' /\ FailsWhenClosed'
<1>1. /\ task'[n][h] = to
      /\ \A m \in Attempts, g \in Targets : <<m, g>> # <<n, h>> => task'[m][g] = task[m][g]
  BY TurnsLemma
<1>2. n <= attempt /\ gathered[n] \in {"open", "deadlock", "raised"}
  BY DEF ApiInv, ApiTypeOK, AttemptsInOrder, Attempts
<1>3. AttemptsInOrder'
  <2>1. \A m \in Attempts : m > attempt' =>
          gathered'[m] = "none" /\ \A g \in Targets : task'[m][g] = "none"
    BY <1>1, <1>2 DEF ApiInv, ApiTypeOK, AttemptsInOrder, Attempts
  <2>2. \A m \in Attempts : gathered'[m] = "returned" =>
          \A g \in Targets : task'[m][g] \in {"ok", "fail"}
    BY <1>1, <1>2 DEF ApiInv, AttemptsInOrder
  <2>3. \A m \in Attempts : m <= attempt' => gathered'[m] # "none"
    BY DEF ApiInv, AttemptsInOrder
  <2> QED BY <2>1, <2>2, <2>3 DEF AttemptsInOrder
<1>4. FailsWhenClosed'
  <2> SUFFICES ASSUME NEW m \in Attempts, NEW g \in Targets,
                      g \notin Silent, task'[m][g] \in {"failing", "fail"}
               PROVE  gathered[m] \in {"deadlock", "raised"}
    BY DEF FailsWhenClosed
  <2>1. CASE <<m, g>> = <<n, h>>
    BY <1>1, <1>2, <2>1 DEF ApiInv, FailsWhenClosed
  <2>2. CASE <<m, g>> # <<n, h>>
    BY <1>1, <2>2 DEF ApiInv, FailsWhenClosed
  <2> QED BY <2>1, <2>2
<1> QED BY <1>3, <1>4

LEMMA MoveKeeps ==
  ASSUME ApiInv, NEW n \in Attempts, NEW h \in Targets,
         NEW from \in {"queued", "fetching", "saving", "failing"},
         NEW to \in TaskStates \ {"none"}, Moves(n, h, from, to),
         to \in {"failing", "fail"} => h \in Silent \/ gathered[n] # "open"
  PROVE  ApiInv'
<1>1. /\ task[n][h] = from /\ Turns(n, h, to)
      /\ UNCHANGED <<attempt, tries, gathered, data, errored>>
  BY DEF Moves
<1>2. AttemptsInOrder' /\ FailsWhenClosed'
  BY <1>1, TurnKeeps
<1>3. ApiTypeOK'
  BY <1>1, TurnsLemma DEF ApiInv, ApiTypeOK, TaskStates
<1>4. EmptyHasFailed'
  <2> SUFFICES ASSUME NEW g \in Targets, data[g] = "empty"
               PROVE  \E m \in Attempts : task'[m][g] = "fail"
    BY <1>1 DEF EmptyHasFailed
  <2>1. PICK m \in Attempts : task[m][g] = "fail"
    BY DEF ApiInv, EmptyHasFailed
  <2>2. <<m, g>> # <<n, h>>
    BY <1>1, <2>1
  <2> QED BY <1>1, <2>1, <2>2, TurnsLemma
<1>5. ErrorsMatch'
  BY <1>1 DEF ApiInv, ErrorsMatch
<1> QED BY <1>2, <1>3, <1>4, <1>5 DEF ApiInv

LEMMA SaveLandsKeeps ==
  ASSUME ApiInv, NEW n \in Attempts, NEW h \in Targets, SaveLands(n, h)
  PROVE  ApiInv'
<1>1. /\ task[n][h] = "saving" /\ data' = [data EXCEPT ![h] = "rows"] /\ errored' = errored \ {h}
      /\ Turns(n, h, "ok") /\ UNCHANGED <<attempt, tries, gathered>>
  BY DEF SaveLands
<1>2. "ok" \in TaskStates \ {"none"}
  BY DEF TaskStates
<1>3. AttemptsInOrder' /\ FailsWhenClosed'
  BY <1>1, <1>2, TurnKeeps
<1>4. ApiTypeOK'
  BY <1>1, <1>2, TurnsLemma DEF ApiInv, ApiTypeOK, TaskStates
<1>5. EmptyHasFailed'
  <2> SUFFICES ASSUME NEW g \in Targets, data'[g] = "empty"
               PROVE  \E m \in Attempts : task'[m][g] = "fail"
    BY DEF EmptyHasFailed
  <2>1. g # h /\ data[g] = "empty"
    BY <1>1 DEF ApiInv, ApiTypeOK
  <2>2. PICK m \in Attempts : task[m][g] = "fail"
    BY <2>1 DEF ApiInv, EmptyHasFailed
  <2> QED BY <1>1, <1>2, <2>1, <2>2, TurnsLemma
<1>6. ErrorsMatch'
  BY <1>1 DEF ApiInv, ApiTypeOK, ErrorsMatch
<1> QED BY <1>3, <1>4, <1>5, <1>6 DEF ApiInv

LEMMA FailureLandsKeeps ==
  ASSUME ApiInv, NEW n \in Attempts, NEW h \in Targets, FailureLands(n, h)
  PROVE  ApiInv'
<1>1. /\ task[n][h] = "failing" /\ data' = [data EXCEPT ![h] = "empty"]
      /\ errored' = errored \cup {h}
      /\ Turns(n, h, "fail") /\ UNCHANGED <<attempt, tries, gathered>>
  BY DEF FailureLands, WithError
<1>2. "fail" \in TaskStates \ {"none"}
  BY DEF TaskStates
<1>3. AttemptsInOrder' /\ FailsWhenClosed'
  BY <1>1, <1>2, TurnKeeps
<1>4. ApiTypeOK'
  BY <1>1, <1>2, TurnsLemma DEF ApiInv, ApiTypeOK, TaskStates
<1>5. EmptyHasFailed'
  <2> SUFFICES ASSUME NEW g \in Targets, data'[g] = "empty"
               PROVE  \E m \in Attempts : task'[m][g] = "fail"
    BY DEF EmptyHasFailed
  <2>1. CASE g = h
    BY <1>1, <1>2, <2>1, TurnsLemma
  <2>2. CASE g # h
    <3>1. data[g] = "empty"
      BY <1>1, <2>2 DEF ApiInv, ApiTypeOK
    <3>2. PICK m \in Attempts : task[m][g] = "fail"
      BY <3>1 DEF ApiInv, EmptyHasFailed
    <3> QED BY <1>1, <1>2, <2>2, <3>2, TurnsLemma
  <2> QED BY <2>1, <2>2
<1>6. ErrorsMatch'
  BY <1>1 DEF ApiInv, ApiTypeOK, ErrorsMatch
<1> QED BY <1>3, <1>4, <1>5, <1>6 DEF ApiInv

LEMMA ApiStep == ApiInv /\ [ApiNext]_apiVars => ApiInv'
<1> SUFFICES ASSUME ApiInv, [ApiNext]_apiVars PROVE ApiInv'
  OBVIOUS
<1> USE DEF TaskStates
<1>1. CASE CallStarts \/ RepeatsCall
  BY <1>1, BeginKeeps, ApiAssumption DEF CallStarts, RepeatsCall, Again, ApiInv, ApiTypeOK
<1>2. ASSUME NEW n \in Attempts, Returns(n) \/ Raises(n) PROVE ApiInv'
  BY <1>2, GatherKeeps DEF Returns, Raises
<1>3. ASSUME NEW n \in Attempts, NEW h \in Targets, TakesSlot(n, h) \/ Answered(n, h)
      PROVE  ApiInv'
  BY <1>3, MoveKeeps DEF TakesSlot, Answered
<1>4. ASSUME NEW n \in Attempts, NEW h \in Targets, FetchFails(n, h) PROVE ApiInv'
  BY <1>4, MoveKeeps DEF FetchFails, ClientOpen
<1>5. ASSUME NEW n \in Attempts, NEW h \in Targets, SessionBreaks(n, h) PROVE ApiInv'
  BY <1>5, MoveKeeps DEF SessionBreaks
<1>6. CASE UNCHANGED apiVars
  BY <1>6 DEF apiVars, ApiInv, ApiTypeOK, AttemptsInOrder, FailsWhenClosed, EmptyHasFailed, ErrorsMatch
<1> QED BY <1>1, <1>2, <1>3, <1>4, <1>5, <1>6, SaveLandsKeeps, FailureLandsKeeps DEF ApiNext

\* The inductive invariant of the API rounds, for any hosts, slots, retries and attempts.
THEOREM ApiInvariant == ApiSpec => []ApiInv
BY ApiInitInv, ApiStep, PTL DEF ApiSpec

\* An empty batch always has its error, rows never have one; a host that answers lost its
\* rows to a closed client only (_do_collect, its error paths).
THEOREM EmptyAlwaysExplained == ApiSpec => []EmptyIsExplained
<1>1. ApiInv => EmptyIsExplained
  BY DEF ApiInv, FailsWhenClosed, EmptyHasFailed, ErrorsMatch, EmptyIsExplained
<1> QED BY <1>1, ApiInvariant, PTL

-----------------------------------------------------------------------------
(* Ignoring. *)

\* A toggle that nobody crossed still has the list before it.
ToggleInForce ==
  \A v \in Viewers : toggle[v] # NoToggle /\ ~toggle[v].late => toggle[v].saw = ignored[toggle[v].host]
IgnoreTyped ==
  /\ ignored \in [Hosts -> SUBSET Shown]
  /\ toggle \in [Viewers -> Toggle \cup {NoToggle}]
IgnoreInv == IgnoreTyped /\ ToggleInForce

MarkedLate(t) == [t EXCEPT !.late = TRUE]

LEMMA Marked ==
  ASSUME NEW t \in Toggle
  PROVE  MarkedLate(t) \in Toggle /\ MarkedLate(t).late
BY DEF Toggle, MarkedLate

LEMMA AskedKeeps ==
  ASSUME IgnoreInv, NEW v \in Viewers, NEW h \in Hosts, NEW i \in Shown, ToggleAsked(v, h, i)
  PROVE  IgnoreInv'
<1> DEFINE t == [host |-> h, indicator |-> i, saw |-> ignored[h], late |-> FALSE]
<1>1. toggle' = [toggle EXCEPT ![v] = t] /\ ignored' = ignored
  BY DEF ToggleAsked
<1>2. t \in Toggle /\ t.saw = ignored[t.host]
  BY DEF IgnoreInv, IgnoreTyped, Toggle
<1> HIDE DEF t
<1>3. IgnoreTyped'
  BY <1>1, <1>2 DEF IgnoreInv, IgnoreTyped
<1>4. ASSUME NEW w \in Viewers, toggle'[w] # NoToggle, ~toggle'[w].late
      PROVE  toggle'[w].saw = ignored'[toggle'[w].host]
  <2>1. CASE w = v
    BY <1>1, <1>2, <2>1 DEF IgnoreInv, IgnoreTyped
  <2>2. CASE w # v
    BY <1>1, <1>4, <2>2 DEF IgnoreInv, IgnoreTyped, ToggleInForce
  <2> QED BY <2>1, <2>2
<1> QED BY <1>3, <1>4 DEF IgnoreInv, ToggleInForce

\* A toggle is stored: the others for its device are late.
LEMMA StoredKeeps ==
  ASSUME IgnoreInv, NEW v \in Viewers, ToggleStored(v)
  PROVE  IgnoreInv'
<1>1. /\ toggle[v] \in Toggle
      /\ ignored' = [ignored EXCEPT ![toggle[v].host] = Flipped(toggle[v])]
  BY DEF ToggleStored, IgnoreInv, IgnoreTyped
<1>2. /\ toggle[v].host \in Hosts /\ Flipped(toggle[v]) \in SUBSET Shown
  BY <1>1 DEF Toggle, Flipped
<1>3. ignored' \in [Hosts -> SUBSET Shown]
      /\ \A h \in Hosts \ {toggle[v].host} : ignored'[h] = ignored[h]
  BY <1>1, <1>2 DEF IgnoreInv, IgnoreTyped
<1>4. toggle'[v] = NoToggle
  BY Zenon DEF ToggleStored
<1>5. ASSUME NEW w \in Viewers \ {v}
      PROVE  /\ toggle[w].host = toggle[v].host => toggle'[w] = MarkedLate(toggle[w])
             /\ toggle[w].host # toggle[v].host => toggle'[w] = toggle[w]
  BY Zenon DEF ToggleStored, MarkedLate
<1>6. toggle' = [w \in Viewers |-> toggle'[w]]
  BY Zenon DEF ToggleStored
<1>7. ASSUME NEW w \in Viewers
      PROVE  /\ toggle'[w] \in Toggle \cup {NoToggle}
             /\ toggle'[w] # NoToggle /\ ~toggle'[w].late => toggle'[w].saw = ignored'[toggle'[w].host]
  <2>1. CASE w = v
    BY <1>4, <2>1
  <2>2. CASE w # v /\ toggle[w].host = toggle[v].host /\ toggle[w] # NoToggle
    <3>1. toggle[w] \in Toggle
      BY <2>2 DEF IgnoreInv, IgnoreTyped
    <3>2. toggle'[w] = MarkedLate(toggle[w])
      BY <1>5, <2>2
    <3>3. toggle'[w] \in Toggle /\ toggle'[w].late
      BY <3>1, <3>2, Marked
    <3> QED BY <3>3, Zenon
  <2>3. CASE w # v /\ toggle[w].host # toggle[v].host
    <3>1. toggle'[w] = toggle[w]
      BY <1>5, <2>3
    <3>2. toggle[w] # NoToggle => toggle[w] \in Toggle /\ toggle[w].host \in Hosts
      BY DEF IgnoreInv, IgnoreTyped, Toggle
    <3> QED BY <1>3, <2>3, <3>1, <3>2 DEF IgnoreInv, IgnoreTyped, ToggleInForce
  <2>4. CASE w # v /\ toggle[w].host = toggle[v].host /\ toggle[w] = NoToggle
    <3>1. toggle[w].host = Never /\ toggle[v].host \in Hosts
      BY <1>2, <2>4 DEF NoToggle
    <3>2. Never \in Hosts
      BY <2>4, <3>1
    <3> QED BY <3>2, IndicatorAssumption
  <2> QED BY <2>1, <2>2, <2>3, <2>4, Zenon
<1> QED BY <1>3, <1>6, <1>7 DEF IgnoreInv, IgnoreTyped, ToggleInForce

LEMMA RelistedKeeps ==
  ASSUME IgnoreInv, NEW h \in Hosts, Relisted(h)
  PROVE  IgnoreInv'
<1>1. /\ ignored' = [ignored EXCEPT ![h] = {}]
      /\ toggle' = [v \in Viewers |-> IF toggle[v].host = h THEN NoToggle ELSE toggle[v]]
  BY DEF Relisted
<1>2. IgnoreTyped'
  BY <1>1 DEF IgnoreInv, IgnoreTyped
<1>3. ASSUME NEW v \in Viewers, toggle'[v] # NoToggle, ~toggle'[v].late
      PROVE  toggle'[v].saw = ignored'[toggle'[v].host]
  <2>1. toggle'[v] = toggle[v] /\ toggle[v].host # h
    BY <1>1, <1>3
  <2>2. toggle[v].host \in Hosts
    BY <1>3, <2>1 DEF IgnoreInv, IgnoreTyped, Toggle
  <2> QED BY <1>1, <1>3, <2>1, <2>2 DEF IgnoreInv, IgnoreTyped, ToggleInForce
<1> QED BY <1>2, <1>3 DEF IgnoreInv, ToggleInForce

LEMMA IgnoreStep == IgnoreInv /\ [IndicatorsNext]_indicatorVars => IgnoreInv'
<1> SUFFICES ASSUME IgnoreInv, [IndicatorsNext]_indicatorVars PROVE IgnoreInv'
  OBVIOUS
<1>1. CASE \E v \in Viewers : ToggleStored(v) \/ \E h \in Hosts, i \in Shown : ToggleAsked(v, h, i)
  BY <1>1, AskedKeeps, StoredKeeps
<1>2. CASE \E h \in Hosts : Relisted(h)
  BY <1>2, RelistedKeeps
<1>3. CASE UNCHANGED <<ignored, toggle>>
  BY <1>3 DEF IgnoreInv, IgnoreTyped, ToggleInForce
<1>4. ASSUME NEW h \in Hosts,
             \/ \E i \in Graded : CollectFails(i, h) \/ \E g \in Grades \ {Never} : Collects(i, h, g)
             \/ CountsFetched(h) \/ CountsFail(h) \/ CounterMoves(h)
             \/ \E n \in 1..MaxStored : OldCountsGo(h, n)
      PROVE  UNCHANGED <<ignored, toggle>>
  BY <1>4 DEF CollectFails, Collects, CountsFetched, CountsFail, CounterMoves, OldCountsGo
<1> QED BY <1>1, <1>2, <1>3, <1>4 DEF IndicatorsNext, CollectionNext, IgnoreNext, indicatorVars

\* The inductive invariant of the ignored indicators, for any viewers and devices.
THEOREM IgnoreInvariant == IndicatorsSpec => []IgnoreInv
<1>1. IndicatorsInit => IgnoreInv
  BY DEF IndicatorsInit, IgnoreInv, IgnoreTyped, ToggleInForce
<1> QED BY <1>1, IgnoreStep, PTL DEF IndicatorsSpec

LEMMA OneIsIgnored ==
  ASSUME IgnoreInv, NEW v \in Viewers, ToggleStored(v), ~toggle[v].late,
         NEW h \in Hosts, NEW i \in Shown
  PROVE  (i \in ignored[h] <=> i \in ignored'[h])
           \/ (h = toggle[v].host /\ i = toggle[v].indicator)
<1>1. /\ toggle[v] \in Toggle /\ toggle[v].host \in Hosts
      /\ toggle[v].saw = ignored[toggle[v].host]
      /\ ignored' = [ignored EXCEPT ![toggle[v].host] = Flipped(toggle[v])]
  BY DEF ToggleStored, IgnoreInv, IgnoreTyped, ToggleInForce, Toggle
<1>2. CASE h # toggle[v].host
  BY <1>1, <1>2 DEF IgnoreInv, IgnoreTyped
<1>3. CASE h = toggle[v].host
  <2>1. ignored'[h] = Flipped(toggle[v])
    BY <1>1, <1>3 DEF IgnoreInv, IgnoreTyped
  <2> QED BY <1>1, <1>3, <2>1 DEF Flipped
<1> QED BY <1>2, <1>3

\* Ignoring a device for one indicator leaves its other indicators, unless two toggles for
\* the device crossed (toggle_device_ignore).
THEOREM IgnoreStaysPerIndicator == IndicatorsSpec => IgnoreIsPerIndicator
<1> DEFINE OneEach ==
      \A v \in Viewers : ToggleStored(v) /\ ~toggle[v].late =>
        \A h \in Hosts, i \in Shown :
          (i \in ignored[h] <=> i \in ignored'[h])
            \/ (h = toggle[v].host /\ i = toggle[v].indicator)
<1>1. IgnoreInv /\ [IndicatorsNext]_indicatorVars => [OneEach]_indicatorVars
  BY OneIsIgnored
<1> QED BY <1>1, IgnoreInvariant, PTL DEF IndicatorsSpec, IgnoreIsPerIndicator

-----------------------------------------------------------------------------
(* Error counters. *)

CountStored == Counts \cup {Blank}
Trails == [before : Counts \cup {Never}, now : Counts \cup {Never}, gap : Gaps, hidden : BOOLEAN]
CountBefore(s) == IF Len(s) < 2 THEN Never ELSE s[Len(s) - 1]

\* What a trail has of the batches s: the last counter, unless the last batch is empty, and
\* the one before if the batch before has another, which is when nothing is hidden.
Tells(s, t) ==
  /\ Len(s) = 0 => t.before = Never /\ t.now = Never
  /\ t.gap = "blank" <=> Len(s) > 0 /\ Last(s) = Blank
  /\ Len(s) > 0 /\ Last(s) # Blank =>
       /\ t.now = Last(s)
       /\ CountBefore(s) = Never => t.before = Never
       /\ CountBefore(s) \in {Blank, Last(s)} => t.hidden
       /\ CountBefore(s) \in Counts \ {Last(s)} => t.before = CountBefore(s) /\ ~t.hidden

\* A device whose last batch is current was not relisted since it was stored.
Points(s, t, current) ==
  /\ current => Len(s) > 0 /\ t.gap # "relisted"
  /\ ~current /\ Len(s) > 0 => t.gap # "none"

GrowthTyped ==
  /\ counter \in [Hosts -> Counts] /\ pointed \in SUBSET Hosts
  /\ counts \in [Hosts -> Seq(CountStored)] /\ trail \in [Hosts -> Trails]
GrowthInv ==
  /\ GrowthTyped
  /\ \A h \in Hosts :
       /\ Tells(counts[h], trail[h])
       /\ Points(counts[h], trail[h], h \in pointed)

LEMMA NoCounter ==
  /\ Counts \subseteq Nat /\ Blank \notin Counts /\ Never \notin Counts /\ Blank # Never
  /\ NoTrail \in Trails /\ NoTrail.before = Never /\ NoTrail.now = Never
  /\ NoTrail.gap = "none" /\ ~NoTrail.hidden
BY IndicatorAssumption DEF Counts, NoTrail, Trails, Gaps

LEMMA LastStored ==
  ASSUME NEW s \in Seq(CountStored), Len(s) > 0
  PROVE  Last(s) \in CountStored
BY LenProperties DEF Last

LEMMA Appended ==
  ASSUME NEW s \in Seq(CountStored), NEW c \in CountStored
  PROVE  LET z == Append(s, c) IN
         /\ z \in Seq(CountStored) /\ Len(z) = Len(s) + 1 /\ Len(z) > 0 /\ Last(z) = c
         /\ Len(s) = 0 => CountBefore(z) = Never
         /\ Len(s) > 0 => CountBefore(z) = Last(s)
<1> DEFINE z == Append(s, c)
<1>1. z \in Seq(CountStored) /\ Len(z) = Len(s) + 1
  BY AppendProperties
<1>2. (\A i \in 1..Len(s) : z[i] = s[i]) /\ z[Len(s) + 1] = c
  BY AppendProperties
<1>3. Len(s) \in Nat
  BY LenProperties
<1> HIDE DEF z
<1>4. Len(z) > 0 /\ Last(z) = c
  BY <1>1, <1>2, <1>3 DEF Last
<1>5. ASSUME Len(s) = 0 PROVE CountBefore(z) = Never
  BY <1>1, <1>5 DEF CountBefore
<1>6. ASSUME Len(s) > 0 PROVE CountBefore(z) = Last(s)
  <2>1. Len(s) \in 1..Len(s) /\ ~(Len(z) < 2) /\ Len(z) - 1 = Len(s)
    BY <1>1, <1>3, <1>6
  <2>2. z[Len(s)] = s[Len(s)]
    BY <1>2, <2>1
  <2> QED BY <1>6, <2>1, <2>2 DEF CountBefore, Last
<1> QED BY <1>1, <1>4, <1>5, <1>6 DEF z

LEMMA AdvancedTrail ==
  ASSUME NEW t \in Trails, NEW c \in Counts
  PROVE  LET u == Advanced(t, c) IN
         /\ u \in Trails /\ u.now = c /\ u.gap = "none"
         /\ c = t.now => u.before = t.before /\ u.hidden = (t.hidden \/ t.gap # "none")
         /\ c # t.now => u.before = t.now /\ u.hidden = (t.gap = "blank")
<1>1. CASE c = t.now
  BY <1>1 DEF Advanced, Trails, Gaps
<1>2. CASE c # t.now
  BY <1>2 DEF Advanced, Trails, Gaps
<1> QED BY <1>1, <1>2

\* A counter is appended, because the last batch has another or is not current.
LEMMA Fetched ==
  ASSUME NEW s \in Seq(CountStored), NEW t \in Trails, NEW current \in BOOLEAN,
         Tells(s, t), Points(s, t, current), NEW c \in Counts, ~(current /\ Last(s) = c)
  PROVE  LET u == Advanced(t, c) IN
         Tells(Append(s, c), u) /\ Points(Append(s, c), u, TRUE)
<1> DEFINE z == Append(s, c)
           u == Advanced(t, c)
<1>1. /\ Len(z) > 0 /\ Last(z) = c
      /\ Len(s) = 0 => CountBefore(z) = Never
      /\ Len(s) > 0 => CountBefore(z) = Last(s)
  BY Appended DEF CountStored
<1>2. Len(s) \in Nat /\ (Len(s) > 0 => Last(s) \in CountStored)
  BY LenProperties, LastStored
<1>3. /\ u.now = c /\ u.gap = "none"
      /\ c = t.now => u.before = t.before /\ u.hidden = (t.hidden \/ t.gap # "none")
      /\ c # t.now => u.before = t.now /\ u.hidden = (t.gap = "blank")
  BY AdvancedTrail
<1>4. Len(z) \in Nat /\ c # Blank /\ c # Never
  BY <1>1, <1>2, Appended, NoCounter DEF CountStored
<1> HIDE DEF z, u
<1>5. /\ CountBefore(z) = Never => u.before = Never
      /\ CountBefore(z) \in {Blank, c} => u.hidden
      /\ CountBefore(z) \in Counts \ {c} => u.before = CountBefore(z) /\ ~u.hidden
  <2>1. CASE Len(s) = 0
    BY <1>1, <1>3, <1>4, <2>1, NoCounter DEF Tells
  <2>2. CASE Len(s) > 0 /\ Last(s) = Blank
    BY <1>1, <1>3, <1>4, <2>2, NoCounter DEF Tells
  <2>3. CASE Len(s) > 0 /\ Last(s) # Blank
    <3>1. t.now = Last(s) /\ t.gap # "blank" /\ Last(s) \in Counts
      BY <1>2, <2>3 DEF Tells, CountStored
    <3>2. Last(s) = c => t.gap # "none"
      BY <2>3 DEF Points
    <3> QED BY <1>1, <1>3, <1>4, <2>3, <3>1, <3>2, NoCounter
  <2> QED BY <1>2, <2>1, <2>2, <2>3
<1>6. Tells(z, u)
  BY <1>1, <1>3, <1>4, <1>5 DEF Tells
<1>7. Points(z, u, TRUE)
  BY <1>1, <1>3 DEF Points
<1> QED BY <1>6, <1>7 DEF z, u

WithGap(t, g) == [t EXCEPT !.gap = g]

LEMMA GapSet ==
  ASSUME NEW t \in Trails, NEW g \in Gaps
  PROVE  LET u == WithGap(t, g) IN
         u \in Trails /\ u.gap = g /\ u.before = t.before /\ u.now = t.now /\ u.hidden = t.hidden
BY DEF WithGap, Trails

LEMMA StoredBlank ==
  ASSUME NEW s \in Seq(CountStored), NEW t \in Trails
  PROVE  LET z == Append(s, Blank)
             u == WithGap(t, "blank")
         IN  Tells(z, u) /\ Points(z, u, TRUE)
<1>1. Len(Append(s, Blank)) > 0 /\ Last(Append(s, Blank)) = Blank
  BY Appended DEF CountStored
<1>2. WithGap(t, "blank").gap = "blank"
  BY GapSet DEF Gaps
<1> QED BY <1>1, <1>2 DEF Tells, Points

\* The oldest batches go, and one at least stays.
LEMMA Kept ==
  ASSUME NEW s \in Seq(CountStored), NEW n \in Nat, 0 < n, n <= Len(s)
  PROVE  LET z == SubSeq(s, n + 1, Len(s)) IN
         /\ z \in Seq(CountStored) /\ Len(z) = Len(s) - n
         /\ Len(z) > 0 => Last(z) = Last(s)
         /\ Len(z) > 1 => CountBefore(z) = CountBefore(s)
<1> DEFINE z == SubSeq(s, n + 1, Len(s))
<1>1. Len(s) \in Nat /\ \A i \in 1..Len(s) : s[i] \in CountStored
  BY LenProperties
<1>2. \A i \in (n + 1)..Len(s) : s[i] \in CountStored
  BY <1>1
<1>3. /\ z \in Seq(CountStored) /\ Len(z) = IF n + 1 <= Len(s) THEN Len(s) - (n + 1) + 1 ELSE 0
      /\ \A i \in 1..(Len(s) - (n + 1) + 1) : z[i] = s[(n + 1) + i - 1]
  BY <1>1, <1>2, SubSeqProperties
<1> HIDE DEF z
<1>4. Len(z) = Len(s) - n
  BY <1>1, <1>3
<1>5. \A i \in 1..(Len(s) - n) : z[i] = s[n + i]
  <2>1. ASSUME NEW i \in 1..(Len(s) - n) PROVE z[i] = s[n + i]
    <3>1. i \in 1..(Len(s) - (n + 1) + 1) /\ (n + 1) + i - 1 = n + i
      BY <1>1
    <3> QED BY <1>3, <3>1
  <2> QED BY <2>1
<1>6. ASSUME Len(z) > 0 PROVE Last(z) = Last(s)
  <2>1. Len(z) \in 1..(Len(s) - n) /\ n + Len(z) = Len(s)
    BY <1>1, <1>4, <1>6
  <2> QED BY <1>5, <2>1 DEF Last
<1>7. ASSUME Len(z) > 1 PROVE CountBefore(z) = CountBefore(s)
  <2>1. /\ Len(z) - 1 \in 1..(Len(s) - n) /\ n + (Len(z) - 1) = Len(s) - 1
        /\ ~(Len(z) < 2) /\ ~(Len(s) < 2)
    BY <1>1, <1>4, <1>7
  <2>2. z[Len(z) - 1] = s[Len(s) - 1]
    BY <1>5, <2>1
  <2> QED BY <2>1, <2>2 DEF CountBefore
<1> QED BY <1>3, <1>4, <1>6, <1>7 DEF z

ForgetsTrail(t) == [t EXCEPT !.before = Never]

LEMMA Forgotten ==
  ASSUME NEW t \in Trails
  PROVE  LET u == ForgetsTrail(t) IN
         u \in Trails /\ u.before = Never /\ u.now = t.now /\ u.gap = t.gap /\ u.hidden = t.hidden
BY DEF ForgetsTrail, Trails

\* One device changes its batches and its trail, and keeps to the invariant.
LEMMA GrowthKeeps ==
  ASSUME GrowthInv, NEW h \in Hosts, NEW s \in Seq(CountStored), NEW t \in Trails,
         counter' \in [Hosts -> Counts], pointed' \in {pointed, pointed \cup {h}, pointed \ {h}},
         counts' = [counts EXCEPT ![h] = s], trail' = [trail EXCEPT ![h] = t],
         Tells(s, t), Points(s, t, h \in pointed')
  PROVE  GrowthInv'
<1>1. counts'[h] = s /\ trail'[h] = t
  BY DEF GrowthInv, GrowthTyped
<1>2. \A g \in Hosts \ {h} :
        counts'[g] = counts[g] /\ trail'[g] = trail[g] /\ (g \in pointed' <=> g \in pointed)
  BY DEF GrowthInv, GrowthTyped
<1>3. GrowthTyped'
  BY DEF GrowthInv, GrowthTyped
<1>4. ASSUME NEW g \in Hosts
      PROVE  /\ Tells(counts'[g], trail'[g])
             /\ Points(counts'[g], trail'[g], g \in pointed')
  <2>1. CASE g = h
    BY <1>1, <2>1
  <2>2. CASE g # h
    BY <1>2, <2>2 DEF GrowthInv, Points
  <2> QED BY <2>1, <2>2
<1> QED BY <1>3, <1>4 DEF GrowthInv

LEMMA OldGoKeeps ==
  ASSUME GrowthInv, NEW h \in Hosts, NEW n \in 1..MaxStored, OldCountsGo(h, n)
  PROVE  GrowthInv'
<1> DEFINE s == counts[h]
           t == trail[h]
           z == SubSeq(s, n + 1, Len(s))
           u == CASE Len(counts'[h]) = 0 -> NoTrail
                  [] Len(counts'[h]) = 1 -> ForgetsTrail(t)
                  [] OTHER -> t
<1>1. s \in Seq(CountStored) /\ t \in Trails /\ Tells(s, t) /\ Points(s, t, h \in pointed)
  BY DEF GrowthInv, GrowthTyped
<1>2. Len(s) \in Nat
  BY <1>1, LenProperties
<1>3. n \in Nat /\ 0 < n /\ n <= Len(s) /\ (h \in pointed => n < Len(s))
  <2>1. n \in 1..(Len(s) - (IF h \in pointed THEN 1 ELSE 0))
    BY Zenon DEF OldCountsGo
  <2> HIDE DEF s
  <2> QED BY <1>2, <2>1
<1>4. /\ counts' = [counts EXCEPT ![h] = z]
      /\ trail' = [trail EXCEPT ![h] = u]
      /\ UNCHANGED <<counter, pointed>>
  BY Zenon DEF OldCountsGo, ForgetsTrail
<1>5. /\ z \in Seq(CountStored) /\ Len(z) = Len(s) - n
      /\ Len(z) > 0 => Last(z) = Last(s)
      /\ Len(z) > 1 => CountBefore(z) = CountBefore(s)
  BY <1>1, <1>3, Kept
<1> HIDE DEF z
<1>6. counts'[h] = z
  BY <1>4 DEF GrowthInv, GrowthTyped
<1>7. /\ Len(z) = 0 => u = NoTrail
      /\ Len(z) = 1 => u = ForgetsTrail(t)
      /\ Len(z) # 0 /\ Len(z) # 1 => u = t
  <2>1. ASSUME Len(z) = 0 PROVE u = NoTrail
    BY <1>6, <2>1
  <2>2. ASSUME Len(z) = 1 PROVE u = ForgetsTrail(t)
    BY <1>6, <2>2
  <2>3. ASSUME Len(z) # 0, Len(z) # 1 PROVE u = t
    BY <1>6, <2>3
  <2> QED BY <2>1, <2>2, <2>3
<1> HIDE DEF u
<1>8. u \in Trails /\ Tells(z, u) /\ Points(z, u, h \in pointed)
  <2>1. CASE Len(z) = 0
    <3>1. h \notin pointed /\ u = NoTrail
      BY <1>2, <1>3, <1>5, <1>7, <2>1
    <3> QED BY <2>1, <3>1, NoCounter DEF Tells, Points
  <2>2. CASE Len(z) = 1
    <3>1. u \in Trails /\ u.before = Never /\ u.now = t.now /\ u.gap = t.gap
      BY <1>1, <1>7, <2>2, Forgotten
    <3>2. Last(z) = Last(s) /\ Len(s) > 0
      BY <1>2, <1>3, <1>5, <2>2
    <3>3. CountBefore(z) = Never
      BY <2>2 DEF CountBefore
    <3>4. Last(s) # Blank => Last(s) \in Counts
      BY <1>1, <3>2, LastStored DEF CountStored
    <3> QED BY <1>1, <2>2, <3>1, <3>2, <3>3, <3>4, NoCounter DEF Tells, Points
  <2>3. CASE Len(z) > 1
    <3>1. u = t
      BY <1>7, <2>3
    <3>2. Last(z) = Last(s) /\ Len(s) > 0 /\ CountBefore(z) = CountBefore(s)
      BY <1>2, <1>3, <1>5, <2>3
    <3> QED BY <1>1, <2>3, <3>1, <3>2 DEF Tells, Points
  <2> QED BY <1>2, <1>3, <1>5, <2>1, <2>2, <2>3
<1>9. counter' \in [Hosts -> Counts] /\ pointed' = pointed
  BY <1>4 DEF GrowthInv, GrowthTyped
<1> HIDE DEF s, t
<1> QED BY <1>4, <1>5, <1>8, <1>9, GrowthKeeps

LEMMA CountsFetchedKeeps ==
  ASSUME GrowthInv, NEW h \in Hosts, CountsFetched(h)
  PROVE  GrowthInv'
<1> DEFINE s == counts[h]
           t == trail[h]
           c == counter[h]
<1>1. /\ s \in Seq(CountStored) /\ t \in Trails /\ c \in Counts
      /\ Tells(s, t) /\ Points(s, t, h \in pointed)
  BY DEF GrowthInv, GrowthTyped
<1>2. /\ trail' = [trail EXCEPT ![h] = Advanced(t, c)] /\ counter' = counter
      /\ pointed' = pointed \cup {h} /\ StoresCount(h, c)
  BY DEF CountsFetched, StoresCount
<1>3. counter' \in [Hosts -> Counts] /\ h \in pointed' /\ Advanced(t, c) \in Trails
  BY <1>1, <1>2, AdvancedTrail DEF GrowthInv, GrowthTyped
<1>4. CASE Known(h, c)
  <2>1. counts' = counts /\ h \in pointed /\ Last(s) = c
    BY <1>2, <1>4 DEF StoresCount, Known
  <2>2. Len(s) > 0 /\ c # Blank
    BY <1>1, <2>1, NoCounter DEF Points
  <2>3. t.now = c /\ t.gap = "none"
    BY <1>1, <2>1, <2>2 DEF Tells, Points, Trails, Gaps
  <2>4. counts' = [counts EXCEPT ![h] = s]
    BY <2>1 DEF GrowthInv, GrowthTyped
  <2> DEFINE u == Advanced(t, c)
  <2> HIDE DEF s, t, c
  <2>5. u.now = t.now /\ u.gap = t.gap /\ u.before = t.before /\ u.hidden = t.hidden
    <3>1. t.hidden \in BOOLEAN
      BY <1>1 DEF Trails
    <3> QED BY <1>1, <2>3, <3>1, AdvancedTrail
  <2> HIDE DEF u
  <2>6. Tells(s, u) /\ Points(s, u, TRUE)
    BY <1>1, <2>1, <2>5 DEF Tells, Points
  <2>7. u \in Trails /\ trail' = [trail EXCEPT ![h] = u] /\ Points(s, u, h \in pointed')
    BY <1>2, <1>3, <2>6 DEF u, Points
  <2> QED BY <1>1, <1>2, <1>3, <2>4, <2>6, <2>7, GrowthKeeps
<1>5. CASE ~Known(h, c)
  <2>1. counts' = [counts EXCEPT ![h] = Append(s, c)]
    BY <1>2, <1>5 DEF StoresCount
  <2>2. ~(h \in pointed /\ Last(s) = c)
    BY <1>5 DEF Known
  <2> HIDE DEF s, t, c
  <2>3. Append(s, c) \in Seq(CountStored)
    BY <1>1, Appended DEF CountStored
  <2>4. (h \in pointed) \in BOOLEAN
    OBVIOUS
  <2>5. /\ Tells(Append(s, c), Advanced(t, c))
        /\ Points(Append(s, c), Advanced(t, c), TRUE)
    BY <1>1, <2>2, <2>4, Fetched
  <2>6. Points(Append(s, c), Advanced(t, c), h \in pointed')
    BY <1>3, <2>5 DEF Points
  <2> QED BY <1>2, <1>3, <2>1, <2>3, <2>5, <2>6, GrowthKeeps
<1> QED BY <1>4, <1>5

LEMMA CountsFailKeeps ==
  ASSUME GrowthInv, NEW h \in Hosts, CountsFail(h)
  PROVE  GrowthInv'
<1> DEFINE s == counts[h]
           t == trail[h]
           u == WithGap(t, "blank")
<1>1. /\ s \in Seq(CountStored) /\ t \in Trails /\ Tells(s, t) /\ Points(s, t, h \in pointed)
      /\ counter' = counter /\ counter' \in [Hosts -> Counts]
  BY DEF GrowthInv, GrowthTyped, CountsFail
<1>2. CASE UNCHANGED <<counts, pointed, trail>>
  BY <1>1, <1>2 DEF GrowthInv, GrowthTyped
<1>3. CASE StoresCount(h, Blank) /\ trail' = [trail EXCEPT ![h].gap = "blank"]
  <2>1. pointed' = pointed \cup {h} /\ h \in pointed'
    BY <1>3 DEF StoresCount
  <2>2. trail' = [trail EXCEPT ![h] = u]
    BY <1>3 DEF WithGap
  <2>3. /\ u \in Trails /\ u.gap = "blank" /\ u.before = t.before /\ u.now = t.now
        /\ u.hidden = t.hidden
    BY <1>1, GapSet DEF Gaps
  <2>4. CASE Known(h, Blank)
    <3>1. counts' = counts /\ h \in pointed /\ Last(s) = Blank
      BY <1>3, <2>4 DEF StoresCount, Known
    <3>2. counts' = [counts EXCEPT ![h] = s]
      BY <3>1 DEF GrowthInv, GrowthTyped
    <3> HIDE DEF s, t, u
    <3>3. Tells(s, u) /\ Points(s, u, h \in pointed')
      BY <1>1, <2>1, <2>3, <3>1 DEF Tells, Points
    <3> QED BY <1>1, <2>1, <2>2, <2>3, <3>2, <3>3, GrowthKeeps
  <2>5. CASE ~Known(h, Blank)
    <3>1. counts' = [counts EXCEPT ![h] = Append(s, Blank)]
      BY <1>3, <2>5 DEF StoresCount
    <3>2. Append(s, Blank) \in Seq(CountStored)
      BY <1>1, Appended DEF CountStored
    <3>3. Tells(Append(s, Blank), u) /\ Points(Append(s, Blank), u, TRUE)
      BY <1>1, StoredBlank
    <3> HIDE DEF s, t, u
    <3>4. Points(Append(s, Blank), u, h \in pointed')
      BY <2>1, <3>3 DEF Points
    <3> QED BY <1>1, <2>1, <2>2, <2>3, <3>1, <3>2, <3>3, <3>4, GrowthKeeps
  <2> QED BY <2>4, <2>5
<1> QED BY <1>2, <1>3 DEF CountsFail

LEMMA RelistedGrowth ==
  ASSUME GrowthInv, NEW h \in Hosts, Relisted(h)
  PROVE  GrowthInv'
<1> DEFINE s == counts[h]
           t == trail[h]
           g == IF t.gap = "blank" THEN t.gap ELSE "relisted"
           u == WithGap(t, g)
<1>1. s \in Seq(CountStored) /\ t \in Trails /\ Tells(s, t)
  BY DEF GrowthInv, GrowthTyped
<1>2. /\ trail' = [trail EXCEPT ![h] = u] /\ pointed' = pointed \ {h}
      /\ UNCHANGED <<counter, counts>>
  BY DEF Relisted, WithGap
<1>3. counts' = [counts EXCEPT ![h] = s] /\ counter' \in [Hosts -> Counts]
  BY <1>2 DEF GrowthInv, GrowthTyped
<1>4. /\ u \in Trails /\ u.gap = g /\ u.before = t.before /\ u.now = t.now /\ u.hidden = t.hidden
      /\ g \in {"blank", "relisted"} /\ (g = "blank" <=> t.gap = "blank")
  BY <1>1, GapSet DEF Gaps
<1> HIDE DEF s, t, g, u
<1>5. Tells(s, u) /\ Points(s, u, h \in pointed')
  BY <1>1, <1>2, <1>4 DEF Tells, Points
<1> QED BY <1>1, <1>2, <1>3, <1>4, <1>5, GrowthKeeps

LEMMA CounterMovesKeeps ==
  ASSUME GrowthInv, NEW h \in Hosts, CounterMoves(h)
  PROVE  GrowthInv'
<1>1. UNCHANGED <<counts, pointed, trail>>
  BY DEF CounterMoves
<1>2. PICK c \in Counts : counter' = [counter EXCEPT ![h] = c]
  BY DEF CounterMoves
<1>3. counter' \in [Hosts -> Counts]
  BY <1>2 DEF GrowthInv, GrowthTyped
<1> QED BY <1>1, <1>3 DEF GrowthInv, GrowthTyped

LEMMA GrowthStep == GrowthInv /\ [IndicatorsNext]_indicatorVars => GrowthInv'
<1> SUFFICES ASSUME GrowthInv, [IndicatorsNext]_indicatorVars PROVE GrowthInv'
  OBVIOUS
<1>1. CASE \E h \in Hosts : CountsFetched(h) \/ CountsFail(h) \/ CounterMoves(h) \/ Relisted(h)
                            \/ \E n \in 1..MaxStored : OldCountsGo(h, n)
  BY <1>1, CountsFetchedKeeps, CountsFailKeeps, CounterMovesKeeps, RelistedGrowth, OldGoKeeps
<1>2. CASE UNCHANGED <<counter, counts, pointed, trail>>
  BY <1>2 DEF GrowthInv, GrowthTyped
<1>3. ASSUME IgnoreNext \/ UNCHANGED indicatorVars
             \/ \E h \in Hosts, i \in Graded : CollectFails(i, h) \/ \E g \in Grades \ {Never} : Collects(i, h, g)
      PROVE  UNCHANGED <<counter, counts, pointed, trail>>
  BY <1>3, Zenon DEF IgnoreNext, ToggleStored, ToggleAsked, CollectFails, Collects, indicatorVars
<1> QED BY <1>1, <1>2, <1>3 DEF IndicatorsNext, CollectionNext

\* The inductive invariant of the error counters, for any devices and lengths of history.
THEOREM GrowthInvariant == IndicatorsSpec => []GrowthInv
<1>1. IndicatorsInit => GrowthInv
  <2> SUFFICES ASSUME IndicatorsInit PROVE GrowthInv
    OBVIOUS
  <2>1. 0 \in Counts
    BY IndicatorAssumption DEF Counts
  <2>2. GrowthTyped
    BY <2>1, NoCounter DEF IndicatorsInit, GrowthTyped
  <2>3. \A h \in Hosts : counts[h] = <<>> /\ trail[h] = NoTrail /\ h \notin pointed
    BY DEF IndicatorsInit
  <2> QED BY <2>2, <2>3, NoCounter DEF GrowthInv, Tells, Points
<1> QED BY <1>1, GrowthStep, PTL DEF IndicatorsSpec

\* What the other tables of the indicators hold, and the bound on the batches.
ErrorRows == {TypeOf[i] : i \in Shown} \X Hosts
RestTyped ==
  /\ result \in [Graded -> [Hosts -> Grades]] /\ error \subseteq ErrorRows
  /\ \A h \in Hosts : Len(counts[h]) <= MaxStored

LEMMA CountStores ==
  ASSUME GrowthInv, RestTyped, NEW h \in Hosts, NEW c \in CountStored, StoresCount(h, c)
  PROVE  \A g \in Hosts : Len(counts'[g]) <= MaxStored
<1>1. CASE Known(h, c)
  BY <1>1 DEF StoresCount, RestTyped
<1>2. CASE ~Known(h, c)
  <2> DEFINE s == counts[h]
             z == Append(s, c)
  <2>1. Len(s) < MaxStored /\ counts' = [counts EXCEPT ![h] = z] /\ s \in Seq(CountStored)
    BY <1>2 DEF StoresCount, GrowthInv, GrowthTyped
  <2>2. Len(z) = Len(s) + 1 /\ Len(s) \in Nat
    BY <2>1, AppendProperties, LenProperties
  <2> HIDE DEF s, z
  <2>3. Len(z) <= MaxStored
    BY <2>1, <2>2, IndicatorAssumption
  <2>4. \A g \in Hosts : counts'[g] = IF g = h THEN z ELSE counts[g]
    BY <2>1 DEF GrowthInv, GrowthTyped
  <2> QED BY <2>3, <2>4 DEF RestTyped
<1> QED BY <1>1, <1>2

LEMMA RestStep == GrowthInv /\ RestTyped /\ [IndicatorsNext]_indicatorVars => RestTyped'
<1> SUFFICES ASSUME GrowthInv, RestTyped, [IndicatorsNext]_indicatorVars PROVE RestTyped'
  OBVIOUS
<1>0. /\ result \in [Graded -> [Hosts -> Grades]] /\ error \subseteq ErrorRows
      /\ \A h \in Hosts : Len(counts[h]) <= MaxStored
  BY DEF RestTyped
<1>e. \A i \in Shown, h \in Hosts : <<TypeOf[i], h>> \in ErrorRows
  BY DEF ErrorRows
<1>s. Graded \subseteq Shown /\ "error_count" \in Shown
  BY DEF Shown
<1>1. ASSUME NEW h \in Hosts, NEW i \in Graded, CollectFails(i, h) PROVE RestTyped'
  <2>1. /\ result' \in {result, [result EXCEPT ![i][h] = Blank]} /\ UNCHANGED counts
        /\ error' = error \cup {<<TypeOf[i], h>>}
    BY <1>1 DEF CollectFails, Records
  <2>2. result' \in [Graded -> [Hosts -> Grades]]
    BY <1>0, <2>1 DEF Grades
  <2> QED BY <1>0, <1>e, <1>s, <2>1, <2>2 DEF RestTyped
<1>2. ASSUME NEW h \in Hosts, NEW i \in Graded, NEW g \in Grades \ {Never}, Collects(i, h, g)
      PROVE  RestTyped'
  <2>1. /\ result' = [result EXCEPT ![i][h] = g] /\ UNCHANGED counts
        /\ error' = error \ {<<TypeOf[i], h>>}
    BY <1>2 DEF Collects, Clears
  <2>2. result' \in [Graded -> [Hosts -> Grades]]
    BY <1>0, <2>1
  <2> QED BY <1>0, <2>1, <2>2 DEF RestTyped
<1>3. ASSUME NEW h \in Hosts, CountsFetched(h) PROVE RestTyped'
  <2>1. /\ StoresCount(h, counter[h]) /\ UNCHANGED result /\ error' \subseteq error
        /\ counter[h] \in CountStored
    BY <1>3 DEF CountsFetched, Clears, GrowthInv, GrowthTyped, CountStored
  <2> QED BY <1>0, <2>1, CountStores DEF RestTyped
<1>4. ASSUME NEW h \in Hosts, CountsFail(h) PROVE RestTyped'
  <2>1. /\ UNCHANGED counts \/ StoresCount(h, Blank)
        /\ UNCHANGED result /\ error' = error \cup {<<TypeOf["error_count"], h>>}
    BY <1>4 DEF CountsFail, Records
  <2>2. Blank \in CountStored
    BY DEF CountStored
  <2>3. error' \subseteq ErrorRows
    BY <1>0, <1>e, <1>s, <2>1
  <2>4. \A g \in Hosts : Len(counts'[g]) <= MaxStored
    BY <1>0, <2>1, <2>2, CountStores
  <2> QED BY <1>0, <2>1, <2>3, <2>4 DEF RestTyped
<1>5. ASSUME NEW h \in Hosts, CounterMoves(h) PROVE RestTyped'
  BY <1>0, <1>5 DEF CounterMoves, RestTyped
<1>6. ASSUME NEW h \in Hosts, Relisted(h) PROVE RestTyped'
  <2>1. /\ result' = [i \in Graded |-> [result[i] EXCEPT ![h] = Never]]
        /\ error' \subseteq error /\ UNCHANGED counts
    BY <1>6 DEF Relisted
  <2>2. result' \in [Graded -> [Hosts -> Grades]]
    BY <1>0, <2>1 DEF Grades
  <2> QED BY <1>0, <2>1, <2>2 DEF RestTyped
<1>7. ASSUME NEW h \in Hosts, NEW n \in 1..MaxStored, OldCountsGo(h, n) PROVE RestTyped'
  <2> DEFINE s == counts[h]
             z == SubSeq(s, n + 1, Len(s))
  <2>1. /\ n \in 1..(Len(s) - (IF h \in pointed THEN 1 ELSE 0))
        /\ counts' = [counts EXCEPT ![h] = z]
        /\ UNCHANGED <<result, error>>
    BY <1>7, Zenon DEF OldCountsGo
  <2>2. s \in Seq(CountStored)
    BY DEF GrowthInv, GrowthTyped
  <2>3. Len(s) \in Nat /\ Len(s) <= MaxStored
    BY <1>0, <2>2, LenProperties
  <2> HIDE DEF s
  <2>4. n \in Nat /\ 0 < n /\ n <= Len(s)
    BY <2>1, <2>3
  <2>5. Len(z) = Len(s) - n
    BY <2>2, <2>4, Kept
  <2> HIDE DEF z
  <2>6. Len(z) <= MaxStored
    BY <2>3, <2>4, <2>5, IndicatorAssumption
  <2>7. \A g \in Hosts : counts'[g] = IF g = h THEN z ELSE counts[g]
    BY <2>1 DEF GrowthInv, GrowthTyped
  <2> QED BY <1>0, <2>1, <2>6, <2>7 DEF RestTyped
<1>8. ASSUME IgnoreNext \/ UNCHANGED indicatorVars PROVE RestTyped'
  <2>1. UNCHANGED <<result, counts, error>>
    BY <1>8, Zenon DEF IgnoreNext, ToggleStored, ToggleAsked, indicatorVars
  <2> QED BY <1>0, <2>1 DEF RestTyped
<1> QED BY <1>1, <1>2, <1>3, <1>4, <1>5, <1>6, <1>7, <1>8 DEF IndicatorsNext, CollectionNext

\* Results, batches, errors and ignored indicators are well typed, for any devices, viewers
\* and history.
THEOREM IndicatorsTyped == IndicatorsSpec => []IndicatorsTypeOK
<1>1. IndicatorsInit => RestTyped
  <2> SUFFICES ASSUME IndicatorsInit PROVE RestTyped
    OBVIOUS
  <2>1. result \in [Graded -> [Hosts -> Grades]] /\ error = {}
    BY DEF IndicatorsInit, Grades
  <2>2. \A h \in Hosts : Len(counts[h]) <= MaxStored
    BY IndicatorAssumption DEF IndicatorsInit
  <2> QED BY <2>1, <2>2 DEF RestTyped
<1>2. ASSUME IgnoreInv, GrowthInv, RestTyped PROVE IndicatorsTypeOK
  <2>1. /\ counter \in [Hosts -> Counts] /\ pointed \subseteq Hosts
        /\ counts \in [Hosts -> Seq(CountStored)] /\ trail \in [Hosts -> Trails]
        /\ result \in [Graded -> [Hosts -> Grades]] /\ error \subseteq ErrorRows
        /\ ignored \in [Hosts -> SUBSET Shown] /\ toggle \in [Viewers -> Toggle \cup {NoToggle}]
    BY <1>2 DEF IgnoreInv, IgnoreTyped, GrowthInv, GrowthTyped, RestTyped
  <2>2. ASSUME NEW h \in Hosts
        PROVE  \E n \in 0..MaxStored : counts[h] \in [1..n -> Counts \cup {Blank}]
    <3>1. counts[h] \in Seq(CountStored) /\ Len(counts[h]) <= MaxStored
      BY <1>2, <2>1 DEF RestTyped
    <3>2. Len(counts[h]) \in 0..MaxStored /\ counts[h] \in [1..Len(counts[h]) -> CountStored]
      BY <3>1, LenProperties, IndicatorAssumption
    <3> QED BY <3>2 DEF CountStored
  <2> QED BY <2>1, <2>2 DEF IndicatorsTypeOK, Trails, ErrorRows
<1> QED BY <1>1, <1>2, RestStep, IgnoreInvariant, GrowthInvariant, PTL DEF IndicatorsSpec

LEMMA GrowthTold == GrowthInv => GrowthShown
<1> SUFFICES ASSUME GrowthInv, NEW h \in pointed, Last(counts[h]) # Blank
             PROVE  ErrorCountPasses(h) <=>
                      (trail[h].before = Never \/ trail[h].before >= trail[h].now \/ trail[h].hidden)
  BY DEF GrowthShown
<1> DEFINE s == counts[h]
           t == trail[h]
<1>1. s \in Seq(CountStored) /\ t \in Trails /\ Tells(s, t) /\ Len(s) > 0 /\ h \in Hosts
  BY DEF GrowthInv, GrowthTyped, Points
<1>2. Previous(h) = CountBefore(s)
  BY DEF Previous, CountBefore
<1>3. ErrorCountPasses(h) <=> ~(CountBefore(s) \in Counts /\ Last(s) > CountBefore(s))
  <2>1. Grown(h) <=> CountBefore(s) \in Counts /\ Last(s) > CountBefore(s)
    BY <1>2 DEF Grown
  <2>2. h \in pointed /\ Last(counts[h]) # Blank
    OBVIOUS
  <2> HIDE DEF s, t
  <2>3. ErrorCountPasses(h) <=> ~Grown(h)
    <3>1. (IF Last(counts[h]) = Blank THEN ~HasError("error_count", h) ELSE ~Grown(h)) = ~Grown(h)
      BY ONLY <2>2, Zenon
    <3>2. ErrorCountPasses(h)
            <=> /\ h \in pointed
                /\ IF Last(counts[h]) = Blank THEN ~HasError("error_count", h) ELSE ~Grown(h)
      BY DEF ErrorCountPasses
    <3> QED BY ONLY <2>2, <3>1, <3>2, Zenon
  <2> QED BY ONLY <2>1, <2>3
<1> HIDE DEF s, t
<1>4. t.now = Last(s) /\ Last(s) \in Counts
  BY <1>1, LastStored DEF Tells, CountStored, s
<1>5. Last(s) # Blank
  BY DEF s
<1>6. CountBefore(s) \in Counts \cup {Blank, Never}
  <2>1. Len(s) \in Nat /\ \A i \in 1..Len(s) : s[i] \in CountStored
    BY <1>1, LenProperties
  <2>2. Len(s) >= 2 => Len(s) - 1 \in 1..Len(s)
    BY <2>1
  <2> QED BY <2>1, <2>2 DEF CountBefore, CountStored
<1>7. ErrorCountPasses(h) <=> (t.before = Never \/ t.before >= t.now \/ t.hidden)
  <2>1. CASE CountBefore(s) = Never
    <3>1. t.before = Never /\ CountBefore(s) \notin Counts
      BY <1>1, <1>5, <2>1, NoCounter DEF Tells
    <3> QED BY ONLY <1>3, <3>1, Zenon
  <2>2. CASE CountBefore(s) = Blank
    <3>1. t.hidden /\ CountBefore(s) \notin Counts
      BY <1>1, <1>5, <2>2, NoCounter DEF Tells
    <3> QED BY ONLY <1>3, <3>1, Zenon
  <2>3. CASE CountBefore(s) = Last(s)
    <3>1. t.hidden
      BY <1>1, <1>5, <2>3 DEF Tells
    <3>2. ~(Last(s) > CountBefore(s))
      <4>1. Last(s) \in Nat
        BY <1>4, NoCounter
      <4> QED BY ONLY <2>3, <4>1
    <3> QED BY ONLY <1>3, <3>1, <3>2, Zenon
  <2>4. CASE CountBefore(s) \in Counts \ {Last(s)}
    <3>1. t.before = CountBefore(s) /\ ~t.hidden
      BY <1>1, <1>5, <2>4 DEF Tells
    <3>2. (t.before >= t.now) <=> ~(Last(s) > CountBefore(s))
      <4>1. Last(s) \in Nat /\ CountBefore(s) \in Nat
        BY <1>4, <2>4, NoCounter
      <4> QED BY ONLY <1>4, <3>1, <4>1
    <3>3. t.before # Never
      BY <2>4, <3>1, NoCounter
    <3> QED BY ONLY <1>3, <2>4, <3>1, <3>2, <3>3, Zenon
  <2> QED BY <1>6, <2>1, <2>2, <2>3, <2>4
<1> QED BY ONLY <1>7 DEF t

\* A device fails for growing errors exactly while the last two different counters fetched
\* from it grew, both are stored and neither an empty batch nor a repetition after re-adding
\* came between, for any devices, lengths of history and cleanups (error_count, save_batch,
\* cleanup_old_batches).
THEOREM GrowthAlwaysShown == IndicatorsSpec => []GrowthShown
BY GrowthTold, GrowthInvariant, PTL

-----------------------------------------------------------------------------
(* The deletion of a maintenance. *)

LEMMA ConcatFirst ==
  ASSUME NEW S, NEW a \in Seq(S), NEW b \in Seq(S), NEW i \in 1..Len(a)
  PROVE  (a \o b)[i] = a[i]
<1>1. i \in 1 .. Len(a) + Len(b) /\ i <= Len(a)
  BY LenProperties
<1> QED BY <1>1, ConcatProperties

LEMMA ConcatSecond ==
  ASSUME NEW S, NEW a \in Seq(S), NEW b \in Seq(S), NEW i \in 1..Len(b)
  PROVE  (a \o b)[Len(a) + i] = b[i]
<1>1. Len(a) + i \in 1 .. Len(a) + Len(b) /\ ~(Len(a) + i <= Len(a)) /\ Len(a) + i - Len(a) = i
  BY LenProperties
<1> QED BY <1>1, ConcatProperties

Tables == Plainly \cup {"members", "categories", "references", "contacts", "subheadings", "headings"}

LEMMA SweepParts ==
  /\ SweepsCollected \in Seq(SUBSET Tables) /\ Len(SweepsCollected) = 3
  /\ SweepsListed \in Seq(SUBSET Tables) /\ Len(SweepsListed) = 4
  /\ SweepsRest \in Seq(SUBSET Tables) /\ Len(SweepsRest) = 4
<1>1. \A a, b, c, d \in SUBSET Tables :
        <<a, b, c>> \in Seq(SUBSET Tables) /\ <<a, b, c, d>> \in Seq(SUBSET Tables)
  OBVIOUS
<1>2. SweepsCollected \in Seq(SUBSET Tables)
  <2>1. /\ {"records", "pointers", "errors"} \in SUBSET Tables
        /\ {"batches"} \in SUBSET Tables /\ {"expectations"} \in SUBSET Tables
    BY DEF Tables, Plainly
  <2> QED BY <1>1, <2>1, Zenon DEF SweepsCollected
<1>3. SweepsListed \in Seq(SUBSET Tables)
  <2>1. /\ {"notes", "cases", "latest clients", "client records", "comparisons"} \in SUBSET Tables
        /\ {"members"} \in SUBSET Tables /\ {"categories"} \in SUBSET Tables
        /\ {"overrides", "clients", "devices", "checkpoints", "references", "results"} \in SUBSET Tables
    BY DEF Tables, Plainly
  <2> QED BY <1>1, <2>1, Zenon DEF SweepsListed
<1>4. SweepsRest \in Seq(SUBSET Tables)
  <2>1. /\ {"contacts"} \in SUBSET Tables /\ {"subheadings"} \in SUBSET Tables
        /\ {"headings"} \in SUBSET Tables /\ {"meals", "users"} \in SUBSET Tables
    BY DEF Tables, Plainly
  <2> QED BY <1>1, <2>1, Zenon DEF SweepsRest
<1>5. Len(SweepsCollected) = 3 /\ Len(SweepsListed) = 4 /\ Len(SweepsRest) = 4
  BY DEF SweepsCollected, SweepsListed, SweepsRest
<1> QED BY <1>2, <1>3, <1>4, <1>5

LEMMA Statements ==
  /\ Len(Sweeps) = 11
  /\ Sweeps[1] = {"records", "pointers", "errors"}
  /\ Sweeps[2] = {"batches"} /\ Sweeps[3] = {"expectations"}
  /\ Sweeps[4] = {"notes", "cases", "latest clients", "client records", "comparisons"}
  /\ Sweeps[5] = {"members"} /\ Sweeps[6] = {"categories"}
  /\ Sweeps[7] = {"overrides", "clients", "devices", "checkpoints", "references", "results"}
  /\ Sweeps[8] = {"contacts"} /\ Sweeps[9] = {"subheadings"} /\ Sweeps[10] = {"headings"}
  /\ Sweeps[11] = {"meals", "users"}
<1> DEFINE a == SweepsCollected
           b == SweepsListed
           c == SweepsRest
           bc == a \o b
<1>0. a \in Seq(SUBSET Tables) /\ b \in Seq(SUBSET Tables) /\ c \in Seq(SUBSET Tables)
  BY SweepParts
<1>1. Len(a) = 3 /\ Len(b) = 4 /\ Len(c) = 4
  BY SweepParts
<1> HIDE DEF a, b, c
<1>2. /\ bc \in Seq(SUBSET Tables) /\ Len(bc) = Len(a) + Len(b)
      /\ \A i \in 1..Len(a) : bc[i] = a[i]
      /\ \A i \in 1..Len(b) : bc[Len(a) + i] = b[i]
  <2>1. a \o b \in Seq(SUBSET Tables)
    BY <1>0, ConcatProperties
  <2>2. Len(a \o b) = Len(a) + Len(b)
    BY <1>0, ConcatProperties
  <2>3. ASSUME NEW i \in 1..Len(a) PROVE (a \o b)[i] = a[i]
    BY <1>0, ConcatFirst
  <2>4. ASSUME NEW i \in 1..Len(b) PROVE (a \o b)[Len(a) + i] = b[i]
    BY <1>0, ConcatSecond
  <2> QED BY <2>1, <2>2, <2>3, <2>4
<1>3. Sweeps = bc \o c
  BY DEF Sweeps, a, b, c
<1> HIDE DEF bc
<1>4. /\ Len(Sweeps) = Len(bc) + Len(c)
      /\ \A i \in 1..Len(bc) : Sweeps[i] = bc[i]
      /\ \A i \in 1..Len(c) : Sweeps[Len(bc) + i] = c[i]
  <2>2. Len(bc \o c) = Len(bc) + Len(c)
    BY <1>0, <1>2, ConcatProperties
  <2>3. ASSUME NEW i \in 1..Len(bc) PROVE (bc \o c)[i] = bc[i]
    BY <1>0, <1>2, ConcatFirst
  <2>4. ASSUME NEW i \in 1..Len(c) PROVE (bc \o c)[Len(bc) + i] = c[i]
    <3>1. bc \in Seq(SUBSET Tables)
      BY <1>2
    <3> QED BY <1>0, <3>1, ConcatSecond
  <2> QED BY <1>3, <2>2, <2>3, <2>4
<1>5. Len(bc) = 7
  BY <1>1, <1>2
<1>6. Len(Sweeps) = 11
  BY <1>1, <1>4, <1>5
<1>7. bc[1] = a[1] /\ bc[2] = a[2] /\ bc[3] = a[3]
      /\ bc[4] = b[1] /\ bc[5] = b[2] /\ bc[6] = b[3] /\ bc[7] = b[4]
  BY <1>1, <1>2
<1>8. Sweeps[1] = a[1] /\ Sweeps[2] = a[2] /\ Sweeps[3] = a[3]
      /\ Sweeps[4] = b[1] /\ Sweeps[5] = b[2] /\ Sweeps[6] = b[3] /\ Sweeps[7] = b[4]
  BY <1>4, <1>5, <1>7
<1>9. Sweeps[8] = c[1] /\ Sweeps[9] = c[2] /\ Sweeps[10] = c[3] /\ Sweeps[11] = c[4]
  BY <1>1, <1>4, <1>5
<1>10. a[1] = {"records", "pointers", "errors"} /\ a[2] = {"batches"} /\ a[3] = {"expectations"}
  BY DEF a, SweepsCollected
<1>11. /\ b[1] = {"notes", "cases", "latest clients", "client records", "comparisons"}
       /\ b[2] = {"members"} /\ b[3] = {"categories"}
       /\ b[4] = {"overrides", "clients", "devices", "checkpoints", "references", "results"}
  BY DEF b, SweepsListed
<1>12. c[1] = {"contacts"} /\ c[2] = {"subheadings"} /\ c[3] = {"headings"} /\ c[4] = {"meals", "users"}
  BY DEF c, SweepsRest
<1> QED BY <1>6, <1>8, <1>9, <1>10, <1>11, <1>12

\* The tables that the deletion has been through when it comes to a statement.
SweptAt(at, t) == \E n \in 1..(at - 1) : t \in Sweeps[n]

LEMMA NamedOnce ==
  ASSUME NEW n \in 1..11
  PROVE  /\ "members" \in Sweeps[n] <=> n = 5
         /\ "categories" \in Sweeps[n] <=> n = 6
         /\ "contacts" \in Sweeps[n] <=> n = 8
         /\ "subheadings" \in Sweeps[n] <=> n = 9
         /\ "headings" \in Sweeps[n] <=> n = 10
<1>1. CASE n = 1
  BY <1>1, Statements
<1>2. CASE n = 2
  BY <1>2, Statements
<1>3. CASE n = 3
  BY <1>3, Statements
<1>4. CASE n = 4
  BY <1>4, Statements
<1>5. CASE n = 5
  BY <1>5, Statements
<1>6. CASE n = 6
  BY <1>6, Statements
<1>7. CASE n = 7
  BY <1>7, Statements
<1>8. CASE n = 8
  BY <1>8, Statements
<1>9. CASE n = 9
  BY <1>9, Statements
<1>10. CASE n = 10
  BY <1>10, Statements
<1>11. CASE n = 11
  BY <1>11, Statements
<1> QED BY <1>1, <1>2, <1>3, <1>4, <1>5, <1>6, <1>7, <1>8, <1>9, <1>10, <1>11

LEMMA SweptWhen ==
  ASSUME NEW at \in 0..12
  PROVE  /\ SweptAt(at, "members") <=> at > 5
         /\ SweptAt(at, "categories") <=> at > 6
         /\ SweptAt(at, "contacts") <=> at > 8
         /\ SweptAt(at, "subheadings") <=> at > 9
         /\ SweptAt(at, "headings") <=> at > 10
BY NamedOnce DEF SweptAt

LEMMA AllSwept ==
  ASSUME NEW t \in Plainly \cup {"references"}
  PROVE  SweptAt(12, t)
<1>1. t \in Sweeps[1] \cup Sweeps[2] \cup Sweeps[3] \cup Sweeps[4] \cup Sweeps[7] \cup Sweeps[11]
  <2>1. t \in {"records", "pointers", "errors"} \cup {"batches"} \cup {"expectations"}
              \cup {"notes", "cases", "latest clients", "client records", "comparisons"}
              \cup {"overrides", "clients", "devices", "checkpoints", "references", "results"}
              \cup {"meals", "users"}
    BY DEF Plainly
  <2> HIDE DEF Plainly
  <2> QED BY <2>1, Statements
<1> QED BY <1>1 DEF SweptAt

LEMMA SweptIsAt == \A t : Swept(t) <=> SweptAt(sweep.at, t)
BY DEF Swept, SweptAt

\* The types of the tables, of flags, and of the deletion.
RowsTyped ==
  /\ filled \subseteq Holders /\ \A t \in filled : Carrier(t) \subseteq filled
  /\ populated \subseteq kinds /\ kinds \subseteq KindIds
  /\ DOMAIN shelf \subseteq ShelfIds /\ \A h \in DOMAIN shelf : shelf[h] \in {0} \cup DOMAIN shelf
  /\ contacted \subseteq {0} \cup DOMAIN shelf
FlagsTyped ==
  /\ setup \in {"none", "named", "nameless"}
  /\ reserve \in {"none", "null", "false"}
  /\ fresh \in BOOLEAN /\ overwritten \in BOOLEAN
SweepTyped == sweep \in [at : 0..12, kinds : SUBSET KindIds, shelf : SUBSET ShelfIds]

LEMMA RemovalTypes == RemovalTypeOK <=> RowsTyped /\ FlagsTyped /\ SweepTyped
<1>1. 0..(Len(Sweeps) + 1) = 0..12
  <2>1. Len(Sweeps) = 11
    BY Statements
  <2> QED BY <2>1
<1> QED BY <1>1, Zenon DEF RemovalTypeOK, RowsTyped, FlagsTyped, SweepTyped

\* What a deletion leaves, until somebody writes.
LeavesNothing ==
  /\ filled \subseteq {"thresholds"} /\ kinds = {} /\ populated = {}
  /\ shelf = <<>> /\ contacted \subseteq {0} /\ reserve = "none"

\* A deletion that is past the categories left no member, and past the headings no contact
\* below one; while nobody writes, it knows all the categories there are.
SweepFollows ==
  /\ Swept("categories") => MembersLeft = {}
  /\ Swept("headings") => ContactsLeft = {}
  /\ sweep.at > 0 /\ ~overwritten => sweep.kinds = kinds /\ sweep.shelf = DOMAIN shelf

RemovalInv == RowsTyped /\ FlagsTyped /\ SweepTyped /\ (fresh => LeavesNothing) /\ SweepFollows

LEMMA RemovalInitInv == RemovalInit => RemovalInv
<1> SUFFICES ASSUME RemovalInit PROVE RemovalInv
  OBVIOUS
<1>1. sweep = NoSweep /\ sweep.at = 0 /\ sweep.at \in 0..12
  BY DEF RemovalInit, NoSweep
<1>2. ~Swept("categories") /\ ~Swept("headings")
  BY <1>1, SweptIsAt, SweptWhen
<1>3. RowsTyped /\ FlagsTyped /\ SweepTyped
  <2>1. RowsTyped
    BY DEF RemovalInit, RowsTyped
  <2>3. FlagsTyped
    BY DEF RemovalInit, FlagsTyped
  <2>2. SweepTyped
    BY <1>1 DEF NoSweep, SweepTyped
  <2> QED BY <2>1, <2>2, <2>3
<1> QED BY <1>1, <1>2, <1>3 DEF RemovalInit, RemovalInv, SweepFollows

-----------------------------------------------------------------------------
(* Writers beside the deletion. *)

\* A writer that does not reach what the deletion is past keeps the invariant.
LEMMA WriterKeeps ==
  ASSUME RemovalInv, RowsTyped', FlagsTyped', SweepTyped', Writes,
         Swept("categories") => populated' \ sweep.kinds \subseteq populated \ sweep.kinds
                                /\ (~Swept("members") => populated' \subseteq populated),
         Swept("headings") => contacted' \subseteq contacted \cup {0}
  PROVE  RemovalInv'
<1>1. sweep' = sweep /\ fresh' = FALSE /\ overwritten' = (sweep.at > 0)
  BY DEF Writes
<1>2. \A t : Swept(t)' <=> Swept(t)
  BY <1>1 DEF Swept
<1>3. Swept("categories")' => MembersLeft' = {}
  BY <1>1, <1>2 DEF MembersLeft, RemovalInv, SweepFollows
<1>4. Swept("headings")' => ContactsLeft' = {}
  BY <1>1, <1>2 DEF ContactsLeft, RemovalInv, SweepFollows
<1> QED BY <1>1, <1>3, <1>4 DEF RemovalInv, SweepFollows

LEMMA FillsTypes ==
  ASSUME RowsTyped, NEW t \in Holders, Fills(t)
  PROVE  RowsTyped'
BY DEF RowsTyped, Fills, Writes

LEMMA LosesTypes == RowsTyped /\ LosesCheckpoint => RowsTyped'
BY DEF RowsTyped, LosesCheckpoint, Writes, Carrier

LEMMA KindTypes ==
  ASSUME RowsTyped, NEW k \in KindIds, AddsKind(k) \/ Populates(k)
  PROVE  RowsTyped'
BY DEF RowsTyped, AddsKind, Populates, Writes

LEMMA ShelfTypes ==
  ASSUME RowsTyped, NEW h \in ShelfIds, NEW p, Shelves(h, p)
  PROVE  RowsTyped'
BY DEF RowsTyped, Shelves, Writes

LEMMA ContactTypes ==
  ASSUME RowsTyped, NEW h, AddsContact(h)
  PROVE  RowsTyped'
BY DEF RowsTyped, AddsContact, Writes

LEMMA ReferenceTypes == RowsTyped /\ (AddsReference \/ RemovesReference) => RowsTyped'
BY DEF RowsTyped, AddsReference, RemovesReference, Writes

LEMMA WrittenFlags ==
  ASSUME FlagsTyped, Writes, reserve' \in {reserve, "null", "false"}
  PROVE  FlagsTyped'
<1>1. (sweep.at > 0) \in BOOLEAN
  OBVIOUS
<1>2. overwritten' \in BOOLEAN
  BY <1>1, Zenon DEF Writes
<1>3. fresh' \in BOOLEAN /\ setup' = setup
  BY Zenon DEF Writes
<1> QED BY <1>2, <1>3, Zenon DEF FlagsTyped

LEMMA WritersStep ==
  ASSUME RemovalInv,
         \/ \E t \in Holders : Fills(t)
         \/ LosesCheckpoint
         \/ \E k \in KindIds : AddsKind(k) \/ Populates(k)
         \/ \E h \in ShelfIds, p \in {0} \cup ShelfIds : Shelves(h, p)
         \/ \E h \in {0} \cup ShelfIds : AddsContact(h)
         \/ AddsReference \/ RemovesReference
  PROVE  RemovalInv'
<1>1. RowsTyped /\ FlagsTyped /\ SweepTyped
  BY DEF RemovalInv
<1>2. RowsTyped'
  BY <1>1, FillsTypes, LosesTypes, KindTypes, ShelfTypes, ContactTypes, ReferenceTypes
<1>3. Writes
  BY DEF Fills, LosesCheckpoint, AddsKind, Populates, Shelves, AddsContact, AddsReference, RemovesReference
<1>7. FlagsTyped'
  <2>1. reserve' \in {reserve, "null", "false"}
    BY DEF Fills, LosesCheckpoint, AddsKind, Populates, Shelves, AddsContact, AddsReference, RemovesReference
  <2> QED BY <1>1, <1>3, <2>1, WrittenFlags
<1>6. SweepTyped'
  BY <1>1, <1>3 DEF Writes, SweepTyped
<1>4. Swept("categories") => populated' = populated
  BY DEF Fills, LosesCheckpoint, AddsKind, Populates, Shelves, AddsContact, AddsReference, RemovesReference
<1>5. Swept("headings") => contacted' \subseteq contacted \cup {0}
  BY DEF Fills, LosesCheckpoint, AddsKind, Populates, Shelves, AddsContact, AddsReference, RemovesReference
<1> QED BY <1>2, <1>3, <1>4, <1>5, <1>6, <1>7, WriterKeeps

-----------------------------------------------------------------------------
(* The deletion itself. *)

LEMMA BeginsKeeps == RemovalInv /\ BeginsSweep => RemovalInv'
<1> SUFFICES ASSUME RemovalInv, BeginsSweep PROVE RemovalInv'
  OBVIOUS
<1>1. /\ sweep' = [at |-> 1, kinds |-> kinds, shelf |-> DOMAIN shelf]
      /\ overwritten' = FALSE /\ UNCHANGED <<setup, contents, fresh>>
  BY DEF BeginsSweep
<1>2. SweepTyped'
  BY <1>1 DEF RemovalInv, RowsTyped, SweepTyped
<1>3. RowsTyped' /\ (fresh' => LeavesNothing')
  BY <1>1 DEF RemovalInv, RowsTyped, LeavesNothing, contents
<1>4. FlagsTyped'
  BY <1>1, Zenon DEF RemovalInv, FlagsTyped, contents
<1>5. sweep'.at = 1 /\ sweep'.kinds = kinds' /\ sweep'.shelf = DOMAIN shelf'
  BY <1>1 DEF contents
<1>6. ~Swept("categories")' /\ ~Swept("headings")'
  <2>1. ~SweptAt(1, "categories") /\ ~SweptAt(1, "headings")
    BY SweptWhen
  <2> QED BY <1>5, <2>1 DEF Swept, SweptAt
<1> QED BY <1>2, <1>3, <1>4, <1>5, <1>6 DEF RemovalInv, SweepFollows

\* The rollback of a deletion leaves the tables as they are.
LEMMA FailsKeeps == RemovalInv /\ SweepFails => RemovalInv'
<1> SUFFICES ASSUME RemovalInv, SweepFails PROVE RemovalInv'
  OBVIOUS
<1>1. sweep' = NoSweep /\ overwritten' = FALSE /\ UNCHANGED <<setup, contents, fresh>>
  BY DEF SweepFails
<1>2. SweepTyped' /\ sweep'.at = 0
  BY <1>1 DEF NoSweep, SweepTyped
<1>3. RowsTyped' /\ (fresh' => LeavesNothing')
  BY <1>1 DEF RemovalInv, RowsTyped, LeavesNothing, contents
<1>4. FlagsTyped'
  BY <1>1, Zenon DEF RemovalInv, FlagsTyped, contents
<1>5. ~Swept("categories")' /\ ~Swept("headings")'
  <2>1. ~SweptAt(0, "categories") /\ ~SweptAt(0, "headings")
    BY SweptWhen
  <2> QED BY <1>2, <2>1 DEF Swept, SweptAt
<1> QED BY <1>2, <1>3, <1>4, <1>5 DEF RemovalInv, SweepFollows

\* The next statement; no foreign key has refused this one.
LEMMA SweepingKeeps == RemovalInv /\ Sweeping => RemovalInv'
<1> SUFFICES ASSUME RemovalInv, Sweeping PROVE RemovalInv'
  OBVIOUS
<1>1. SweepTyped
  BY DEF RemovalInv
<1>2. /\ sweep' = [sweep EXCEPT !.at = @ + 1] /\ UNCHANGED <<setup, contents, fresh, overwritten>>
      /\ ~RefusedBy(Sweeps[sweep.at])
  BY DEF Sweeping
<1>3. sweep.at \in 1..11
  <2>1. sweep.at \in 0..12 /\ sweep.at > 0
    BY <1>1 DEF SweepTyped, Sweeping
  <2>2. Len(Sweeps) = 11
    BY Statements
  <2>3. sweep.at # Len(Sweeps) + 1
    BY DEF Sweeping, Ended
  <2> QED BY <2>1, <2>2, <2>3
<1>4. sweep'.at = sweep.at + 1 /\ sweep'.kinds = sweep.kinds /\ sweep'.shelf = sweep.shelf
  BY <1>1, <1>2 DEF SweepTyped
<1>5. SweepTyped'
  BY <1>1, <1>2, <1>3 DEF SweepTyped
<1>6. \A t : Swept(t) => Swept(t)'
  <2>1. \A t : SweptAt(sweep.at, t) => SweptAt(sweep.at + 1, t)
    BY <1>3 DEF SweptAt
  <2> QED BY <1>4, <2>1 DEF Swept, SweptAt
<1>7. MembersLeft' \subseteq MembersLeft /\ ContactsLeft' \subseteq ContactsLeft
  BY <1>2, <1>4, <1>6 DEF MembersLeft, ContactsLeft, contents
<1>8. ASSUME Swept("categories")' PROVE MembersLeft = {}
  <2>1. sweep.at + 1 > 6
    BY <1>3, <1>4, <1>8, SweptWhen DEF Swept, SweptAt
  <2>2. CASE sweep.at > 6
    BY <1>1, <2>2, SweptWhen, SweptIsAt DEF RemovalInv, SweepFollows, SweepTyped
  <2>3. CASE sweep.at = 6
    <3>1. "categories" \in Sweeps[sweep.at]
      BY <2>3, Statements
    <3> QED BY <1>2, <3>1 DEF RefusedBy
  <2> QED BY <1>3, <2>1, <2>2, <2>3
<1>9. ASSUME Swept("headings")' PROVE ContactsLeft = {}
  <2>1. sweep.at + 1 > 10
    BY <1>3, <1>4, <1>9, SweptWhen DEF Swept, SweptAt
  <2>2. CASE sweep.at > 10
    BY <1>1, <2>2, SweptWhen, SweptIsAt DEF RemovalInv, SweepFollows, SweepTyped
  <2>3. CASE sweep.at = 10
    <3>1. "headings" \in Sweeps[sweep.at]
      BY <2>3, Statements
    <3> QED BY <1>2, <3>1 DEF RefusedBy
  <2> QED BY <1>3, <2>1, <2>2, <2>3
<1>10. RowsTyped' /\ (fresh' => LeavesNothing')
  BY <1>2 DEF RemovalInv, RowsTyped, LeavesNothing, contents
<1>11. FlagsTyped'
  BY <1>2, Zenon DEF RemovalInv, FlagsTyped, contents
<1>12. SweepFollows'
  <2>1. sweep'.at > 0 /\ ~overwritten' => sweep'.kinds = kinds' /\ sweep'.shelf = DOMAIN shelf'
    BY <1>2, <1>3, <1>4 DEF RemovalInv, SweepFollows, contents
  <2> QED BY <1>7, <1>8, <1>9, <2>1 DEF SweepFollows
<1> QED BY <1>5, <1>10, <1>11, <1>12 DEF RemovalInv

LEMMA CommitsKeep == RemovalInv /\ SweepCommits => RemovalInv'
<1> SUFFICES ASSUME RemovalInv, SweepCommits PROVE RemovalInv'
  OBVIOUS
<1> DEFINE gone == {t \in filled : Swept(t)}
<1>1. /\ setup' = "none" /\ filled' = {t \in filled \ gone : Carrier(t) \cap gone = {}}
      /\ kinds' = {} /\ populated' = MembersLeft
      /\ shelf' = <<>> /\ contacted' = ContactsLeft \cup ({0} \cap contacted)
      /\ reserve' = "none" /\ sweep' = NoSweep /\ fresh' = TRUE /\ overwritten' = FALSE
  BY DEF SweepCommits
<1>2. sweep.at = 12
  <2>1. Len(Sweeps) = 11
    BY Statements
  <2> QED BY <2>1 DEF SweepCommits, Ended
<1>3. MembersLeft = {} /\ ContactsLeft = {}
  <2>1. SweptAt(12, "categories") /\ SweptAt(12, "headings")
    BY SweptWhen
  <2> QED BY <1>2, <2>1, SweptIsAt DEF RemovalInv, SweepFollows
<1>4. filled \cap Plainly \subseteq gone
  BY <1>2, AllSwept, SweptIsAt
<1>5. filled' \subseteq {"thresholds"}
  <2>1. ASSUME NEW t \in filled' PROVE t = "thresholds"
    <3>1. t \in filled /\ t \notin gone /\ Carrier(t) \cap gone = {}
      BY <1>1, <2>1
    <3>2. t \in {"pings", "thresholds"}
      BY <1>4, <3>1 DEF RemovalInv, RowsTyped, Holders
    <3>3. ASSUME t = "pings" PROVE FALSE
      <4>1. "batches" \in filled
        BY <3>1, <3>3 DEF RemovalInv, RowsTyped, Carrier
      <4>2. "batches" \in Plainly
        BY DEF Plainly
      <4> QED BY <1>4, <3>1, <3>3, <4>1, <4>2 DEF Carrier
    <3> QED BY <3>2, <3>3
  <2> QED BY <2>1
<1> HIDE DEF gone
<1>6. DOMAIN shelf' = {}
  BY <1>1
<1>7. contacted' \subseteq {0}
  BY <1>1, <1>3
<1>8. LeavesNothing'
  BY <1>1, <1>3, <1>5, <1>7 DEF LeavesNothing
<1>9. RowsTyped'
  BY <1>1, <1>3, <1>5, <1>6, <1>7 DEF RowsTyped, Holders, Carrier
<1>10. FlagsTyped'
  BY <1>1, Zenon DEF FlagsTyped
<1>11. SweepTyped' /\ sweep'.at = 0
  BY <1>1 DEF NoSweep, SweepTyped
<1>12. ~Swept("categories")' /\ ~Swept("headings")'
  <2>1. ~SweptAt(0, "categories") /\ ~SweptAt(0, "headings")
    BY SweptWhen
  <2> QED BY <1>11, <2>1 DEF Swept, SweptAt
<1> QED BY <1>8, <1>9, <1>10, <1>11, <1>12 DEF RemovalInv, SweepFollows

LEMMA SetupKeeps == RemovalInv /\ (CreatesSetup \/ SavesConfig \/ UNCHANGED removalVars) => RemovalInv'
<1> SUFFICES ASSUME RemovalInv, CreatesSetup \/ SavesConfig \/ UNCHANGED removalVars PROVE RemovalInv'
  OBVIOUS
<1>1. UNCHANGED <<contents, sweep, fresh, overwritten>> /\ setup' \in {setup, "named", "nameless"}
  BY DEF CreatesSetup, SavesConfig, removalVars, contents
<1>2. FlagsTyped'
  BY <1>1, Zenon DEF RemovalInv, FlagsTyped, contents
<1>3. RowsTyped' /\ SweepTyped' /\ (fresh' => LeavesNothing')
  BY <1>1 DEF RemovalInv, RowsTyped, SweepTyped, LeavesNothing, contents
<1>4. SweepFollows'
  BY <1>1 DEF RemovalInv, SweepFollows, MembersLeft, ContactsLeft, Swept, contents
<1> QED BY <1>2, <1>3, <1>4 DEF RemovalInv

\* The inductive invariant of a deletion and its writers, for any number of categories.
THEOREM RemovalInvariant == RemovalSpec => []RemovalInv
<1>1. RemovalInv /\ [RemovalNext]_removalVars => RemovalInv'
  BY WritersStep, BeginsKeeps, FailsKeeps, SweepingKeeps, CommitsKeep, SetupKeeps DEF RemovalNext
<1> QED BY <1>1, RemovalInitInv, PTL DEF RemovalSpec

\* While nobody writes beside the deletion, it knows every category, and deletes members and
\* contacts before what they refer to.
LEMMA NotRefused ==
  ASSUME RemovalInv, sweep.at > 0, ~Ended, ~overwritten
  PROVE  ~RefusedBy(Sweeps[sweep.at])
<1>1. sweep.at \in 1..11 /\ sweep.at \in 0..12
  <2>1. Len(Sweeps) = 11
    BY Statements
  <2>2. sweep.at \in 0..12
    BY DEF RemovalInv, SweepTyped
  <2> QED BY <2>1, <2>2 DEF Ended
<1>2. sweep.kinds = kinds /\ sweep.shelf = DOMAIN shelf
  BY DEF RemovalInv, SweepFollows
<1>3. ASSUME "categories" \in Sweeps[sweep.at] PROVE MembersLeft = {}
  <2>1. sweep.at = 6
    BY <1>1, <1>3, NamedOnce
  <2>2. Swept("members")
    BY <1>1, <2>1, SweptIsAt, SweptWhen
  <2> QED BY <1>2, <2>2 DEF MembersLeft, RemovalInv, RowsTyped
<1>4. ASSUME "subheadings" \in Sweeps[sweep.at] \/ "headings" \in Sweeps[sweep.at]
      PROVE  ContactsLeft = {}
  <2>1. sweep.at \in {9, 10}
    BY <1>1, <1>4, NamedOnce
  <2>2. Swept("contacts")
    BY <1>1, <2>1, SweptIsAt, SweptWhen
  <2> QED BY <1>2, <2>2 DEF ContactsLeft, RemovalInv, RowsTyped
<1>5. ASSUME "headings" \in Sweeps[sweep.at] PROVE Swept("subheadings")
  <2>1. sweep.at = 10
    BY <1>1, <1>5, NamedOnce
  <2> QED BY <1>1, <2>1, SweptIsAt, SweptWhen
<1> QED BY <1>3, <1>4, <1>5 DEF RefusedBy

\* Nothing of a deleted maintenance is left but thresholds and contacts without a category, and
\* no foreign key refuses a deletion that nobody writes beside (delete_maintenance).
THEOREM DeletedIsGoneAlways == RemovalSpec => []DeletedIsGone
<1>1. RemovalInv => DeletedIsGone
  BY NotRefused DEF DeletedIsGone, RemovalInv, LeavesNothing
<1> QED BY <1>1, RemovalInvariant, PTL
=============================================================================
