----------------------------- MODULE Indicators -----------------------------
(***************************************************************************)
(* The acceptance indicators of the devices of one maintenance, judged     *)
(* anew for every view from what is stored: the rows of each device's      *)
(* current batch, the collection errors, and for the error counters the    *)
(* batch before the current one.  A view then adds the errors and takes    *)
(* off the devices that users ignore for the indicator.                    *)
(***************************************************************************)
EXTENDS Naturals, FiniteSets, SequencesExt

CONSTANTS
  Hosts,       \* the device list
  Strict,      \* of fan, power, ping: no rows is a failure
  Lenient,     \* of transceiver: no rows is a failure unless they were collected so
  TypeOf,      \* the collection type that serves an indicator
  Viewers,     \* slots for toggle requests in flight: the bound on them
  MaxCount,    \* bound on the error counters
  MaxStored,   \* bound on the batches of error counters stored at a time
  Blank,       \* in place of the rows of a batch without any
  Never        \* no batch, no device

Graded == Strict \cup Lenient
Shown == Graded \cup {"error_count"}

ASSUME IndicatorAssumption ==
  /\ MaxCount \in Nat /\ MaxStored \in Nat /\ IsFiniteSet(Hosts)
  /\ Strict \cap Lenient = {} /\ "error_count" \notin Graded
  /\ DOMAIN TypeOf = Shown
  /\ {Blank, Never} \cap Nat = {} /\ Blank # Never /\ Never \notin Hosts

VARIABLES
  result,      \* of each graded indicator and device: what its current batch shows
  counter,   \* the errors that each device itself has counted
  counts,    \* of each device: its batches of error counters, the oldest first
  pointed,   \* devices whose last such batch is current
  error,     \* collection_errors
  ignored,   \* ignored_indicators of each device
  toggle,    \* of each slot: the device and indicator, the list it read
  trail      \* history: the last two different counters fetched, and what came between

indicatorVars == <<result, counter, counts, pointed, error, ignored, toggle, trail>>

Grades == {Never, Blank, "good", "bad"}
Counts == 0..MaxCount
NoToggle == [host |-> Never]
\* What happened to a device since its counters were last fetched.
Gaps == {"none", "relisted", "blank"}
Toggle == [host : Hosts, indicator : Shown, saw : SUBSET Shown, late : BOOLEAN]

IndicatorsTypeOK ==
  /\ result \in [Graded -> [Hosts -> Grades]]
  /\ counter \in [Hosts -> Counts]
  /\ \A h \in Hosts : \E n \in 0..MaxStored : counts[h] \in [1..n -> Counts \cup {Blank}]
  /\ pointed \subseteq Hosts
  /\ error \subseteq {TypeOf[i] : i \in Shown} \X Hosts
  /\ ignored \in [Hosts -> SUBSET Shown]
  /\ toggle \in [Viewers -> Toggle \cup {NoToggle}]
  /\ trail \in [Hosts -> [before : Counts \cup {Never}, now : Counts \cup {Never},
                           gap : Gaps, hidden : BOOLEAN]]

\* hidden: the counter of now was fetched after an empty batch, or again after a gap.
NoTrail == [before |-> Never, now |-> Never, gap |-> "none", hidden |-> FALSE]

IndicatorsInit ==
  /\ result = [i \in Graded |-> [h \in Hosts |-> Never]]
  /\ counter = [h \in Hosts |-> 0]
  /\ counts = [h \in Hosts |-> <<>>]
  /\ pointed = {} /\ error = {}
  /\ ignored = [h \in Hosts |-> {}]
  /\ toggle = [v \in Viewers |-> NoToggle]
  /\ trail = [h \in Hosts |-> NoTrail]

-----------------------------------------------------------------------------
(* Collection. *)

Clears(i, h) == error' = error \ {<<TypeOf[i], h>>}
Records(i, h) == error' = error \cup {<<TypeOf[i], h>>}

Collects(i, h, g) ==
  /\ result' = [result EXCEPT ![i][h] = g]
  /\ Clears(i, h)
  /\ UNCHANGED <<counter, counts, pointed, ignored, toggle, trail>>

\* SNMP leaves the rows, the API stores an empty batch.
CollectFails(i, h) ==
  /\ result' \in {result, [result EXCEPT ![i][h] = Blank]}
  /\ Records(i, h)
  /\ UNCHANGED <<counter, counts, pointed, ignored, toggle, trail>>

\* Mutant: a batch is stored for every fetch.
KnownNever(h, c) == FALSE
\* save_batch stores nothing when the current batch says the same.
Known(h, c) == h \in pointed /\ Last(counts[h]) = c

StoresCount(h, c) ==
  /\ IF Known(h, c) THEN UNCHANGED counts
     ELSE /\ Len(counts[h]) < MaxStored
          /\ counts' = [counts EXCEPT ![h] = Append(@, c)]
  /\ pointed' = pointed \cup {h}

Advanced(t, c) ==
  IF c = t.now THEN [t EXCEPT !.gap = "none", !.hidden = @ \/ t.gap # "none"]
  ELSE [before |-> t.now, now |-> c, gap |-> "none", hidden |-> t.gap = "blank"]

CountsFetched(h) ==
  /\ StoresCount(h, counter[h])
  /\ Clears("error_count", h)
  /\ trail' = [trail EXCEPT ![h] = Advanced(@, counter[h])]
  /\ UNCHANGED <<result, counter, ignored, toggle>>

CountsFail(h) ==
  /\ Records("error_count", h)
  /\ \/ UNCHANGED <<counts, pointed, trail>>
     \/ StoresCount(h, Blank) /\ trail' = [trail EXCEPT ![h].gap = "blank"]
  /\ UNCHANGED <<result, counter, ignored, toggle>>

\* The n oldest batches of a device go; the current one stays (cleanup_old_batches).
OldCountsGo(h, n) ==
  /\ n \in 1..(Len(counts[h]) - (IF h \in pointed THEN 1 ELSE 0))
  /\ counts' = [counts EXCEPT ![h] = SubSeq(@, n + 1, Len(@))]
  /\ trail' = [trail EXCEPT ![h] =
       CASE Len(counts'[h]) = 0 -> NoTrail
         [] Len(counts'[h]) = 1 -> [@ EXCEPT !.before = Never]
         [] OTHER -> @]
  /\ UNCHANGED <<result, counter, pointed, error, ignored, toggle>>

\* The device is taken off the list and put on it again.
Relisted(h) ==
  /\ result' = [i \in Graded |-> [result[i] EXCEPT ![h] = Never]]
  /\ pointed' = pointed \ {h}
  /\ error' = {e \in error : e[2] # h}
  /\ ignored' = [ignored EXCEPT ![h] = {}]
  /\ toggle' = [v \in Viewers |-> IF toggle[v].host = h THEN NoToggle ELSE toggle[v]]
  /\ trail' = [trail EXCEPT ![h].gap = IF @ = "blank" THEN @ ELSE "relisted"]
  /\ UNCHANGED <<counter, counts>>

\* The device counts errors, or starts again at zero.
CounterMoves(h) ==
  /\ counter' \in {[counter EXCEPT ![h] = c] : c \in {0, counter[h] + 1} \cap (Counts \ {counter[h]})}
  /\ UNCHANGED <<result, counts, pointed, error, ignored, toggle, trail>>

-----------------------------------------------------------------------------
(* Verdicts. *)

HasError(i, h) == <<TypeOf[i], h>> \in error

\* fan, power, ping: every part good, a reachable target.
StrictPasses(i, h) == result[i][h] = "good"

\* transceiver: within the thresholds, or not connected at all.
LenientPasses(i, h) == result[i][h] = "good" \/ (result[i][h] = Blank /\ ~HasError(i, h))

\* The batch before the newest of the device, current or not.
Previous(h) == IF Len(counts[h]) < 2 THEN Never ELSE counts[h][Len(counts[h]) - 1]
Grown(h) == Previous(h) \in Counts /\ Last(counts[h]) > Previous(h)

ErrorCountPasses(h) ==
  /\ h \in pointed
  /\ IF Last(counts[h]) = Blank THEN ~HasError("error_count", h) ELSE ~Grown(h)

PassesAt(i, h) == \/ i \in Strict /\ StrictPasses(i, h)
                  \/ i \in Lenient /\ LenientPasses(i, h)
                  \/ i = "error_count" /\ ErrorCountPasses(h)

-----------------------------------------------------------------------------
(* The dashboard. *)

Failing(i) == {h \in Hosts : ~PassesAt(i, h)}
\* The errors of an indicator are looked up under its own name.
ErrorsOf(i) == {h \in Hosts : <<i, h>> \in error}
IgnoredFor(i) == {h \in Hosts : i \in ignored[h]}

\* get_dashboard_summary: devices with an error and no failure are added to the total,
\* ignored ones pass.
Summary(i) ==
  LET added == Cardinality(ErrorsOf(i) \ Failing(i))
      passed == Cardinality((Failing(i) \cup ErrorsOf(i)) \cap IgnoredFor(i))
  IN  [total |-> Cardinality(Hosts) + added,
       fail  |-> Cardinality(Failing(i)) + added - passed,
       pass  |-> Cardinality(Hosts \ Failing(i)) + passed]

Status(i) ==
  LET s == Summary(i) IN
  CASE s.total = 0 -> IF ErrorsOf(i) # {} THEN "system-error" ELSE "no-data"
    [] s.total > 0 /\ s.fail > 0 /\ ErrorsOf(i) # {} -> "system-error"
    [] s.total > 0 /\ s.fail = 0 -> "success"
    [] s.total > 0 /\ s.fail > 0 /\ ErrorsOf(i) = {} ->
         IF 100 * s.pass < 80 * s.total THEN "error" ELSE "warning"

-----------------------------------------------------------------------------
(* toggle_device_ignore: the list is one column, read and written as a whole. *)

ToggleAsked(v, h, i) ==
  /\ toggle[v] = NoToggle
  /\ toggle' = [toggle EXCEPT ![v] = [host |-> h, indicator |-> i, saw |-> ignored[h], late |-> FALSE]]
  /\ UNCHANGED <<result, counter, counts, pointed, error, ignored, trail>>

\* Mutant: the list holds one indicator.
FlippedAlone(t) == IF t.indicator \in t.saw THEN {} ELSE {t.indicator}
Flipped(t) == IF t.indicator \in t.saw THEN t.saw \ {t.indicator} ELSE t.saw \cup {t.indicator}

ToggleStored(v) ==
  /\ toggle[v] # NoToggle
  /\ ignored' = [ignored EXCEPT ![toggle[v].host] = Flipped(toggle[v])]
  /\ toggle' = [w \in Viewers |->
       CASE w = v -> NoToggle
         [] w # v /\ toggle[w].host = toggle[v].host -> [toggle[w] EXCEPT !.late = TRUE]
         [] OTHER -> toggle[w]]
  /\ UNCHANGED <<result, counter, counts, pointed, error, trail>>

CollectionNext ==
  \E h \in Hosts :
    \/ \E i \in Graded : CollectFails(i, h) \/ \E g \in Grades \ {Never} : Collects(i, h, g)
    \/ CountsFetched(h) \/ CountsFail(h) \/ CounterMoves(h) \/ Relisted(h)
    \/ \E n \in 1..MaxStored : OldCountsGo(h, n)

IgnoreNext ==
  \E v \in Viewers : ToggleStored(v) \/ \E h \in Hosts, i \in Shown : ToggleAsked(v, h, i)

IndicatorsNext == CollectionNext \/ IgnoreNext
IndicatorsSpec == IndicatorsInit /\ [][IndicatorsNext]_indicatorVars

-----------------------------------------------------------------------------
(* Properties. *)

\* A device fails for growing errors exactly if the last two different counters that were
\* fetched from it grew, as long as both are stored: equal fetches, failed ones and cleanup
\* neither invent growth nor hide it.  Two things do hide it, until the counter changes again:
\* an empty batch between the two, and an equal fetch after the device was put on the list
\* again or after an empty batch.  The docstring of error_count.py, which compares the last
\* two change points, has neither (error_count, save_batch, cleanup_old_batches; see README).
GrowthShown ==
  \A h \in pointed : Last(counts[h]) # Blank =>
    (ErrorCountPasses(h) <=>
       (trail[h].before = Never \/ trail[h].before >= trail[h].now \/ trail[h].hidden))

\* Ignoring a device for one indicator leaves its other indicators ("忽略僅影響當前指標"),
\* unless two toggles for the device crossed.
IgnoreIsPerIndicator ==
  [][\A v \in Viewers : ToggleStored(v) /\ ~toggle[v].late =>
       \A h \in Hosts, i \in Shown :
         (i \in ignored[h] <=> i \in ignored'[h])
           \/ (h = toggle[v].host /\ i = toggle[v].indicator)]_indicatorVars

\* An indicator that fails at a device with a collection error is shown as a collection
\* error, not as a plain failure (_compute_indicator_status).
ErrorsShown ==
  \A i \in Shown :
    (\E h \in Failing(i) \ IgnoredFor(i) : HasError(i, h)) => Status(i) = "system-error"
=============================================================================
