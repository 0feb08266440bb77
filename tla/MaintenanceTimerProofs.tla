----------------------- MODULE MaintenanceTimerProofs -----------------------
(***************************************************************************)
(* Theorems about MaintenanceTimer, for any number of callers and jobs and *)
(* any clock: an active maintenance has a start time, and the timer has    *)
(* counted the time the maintenance was active.                            *)
(*                                                                         *)
(* Both rest on what a call in flight knows.  The row it saw had its start *)
(* time if it was active, so that what it computes from it is a duration;  *)
(* a commit that finds no other since finds the row it saw.  For the       *)
(* counted time, the rows hold whole seconds, and the difference to the    *)
(* real time already allows for the seconds since a call read its clock.   *)
(***************************************************************************)
EXTENDS MaintenanceTimer, TLAPS

LEMMA WholeSeconds ==
  ASSUME NEW t \in Nat
  PROVE  Whole(t) \in Nat /\ Whole(t) <= t /\ Fraction(t) \in Nat
<1>1. Second \in Nat /\ Second > 0
  BY TimerAssumption
<1>2. t \div Second \in Nat /\ Second * (t \div Second) <= t
  BY <1>1
<1>3. Whole(t) = Second * (t \div Second)
  BY <1>1, <1>2 DEF Whole
<1>4. Whole(t) \in Nat
  BY <1>1, <1>2, <1>3
<1> QED BY <1>1, <1>2, <1>3, <1>4 DEF Fraction

LEMMA Constants == Second \in Nat /\ Limit \in Nat /\ MaxTime \in Nat /\ Unset \notin Int
BY TimerAssumption

LEMMA TotalGrows ==
  ASSUME NEW r \in TimerRow, NEW t \in Time, NEW u \in Time, Sound(r, t), t <= u
  PROVE  Total(r, t) \in Nat /\ Total(r, u) \in Nat /\ Total(r, t) <= Total(r, u)
<1>1. r.acc \in Nat /\ r.active \in BOOLEAN /\ r.last \in Time \cup {Unset}
  BY DEF TimerRow, StartTime
<1>2. t \in Nat /\ u \in Nat
  BY Constants DEF Time
<1>3. CASE r.active /\ r.last # Unset
  <2>1. r.last \in Nat /\ r.last <= t
    BY <1>1, <1>3, Constants DEF Time, Sound
  <2> QED BY <1>1, <1>2, <1>3, <2>1 DEF Total
<1>4. CASE ~(r.active /\ r.last # Unset)
  BY <1>1, <1>4 DEF Total
<1> QED BY <1>3, <1>4

LEMMA FlightParts ==
  ASSUME TimerTypeOK, NEW a \in Actors, InFlight(a)
  PROVE  /\ flight[a] \in Flight
         /\ flight[a].op \in {"toggle", "reset", "stop"} /\ flight[a].saw \in TimerRow
         /\ flight[a].at \in Time /\ flight[a].at \in Nat /\ flight[a].stale \in BOOLEAN
BY Constants DEF TimerTypeOK, InFlight, Flight, Time

LEMMA CommitsInFlight ==
  ASSUME NEW a \in Actors, flight[a].op \in {"toggle", "reset", "stop"}
  PROVE  InFlight(a)
BY DEF InFlight, Idle

\* What a call writes is a row that has its start time if it is active.
LEMMA WrittenRow ==
  ASSUME TimerInv, NEW a \in Actors, InFlight(a)
  PROVE  LET r == Written(flight[a]) IN
         /\ r \in TimerRow
         /\ r.active => r.last # Unset
         /\ Sound(r, clock)
<1> DEFINE f == flight[a]
           r == Written(f)
<1>1. /\ f.op \in {"toggle", "reset", "stop"} /\ f.saw \in TimerRow
      /\ f.at \in Time /\ f.at \in Nat /\ f.at <= clock /\ Sound(f.saw, f.at)
      /\ row \in TimerRow /\ clock \in Nat /\ Sound(row, clock)
      /\ row.active => row.last # Unset
  BY Constants, FlightParts DEF TimerInv, Honest, TimerTypeOK, RunningHasStart, Time
<1>2. /\ f.saw.acc \in Nat /\ f.saw.active \in BOOLEAN
      /\ row.acc \in Nat /\ row.active \in BOOLEAN /\ row.last \in StartTime
  BY <1>1 DEF TimerRow
<1>3. Whole(f.at) \in Time /\ Whole(f.at) <= clock /\ Whole(f.at) # Unset
  BY <1>1, WholeSeconds, Constants DEF Time
<1>4. Whole(Total(f.saw, f.at)) \in Nat
  <2>1. Total(f.saw, f.at) \in Nat
    BY <1>1, TotalGrows
  <2> QED BY <2>1, WholeSeconds
<1>5. r.active \in BOOLEAN /\ r.acc \in Nat /\ r.last \in StartTime
  BY <1>1, <1>2, <1>3, <1>4 DEF Written, StartTime
<1>6. r \in TimerRow
  BY <1>5 DEF Written, TimerRow
<1>7. r.active => r.last # Unset
  BY <1>1, <1>2, <1>3 DEF Written
<1>8. Sound(r, clock)
  BY <1>1, <1>2, <1>3 DEF Written, Sound
<1> QED BY <1>6, <1>7, <1>8

LEMMA InitTimer == TimerInit => TimerInv
BY Constants DEF TimerInit, TimerInv, TimerTypeOK, RunningHasStart, Sound, InFlight, TimerRow, StartTime, Time

-----------------------------------------------------------------------------
(* Steps. *)

LEMMA ReadsKeep ==
  ASSUME TimerInv, NEW a \in Actors, NEW op \in {"toggle", "reset", "stop"}, Reads(a, op),
         op = "stop" => Over(row, clock)
  PROVE  TimerInv'
<1> DEFINE f == [op |-> op, saw |-> row, at |-> clock, stale |-> FALSE]
<1>1. f \in Flight /\ f.op = op /\ f.saw = row /\ f.at = clock /\ f.stale = FALSE
  BY DEF TimerInv, TimerTypeOK, Flight
<1>2. UNCHANGED <<row, clock, count>> /\ flight' = [flight EXCEPT ![a] = f]
  BY DEF Reads
<1>3. flight \in [Actors -> Flight \cup {Idle}] /\ clock \in Nat
  BY Constants DEF TimerInv, TimerTypeOK, Time
<1> HIDE DEF f
<1>4. TimerTypeOK'
  BY <1>1, <1>2, <1>3 DEF TimerInv, TimerTypeOK
<1>5. ASSUME NEW b \in Actors, InFlight(b)' PROVE Honest(flight[b])'
  <2>1. CASE b = a
    <3>1. flight'[b] = f
      BY <1>2, <1>3, <2>1
    <3> QED BY <1>1, <1>2, <1>3, <3>1 DEF TimerInv, Honest, RunningHasStart, Over, Total
  <2>2. CASE b # a
    <3>1. flight'[b] = flight[b]
      BY <1>2, <1>3, <2>2
    <3> QED BY <1>2, <1>5, <3>1 DEF TimerInv, Honest, InFlight
  <2> QED BY <2>1, <2>2
<1> QED BY <1>2, <1>4, <1>5 DEF TimerInv, RunningHasStart, Sound

LEMMA LandsKeep ==
  ASSUME TimerInv, NEW a \in Actors, InFlight(a), Lands(a),
         count' \in [real : Nat, slack : Nat, clean : BOOLEAN]
  PROVE  TimerInv'
<1>1. row' = Written(flight[a]) /\ clock' = clock
  BY DEF Lands
<1>2. row' \in TimerRow /\ (row'.active => row'.last # Unset) /\ Sound(row', clock)
  BY <1>1, WrittenRow
<1>3. ASSUME NEW b \in Actors, b # a, InFlight(b)
      PROVE  /\ flight'[b] \in Flight /\ flight'[b].saw = flight[b].saw
             /\ flight'[b].at = flight[b].at /\ flight'[b].op = flight[b].op /\ flight'[b].stale
  <2>1. flight'[b] = [op |-> flight[b].op, saw |-> flight[b].saw, at |-> flight[b].at, stale |-> TRUE]
    BY <1>3 DEF Lands, Overtaken
  <2>2. flight[b] \in Flight
    BY <1>3, FlightParts DEF TimerInv
  <2> QED BY <2>1, <2>2 DEF Flight
<1>4. \A b \in Actors : (b = a \/ ~InFlight(b)) => flight'[b] = Idle
  BY DEF Lands, InFlight
<1>5. flight' \in [Actors -> Flight \cup {Idle}]
  <2>1. flight' = [b \in Actors |-> flight'[b]]
    BY DEF Lands
  <2>2. \A b \in Actors : flight'[b] \in Flight \cup {Idle}
    BY <1>3, <1>4
  <2> QED BY <2>1, <2>2
<1>6. TimerTypeOK'
  BY <1>1, <1>2, <1>5 DEF TimerInv, TimerTypeOK
<1>7. ASSUME NEW b \in Actors, InFlight(b)' PROVE Honest(flight[b])'
  <2>1. b # a /\ InFlight(b)
    BY <1>4, <1>7 DEF InFlight
  <2>2. Honest(flight[b])
    BY <2>1 DEF TimerInv
  <2> QED BY <1>1, <1>3, <2>1, <2>2 DEF Honest, Over, Total, Sound
<1> QED BY <1>1, <1>2, <1>6, <1>7 DEF TimerInv, RunningHasStart, Sound

LEMMA TicksKeep == TimerInv /\ ClockTicks => TimerInv'
<1> SUFFICES ASSUME TimerInv, ClockTicks PROVE TimerInv'
  OBVIOUS
<1>1. clock \in Nat /\ clock' = clock + 1 /\ clock' \in Time /\ UNCHANGED <<row, flight>>
  BY Constants DEF ClockTicks, TimerInv, TimerTypeOK, Time
<1>2. count' \in [real : Nat, slack : Nat, clean : BOOLEAN]
  BY DEF ClockTicks, TimerInv, TimerTypeOK
<1>3. TimerTypeOK'
  BY <1>1, <1>2 DEF TimerInv, TimerTypeOK
<1>4. Sound(row, clock)'
  BY <1>1, Constants DEF TimerInv, Sound, TimerTypeOK, TimerRow, StartTime, Time
<1>5. ASSUME NEW a \in Actors, InFlight(a)' PROVE Honest(flight[a])'
  <2>1. Honest(flight[a]) /\ flight[a].at \in Nat
    BY <1>1, <1>5, FlightParts DEF TimerInv, InFlight
  <2> QED BY <1>1, <2>1 DEF Honest
<1> QED BY <1>1, <1>3, <1>4, <1>5 DEF TimerInv, RunningHasStart

LEMMA CommitCounts ==
  ASSUME TimerInv, NEW a \in Actors, InFlight(a), Counted(flight[a])
  PROVE  count' \in [real : Nat, slack : Nat, clean : BOOLEAN]
<1>1. flight[a].at \in Nat /\ Fraction(flight[a].at) \in Nat
  BY FlightParts, WholeSeconds DEF TimerInv
<1> QED BY <1>1 DEF Counted, TimerInv, TimerTypeOK

-----------------------------------------------------------------------------
(* The theorems. *)

LEMMA StepTimer == TimerInv /\ [TimerNext]_timerVars => TimerInv'
<1> SUFFICES ASSUME TimerInv, [TimerNext]_timerVars PROVE TimerInv'
  OBVIOUS
<1>1. Callers \subseteq Actors /\ Jobs \subseteq Actors
  BY DEF Actors
<1>2. CASE \E c \in Callers : ToggleReads(c) \/ ResetReads(c)
  BY <1>1, <1>2, ReadsKeep DEF ToggleReads, ResetReads
<1>3. CASE \E j \in Jobs : JobReads(j)
  BY <1>1, <1>3, ReadsKeep DEF JobReads
<1>4. ASSUME NEW c \in Callers, ToggleCommits(c) PROVE TimerInv'
  BY <1>1, <1>4, CommitsInFlight, CommitCounts, LandsKeep DEF ToggleCommits
<1>5. ASSUME NEW c \in Callers, ResetCommits(c) PROVE TimerInv'
  <2>1. c \in Actors /\ InFlight(c) /\ Lands(c)
    BY <1>1, <1>5, CommitsInFlight DEF ResetCommits
  <2>2. /\ flight[c].at \in Nat /\ flight[c].at <= clock /\ clock \in Nat
        /\ flight[c].stale \in BOOLEAN /\ Fraction(flight[c].at) \in Nat
    BY <2>1, FlightParts, WholeSeconds, Constants DEF TimerInv, Honest, TimerTypeOK, Time
  <2>3. count' \in [real : Nat, slack : Nat, clean : BOOLEAN]
    BY <1>5, <2>2 DEF ResetCommits
  <2> QED BY <2>1, <2>3, LandsKeep
<1>6. ASSUME NEW j \in Jobs, JobCommits(j) PROVE TimerInv'
  BY <1>1, <1>6, CommitsInFlight, CommitCounts, LandsKeep DEF JobCommits
<1>7. CASE ClockTicks
  BY <1>7, TicksKeep
<1>8. CASE UNCHANGED timerVars
  BY <1>8 DEF timerVars, TimerInv, TimerTypeOK, RunningHasStart, Honest, InFlight, Sound, Over, Total
<1> QED BY <1>2, <1>3, <1>4, <1>5, <1>6, <1>7, <1>8 DEF TimerNext

THEOREM TimerInvariant == TimerSpec => []TimerInv
<1>1. TimerInit => TimerInv
  BY InitTimer
<1>2. TimerInv /\ [TimerNext]_timerVars => TimerInv'
  BY StepTimer
<1> QED BY <1>1, <1>2, PTL DEF TimerSpec

\* An active maintenance has a start time, whatever calls and jobs cross: the period that
\* runs is always counted, and auto-stop comes (RunningHasStart).
THEOREM ActiveHasStart == TimerSpec => []RunningHasStart
<1>1. TimerInv => RunningHasStart
  BY DEF TimerInv
<1> QED BY <1>1, TimerInvariant, PTL

-----------------------------------------------------------------------------
(* Active time. *)

LEMMA Multiples ==
  ASSUME NEW S \in Nat \ {0}, NEW x \in Int, NEW k \in Int, k * S <= x, x < k * S + S
  PROVE  x \div S = k
OBVIOUS

LEMMA WholeShift ==
  ASSUME NEW m \in Nat, NEW l \in Nat, NEW t \in Nat, Whole(m) = m, Whole(l) = l
  PROVE  Whole(m + (t - l)) = m + (Whole(t) - l)
<1> DEFINE a == m \div Second
           b == l \div Second
           c == t \div Second
<1>1. Second \in Nat \ {0}
  BY TimerAssumption
<1>2. a \in Int /\ b \in Int /\ c \in Int /\ c * Second <= t /\ t < c * Second + Second
  BY <1>1
<1>3. m = a * Second /\ l = b * Second /\ Whole(t) = c * Second
  BY DEF Whole
<1> HIDE DEF a, b, c
<1>4. (a + (c - b)) * Second = m + (c * Second - l)
  BY <1>1, <1>2, <1>3
<1>5. (m + (t - l)) \div Second = a + (c - b)
  <2>1. m + (t - l) \in Int /\ a + (c - b) \in Int /\ c * Second \in Int
    BY <1>1, <1>2
  <2>2. (a + (c - b)) * Second <= m + (t - l) /\ m + (t - l) < (a + (c - b)) * Second + Second
    BY <1>1, <1>2, <1>4, <2>1
  <2> QED BY <1>1, <2>1, <2>2, Multiples
<1> QED BY <1>3, <1>4, <1>5 DEF Whole

LEMMA WholeTwice ==
  ASSUME NEW t \in Nat
  PROVE  Whole(Whole(t)) = Whole(t) /\ t - Whole(t) <= Fraction(t) /\ Whole(t) <= t /\ Whole(t) \in Nat
<1> DEFINE c == t \div Second
<1>1. Second \in Nat \ {0}
  BY TimerAssumption
<1>2. c \in Int /\ c * Second <= t /\ t < c * Second + Second /\ c * Second \in Int
  BY <1>1
<1>3. Whole(t) = c * Second
  BY DEF Whole
<1> HIDE DEF c
<1>4. (c * Second) \div Second = c
  BY <1>1, <1>2, Multiples
<1>5. Whole(Whole(t)) = Whole(t)
  BY <1>3, <1>4 DEF Whole
<1>6. t - Whole(t) <= Fraction(t)
  BY <1>1, <1>2, <1>3 DEF Fraction
<1> QED BY <1>5, <1>6, WholeSeconds

\* The row holds whole seconds.
WholeRow(r) == Whole(r.acc) = r.acc /\ (r.last # Unset => Whole(r.last) = r.last)

\* The timer would still be right within the slack if it were off by k more.
InSlack(k) ==
  /\ Total(row, clock) + k <= count.real + count.slack
  /\ count.real + k <= Total(row, clock) + count.slack

\* A call in flight has had its ticks added to the slack, all of them since it read.
TimeInv ==
  /\ TimerInv
  /\ WholeRow(row)
  /\ \A a \in Actors : InFlight(a) => WholeRow(flight[a].saw)
  /\ count.clean =>
       /\ InSlack(0)
       /\ \A a \in Actors : InFlight(a) /\ ~flight[a].stale => InSlack(clock - flight[a].at)

LEMMA TimeTypes ==
  ASSUME TimerInv
  PROVE  /\ clock \in Nat /\ clock \in Time /\ row \in TimerRow
         /\ row.acc \in Nat /\ row.active \in BOOLEAN /\ row.last \in Nat \cup {Unset}
         /\ row.active => row.last \in Nat /\ row.last <= clock
         /\ Total(row, clock) \in Nat
         /\ count.real \in Nat /\ count.slack \in Nat /\ count.clean \in BOOLEAN
<1>1. /\ clock \in Nat /\ clock \in Time /\ row \in TimerRow
      /\ row.acc \in Nat /\ row.active \in BOOLEAN /\ row.last \in Nat \cup {Unset}
      /\ count.real \in Nat /\ count.slack \in Nat /\ count.clean \in BOOLEAN
  BY Constants DEF TimerInv, TimerTypeOK, Time, TimerRow, StartTime
<1>2. row.active => row.last \in Nat /\ row.last <= clock
  BY <1>1, Constants DEF TimerInv, RunningHasStart, Sound
<1>3. Total(row, clock) \in Nat
  BY <1>1, TotalGrows DEF TimerInv
<1> QED BY <1>1, <1>2, <1>3

LEMMA WholeZero == Whole(0) = 0
<1>1. Second \in Nat \ {0}
  BY TimerAssumption
<1>2. 0 \div Second = 0
  BY <1>1, Multiples
<1> QED BY <1>1, <1>2 DEF Whole

LEMMA WrittenWhole ==
  ASSUME TimeInv, NEW a \in Actors, InFlight(a)
  PROVE  WholeRow(Written(flight[a]))
<1> DEFINE f == flight[a]
           r == Written(f)
<1>1. /\ f.op \in {"toggle", "reset", "stop"} /\ f.saw \in TimerRow
      /\ f.at \in Time /\ f.at \in Nat /\ Sound(f.saw, f.at)
  BY FlightParts DEF TimeInv, TimerInv, Honest
<1>2. WholeRow(row) /\ WholeRow(f.saw)
  BY DEF TimeInv
<1>3. Total(f.saw, f.at) \in Nat
  BY <1>1, TotalGrows
<1>4. Whole(Whole(Total(f.saw, f.at))) = Whole(Total(f.saw, f.at)) /\ Whole(Whole(f.at)) = Whole(f.at)
  BY <1>1, <1>3, WholeTwice
<1>5. r.acc \in {row.acc, 0, Whole(Total(f.saw, f.at)), f.saw.acc}
  BY <1>1 DEF Written
<1>6. r.last \in {row.last, Unset, Whole(f.at)}
  BY <1>1 DEF Written
<1>7. Whole(r.acc) = r.acc
  BY <1>2, <1>4, <1>5, WholeZero DEF WholeRow
<1>8. r.last # Unset => Whole(r.last) = r.last
  BY <1>2, <1>4, <1>6 DEF WholeRow
<1> QED BY <1>7, <1>8 DEF WholeRow

\* A commit that found the row as it was read moves the timer by no more than the ticks
\* since then and one fraction; a reset leaves no more than that on it.
LEMMA CommitMoves ==
  ASSUME TimeInv, NEW a \in Actors, InFlight(a), ~flight[a].stale
  PROVE  LET f == flight[a]
             late == (clock - f.at) + Fraction(f.at)
             new == Total(Written(f), clock) IN
         /\ f.op # "reset" => new <= Total(row, clock) + late /\ Total(row, clock) <= new + late
         /\ f.op = "reset" => new <= late
<1> DEFINE f == flight[a]
           t == f.at
           r == Written(f)
<1>1. /\ f.op \in {"toggle", "reset", "stop"} /\ f.saw = row
      /\ t \in Time /\ t \in Nat /\ t <= clock /\ Sound(row, t)
      /\ f.op = "stop" => row.active
  BY FlightParts DEF TimeInv, TimerInv, Honest, Over
<1>2. /\ clock \in Nat /\ clock \in Time /\ row \in TimerRow
      /\ row.acc \in Nat /\ row.active \in BOOLEAN /\ row.last \in Nat \cup {Unset}
      /\ row.active => row.last \in Nat /\ row.last <= clock
  BY TimeTypes DEF TimeInv
<1>3. row.active => row.last # Unset
  BY DEF TimeInv, TimerInv, RunningHasStart
<1>4. /\ Whole(t) \in Nat /\ Whole(t) <= t /\ t - Whole(t) <= Fraction(t) /\ Fraction(t) \in Nat
      /\ Whole(t) # Unset
  BY <1>1, WholeSeconds, WholeTwice, Constants
<1>5. CASE row.active /\ f.op # "reset"
  <2>1. row.last \in Nat /\ row.last <= t
    BY <1>1, <1>2, <1>3, <1>5 DEF Sound
  <2>2. Total(row, t) = row.acc + (t - row.last)
    BY <1>3, <1>5 DEF Total
  <2>3. Whole(Total(row, t)) = row.acc + (Whole(t) - row.last)
    BY <1>1, <1>2, <1>3, <1>5, <2>1, <2>2, WholeShift DEF TimeInv, WholeRow
  <2>4. r.active = FALSE /\ r.acc = row.acc + (Whole(t) - row.last)
    BY <1>1, <1>5, <2>3 DEF Written
  <2>5. Total(r, clock) = row.acc + (Whole(t) - row.last)
    BY <2>4, <1>1, <1>2, <1>4, <2>1 DEF Total
  <2>6. Total(row, clock) = row.acc + (clock - row.last)
    BY <1>3, <1>5 DEF Total
  <2> HIDE DEF t, f, r
  <2>7. /\ Total(r, clock) <= Total(row, clock) + ((clock - t) + Fraction(t))
        /\ Total(row, clock) <= Total(r, clock) + ((clock - t) + Fraction(t))
    BY <1>1, <1>2, <1>4, <2>1, <2>5, <2>6
  <2> QED BY <1>5, <2>7 DEF t, f, r
<1>6. CASE ~row.active /\ f.op # "reset"
  <2>1. f.op = "toggle"
    BY <1>1, <1>6
  <2>2. r.active = TRUE /\ r.acc = row.acc /\ r.last = Whole(t)
    BY <1>1, <1>2, <1>6, <2>1 DEF Written
  <2>3. Total(r, clock) = row.acc + (clock - Whole(t)) /\ Total(row, clock) = row.acc
    BY <1>1, <1>2, <1>4, <1>6, <2>2 DEF Total
  <2> HIDE DEF t, f, r
  <2>4. /\ Total(r, clock) <= Total(row, clock) + ((clock - t) + Fraction(t))
        /\ Total(row, clock) <= Total(r, clock) + ((clock - t) + Fraction(t))
    BY <1>1, <1>2, <1>4, <2>3
  <2> QED BY <1>6, <2>4 DEF t, f, r
<1>7. CASE f.op = "reset"
  <2>1. r.acc = 0 /\ r.active = row.active /\ (row.active => r.last = Whole(t))
    BY <1>1, <1>7 DEF Written
  <2>2. Total(r, clock) = IF row.active THEN clock - Whole(t) ELSE 0
    BY <1>1, <1>2, <1>4, <2>1 DEF Total
  <2> HIDE DEF t, f, r
  <2>3. Total(r, clock) <= (clock - t) + Fraction(t)
    BY <1>1, <1>2, <1>4, <2>2
  <2> QED BY <1>7, <2>3 DEF t, f, r
<1> QED BY <1>5, <1>6, <1>7

LEMMA InitTime == TimerInit => TimeInv
<1> SUFFICES ASSUME TimerInit PROVE TimeInv
  OBVIOUS
<1>1. TimerInv
  BY InitTimer
<1>2. row = [active |-> FALSE, acc |-> 0, last |-> Unset] /\ \A a \in Actors : ~InFlight(a)
  BY DEF TimerInit, InFlight
<1>3. WholeRow(row)
  BY <1>2, WholeZero DEF WholeRow
<1>4. InSlack(0)
  BY <1>2, TimeTypes, <1>1 DEF InSlack, Total, TimerInit
<1> QED BY <1>1, <1>2, <1>3, <1>4 DEF TimeInv

LEMMA TimeReads ==
  ASSUME TimeInv, TimerInv', NEW a \in Actors, NEW op, Reads(a, op)
  PROVE  TimeInv'
<1> DEFINE f == [op |-> op, saw |-> row, at |-> clock, stale |-> FALSE]
<1>1. UNCHANGED <<row, clock, count>> /\ flight' = [flight EXCEPT ![a] = f]
  BY DEF Reads
<1>2. flight \in [Actors -> Flight \cup {Idle}]
  BY DEF TimeInv, TimerInv, TimerTypeOK
<1>3. flight'[a] = f /\ \A b \in Actors \ {a} : flight'[b] = flight[b]
  BY <1>1, <1>2
<1>4. f.saw = row /\ clock - f.at = 0
  BY TimeTypes DEF TimeInv
<1> HIDE DEF f
<1>5. WholeRow(row)'
  BY <1>1 DEF TimeInv, WholeRow
<1>6. \A k : InSlack(k)' <=> InSlack(k)
  BY <1>1 DEF InSlack, Total
<1>7. ASSUME NEW b \in Actors, InFlight(b)'
      PROVE  /\ WholeRow(flight'[b].saw)
             /\ count'.clean /\ ~flight'[b].stale => InSlack(clock - flight[b].at)'
  <2>1. CASE b = a
    <3>1. flight'[b].saw = row /\ clock' - flight'[b].at = 0
      BY <1>1, <1>3, <1>4, <2>1
    <3>2. count'.clean => InSlack(0)'
      BY <1>1, <1>6 DEF TimeInv
    <3> QED BY <1>1, <1>5, <3>1, <3>2
  <2>2. CASE b # a
    <3>1. flight'[b] = flight[b] /\ InFlight(b)
      BY <1>3, <1>7, <2>2 DEF InFlight
    <3> QED BY <1>1, <1>6, <3>1 DEF TimeInv
  <2> QED BY <2>1, <2>2
<1>8. count'.clean => InSlack(0)'
  BY <1>1, <1>6 DEF TimeInv
<1> QED BY <1>5, <1>7, <1>8 DEF TimeInv

\* Any commit: other calls in flight have been overtaken, and nothing is said of them.
LEMMA TimeLands ==
  ASSUME TimeInv, TimerInv', NEW a \in Actors, InFlight(a), Lands(a),
         count'.clean => InSlack(0)'
  PROVE  TimeInv'
<1>1. row' = Written(flight[a])
  BY DEF Lands
<1>2. WholeRow(row)'
  <2>1. WholeRow(row')
    BY <1>1, WrittenWhole
  <2> QED BY <2>1 DEF WholeRow
<1>3. ASSUME NEW b \in Actors, InFlight(b)'
      PROVE  WholeRow(flight'[b].saw) /\ flight'[b].stale
  <2>1. b # a /\ InFlight(b)
    BY <1>3 DEF InFlight, Lands
  <2>2. flight'[b] = [op |-> flight[b].op, saw |-> flight[b].saw, at |-> flight[b].at, stale |-> TRUE]
    BY <2>1 DEF Lands, Overtaken
  <2> QED BY <2>1, <2>2 DEF TimeInv
<1> QED BY <1>2, <1>3 DEF TimeInv

LEMMA TimeCommits ==
  ASSUME TimeInv, TimerInv', NEW a \in Actors, flight[a].op \in {"toggle", "stop"}, Lands(a),
         Counted(flight[a])
  PROVE  TimeInv'
<1> DEFINE f == flight[a]
           late == (clock - f.at) + Fraction(f.at)
           new == Total(Written(f), clock)
           old == Total(row, clock)
<1>1. InFlight(a)
  BY CommitsInFlight
<1>2. ASSUME count'.clean PROVE InSlack(0)'
  <2>1. count.clean /\ ~f.stale /\ count'.real = count.real
        /\ count'.slack = count.slack + Fraction(f.at)
    BY <1>2 DEF Counted
  <2>2. InSlack(clock - f.at)
    BY <1>1, <2>1 DEF TimeInv
  <2>3. new <= old + late /\ old <= new + late
    BY <1>1, <2>1, CommitMoves
  <2>4. Total(row, clock)' = new
    <3>1. row' = Written(f) /\ clock' = clock
      BY DEF Lands
    <3> QED BY <3>1 DEF Total
  <2>5. /\ old \in Nat /\ clock \in Nat /\ count.real \in Nat /\ count.slack \in Nat
        /\ f.at \in Nat /\ Fraction(f.at) \in Nat
    BY <1>1, TimeTypes, FlightParts, WholeSeconds DEF TimeInv, TimerInv
  <2>6. new \in Nat
    BY <1>1, WrittenRow, TotalGrows, TimeTypes DEF TimeInv
  <2>7. old + (clock - f.at) <= count.real + count.slack
        /\ count.real + (clock - f.at) <= old + count.slack
    BY <2>2 DEF InSlack
  <2> HIDE DEF new, old, f
  <2>8. /\ new + 0 <= count.real + (count.slack + Fraction(f.at))
        /\ count.real + 0 <= new + (count.slack + Fraction(f.at))
    BY <2>3, <2>5, <2>6, <2>7
  <2> QED BY <2>1, <2>4, <2>8 DEF InSlack
<1> QED BY <1>1, <1>2, TimeLands

LEMMA TimeResets ==
  ASSUME TimeInv, TimerInv', NEW c \in Callers, ResetCommits(c)
  PROVE  TimeInv'
<1> DEFINE f == flight[c]
           late == (clock - f.at) + Fraction(f.at)
           new == Total(Written(f), clock)
<1>1. c \in Actors /\ InFlight(c) /\ Lands(c) /\ f.op = "reset"
  BY CommitsInFlight DEF ResetCommits, Actors
<1>2. ASSUME count'.clean PROVE InSlack(0)'
  <2>1. ~f.stale /\ count'.real = 0 /\ count'.slack = late
    BY <1>2 DEF ResetCommits
  <2>2. new <= late
    BY <1>1, <2>1, CommitMoves
  <2>3. Total(row, clock)' = new
    <3>1. row' = Written(f) /\ clock' = clock
      BY <1>1 DEF Lands
    <3> QED BY <3>1 DEF Total
  <2>4. new \in Nat /\ late \in Nat
    <3>1. f.at \in Nat /\ f.at <= clock /\ clock \in Nat /\ Fraction(f.at) \in Nat
      BY <1>1, FlightParts, WholeSeconds, TimeTypes DEF TimeInv, TimerInv, Honest
    <3>2. new \in Nat
      BY <1>1, WrittenRow, TotalGrows, TimeTypes DEF TimeInv
    <3> QED BY <3>1, <3>2
  <2> HIDE DEF new, late
  <2>5. new + 0 <= 0 + late /\ 0 + 0 <= new + late
    BY <2>2, <2>4
  <2> QED BY <2>1, <2>3, <2>5 DEF InSlack
<1> QED BY <1>1, <1>2, TimeLands

LEMMA TimeTicks == TimeInv /\ TimerInv' /\ ClockTicks => TimeInv'
<1> SUFFICES ASSUME TimeInv, TimerInv', ClockTicks PROVE TimeInv'
  OBVIOUS
<1> DEFINE step == IF row.active THEN 1 ELSE 0
           more == IF \E a \in Actors : InFlight(a) THEN 1 ELSE 0
<1>1. /\ UNCHANGED <<row, flight>> /\ clock' = clock + 1
      /\ count'.real = count.real + step /\ count'.slack = count.slack + more
      /\ count'.clean = count.clean
  BY DEF ClockTicks
<1>2. Total(row, clock)' = Total(row, clock) + step
  BY <1>1, TimeTypes, Constants DEF TimeInv, Total
<1>3. /\ Total(row, clock) \in Nat /\ clock \in Nat /\ count.real \in Nat /\ count.slack \in Nat
      /\ step \in {0, 1} /\ more \in {0, 1}
  BY TimeTypes DEF TimeInv
<1>4. count'.clean => InSlack(0)'
  <2>1. count.clean => Total(row, clock) + 0 <= count.real + count.slack
                       /\ count.real + 0 <= Total(row, clock) + count.slack
    BY DEF TimeInv, InSlack
  <2> QED BY <1>1, <1>2, <1>3, <2>1 DEF InSlack
<1>5. ASSUME NEW a \in Actors, InFlight(a)', count'.clean, ~flight'[a].stale
      PROVE  InSlack(clock - flight[a].at)'
  <2>1. InFlight(a) /\ more = 1 /\ flight'[a] = flight[a] /\ InSlack(clock - flight[a].at)
    BY <1>1, <1>5 DEF TimeInv, InFlight
  <2>2. flight[a].at \in Nat
    BY <2>1, FlightParts DEF TimeInv, TimerInv
  <2>3. Total(row, clock) + (clock - flight[a].at) <= count.real + count.slack
        /\ count.real + (clock - flight[a].at) <= Total(row, clock) + count.slack
    BY <2>1 DEF InSlack
  <2> HIDE DEF step, more
  <2> QED BY <1>1, <1>2, <1>3, <2>1, <2>2, <2>3 DEF InSlack
<1>6. WholeRow(row)' /\ \A a \in Actors : InFlight(a)' => WholeRow(flight'[a].saw)
  BY <1>1 DEF TimeInv, WholeRow, InFlight
<1> QED BY <1>4, <1>5, <1>6 DEF TimeInv

LEMMA StepTime == TimeInv /\ [TimerNext]_timerVars => TimeInv'
<1> SUFFICES ASSUME TimeInv, [TimerNext]_timerVars PROVE TimeInv'
  OBVIOUS
<1>1. TimerInv'
  BY StepTimer DEF TimeInv
<1>2. Callers \subseteq Actors /\ Jobs \subseteq Actors
  BY DEF Actors
<1>3. CASE \E c \in Callers : ToggleReads(c) \/ ResetReads(c)
  BY <1>1, <1>2, <1>3, TimeReads DEF ToggleReads, ResetReads
<1>4. CASE \E j \in Jobs : JobReads(j)
  BY <1>1, <1>2, <1>4, TimeReads DEF JobReads
<1>5. CASE \E c \in Callers : ToggleCommits(c)
  BY <1>1, <1>2, <1>5, TimeCommits DEF ToggleCommits
<1>6. CASE \E j \in Jobs : JobCommits(j)
  BY <1>1, <1>2, <1>6, TimeCommits DEF JobCommits
<1>7. CASE \E c \in Callers : ResetCommits(c)
  BY <1>1, <1>7, TimeResets
<1>8. CASE ClockTicks
  BY <1>1, <1>8, TimeTicks
<1>9. CASE UNCHANGED timerVars
  BY <1>1, <1>9 DEF timerVars, TimeInv, WholeRow, InFlight, InSlack, Total
<1> QED BY <1>3, <1>4, <1>5, <1>6, <1>7, <1>8, <1>9 DEF TimerNext

\* The timer is off by no more than its slack from the time the maintenance was really
\* active, while no call wrote over another's commit (ActiveTimeCounted; toggle, reset,
\* auto-stop and their fractions of seconds).
THEOREM ActiveTimeAlwaysCounted == TimerSpec => []ActiveTimeCounted
<1>1. TimeInv => ActiveTimeCounted
  <2> SUFFICES ASSUME TimeInv, count.clean
               PROVE  Total(row, clock) \in (count.real - count.slack)..(count.real + count.slack)
    BY DEF ActiveTimeCounted
  <2> QED BY TimeTypes DEF TimeInv, InSlack
<1>2. TimerInit => TimeInv
  BY InitTime
<1>3. TimeInv /\ [TimerNext]_timerVars => TimeInv'
  BY StepTime
<1> QED BY <1>1, <1>2, <1>3, PTL DEF TimerSpec
=============================================================================
