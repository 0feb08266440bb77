-------------------------- MODULE MaintenanceTimer --------------------------
(***************************************************************************)
(* The active time of one maintenance: accumulated seconds and the start   *)
(* of the running period, in one row of maintenance_configs.  Users pause, *)
(* resume and reset; every job that asks for the active maintenances stops *)
(* those over the limit.  All of them read the row, compute, and commit    *)
(* later, without a lock.                                                  *)
(*                                                                         *)
(* A commit writes the columns that the call changed, and no others.  An   *)
(* assigned start time is always written: it carries a time zone and the   *)
(* loaded one does not, so they never compare equal.  The column holds     *)
(* whole seconds (DATETIME); the clock counts ticks, Second of them make a *)
(* second.                                                                 *)
(***************************************************************************)
EXTENDS Integers

CONSTANTS
  Callers,   \* slots for toggle and reset calls in flight: the bound on them
  Jobs,      \* the loop, its client phase, the two ping jobs
  Second,    \* ticks in a second
  Limit,     \* max_collection_days, in ticks
  MaxTime,   \* bound on the clock
  MaxCall,   \* bound on the ticks between a call's read and its commit
  MaxSlack,  \* bound on the inaccuracy that accumulates between two resets
  Unset      \* SQL NULL

ASSUME TimerAssumption ==
  /\ Second \in Nat \ {0} /\ Limit \in Nat /\ MaxTime \in Nat
  /\ MaxCall \in Nat /\ MaxSlack \in Nat
  /\ Unset \notin Int
  /\ Callers \cap Jobs = {}

VARIABLES
  row,      \* is_active, active_seconds_accumulated (in ticks), last_activated_at
  clock,
  flight,   \* of each caller and job: what it is doing, the row it saw, and when
  count     \* history, since the last reset: see TimerTypeOK

timerVars == <<row, clock, flight, count>>

Actors == Callers \cup Jobs
Time == 0..MaxTime
StartTime == Time \cup {Unset}

Whole(t) == (t \div Second) * Second

\* At most so many ticks are dropped when a period begins or ends at t.
Fraction(t) == IF Whole(t) = t THEN 0 ELSE Second - 1

TimerRow == [active : BOOLEAN, acc : Nat, last : StartTime]
Idle == [op |-> "idle"]
Flight == [op : {"toggle", "reset", "stop"}, saw : TimerRow, at : Time, stale : BOOLEAN]

\* Mutant: the period that is running is not counted.
TotalAccumulated(r, t) == r.acc
Total(r, t) == r.acc + (IF r.active /\ r.last # Unset THEN t - r.last ELSE 0)

TimerTypeOK ==
  /\ row \in TimerRow
  /\ clock \in Time
  /\ flight \in [Actors -> Flight \cup {Idle}]
  /\ count \in [real  : Nat,      \* ticks during which the row was active
                slack : Nat,      \* ticks with a call in flight, and fractions dropped
                clean : BOOLEAN]  \* no call wrote over another's commit

\* As create_maintenance leaves it.
TimerInit ==
  /\ row = [active |-> FALSE, acc |-> 0, last |-> Unset]
  /\ clock = 0
  /\ flight = [a \in Actors |-> Idle]
  /\ count = [real |-> 0, slack |-> 0, clean |-> TRUE]

-----------------------------------------------------------------------------
InFlight(a) == flight[a] # Idle

Reads(a, op) ==
  /\ ~InFlight(a)
  /\ flight' = [flight EXCEPT ![a] = [op |-> op, saw |-> row, at |-> clock, stale |-> FALSE]]
  /\ UNCHANGED <<row, clock, count>>

ToggleReads(c) == Reads(c, "toggle")
ResetReads(c) == Reads(c, "reset")

\* _get_active_maintenance_ids goes on to write only what it found over the limit.
Over(r, t) == r.active /\ Total(r, t) >= Limit
JobReads(j) == Over(row, clock) /\ Reads(j, "stop")

\* What a call writes, given the row it saw: the columns it assigned and changed.
Written(f) ==
  [active |-> CASE f.op = "toggle" -> ~f.saw.active
                [] f.op = "stop"   -> FALSE
                [] OTHER           -> row.active,
   acc |-> LET new == CASE f.op = "reset" -> 0
                        [] f.op = "stop" \/ (f.op = "toggle" /\ f.saw.active) ->
                             Whole(Total(f.saw, f.at))
                        [] OTHER -> f.saw.acc
           IN  IF new = f.saw.acc THEN row.acc ELSE new,
   last |-> CASE f.op = "reset" /\ ~f.saw.active -> row.last
              [] f.op # "reset" /\ f.saw.active ->
                   IF f.saw.last = Unset THEN row.last ELSE Unset
              [] OTHER -> Whole(f.at)]

Overtaken(f) == [op |-> f.op, saw |-> f.saw, at |-> f.at, stale |-> TRUE]

Lands(a) ==
  /\ row' = Written(flight[a])
  /\ flight' = [b \in Actors |->
       CASE b = a -> Idle
         [] b # a /\ InFlight(b) -> Overtaken(flight[b])
         [] OTHER -> Idle]
  /\ UNCHANGED clock

Counted(f) ==
  count' = [real |-> count.real, slack |-> count.slack + Fraction(f.at),
            clean |-> count.clean /\ ~f.stale]

ToggleCommits(c) ==
  /\ flight[c].op = "toggle" /\ count.slack < MaxSlack
  /\ Lands(c) /\ Counted(flight[c])

ResetCommits(c) ==
  /\ flight[c].op = "reset"
  /\ Lands(c)
  /\ count' = [real |-> 0, slack |-> (clock - flight[c].at) + Fraction(flight[c].at),
               clean |-> ~flight[c].stale]

JobCommits(j) == flight[j].op = "stop" /\ Lands(j) /\ Counted(flight[j])

ClockTicks ==
  /\ clock < MaxTime /\ \A a \in Actors : InFlight(a) => clock - flight[a].at < MaxCall
  /\ clock' = clock + 1
  /\ count' = [real  |-> count.real + (IF row.active THEN 1 ELSE 0),
               slack |-> count.slack + (IF \E a \in Actors : InFlight(a) THEN 1 ELSE 0),
               clean |-> count.clean]
  /\ UNCHANGED <<row, flight>>

TimerNext ==
  \/ \E c \in Callers :
       ToggleReads(c) \/ ResetReads(c) \/ ToggleCommits(c) \/ ResetCommits(c)
  \/ \E j \in Jobs : JobReads(j) \/ JobCommits(j)
  \/ ClockTicks

TimerSpec == TimerInit /\ [][TimerNext]_timerVars

-----------------------------------------------------------------------------
(* Properties. *)

\* Whatever calls cross, a maintenance that is active has a start time: without one
\* _compute would count nothing and auto-stop would never come (toggle, reset, auto-stop).
RunningHasStart == row.active => row.last # Unset

\* As long as no call wrote over another's commit, the timer tells the time the
\* maintenance was really active since the last reset, up to the time calls took and
\* less than a second for each pause, resume and reset: int() and the DATETIME column
\* both drop fractions, and no period is counted twice or lost.
ActiveTimeCounted ==
  count.clean =>
    Total(row, clock) \in (count.real - count.slack)..(count.real + count.slack)

\* Claimed by the docstring of _get_active_maintenance_ids and refuted (see README): what a
\* job stops has been active for the limit.  A reset that commits between what the job read
\* and what it writes is undone with it.
StoppedOnlyOver ==
  [][\A j \in Jobs : JobCommits(j) /\ row.active => Over(row, clock)]_timerVars

\* What makes them inductive: a start time is never in the future of who looks at it, a
\* call that nobody overtook still has the row before it, and a job stops what it found
\* over the limit.
Sound(r, t) == r.last # Unset => r.last <= t
Honest(f) ==
  /\ f.at <= clock /\ Sound(f.saw, f.at)
  /\ f.saw.active => f.saw.last # Unset
  /\ f.op = "stop" => Over(f.saw, f.at)
  /\ ~f.stale => f.saw = row

TimerInv ==
  /\ TimerTypeOK /\ RunningHasStart
  /\ Sound(row, clock)
  /\ \A a \in Actors : InFlight(a) => Honest(flight[a])
=============================================================================
