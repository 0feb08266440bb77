---------------------------- MODULE ChangeFlags ----------------------------
(***************************************************************************)
(* Which attributes of a client changed: the tags on its case.  Each round *)
(* observes the client, but only change points are recorded, and retention *)
(* takes the oldest away; the tags are computed from what is left.  An     *)
(* attribute changed if it had two values, or if it came back from having  *)
(* none less than fifteen minutes ago.                                     *)
(***************************************************************************)
EXTENDS Naturals, FiniteSets, Sequences, SequencesExt

CONSTANTS
  Attributes,     \* TRACKED_ATTRIBUTES
  Settings,       \* their values
  NoSetting,        \* None: no row in the tables, no answer
  Fresh,          \* fifteen minutes, in ticks
  MaxClock,       \* bound on the time
  MaxObserved     \* bound on the observations

ASSUME FlagsAssumption ==
  /\ Fresh \in Nat /\ MaxClock \in Nat /\ MaxObserved \in Nat
  /\ NoSetting \notin Settings /\ Attributes # {}

VARIABLES
  minute,     \* the time now
  observedSoFar,  \* all that was observed, [at, of], oldest first
  points,    \* the client_records that are kept, by collected_at
  lastChecked,  \* last_checked_at of its pointer, 0 for none
  tags       \* change_flags of the case

flagVars == <<minute, observedSoFar, points, lastChecked, tags>>

Attributed == [Attributes -> Settings \cup {NoSetting}]
Observation == [at : 0..MaxClock, of : Attributed]

FlagsTypeOK ==
  /\ minute \in 0..MaxClock
  /\ observedSoFar \in Seq(Observation) /\ Len(observedSoFar) <= MaxObserved
  /\ points \in Seq(Range(observedSoFar))
  /\ lastChecked \in 0..MaxClock
  /\ tags \in [Attributes -> BOOLEAN]

FlagsInit ==
  /\ minute = 0 /\ observedSoFar = <<>> /\ points = <<>> /\ lastChecked = 0
  /\ tags = [a \in Attributes |-> FALSE]

-----------------------------------------------------------------------------
\* _get_transition_ts: when the attribute came back for the last time; NoSetting if it is
\* away, or never was.
CameBack(a, history) ==
  LET away == {i \in DOMAIN history : history[i].of[a] = NoSetting}
      last == CHOOSE i \in away : \A j \in away : j <= i
  IN  IF away = {} \/ last = Len(history) THEN NoSetting ELSE history[last + 1].at

\* _detect_change.
HasChange(a, history) ==
  LET values == {history[i].of[a] : i \in DOMAIN history} \ {NoSetting}
      back   == CameBack(a, history)
  IN  \/ Cardinality(values) > 1
      \/ values # {} /\ back # NoSetting /\ minute - back <= Fresh

-----------------------------------------------------------------------------
(* The hash of a record covers each attribute: a new row only if one differs. *)
\* Mutant: one of them was forgotten.
SameHash(c, d) == \A a \in Attributes \ {CHOOSE a \in Attributes : TRUE} : c[a] = d[a]
SameAsBefore(c, d) == c = d

\* A round, some time after the one before; the pointer still knows the last hash when
\* its record is gone.
Observes(d) ==
  /\ Len(observedSoFar) < MaxObserved /\ minute < MaxClock
  /\ minute' = minute + 1
  /\ observedSoFar' = Append(observedSoFar, [at |-> minute', of |-> d])
  /\ points' = IF observedSoFar # <<>> /\ SameAsBefore(Last(observedSoFar).of, d) THEN points
               ELSE Append(points, [at |-> minute', of |-> d])
  /\ lastChecked' = minute'
  /\ UNCHANGED tags

TimeGoesOn ==
  /\ minute < MaxClock /\ minute' = minute + 1
  /\ UNCHANGED <<observedSoFar, points, lastChecked, tags>>

\* Retention takes the oldest record; its pointer stays.
OldestGoes ==
  /\ points # <<>> /\ points' = Tail(points)
  /\ UNCHANGED <<minute, observedSoFar, lastChecked, tags>>

\* compute_change_tags: what the page of one case shows, at once.
TagsNow == [a \in Attributes |-> HasChange(a, points)]

\* get_case_detail: the tags, and the newest record.
CaseDetail ==
  [tags |-> TagsNow, snapshot |-> IF points = <<>> THEN NoSetting ELSE Last(points).of]

\* get_change_timeline of the service: an attribute in the records, the newest first.
Timeline(a) == Reverse([i \in DOMAIN points |-> [at |-> points[i].at, value |-> points[i].of[a]]])

\* The page adds up to when the newest of them is known to hold.
TimelinePage(a) == [timeline |-> Timeline(a), until |-> lastChecked]

\* update_change_flags, last in a round: what the list shows.
TagsUpdated ==
  /\ tags' = TagsNow
  /\ UNCHANGED <<minute, observedSoFar, points, lastChecked>>

FlagsNext ==
  \/ \E d \in Attributed : Observes(d)
  \/ TimeGoesOn \/ OldestGoes \/ TagsUpdated

FlagsSpec == FlagsInit /\ [][FlagsNext]_flagVars

-----------------------------------------------------------------------------
(* Properties. *)

\* What was observed from the oldest change that is still kept.
Remembered ==
  IF points = <<>> THEN <<>>
  ELSE LET oldest == CHOOSE i \in DOMAIN observedSoFar : observedSoFar[i] = Head(points)
       IN  SubSeq(observedSoFar, oldest, Len(observedSoFar))

\* The tags of a case say what all observations of its client say, since the oldest change
\* that is kept: leaving out the observations that repeat the one before hides no change
\* and does not move the time at which a client came back (_save_changed_records,
\* update_change_flags).
TagsAsObserved ==
  tags' # tags => tags' = [a \in Attributes |-> HasChange(a, Remembered)]

\* The page of an attribute reads back each of these observations, up to the time it says
\* it was checked last, and the snapshot is the last of them (get_change_timeline,
\* get_case_detail).
TimelineReadsBack ==
  /\ \A a \in Attributes, o \in Range(Remembered) :
       LET page == TimelinePage(a)
           upTo == {i \in DOMAIN page.timeline : page.timeline[i].at <= o.at}
       IN  /\ o.at <= page.until
           /\ \E i \in upTo : /\ \A j \in upTo : i <= j
                            /\ page.timeline[i].value = o.of[a]
  /\ points # <<>> => CaseDetail.snapshot = Last(observedSoFar).of

\* What a case tells of the changes of its client is what was observed.
ChangesAsObserved == [][TagsAsObserved /\ TimelineReadsBack']_flagVars
=============================================================================
