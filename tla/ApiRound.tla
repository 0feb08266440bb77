------------------------------ MODULE ApiRound ------------------------------
(***************************************************************************)
(* collect() of the API passthrough: one call after the other, each in up  *)
(* to Retries + 1 attempts, an attempt being one task per target, all      *)
(* gathered, at most Slots of them at work.  A task has its own session: a *)
(* failed fetch stores an error and an empty batch in it.  A save that the *)
(* database refuses leaves the session unusable, so that the commit at its *)
(* end raises; gather then raises at once, the HTTP client is closed, and  *)
(* the other tasks go on beside what follows.                              *)
(***************************************************************************)
EXTENDS Naturals, FiniteSets

CONSTANTS
  Targets,
  Silent,      \* hosts that do not always answer
  Slots,       \* 10 in the code
  Retries,     \* 2 in the code
  MaxAttempts  \* bound on the attempts of all calls

ASSUME ApiAssumption ==
  /\ Silent \subseteq Targets
  /\ Slots \in Nat \ {0} /\ Retries \in Nat /\ MaxAttempts \in Nat

Attempts == 1..MaxAttempts

VARIABLES
  attempt,   \* the latest attempt, 0 for none yet
  tries,     \* attempts the running call has made before this one
  gathered,  \* of each attempt: "open" (client open), "returned", "deadlock", "raised"
  task,      \* of each attempt and host: what its coroutine is doing
  data,      \* of each host: the rows of its current batch
  errored      \* hosts with a row in collection_errors

apiVars == <<attempt, tries, gathered, task, data, errored>>

ApiTypeOK ==
  /\ attempt \in 0..MaxAttempts
  /\ tries \in 0..Retries
  /\ gathered \in [0..MaxAttempts -> {"none", "open", "returned", "deadlock", "raised"}]
  /\ task \in [Attempts -> [Targets ->
       {"none", "queued", "fetching", "saving", "failing", "ok", "fail", "deadlock", "raised"}]]
  /\ data \in [Targets -> {"none", "rows", "empty"}]
  /\ errored \subseteq Targets

ApiInit ==
  /\ attempt = 0 /\ tries = 0
  /\ gathered = [n \in 0..MaxAttempts |-> IF n = 0 THEN "returned" ELSE "none"]
  /\ task = [n \in Attempts |-> [h \in Targets |-> "none"]]
  /\ data = [h \in Targets |-> "none"]
  /\ errored = {}

-----------------------------------------------------------------------------
(* Calls and attempts. *)

Begin(k) ==
  /\ attempt < MaxAttempts
  /\ attempt' = attempt + 1 /\ tries' = k
  /\ gathered' = [gathered EXCEPT ![attempt + 1] = "open"]
  /\ task' = [task EXCEPT ![attempt + 1] = [h \in Targets |-> "queued"]]
  /\ UNCHANGED <<data, errored>>

Again == gathered[attempt] = "deadlock" /\ tries < Retries
CallStarts ==
  /\ gathered[attempt] \in {"returned", "deadlock", "raised"}
  /\ ~Again
  /\ Begin(0)
RepeatsCall == Again /\ Begin(tries + 1)

GatherEnds(n, how) ==
  /\ gathered[n] = "open"
  /\ gathered' = [gathered EXCEPT ![n] = how]
  /\ UNCHANGED <<attempt, tries, task, data, errored>>

Returns(n) == (\A h \in Targets : task[n][h] \in {"ok", "fail"}) /\ GatherEnds(n, "returned")
Raises(n) == \E how \in {"deadlock", "raised"} :
               (\E h \in Targets : task[n][h] = how) /\ GatherEnds(n, how)

-----------------------------------------------------------------------------
(* The task of one target. *)

AtWork(n) == {h \in Targets : task[n][h] \in {"fetching", "saving", "failing"}}
Turns(n, h, to) == task' = [task EXCEPT ![n][h] = to]
Moves(n, h, from, to) ==
  /\ task[n][h] = from /\ Turns(n, h, to)
  /\ UNCHANGED <<attempt, tries, gathered, data, errored>>

TakesSlot(n, h) == Cardinality(AtWork(n)) < Slots /\ Moves(n, h, "queued", "fetching")

ClientOpen(n) == gathered[n] = "open"
Answered(n, h) == ClientOpen(n) /\ Moves(n, h, "fetching", "saving")
FetchFails(n, h) == (h \in Silent \/ ~ClientOpen(n)) /\ Moves(n, h, "fetching", "failing")

\* Both statements in one session: the rows and the end of the error.
SaveLands(n, h) ==
  /\ task[n][h] = "saving"
  /\ data' = [data EXCEPT ![h] = "rows"]
  /\ errored' = errored \ {h}
  /\ Turns(n, h, "ok")
  /\ UNCHANGED <<attempt, tries, gathered>>

\* Mutant: the error is not recorded.
WithoutError(h) == errored
WithError(h) == errored \cup {h}
FailureLands(n, h) ==
  /\ task[n][h] = "failing"
  /\ data' = [data EXCEPT ![h] = "empty"]
  /\ errored' = WithError(h)
  /\ Turns(n, h, "fail")
  /\ UNCHANGED <<attempt, tries, gathered>>

\* A flush is refused, in either path; nothing of the session is stored.
SessionBreaks(n, h) ==
  \E from \in {"saving", "failing"}, how \in {"deadlock", "raised"} : Moves(n, h, from, how)

ApiNext ==
  \/ CallStarts \/ RepeatsCall
  \/ \E n \in Attempts :
       \/ Returns(n) \/ Raises(n)
       \/ \E h \in Targets :
            \/ TakesSlot(n, h) \/ Answered(n, h) \/ FetchFails(n, h)
            \/ SaveLands(n, h) \/ FailureLands(n, h) \/ SessionBreaks(n, h)

ApiSpec == ApiInit /\ [][ApiNext]_apiVars

-----------------------------------------------------------------------------
(* Properties. *)

\* A host whose rows were replaced by an empty batch has an error that explains it, and
\* one with rows has none, whichever attempts still run (_do_collect, its error paths).
EmptyIsExplained ==
  \A h \in Targets :
    /\ data[h] = "empty" <=> h \in errored
    /\ data[h] = "empty" /\ h \notin Silent =>
         \E n \in Attempts : task[n][h] = "fail" /\ gathered[n] \in {"deadlock", "raised"}
=============================================================================
