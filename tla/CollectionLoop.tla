--------------------------- MODULE CollectionLoop ---------------------------
(***************************************************************************)
(* The service's background work: one endless loop of rounds (SNMP, API,   *)
(* client pass, cooldown), a ping job beside it, and their savers, over    *)
(* the tables of TypedBatches, which users and retention change meanwhile. *)
(* setup_scheduled_jobs starts it once and the application's shutdown      *)
(* stops it once.  A round takes the maintenances it read as active at its *)
(* start; the client pass reads them again.                                *)
(***************************************************************************)
EXTENDS TypedBatches

CONSTANTS
  SaverKind,   \* the kind that each saver saves
  SaverPhase,  \* "snmp", "api" or "ping": who runs a saver
  SaverCall,   \* the API collection that gathers it, if one does: in API mode also in "snmp"
  Retries,     \* how often a collection begins again after a deadlock (collect: 2)
  MaxCrashes   \* bound on the crashes of the loop

ASSUME LoopAssumption ==
  /\ SaverKind \in [Savers -> Kinds]
  /\ SaverPhase \in [Savers -> {"snmp", "api", "ping"}]
  /\ \A s, t \in Savers :
       /\ SaverCall[s] # None => SaverPhase[s] # "ping"
       /\ SaverCall[s] = SaverCall[t] /\ SaverCall[s] # None => SaverPhase[s] = SaverPhase[t]
  /\ Retries \in Nat /\ MaxCrashes \in Nat
  /\ None \notin Maintenances

VARIABLES
  stop,      \* _loop_stop
  pc,        \* where the loop's task is
  todo,      \* per phase: the maintenances it still has to visit
  current,   \* per phase: the one it is visiting
  task,      \* the maintenance that each saver works for
  left,      \* savers at work that nothing waits for: their gather has raised
  tries,     \* per API collection: how often it began again in this visit
  crashes

workVars == <<task, left, tries>>
loopVars == <<stop, pc, todo, current, workVars, crashes>>
serviceVars == <<batchVars, loopVars>>

Running == {"delay", "top", "snmp", "api", "client", "cooldown", "waiting"}
Phases == {"snmp", "api", "client", "ping"}
Calls == {SaverCall[s] : s \in Savers} \ {None}

ServiceTypeOK ==
  /\ BatchTypeOK
  /\ stop \in BOOLEAN
  /\ pc \in Running \cup {"none", "ended", "crashed"}
  /\ todo \in [Phases -> SUBSET Maintenances]
  /\ current \in [Phases -> Maintenances \cup {None}]
  /\ task \in [Savers -> Maintenances \cup {None}]
  /\ left \subseteq {s \in Savers : task[s] # None /\ SaverCall[s] # None}
  /\ tries \in [Calls -> 0..Retries]
  /\ crashes \in 0..MaxCrashes

ServiceInit ==
  /\ BatchInit
  /\ stop = FALSE /\ pc = "none" /\ crashes = 0
  /\ task = [s \in Savers |-> None] /\ left = {} /\ tries = [c \in Calls |-> 0]
  /\ todo = [p \in Phases |-> {}]
  /\ current = [p \in Phases |-> None]

Of(p) == {s \in Savers : SaverPhase[s] = p}
LoopSavers == Of("snmp") \cup Of("api")
Alive == pc \in Running
Awaited == {s \in Savers : task[s] # None} \ left

\* The task ends: the coroutines that it waits for are cancelled with it.
Abandons ==
  LET dropped == LoopSavers \cap Awaited IN
  /\ task' = [s \in Savers |-> IF s \in dropped THEN None ELSE task[s]]
  /\ saver' = [s \in Savers |-> IF s \in dropped THEN None ELSE saver[s]]
  /\ UNCHANGED <<left, tries>>
  /\ todo' = [p \in Phases |-> IF p = "ping" THEN todo[p] ELSE {}]
  /\ current' = [p \in Phases |-> IF p = "ping" THEN current[p] ELSE None]
  /\ UNCHANGED <<config, batch, pointer, cleaner>>

-----------------------------------------------------------------------------
(* The task. *)

SetupJobs ==
  /\ pc = "none"
  /\ pc' = "delay"
  /\ UNCHANGED <<batchVars, stop, todo, current, workVars, crashes>>

\* stop() sets the flag; the cancellation arrives at the task's next await.
Stop ==
  /\ pc # "none" /\ ~stop
  /\ stop' = TRUE
  /\ UNCHANGED <<batchVars, pc, todo, current, workVars, crashes>>

Cancelled ==
  /\ stop /\ Alive
  /\ pc' = "ended" /\ Abandons
  /\ UNCHANGED <<stop, crashes>>

\* What the round's except clause does not catch.
Crashes ==
  /\ Alive /\ ~stop /\ crashes < MaxCrashes
  /\ pc' = "crashed" /\ crashes' = crashes + 1 /\ Abandons
  /\ UNCHANGED stop

\* Mutant: the flag is not looked at again after the ten seconds.
StartsAnyway == TRUE
StartsAgain == ~stop

\* _delayed_restart, ten seconds after the done callback.
Restarts ==
  /\ pc = "crashed"
  /\ IF StartsAgain THEN pc' = "delay" /\ stop' = FALSE ELSE pc' = "ended" /\ UNCHANGED stop
  /\ UNCHANGED <<batchVars, todo, current, workVars, crashes>>

-----------------------------------------------------------------------------
(* Rounds. *)

LoopStep(from, to) ==
  /\ pc = from /\ pc' = to
  /\ UNCHANGED <<batchVars, stop, workVars, crashes>>

Wakes == LoopStep("delay", "top") /\ UNCHANGED <<todo, current>>

\* Mutant: paused and deleted maintenances are visited too.
VisitsAll == Maintenances
Visits == Active

RoundStarts ==
  /\ ~stop
  /\ IF Visits = {} THEN LoopStep("top", "waiting") /\ UNCHANGED todo
     ELSE /\ LoopStep("top", "snmp")
          /\ todo' = [todo EXCEPT !["snmp"] = Visits, !["api"] = Visits]
  /\ UNCHANGED current

\* A saver that was left behind is still busy with what it began.
Starting(ss, m) == [s \in Savers |-> IF s \in ss \ left THEN m ELSE task[s]]

\* Phase p turns to its next maintenance and starts its savers for it.
Begins(p) ==
  /\ current[p] = None
  /\ \E m \in todo[p] :
       /\ todo' = [todo EXCEPT ![p] = @ \ {m}]
       /\ current' = [current EXCEPT ![p] = m]
       /\ task' = Starting(Of(p), m)
  /\ tries' = [c \in Calls |-> IF \E s \in Of(p) : SaverCall[s] = c THEN 0 ELSE tries[c]]
  /\ UNCHANGED <<batchVars, stop, pc, left, crashes>>

Done(p) ==
  /\ current[p] # None /\ Of(p) \cap Awaited = {}
  /\ current' = [current EXCEPT ![p] = None]
  /\ UNCHANGED <<batchVars, stop, pc, todo, workVars, crashes>>

PhaseEnds(p, next) ==
  /\ todo[p] = {} /\ current[p] = None
  /\ LoopStep(p, next) /\ UNCHANGED <<todo, current>>

\* The client pass reads the active maintenances anew, and visits them one by one.
ClientPassStarts ==
  /\ todo["api"] = {} /\ current["api"] = None
  /\ LoopStep("api", "client")
  /\ todo' = [todo EXCEPT !["client"] = Visits]
  /\ UNCHANGED current

\* The two lists of active maintenances are what a round reads outside any inner try.
RoundFails ==
  \/ ~stop /\ LoopStep("top", "cooldown") /\ UNCHANGED <<todo, current>>
  \/ PhaseEnds("api", "cooldown")

\* Mutant: the wait for an active maintenance has no timeout.
WaitsOnce == {"cooldown"}
Waits == {"cooldown", "waiting"}
Cooled == \E p \in Waits : ~stop /\ LoopStep(p, "top") /\ UNCHANGED <<todo, current>>
\* A set flag ends both waits early; the loop then leaves by itself.
LeavesLoop ==
  \E p \in {"top", "cooldown", "waiting"} : stop /\ LoopStep(p, "ended") /\ UNCHANGED <<todo, current>>

LoopPhase == \E p \in {"snmp", "api", "client"} : pc = p /\ (Begins(p) \/ Done(p))

-----------------------------------------------------------------------------
(* The ping job, and all savers. *)

PingIdle == todo["ping"] = {} /\ current["ping"] = None
PingStarts ==
  /\ pc # "none" /\ ~stop /\ PingIdle
  /\ todo' = [todo EXCEPT !["ping"] = Visits]
  /\ UNCHANGED <<batchVars, stop, pc, current, workVars, crashes>>
PingStep == Begins("ping") \/ Done("ping")

Ends(s) == task' = [task EXCEPT ![s] = None] /\ left' = left \ {s} /\ UNCHANGED tries

\* A device that does not answer, a host that is not listed: nothing to save.
Skips(s) ==
  /\ task[s] # None /\ saver[s] = None
  /\ Ends(s)
  /\ UNCHANGED <<batchVars, stop, pc, todo, current, crashes>>

Looks(s) ==
  /\ task[s] # None
  /\ \E r \in Results : SaverReads(s, task[s], SaverKind[s], r)
  /\ UNCHANGED loopVars

SaveEnds(s) == Ends(s) /\ UNCHANGED <<stop, pc, todo, current, crashes>>
Saved(s) == SaverCommits(s) /\ SaveEnds(s)

Unsaved(s) == SaverFails(s) /\ SaveEnds(s)

\* A task of an API collection raises, as the session at its end may: gather raises at once,
\* the others go on with nobody to wait for them, or to cancel them with the loop.  After a
\* deadlock the collection begins again beside them; what else is raised ends it.
Raises(s) ==
  /\ s \in Awaited /\ SaverCall[s] # None
  /\ saver' = [saver EXCEPT ![s] = None]
  /\ LET all == {t \in Savers : SaverCall[t] = SaverCall[s]}
         others == (all \cap Awaited) \ {s} IN
     /\ left' = left \cup others
     /\ \/ /\ task' = [task EXCEPT ![s] = None]
           /\ UNCHANGED tries
        \/ /\ tries[SaverCall[s]] < Retries
           /\ tries' = [tries EXCEPT ![SaverCall[s]] = @ + 1]
           /\ task' = Starting(all \ others, task[s])
  /\ UNCHANGED <<config, batch, pointer, cleaner, stop, pc, todo, current, crashes>>

BatchStep ==
  \/ CleanupSelects \/ CleanupDeletes \/ CleanupOldBatches
  \/ \E i \in Ids : BatchAges(i)
\* The device list stays as it is.
UserStep ==
  \E m \in Maintenances :
    CreateMaintenance(m) \/ Resume(m) \/ Pause(m) \/ Ages(m) \/ DeleteMaintenance(m)

ServiceNext ==
  \/ SetupJobs \/ Stop \/ Cancelled \/ Crashes \/ Restarts
  \/ Wakes \/ RoundStarts \/ LoopPhase \/ PhaseEnds("snmp", "api") \/ ClientPassStarts
  \/ PhaseEnds("client", "cooldown") \/ RoundFails \/ Cooled \/ LeavesLoop
  \/ PingStarts \/ PingStep
  \/ \E s \in Savers : Skips(s) \/ Looks(s) \/ Saved(s) \/ Unsaved(s) \/ Raises(s)
  \/ (BatchStep \/ UserStep) /\ UNCHANGED loopVars

\* The event loop runs what is ready.  A saver that is tried again and again sometimes
\* finds its device answering and its transaction committed, a round its list.
ServiceFairness ==
  /\ WF_serviceVars(SetupJobs) /\ WF_serviceVars(Cancelled) /\ WF_serviceVars(Restarts)
  /\ WF_serviceVars(Wakes \/ RoundStarts \/ LoopPhase \/ PhaseEnds("snmp", "api")
       \/ ClientPassStarts \/ PhaseEnds("client", "cooldown") \/ Cooled \/ LeavesLoop)
  /\ SF_serviceVars(RoundStarts)
  /\ WF_serviceVars(PingStarts) /\ WF_serviceVars(PingStep)
  /\ \A s \in Savers :
       /\ WF_serviceVars(Skips(s) \/ Looks(s)) /\ SF_serviceVars(Looks(s))
       /\ WF_serviceVars(Saved(s) \/ Unsaved(s)) /\ SF_serviceVars(Saved(s))

ServiceSpec == ServiceInit /\ [][ServiceNext]_serviceVars /\ ServiceFairness

-----------------------------------------------------------------------------
(* Properties. *)

\* Whatever fails, crashes or is cancelled, a collector saves under its own kind, for the
\* maintenance that its phase visits; the phase visits one only while the round is in it, and
\* the loop ends by stop() alone.  What is collected beside the round, or after the loop's
\* end, are tasks of API collections that raised: they finish what they began (_loop, stop,
\* collect, and what gather waits for).
SavesForVisit ==
  /\ \A s \in Savers : saver[s] # None =>
       task[s] # None /\ saver[s].key = <<task[s], SaverKind[s]>>
  /\ \A s \in Awaited : task[s] = current[SaverPhase[s]]
  /\ \A p \in Phases \ {"ping"} : current[p] # None => pc = p
  /\ pc = "ended" => stop

ServiceInv == ServiceTypeOK /\ BatchInv /\ SavesForVisit

\* Crashes, failing rounds, failing saves and empty lists do not end the loop; only
\* stop() does, and then for good: a restart that was due in ten seconds stays away, and
\* what a gather had left behind comes to its end.
LoopGoesOn == []<>(pc = "top" \/ stop)
StopIsFinal == <>stop => <>[](pc = "ended" /\ \A s \in LoopSavers : task[s] = None)

\* Once a maintenance is paused or deleted for good, collectors leave it alone after the
\* visits in flight and the tasks that these left behind (the lists of the round, the
\* client pass and the ping job, collect).
QuietsDown ==
  \A m \in Maintenances :
    <>[](config[m] # "active") =>
      <>[]((\A p \in Phases : current[p] # m) /\ \A s \in Savers : task[s] # m)

\* A maintenance that stays active gets current data of every kind, also when retention
\* or a crossed save took its pointer away under a collector.
DataRecovers ==
  \A k \in Keys :
    []<>(pointer[k] # None \/ config[k[1]] # "active" \/ stop)
=============================================================================
