------------------------------ MODULE SnmpRound ------------------------------
(***************************************************************************)
(* The SNMP rounds of one maintenance (CollectionCoordinator) over the     *)
(* caches that survive them (SnmpSessionCache): one coroutine per target,  *)
(* those with a known community first, a bounded number of them talking to *)
(* devices at a time, one probe per address, a hard timeout around each,   *)
(* and one transaction per target that saves what its collectors got.      *)
(*                                                                         *)
(* Every step below is what a coroutine does between two awaits.  The slot *)
(* of the semaphore and the probe lock of an address are held exactly      *)
(* while the coroutine is inside the `async with`, so they are read off pc.*)
(*                                                                         *)
(* Abstracted: what a device answers is a choice of each step, what is     *)
(* stored is the target it came from, and time is that a timer may fire.   *)
(***************************************************************************)
EXTENDS Naturals, FiniteSets

CONSTANTS
  Targets,     \* the (hostname, ip) pairs of the device list, old and new devices
  Hosts, HostOf, \* the hostname of each target
  Ips, IpOf,     \* its address; names may share an address, addresses a name
  Collectors,  \* the collectors of a round
  Slots,       \* the size of the semaphore
  MaxTries,    \* attempts to save: max_retries + 1
  Nobody       \* no target

ASSUME RoundAssumption ==
  /\ HostOf \in [Targets -> Hosts] /\ IpOf \in [Targets -> Ips]
  /\ Nobody \notin Targets /\ IsFiniteSet(Targets)
  /\ Slots \in Nat \ {0} /\ MaxTries \in Nat \ {0}

Outcome == {"ok", "timeout", "error", "unreachable"}
InSlot == {"target", "lock", "probe", "collect"}
Step == {"none", "queued", "ready", "slot", "save", "done"} \cup InSlot

VARIABLES
  phase,      \* of the running round: 0 without one, 1 known targets, 2 the others
  pc,         \* where the coroutine of each target stands; "none" outside the round
  out,        \* what its collectors got, from then until it is saved
  tries,      \* its attempts to save
  community,  \* addresses in _community_cache
  negative,   \* addresses in _negative_cache that have not expired
  latest,     \* LatestCollectionBatch: the target whose data a host and collector has
  failing     \* CollectionError rows, as pairs of host and collector

vars == <<phase, pc, out, tries, community, negative, latest, failing>>
caches == <<community, negative>>
tables == <<latest, failing>>

TypeOK ==
  /\ phase \in 0..2
  /\ pc \in [Targets -> Step]
  /\ out \in [Targets -> [Collectors -> Outcome]]
  /\ tries \in [Targets -> 1..MaxTries]
  /\ community \in SUBSET Ips /\ negative \in SUBSET Ips
  /\ latest \in [Hosts \X Collectors -> Targets \cup {Nobody}]
  /\ failing \in SUBSET (Hosts \X Collectors)

All(o) == [k \in Collectors |-> o]

Init ==
  /\ phase = 0
  /\ pc = [t \in Targets |-> "none"]
  /\ out = [t \in Targets |-> All("ok")] /\ tries = [t \in Targets |-> 1]
  /\ community = {} /\ negative = {}
  /\ latest = [hk \in Hosts \X Collectors |-> Nobody] /\ failing = {}

Known(t) == IpOf[t] \in community
Unreachable(t) == IpOf[t] \in negative

-----------------------------------------------------------------------------
(* run_round *)

\* Mutant: what is not written off goes first.
RoundStartsUnprobed(S) ==
  LET first == {t \in S : ~Unreachable(t)}
  IN  /\ phase = 0 /\ S # {}
      /\ phase' = IF first = {} THEN 2 ELSE 1
      /\ pc' = [t \in Targets |-> IF t \notin S THEN "none"
                                  ELSE IF t \in first \/ first = {} THEN "ready" ELSE "queued"]
      /\ UNCHANGED <<out, tries, caches, tables>>
\* S: the targets on the device list now.
RoundStarts(S) ==
  LET known == {t \in S : Known(t)}
  IN  /\ phase = 0 /\ S # {}
      /\ phase' = IF known = {} THEN 2 ELSE 1
      /\ pc' = [t \in Targets |-> IF t \notin S THEN "none"
                                  ELSE IF t \in known \/ known = {} THEN "ready" ELSE "queued"]
      /\ UNCHANGED <<out, tries, caches, tables>>

\* gather(return_exceptions=True): every coroutine of the phase has ended, somehow.
Finished == \A t \in Targets : pc[t] \in {"none", "queued", "done"}

PhaseTwo ==
  /\ phase = 1 /\ Finished
  /\ phase' = 2
  /\ pc' = [t \in Targets |-> IF pc[t] = "queued" THEN "ready" ELSE pc[t]]
  /\ UNCHANGED <<out, tries, caches, tables>>

RoundEnds ==
  /\ phase = 2 /\ Finished
  /\ phase' = 0 /\ pc' = [t \in Targets |-> "none"]
  /\ UNCHANGED <<out, tries, caches, tables>>

\* stop() cancels the collection loop: open transactions roll back, the caches stay.
Cancelled ==
  /\ phase # 0 /\ phase' = 0
  /\ pc' = [t \in Targets |-> "none"]
  /\ out' = [t \in Targets |-> All("ok")] /\ tries' = [t \in Targets |-> 1]
  /\ UNCHANGED <<caches, tables>>

\* The caches live in the class, so only a new process starts without them.
Restarts ==
  /\ phase' = 0 /\ pc' = [t \in Targets |-> "none"]
  /\ out' = [t \in Targets |-> All("ok")] /\ tries' = [t \in Targets |-> 1]
  /\ community' = {} /\ negative' = {}
  /\ UNCHANGED tables

-----------------------------------------------------------------------------
(* _collect_device and, inside its slot, _snmp_phase and get_target *)

Go(t, step) == pc' = [pc EXCEPT ![t] = step]

\* Leaves the slot with outcome o to save.
Got(t, o) ==
  /\ Go(t, "save") /\ out' = [out EXCEPT ![t] = o]
  /\ UNCHANGED <<phase, tries, tables>>

Moves(t, step) ==
  /\ Go(t, step) /\ UNCHANGED <<phase, out, tries, tables>>

\* A target in the negative cache takes no slot.
DeviceStarts(t) ==
  /\ pc[t] = "ready"
  /\ IF Unreachable(t) THEN Got(t, All("unreachable")) ELSE Moves(t, "slot")
  /\ UNCHANGED caches

Busy == {t \in Targets : pc[t] \in InSlot}

TakesSlot(t) ==
  /\ pc[t] = "slot" /\ Cardinality(Busy) < Slots
  /\ Moves(t, "target") /\ UNCHANGED caches

\* What get_target makes of the caches: a community, an error, or a reason to go on.
Consult(t, otherwise) ==
  CASE Known(t)       -> Moves(t, "collect")
    [] ~Known(t) /\ Unreachable(t) -> Got(t, All("unreachable"))
    [] OTHER          -> Moves(t, otherwise)

LooksUpTarget(t) ==
  /\ pc[t] = "target" /\ Consult(t, "lock")
  /\ UNCHANGED caches

\* Mutant: coroutines do not wait for one another's probe.
LockIgnored(ip) == TRUE
LockFree(ip) == \A u \in Targets : IpOf[u] = ip => pc[u] # "probe"

\* The caches are read again under the lock: who held it has just filled one of them.
LocksAddress(t) ==
  /\ pc[t] = "lock" /\ LockFree(IpOf[t])
  /\ Consult(t, "probe")
  /\ UNCHANGED caches

ProbeAnswered(t) ==
  /\ pc[t] = "probe"
  /\ community' = community \cup {IpOf[t]}
  /\ Moves(t, "collect") /\ UNCHANGED negative

\* No community got an answer.
ProbeSilent(t) ==
  /\ pc[t] = "probe"
  /\ negative' = negative \cup {IpOf[t]}
  /\ Got(t, All("unreachable")) /\ UNCHANGED community

\* An exception that is no SNMP error ends the coroutine; nothing is saved.
ProbeBreaks(t) ==
  /\ pc[t] = "probe"
  /\ Moves(t, "done") /\ UNCHANGED caches

\* All collectors run in parallel, each with its retries.
Collected(t, o) ==
  /\ pc[t] = "collect" /\ o \in [Collectors -> Outcome \ {"unreachable"}]
  /\ Got(t, o) /\ UNCHANGED caches

\* Wherever the coroutine is inside its slot: what collectors got by then is dropped.
HardTimeout(t) ==
  /\ pc[t] \in InSlot
  /\ Got(t, All("timeout")) /\ UNCHANGED caches

\* Mutant: entries of the negative cache never expire.
ExpiresNever(ip) == ip \in negative /\ UNCHANGED vars
Expires(ip) ==
  /\ ip \in negative /\ negative' = negative \ {ip}
  /\ UNCHANGED <<phase, pc, out, tries, community, tables>>

-----------------------------------------------------------------------------
(* _save_device_results *)

\* A failure never overwrites data; it only leaves an error.
Stored(t, hk) == IF hk[1] = HostOf[t] /\ out[t][hk[2]] = "ok" THEN t ELSE latest[hk]

Failed(t) ==
  LET mine == {HostOf[t]} \X Collectors
  IN  (failing \ mine) \cup {hk \in mine : out[t][hk[2]] # "ok"}

Ends(t) ==
  /\ Go(t, "done")
  /\ out' = [out EXCEPT ![t] = All("ok")] /\ tries' = [tries EXCEPT ![t] = 1]
  /\ UNCHANGED <<phase, caches>>

SaveCommits(t) ==
  /\ pc[t] = "save" /\ Ends(t)
  /\ latest' = [hk \in Hosts \X Collectors |-> Stored(t, hk)]
  /\ failing' = Failed(t)

\* Mutant: the last attempt is repeated too.
DeadlocksForever(t) ==
  /\ pc[t] = "save"
  /\ tries' = [tries EXCEPT ![t] = 1 + (@ % MaxTries)]
  /\ UNCHANGED <<phase, pc, out, caches, tables>>
SaveDeadlocks(t) ==
  /\ pc[t] = "save" /\ tries[t] < MaxTries
  /\ tries' = [tries EXCEPT ![t] = @ + 1]
  /\ UNCHANGED <<phase, pc, out, caches, tables>>

\* Any other error, or the last deadlock: logged, and the result is lost.
SaveFails(t) ==
  /\ pc[t] = "save" /\ Ends(t) /\ UNCHANGED tables

-----------------------------------------------------------------------------
Probes(t) == ProbeAnswered(t) \/ ProbeSilent(t) \/ ProbeBreaks(t)
Collects(t) == \E o \in [Collectors -> Outcome] : Collected(t, o)
Saves(t) == SaveCommits(t) \/ SaveDeadlocks(t) \/ SaveFails(t)

Device(t) ==
  \/ DeviceStarts(t) \/ TakesSlot(t) \/ LooksUpTarget(t) \/ LocksAddress(t)
  \/ Probes(t) \/ Collects(t) \/ HardTimeout(t) \/ Saves(t)

Next ==
  \/ \E S \in SUBSET Targets : RoundStarts(S)
  \/ PhaseTwo \/ RoundEnds \/ Cancelled \/ Restarts
  \/ \E t \in Targets : Device(t)
  \/ \E ip \in Ips : Expires(ip)

Spec == Init /\ [][Next]_vars

\* A coroutine that can run does; a slot, a lock and a transaction are given back by
\* the hard timeout and the end of the transaction; time passes.  Nothing is assumed of
\* the devices, nor that rounds start.
Fairness ==
  /\ WF_vars(PhaseTwo) /\ WF_vars(RoundEnds)
  /\ \A t \in Targets :
       /\ WF_vars(DeviceStarts(t)) /\ WF_vars(TakesSlot(t))
       /\ WF_vars(HardTimeout(t)) /\ WF_vars(Saves(t))
  /\ \A ip \in Ips : WF_vars(Expires(ip))

FairSpec == Spec /\ Fairness

-----------------------------------------------------------------------------
(* Properties. *)

\* A device is probed only while nothing is known of its address, whatever other
\* coroutines of the round learn while this one waits for a slot and for the lock
\* (get_target, which reads the caches again under the lock).
ProbeOnlyUnknown ==
  \A t \in Targets : pc[t] = "probe" => ~Known(t) /\ ~Unreachable(t)

\* No address is known to answer and written off at the same time: the fast path of
\* _collect_device, which looks at the second cache alone, would skip a device that
\* get_target would collect.
NeverSkipsKnown == community \cap negative = {}

ProbeInv ==
  /\ TypeOK /\ NeverSkipsKnown /\ ProbeOnlyUnknown
  /\ \A t, u \in Targets : IpOf[t] = IpOf[u] /\ pc[t] = "probe" /\ pc[u] = "probe" => t = u

\* What a host has been collected once is never lost again: not by timeouts, unreachable
\* rounds, failed or repeated transactions, a cancelled loop or a restart, and not by the
\* failure of another target with the same hostname.
DataKept ==
  [][\A hk \in Hosts \X Collectors : latest[hk] # Nobody => latest'[hk] # Nobody]_vars

\* While known devices are collected nobody waits for a probe or makes one: devices that
\* answer never queue behind devices that may not (run_round's two phases, whatever the
\* coroutines of the first one learn and however they end).
KnownFirst == phase = 1 => \A t \in Targets : pc[t] \notin {"lock", "probe"}

\* Only a device whose community is known is collected, and only its data are stored as
\* its host's.
DataFromKnown ==
  /\ \A t \in Targets :
       pc[t] = "collect" \/ (pc[t] = "save" /\ \E k \in Collectors : out[t][k] = "ok") => Known(t)
  /\ \A hk \in Hosts \X Collectors : latest[hk] # Nobody => HostOf[latest[hk]] = hk[1]

\* Slots are given back however a coroutine leaves: never more are taken than there are.
SlotsKept == Cardinality(Busy) <= Slots

\* Somebody can always go on: who is inside a slot has its hard timeout, and a coroutine
\* that waits for a slot waits for one of those.
NeverStuck ==
  phase # 0 /\ ~Finished =>
    \E t \in Targets :
      \/ pc[t] \in InSlot \cup {"ready", "save"}
      \/ pc[t] = "slot" /\ Cardinality(Busy) < Slots

\* Why they hold: who runs beside a first phase was known when it began, and stays so.
RoundInv ==
  /\ ProbeInv /\ KnownFirst /\ DataFromKnown /\ SlotsKept
  /\ phase = 0 => \A t \in Targets : pc[t] = "none"
  /\ phase = 1 => \A t \in Targets : pc[t] \notin {"none", "queued"} => Known(t)
  /\ phase = 2 => \A t \in Targets : pc[t] # "queued"

\* The steps that are left to a coroutine, at most.
StepsTo ==
  [queued |-> 8, ready |-> 7, slot |-> 6, target |-> 5, lock |-> 4, probe |-> 3,
   collect |-> 2, save |-> 1, done |-> 0, none |-> 0]
Left(t) == StepsTo[pc[t]] + (IF pc[t] \in {"done", "none"} THEN 0 ELSE MaxTries - tries[t])

\* No coroutine goes back: within a round each of its steps leaves it fewer, so the round is
\* over after a bounded number of them, whatever devices, caches and transactions do.
StepsRunOut ==
  [][phase # 0 /\ phase' # 0 =>
       \A t \in Targets : <<pc[t], tries[t]>>' # <<pc[t], tries[t]>> => Left(t)' < Left(t)]_vars

\* A round ends, though devices hang, every slot is taken by one that does, coroutines
\* wait for one another's probe and transactions deadlock.
RoundTerminates == phase # 0 ~> phase = 0

\* An address written off is not written off for ever: when its coroutines finish again
\* and again, again and again one of them turns to the device.
At(ip) == {t \in Targets : IpOf[t] = ip}
AddressRetried ==
  \A ip \in Ips :
    []<>(\E t \in At(ip) : pc[t] = "done") => []<>(\E t \in At(ip) : pc[t] \in InSlot)

\* Claimed by the code, and refuted (see README): old and new devices are collected
\* independently and do not interfere with one another's data.
OwnDataKept ==
  [][\A hk \in Hosts \X Collectors :
       latest[hk] # Nobody => latest'[hk] = latest[hk]]_vars
=============================================================================
