--------------------------- MODULE SnmpRoundProofs ---------------------------
(***************************************************************************)
(* For any targets, names, addresses, collectors, slots and attempts: a    *)
(* device is probed only while its address is unknown, no address is both  *)
(* known and written off, collected data is never lost, known devices wait *)
(* for no probe, slots are kept to, somebody can always go on, and every   *)
(* step of a coroutine leaves it fewer.                                    *)
(***************************************************************************)
EXTENDS SnmpRound, FiniteSetTheorems, TLAPS

\* One step of Next, split into its actions once for every proof below.
Action ==
  \/ \E S \in SUBSET Targets : RoundStarts(S)
  \/ PhaseTwo \/ RoundEnds \/ Cancelled \/ Restarts
  \/ \E t \in Targets :
       \/ DeviceStarts(t) \/ TakesSlot(t) \/ LooksUpTarget(t) \/ LocksAddress(t)
       \/ ProbeAnswered(t) \/ ProbeSilent(t) \/ ProbeBreaks(t)
       \/ \E o \in [Collectors -> Outcome] : Collected(t, o)
       \/ HardTimeout(t) \/ SaveCommits(t) \/ SaveDeadlocks(t) \/ SaveFails(t)
  \/ \E ip \in Ips : Expires(ip)

LEMMA NextIsAction == Next => Action
BY DEF Next, Action, Device, Probes, Collects, Saves

\* The same outcome for every collector is an outcome of the collectors.
LEMMA AllTyped == \A o \in Outcome : All(o) \in [Collectors -> Outcome]
BY DEF All

\* A step inside the slot keeps the types: a move of the coroutine ...
LEMMA MovesTyped ==
  ASSUME TypeOK, NEW t \in Targets, NEW s \in Step, Moves(t, s)
  PROVE  phase' \in 0..2 /\ pc' \in [Targets -> Step]
         /\ out' \in [Targets -> [Collectors -> Outcome]]
         /\ tries' \in [Targets -> 1..MaxTries]
         /\ latest' \in [Hosts \X Collectors -> Targets \cup {Nobody}]
         /\ failing' \in SUBSET (Hosts \X Collectors)
BY DEF TypeOK, Moves, Go, tables

\* ... and a result.
LEMMA GotTyped ==
  ASSUME TypeOK, NEW t \in Targets, NEW o \in [Collectors -> Outcome], Got(t, o)
  PROVE  phase' \in 0..2 /\ pc' \in [Targets -> Step]
         /\ out' \in [Targets -> [Collectors -> Outcome]]
         /\ tries' \in [Targets -> 1..MaxTries]
         /\ latest' \in [Hosts \X Collectors -> Targets \cup {Nobody}]
         /\ failing' \in SUBSET (Hosts \X Collectors)
BY DEF TypeOK, Got, Go, tables, Step

\* Consulting the caches ends in one of three places, and only a coroutine whose address
\* is in neither cache goes on.
LEMMA ConsultCases ==
  ASSUME NEW t \in Targets, NEW s, Consult(t, s)
  PROVE  \/ Known(t) /\ Moves(t, "collect")
         \/ ~Known(t) /\ Unreachable(t) /\ Got(t, All("unreachable"))
         \/ ~Known(t) /\ ~Unreachable(t) /\ Moves(t, s)
BY DEF Consult

LEMMA InitTyped == Init => TypeOK
<1>1. 1 \in 1..MaxTries
  BY RoundAssumption
<1> QED
  BY <1>1, AllTyped DEF Init, TypeOK, Step, Outcome

LEMMA StoredTyped ==
  ASSUME TypeOK, NEW t \in Targets, NEW hk \in Hosts \X Collectors
  PROVE  Stored(t, hk) \in Targets \cup {Nobody}
BY DEF TypeOK, Stored

LEMMA TypeStep == TypeOK /\ Action => TypeOK'
<1> SUFFICES ASSUME TypeOK, Action PROVE TypeOK'
  OBVIOUS
<1> USE RoundAssumption
<1>0. \A o \in {"ok", "timeout", "unreachable"} : All(o) \in [Collectors -> Outcome]
  BY AllTyped DEF Outcome
<1>t. 1 \in 1..MaxTries
  OBVIOUS
<1>1. ASSUME NEW S \in SUBSET Targets, RoundStarts(S) PROVE TypeOK'
  BY <1>1 DEF RoundStarts, TypeOK, Step, caches, tables
<1>2. CASE PhaseTwo
  BY <1>2 DEF PhaseTwo, TypeOK, Step, caches, tables
<1>3. CASE RoundEnds
  BY <1>3 DEF RoundEnds, TypeOK, Step, caches, tables
<1>4. CASE Cancelled \/ Restarts
  BY <1>4, <1>0, <1>t DEF Cancelled, Restarts, TypeOK, Step, caches, tables
<1>5. ASSUME NEW t \in Targets, DeviceStarts(t) PROVE TypeOK'
  BY <1>5, <1>0, GotTyped, MovesTyped DEF DeviceStarts, TypeOK, caches, Step
<1>6. ASSUME NEW t \in Targets, TakesSlot(t) PROVE TypeOK'
  BY <1>6, MovesTyped DEF TakesSlot, TypeOK, caches, Step, InSlot
<1>7. ASSUME NEW t \in Targets, LooksUpTarget(t) PROVE TypeOK'
  BY <1>7, <1>0, ConsultCases, GotTyped, MovesTyped DEF LooksUpTarget, TypeOK, caches, Step, InSlot
<1>8. ASSUME NEW t \in Targets, LocksAddress(t) PROVE TypeOK'
  BY <1>8, <1>0, ConsultCases, GotTyped, MovesTyped DEF LocksAddress, TypeOK, caches, Step, InSlot
<1>9. ASSUME NEW t \in Targets, ProbeAnswered(t) PROVE TypeOK'
  BY <1>9, MovesTyped DEF ProbeAnswered, TypeOK, Step, InSlot
<1>10. ASSUME NEW t \in Targets, ProbeSilent(t) PROVE TypeOK'
  <2>1. Got(t, All("unreachable")) /\ community' = community /\ negative' = negative \cup {IpOf[t]}
    BY <1>10 DEF ProbeSilent
  <2>2. community' \in SUBSET Ips /\ negative' \in SUBSET Ips
    BY <2>1 DEF TypeOK
  <2> QED BY <1>0, <2>1, <2>2, GotTyped DEF TypeOK
<1>11. ASSUME NEW t \in Targets, ProbeBreaks(t) PROVE TypeOK'
  BY <1>11, MovesTyped DEF ProbeBreaks, TypeOK, caches, Step
<1>12. ASSUME NEW t \in Targets, NEW o \in [Collectors -> Outcome], Collected(t, o) PROVE TypeOK'
  BY <1>12, GotTyped DEF Collected, TypeOK, caches
<1>13. ASSUME NEW t \in Targets, HardTimeout(t) PROVE TypeOK'
  BY <1>13, <1>0, GotTyped DEF HardTimeout, TypeOK, caches
<1>15. ASSUME NEW t \in Targets, SaveCommits(t) PROVE TypeOK'
  <2>1. latest' \in [Hosts \X Collectors -> Targets \cup {Nobody}]
    BY <1>15, StoredTyped DEF SaveCommits
  <2>2. failing' \in SUBSET (Hosts \X Collectors)
    BY <1>15 DEF SaveCommits, Failed, TypeOK
  <2> QED
    BY <1>15, <1>0, <1>t, <2>1, <2>2 DEF SaveCommits, Ends, Go, TypeOK, Step, caches
<1>16. ASSUME NEW t \in Targets, SaveDeadlocks(t) PROVE TypeOK'
  <2>1. tries' \in [Targets -> 1..MaxTries]
    BY <1>16 DEF SaveDeadlocks, TypeOK
  <2> QED
    BY <1>16, <2>1 DEF SaveDeadlocks, TypeOK, caches, tables
<1>17. ASSUME NEW t \in Targets, SaveFails(t) PROVE TypeOK'
  BY <1>17, <1>0, <1>t DEF SaveFails, Ends, Go, TypeOK, Step, caches, tables
<1>18. ASSUME NEW ip \in Ips, Expires(ip) PROVE TypeOK'
  BY <1>18 DEF Expires, TypeOK, tables
<1> QED
  BY <1>1, <1>2, <1>3, <1>4, <1>5, <1>6, <1>7, <1>8, <1>9, <1>10, <1>11, <1>12,
     <1>13, <1>15, <1>16, <1>17, <1>18 DEF Action

\* Type correctness: every variable of a round keeps its type in every reachable state.
THEOREM TypeCorrect == Spec => []TypeOK
<1>1. TypeOK /\ UNCHANGED vars => TypeOK'
  BY DEF TypeOK, vars
<1> QED
  BY InitTyped, TypeStep, NextIsAction, <1>1, PTL DEF Spec

-----------------------------------------------------------------------------
(* Probes. *)

Probing(u) == pc[u] = "probe"

\* A step that starts no probe and fills no cache.
LEMMA QuietProbes ==
  ASSUME ProbeInv, TypeOK', community' \subseteq community, negative' \subseteq negative,
         \A u \in Targets : Probing(u)' => Probing(u)
  PROVE  ProbeInv'
BY DEF ProbeInv, NeverSkipsKnown, ProbeOnlyUnknown, Known, Unreachable, Probing

\* Moving to another step than the probe starts none.
LEMMA MovesQuietly ==
  ASSUME TypeOK, NEW t \in Targets, NEW s, s # "probe", Moves(t, s) \/ Go(t, s)
  PROVE  \A u \in Targets : Probing(u)' => u # t /\ Probing(u)
BY DEF TypeOK, Moves, Go, Probing

LEMMA GotQuietly ==
  ASSUME TypeOK, NEW t \in Targets, NEW o, Got(t, o)
  PROVE  \A u \in Targets : Probing(u)' => u # t /\ Probing(u)
BY MovesQuietly DEF Got

\* The steps that may start a probe or fill a cache.
LEMMA LockProbes ==
  ASSUME ProbeInv, TypeOK', NEW t \in Targets, LocksAddress(t)
  PROVE  ProbeInv'
<1>1. UNCHANGED caches
  BY DEF LocksAddress
<1>2. CASE \A u \in Targets : Probing(u)' => Probing(u)
  BY <1>1, <1>2, QuietProbes DEF caches
<1>3. CASE ~Known(t) /\ ~Unreachable(t) /\ Moves(t, "probe")
  <2>1. \A u \in Targets : u # t => pc'[u] = pc[u]
    BY <1>3 DEF Moves, Go, ProbeInv, TypeOK
  <2>2. \A u \in Targets : IpOf[u] = IpOf[t] => pc[u] # "probe"
    BY DEF LocksAddress, LockFree
  <2> QED
    BY <1>1, <1>3, <2>1, <2>2
    DEF caches, ProbeInv, NeverSkipsKnown, ProbeOnlyUnknown, Known, Unreachable
<1>4. (Known(t) /\ Moves(t, "collect")) \/ Got(t, All("unreachable"))
      => \A u \in Targets : Probing(u)' => Probing(u)
  BY MovesQuietly, GotQuietly DEF ProbeInv
<1> QED
  BY ConsultCases, <1>2, <1>3, <1>4 DEF LocksAddress

LEMMA AnswerProbes ==
  ASSUME ProbeInv, TypeOK', NEW t \in Targets,
         ProbeAnswered(t) \/ ProbeSilent(t)
  PROVE  ProbeInv'
<1>1. pc[t] = "probe" /\ ~Known(t) /\ ~Unreachable(t)
  BY DEF ProbeAnswered, ProbeSilent, ProbeInv, ProbeOnlyUnknown
<1>2. \A u \in Targets : Probing(u)' => u # t /\ Probing(u)
  BY MovesQuietly, GotQuietly DEF ProbeAnswered, ProbeSilent, ProbeInv
<1>3. \A u \in Targets : Probing(u)' => IpOf[u] # IpOf[t]
  BY <1>1, <1>2 DEF ProbeInv, Probing
<1>4. CASE ProbeAnswered(t)
  BY <1>1, <1>2, <1>3, <1>4
  DEF ProbeAnswered, ProbeInv, NeverSkipsKnown, ProbeOnlyUnknown, Known, Unreachable, Probing
<1>5. CASE ProbeSilent(t)
  BY <1>1, <1>2, <1>3, <1>5
  DEF ProbeSilent, ProbeInv, NeverSkipsKnown, ProbeOnlyUnknown, Known, Unreachable, Probing
<1> QED BY <1>4, <1>5

LEMMA ProbeStep == ProbeInv /\ Action => ProbeInv'
<1> SUFFICES ASSUME ProbeInv, Action PROVE ProbeInv'
  OBVIOUS
<1>0. TypeOK /\ TypeOK'
  BY TypeStep DEF ProbeInv
<1>q. ASSUME community' \subseteq community, negative' \subseteq negative,
             \A u \in Targets : Probing(u)' => Probing(u)
      PROVE  ProbeInv'
  BY <1>0, <1>q, QuietProbes
<1>1. ASSUME NEW S \in SUBSET Targets, RoundStarts(S) PROVE ProbeInv'
  BY <1>0, <1>1, <1>q DEF RoundStarts, Probing, caches
<1>2. CASE PhaseTwo
  BY <1>0, <1>2, <1>q DEF PhaseTwo, Probing, caches, TypeOK
<1>3. CASE RoundEnds \/ Cancelled \/ Restarts
  BY <1>0, <1>3, <1>q DEF RoundEnds, Cancelled, Restarts, Probing, caches
<1>4. ASSUME NEW t \in Targets,
             \/ DeviceStarts(t) \/ TakesSlot(t) \/ LooksUpTarget(t) \/ ProbeBreaks(t)
             \/ \E o \in [Collectors -> Outcome] : Collected(t, o)
             \/ HardTimeout(t)
      PROVE  ProbeInv'
  <2>1. UNCHANGED caches
    BY <1>4 DEF DeviceStarts, TakesSlot, LooksUpTarget, ProbeBreaks, Collected, HardTimeout
  <2>2. \/ \E s \in Step \ {"probe"} : Moves(t, s)
        \/ \E o : Got(t, o)
    BY <1>4, ConsultCases
    DEF DeviceStarts, TakesSlot, LooksUpTarget, ProbeBreaks, Collected, HardTimeout, Step, InSlot
  <2> QED
    BY <1>0, <1>q, <2>1, <2>2, MovesQuietly, GotQuietly DEF caches
<1>5. ASSUME NEW t \in Targets, LocksAddress(t) PROVE ProbeInv'
  BY <1>0, <1>5, LockProbes
<1>6. ASSUME NEW t \in Targets, ProbeAnswered(t) \/ ProbeSilent(t) PROVE ProbeInv'
  BY <1>0, <1>6, AnswerProbes
<1>7. ASSUME NEW t \in Targets, SaveCommits(t) \/ SaveFails(t) PROVE ProbeInv'
  BY <1>0, <1>7, <1>q, MovesQuietly DEF SaveCommits, SaveFails, Ends, caches
<1>8. ASSUME NEW t \in Targets, SaveDeadlocks(t) PROVE ProbeInv'
  BY <1>0, <1>8, <1>q DEF SaveDeadlocks, Probing, caches
<1>9. ASSUME NEW ip \in Ips, Expires(ip) PROVE ProbeInv'
  BY <1>0, <1>9, <1>q DEF Expires, Probing
<1> QED
  BY <1>1, <1>2, <1>3, <1>4, <1>5, <1>6, <1>7, <1>8, <1>9 DEF Action

\* The invariant behind the two properties of the caches: one probe per address, of an
\* address in neither cache, and the caches are disjoint.
THEOREM ProbeInvariant == Spec => []ProbeInv
<1>1. Init => ProbeInv
  BY InitTyped DEF Init, ProbeInv, NeverSkipsKnown, ProbeOnlyUnknown
<1>2. ProbeInv /\ UNCHANGED vars => ProbeInv'
  BY DEF ProbeInv, TypeOK, NeverSkipsKnown, ProbeOnlyUnknown, Known, Unreachable, vars
<1> QED
  BY <1>1, <1>2, ProbeStep, NextIsAction, PTL DEF Spec

\* A device is probed only while nothing is known of its address.
THEOREM ProbesOnlyUnknown == Spec => []ProbeOnlyUnknown
BY ProbeInvariant, PTL DEF ProbeInv

\* No address is known and written off at the same time.
THEOREM NeverSkipsKnownAlways == Spec => []NeverSkipsKnown
BY ProbeInvariant, PTL DEF ProbeInv

-----------------------------------------------------------------------------
(* Data. *)

\* Only a commit writes data, and what it writes is a target.
LEMMA KeepsData ==
  ASSUME Action
  PROVE  UNCHANGED latest \/ \E t \in Targets : SaveCommits(t)
BY DEF Action, RoundStarts, PhaseTwo, RoundEnds, Cancelled, Restarts, DeviceStarts, TakesSlot,
       LooksUpTarget, LocksAddress, Consult, ProbeAnswered, ProbeSilent, ProbeBreaks, Collected,
       HardTimeout, SaveDeadlocks, SaveFails, Expires, Moves, Got, tables

\* Collected data is never lost.
THEOREM DataIsKept == Spec => DataKept
<1> DEFINE Kept == \A hk \in Hosts \X Collectors : latest[hk] # Nobody => latest'[hk] # Nobody
<1>1. [Next]_vars => Kept
  <2> SUFFICES ASSUME [Next]_vars, NEW hk \in Hosts \X Collectors, latest[hk] # Nobody
               PROVE  latest'[hk] # Nobody
    OBVIOUS
  <2>1. CASE UNCHANGED latest
    BY <2>1
  <2>2. ASSUME NEW t \in Targets, SaveCommits(t) PROVE latest'[hk] # Nobody
    BY <2>2, RoundAssumption DEF SaveCommits, Stored
  <2> QED
    BY <2>1, <2>2, NextIsAction, KeepsData DEF vars
<1>2. Spec => [][Kept]_vars
  BY <1>1, PTL DEF Spec
<1> QED
  BY <1>2 DEF DataKept

-----------------------------------------------------------------------------
(* The two phases, and where data come from. *)

\* Where one coroutine may stand.
Placed(t) ==
  /\ phase = 0 => pc[t] = "none"
  /\ phase = 1 => pc[t] \notin {"lock", "probe"} /\ (pc[t] \notin {"none", "queued"} => Known(t))
  /\ phase = 2 => pc[t] # "queued"
  /\ pc[t] = "collect" => Known(t)
  /\ pc[t] = "save" /\ (\E k \in Collectors : out[t][k] = "ok") => Known(t)

HostsOwn == \A hk \in Hosts \X Collectors : latest[hk] # Nobody => HostOf[latest[hk]] = hk[1]

LEMMA RoundParts ==
  RoundInv <=> ProbeInv /\ (\A t \in Targets : Placed(t)) /\ HostsOwn /\ SlotsKept
BY DEF RoundInv, Placed, HostsOwn, KnownFirst, DataFromKnown, ProbeInv, TypeOK

LEMMA RoundPartsNext ==
  RoundInv' <=> ProbeInv' /\ (\A t \in Targets : Placed(t)') /\ HostsOwn' /\ SlotsKept'
BY DEF RoundInv, Placed, HostsOwn, KnownFirst, DataFromKnown, ProbeInv, TypeOK

\* The coroutines that do not step stay where they may be.
LEMMA OthersPlaced ==
  ASSUME NEW t \in Targets, NEW u \in Targets, u # t, Placed(u),
         phase' = phase, pc'[u] = pc[u], out'[u] = out[u], community \subseteq community'
  PROVE  Placed(u)'
BY DEF Placed, Known

LEMMA MovesPlaced ==
  ASSUME TypeOK, \A u \in Targets : Placed(u),
         NEW t \in Targets, NEW s \in Step \ {"none", "queued", "save"}, Moves(t, s),
         pc[t] \notin {"none", "queued"}, community \subseteq community',
         s = "collect" => IpOf[t] \in community',
         s \in {"lock", "probe"} => ~Known(t)
  PROVE  \A u \in Targets : Placed(u)'
<1>1. phase' = phase /\ out' = out /\ pc'[t] = s /\ \A u \in Targets \ {t} : pc'[u] = pc[u]
  BY DEF Moves, Go, TypeOK
<1>2. Placed(t)'
  BY <1>1 DEF Placed, Known
<1> QED BY <1>1, <1>2, OthersPlaced

LEMMA GotPlaced ==
  ASSUME TypeOK, \A u \in Targets : Placed(u), NEW t \in Targets, NEW o, Got(t, o),
         pc[t] \notin {"none", "queued"}, community' = community,
         (\E k \in Collectors : o[k] = "ok") => Known(t)
  PROVE  \A u \in Targets : Placed(u)'
<1>1. /\ phase' = phase /\ pc'[t] = "save" /\ out'[t] = o
      /\ \A u \in Targets \ {t} : pc'[u] = pc[u] /\ out'[u] = out[u]
  BY DEF Got, Go, TypeOK
<1>2. Placed(t)'
  BY <1>1 DEF Placed, Known
<1> QED BY <1>1, <1>2, OthersPlaced

\* No outcome that is forced on a coroutine is data.
LEMMA NoData ==
  ASSUME NEW o \in {"timeout", "unreachable"}
  PROVE  ~\E k \in Collectors : All(o)[k] = "ok"
BY DEF All

LEMMA ConsultPlaced ==
  ASSUME TypeOK, \A u \in Targets : Placed(u), NEW t \in Targets, NEW s \in {"lock", "probe"},
         Consult(t, s), pc[t] \notin {"none", "queued"}, community' = community
  PROVE  \A u \in Targets : Placed(u)'
<1>1. CASE Known(t) /\ Moves(t, "collect")
  BY <1>1, MovesPlaced DEF Known, Step, InSlot
<1>2. CASE Got(t, All("unreachable"))
  BY <1>2, GotPlaced, NoData
<1>3. CASE ~Known(t) /\ Moves(t, s)
  BY <1>3, MovesPlaced DEF Step, InSlot
<1> QED BY <1>1, <1>2, <1>3, ConsultCases

LEMMA EndsPlaced ==
  ASSUME TypeOK, \A u \in Targets : Placed(u), NEW t \in Targets, Ends(t), pc[t] = "save"
  PROVE  \A u \in Targets : Placed(u)'
<1>1. /\ phase' = phase /\ pc'[t] = "done" /\ community' = community
      /\ \A u \in Targets \ {t} : pc'[u] = pc[u] /\ out'[u] = out[u]
  BY DEF Ends, Go, TypeOK, caches
<1>2. Placed(t)'
  BY <1>1 DEF Placed, Known
<1> QED BY <1>1, <1>2, OthersPlaced

LEMMA PlacedStep ==
  ASSUME TypeOK, \A u \in Targets : Placed(u), Action
  PROVE  \A u \in Targets : Placed(u)'
<1>1. ASSUME NEW S \in SUBSET Targets, RoundStarts(S) PROVE \A u \in Targets : Placed(u)'
  BY <1>1 DEF RoundStarts, Placed, Known, caches
<1>2. CASE PhaseTwo
  BY <1>2 DEF PhaseTwo, Finished, Placed, Known, caches, TypeOK
<1>3. CASE RoundEnds \/ Cancelled \/ Restarts
  BY <1>3 DEF RoundEnds, Cancelled, Restarts, Placed
<1>4. ASSUME NEW t \in Targets, DeviceStarts(t) PROVE \A u \in Targets : Placed(u)'
  BY <1>4, MovesPlaced, GotPlaced, NoData DEF DeviceStarts, caches, Step
<1>5. ASSUME NEW t \in Targets, TakesSlot(t) PROVE \A u \in Targets : Placed(u)'
  BY <1>5, MovesPlaced DEF TakesSlot, caches, Step, InSlot
<1>6. ASSUME NEW t \in Targets, LooksUpTarget(t) \/ LocksAddress(t)
      PROVE  \A u \in Targets : Placed(u)'
  BY <1>6, ConsultPlaced DEF LooksUpTarget, LocksAddress, caches
<1>7. ASSUME NEW t \in Targets, ProbeAnswered(t) PROVE \A u \in Targets : Placed(u)'
  BY <1>7, MovesPlaced DEF ProbeAnswered, Step, InSlot
<1>8. ASSUME NEW t \in Targets, ProbeSilent(t) PROVE \A u \in Targets : Placed(u)'
  BY <1>8, GotPlaced, NoData DEF ProbeSilent
<1>9. ASSUME NEW t \in Targets, ProbeBreaks(t) PROVE \A u \in Targets : Placed(u)'
  BY <1>9, MovesPlaced DEF ProbeBreaks, caches, Step
<1>10. ASSUME NEW t \in Targets, NEW o \in [Collectors -> Outcome], Collected(t, o)
       PROVE  \A u \in Targets : Placed(u)'
  BY <1>10, GotPlaced DEF Collected, caches, Placed
<1>11. ASSUME NEW t \in Targets, HardTimeout(t) PROVE \A u \in Targets : Placed(u)'
  BY <1>11, GotPlaced, NoData DEF HardTimeout, caches, InSlot
<1>12. ASSUME NEW t \in Targets, SaveCommits(t) \/ SaveFails(t)
       PROVE  \A u \in Targets : Placed(u)'
  BY <1>12, EndsPlaced DEF SaveCommits, SaveFails
<1>13. CASE UNCHANGED <<phase, pc, out, community>>
  BY <1>13 DEF Placed, Known
<1>14. ASSUME NEW t \in Targets, SaveDeadlocks(t) PROVE \A u \in Targets : Placed(u)'
  BY <1>13, <1>14 DEF SaveDeadlocks, caches
<1>15. ASSUME NEW ip \in Ips, Expires(ip) PROVE \A u \in Targets : Placed(u)'
  BY <1>13, <1>15 DEF Expires
<1> QED
  BY <1>1, <1>2, <1>3, <1>4, <1>5, <1>6, <1>7, <1>8, <1>9, <1>10, <1>11, <1>12, <1>14, <1>15
  DEF Action

LEMMA HostsStep ==
  ASSUME TypeOK, HostsOwn, Action
  PROVE  HostsOwn'
<1>1. CASE UNCHANGED latest
  BY <1>1 DEF HostsOwn
<1>2. ASSUME NEW t \in Targets, SaveCommits(t) PROVE HostsOwn'
  BY <1>2 DEF SaveCommits, Stored, HostsOwn
<1> QED BY <1>1, <1>2, KeepsData

-----------------------------------------------------------------------------
(* Slots. *)

LEMMA BusyFinite ==
  IsFiniteSet(Busy) /\ IsFiniteSet(Busy') /\ Cardinality(Busy) \in Nat /\ Cardinality(Busy') \in Nat
<1>1. Busy \in SUBSET Targets /\ Busy' \in SUBSET Targets
  BY DEF Busy
<1>2. IsFiniteSet(Busy) /\ IsFiniteSet(Busy')
  BY <1>1, RoundAssumption, FS_Subset
<1> QED BY <1>2, FS_CardinalityType

LEMMA FewerBusy ==
  ASSUME SlotsKept, \A u \in Targets : pc'[u] \in InSlot => pc[u] \in InSlot
  PROVE  SlotsKept'
<1>1. Busy' \in SUBSET Busy
  BY DEF Busy
<1>2. Cardinality(Busy') <= Cardinality(Busy)
  BY <1>1, BusyFinite, FS_Subset
<1> QED BY <1>2, BusyFinite, RoundAssumption DEF SlotsKept

\* A coroutine that does not enter the slot, where it stands or moves to.
LEMMA StepBusy ==
  ASSUME TypeOK, SlotsKept, NEW t \in Targets, NEW s, Go(t, s),
         s \in InSlot => pc[t] \in InSlot
  PROVE  SlotsKept'
<1>1. \A u \in Targets : pc'[u] \in InSlot => pc[u] \in InSlot
  BY DEF Go, TypeOK
<1> QED BY <1>1, FewerBusy

LEMMA SlotsStep ==
  ASSUME TypeOK, SlotsKept, Action
  PROVE  SlotsKept'
<1>1. ASSUME NEW S \in SUBSET Targets, RoundStarts(S) PROVE SlotsKept'
  BY <1>1, FewerBusy DEF RoundStarts, InSlot
<1>2. CASE PhaseTwo
  BY <1>2, FewerBusy DEF PhaseTwo, InSlot
<1>3. CASE RoundEnds \/ Cancelled \/ Restarts
  BY <1>3, FewerBusy DEF RoundEnds, Cancelled, Restarts, InSlot
<1>4. ASSUME NEW t \in Targets, TakesSlot(t) PROVE SlotsKept'
  <2>1. Busy' = Busy \cup {t}
    BY <1>4 DEF TakesSlot, Moves, Go, Busy, InSlot, TypeOK
  <2>2. Cardinality(Busy') <= Cardinality(Busy) + 1
    BY <2>1, BusyFinite, FS_AddElement
  <2> QED BY <1>4, <2>2, BusyFinite, RoundAssumption DEF TakesSlot, SlotsKept
<1>5. ASSUME NEW t \in Targets, DeviceStarts(t) PROVE SlotsKept'
  BY <1>5, StepBusy DEF DeviceStarts, Got, Moves, InSlot
<1>6. ASSUME NEW t \in Targets, LooksUpTarget(t) \/ LocksAddress(t) PROVE SlotsKept'
  <2>1. pc[t] \in InSlot
    BY <1>6 DEF LooksUpTarget, LocksAddress, InSlot
  <2>2. \E s : Go(t, s)
    BY <1>6, ConsultCases DEF LooksUpTarget, LocksAddress, Got, Moves
  <2> QED BY <2>1, <2>2, StepBusy
<1>7. ASSUME NEW t \in Targets,
             \/ ProbeAnswered(t) \/ ProbeSilent(t) \/ ProbeBreaks(t)
             \/ \E o \in [Collectors -> Outcome] : Collected(t, o)
             \/ HardTimeout(t)
      PROVE  SlotsKept'
  <2>1. pc[t] \in InSlot /\ \E s : Go(t, s)
    BY <1>7 DEF ProbeAnswered, ProbeSilent, ProbeBreaks, Collected, HardTimeout, Got, Moves, InSlot
  <2> QED BY <2>1, StepBusy
<1>8. ASSUME NEW t \in Targets, SaveCommits(t) \/ SaveFails(t) PROVE SlotsKept'
  BY <1>8, StepBusy DEF SaveCommits, SaveFails, Ends, InSlot
<1>9. ASSUME NEW t \in Targets, SaveDeadlocks(t) PROVE SlotsKept'
  BY <1>9, FewerBusy DEF SaveDeadlocks
<1>10. ASSUME NEW ip \in Ips, Expires(ip) PROVE SlotsKept'
  BY <1>10, FewerBusy DEF Expires
<1> QED BY <1>1, <1>2, <1>3, <1>4, <1>5, <1>6, <1>7, <1>8, <1>9, <1>10 DEF Action

\* The inductive invariant of a round (run_round, _collect_device, get_target): who runs
\* beside the first phase is known and stays so, only known devices are collected, data
\* are stored under their own host, and no more slots are taken than there are.
THEOREM RoundInvariant == Spec => []RoundInv
<1>1. Init => RoundInv
  <2> SUFFICES ASSUME Init PROVE RoundInv
    OBVIOUS
  <2>1. (\A t \in Targets : Placed(t)) /\ HostsOwn
    BY DEF Init, Placed, HostsOwn, All
  <2>2. Busy = {}
    BY DEF Init, Busy, InSlot
  <2>3. SlotsKept
    BY <2>2, FS_EmptySet, RoundAssumption DEF SlotsKept
  <2>4. ProbeInv
    BY InitTyped DEF Init, ProbeInv, NeverSkipsKnown, ProbeOnlyUnknown
  <2> QED BY <2>1, <2>3, <2>4, RoundParts
<1>2. RoundInv /\ Action => RoundInv'
  <2> SUFFICES ASSUME RoundInv, Action PROVE RoundInv'
    OBVIOUS
  <2>1. ProbeInv /\ (\A t \in Targets : Placed(t)) /\ HostsOwn /\ SlotsKept /\ TypeOK
    BY RoundParts DEF ProbeInv
  <2>2. ProbeInv' /\ (\A t \in Targets : Placed(t)') /\ HostsOwn' /\ SlotsKept'
    BY <2>1, ProbeStep, PlacedStep, HostsStep, SlotsStep
  <2> QED BY <2>2, RoundPartsNext
<1>3. RoundInv /\ UNCHANGED vars => RoundInv'
  BY DEF RoundInv, ProbeInv, TypeOK, NeverSkipsKnown, ProbeOnlyUnknown, KnownFirst, DataFromKnown,
         SlotsKept, Busy, Known, Unreachable, vars
<1> QED BY <1>1, <1>2, <1>3, NextIsAction, PTL DEF Spec

\* While known devices are collected nobody probes or waits for a probe, whatever a phase
\* learns and however its coroutines end (run_round's two phases).
THEOREM KnownFirstAlways == Spec => []KnownFirst
<1>1. RoundInv => KnownFirst
  BY DEF RoundInv
<1> QED BY <1>1, RoundInvariant, PTL

\* Somebody can always go on: who waits for a slot waits for one with a hard timeout.
THEOREM NeverStuckAlways == Spec => []NeverStuck
<1>1. TypeOK => NeverStuck
  <2> SUFFICES ASSUME TypeOK, phase # 0, ~Finished,
                      \A t \in Targets : pc[t] \notin InSlot \cup {"ready", "save"}
               PROVE  \E t \in Targets : pc[t] = "slot" /\ Cardinality(Busy) < Slots
    BY DEF NeverStuck
  <2>1. PICK t \in Targets : pc[t] \notin {"none", "queued", "done"}
    BY DEF Finished
  <2>2. pc[t] = "slot"
    BY <2>1 DEF TypeOK, Step
  <2>3. Busy = {}
    BY DEF Busy
  <2>4. Cardinality(Busy) < Slots
    BY <2>3, FS_EmptySet, RoundAssumption
  <2> QED BY <2>2, <2>4
<1> QED BY <1>1, TypeCorrect, PTL

-----------------------------------------------------------------------------
(* The steps that are left. *)

LEMMA StepsToValues ==
  /\ StepsTo["queued"] = 8 /\ StepsTo["ready"] = 7 /\ StepsTo["slot"] = 6
  /\ StepsTo["target"] = 5 /\ StepsTo["lock"] = 4 /\ StepsTo["probe"] = 3
  /\ StepsTo["collect"] = 2 /\ StepsTo["save"] = 1 /\ StepsTo["done"] = 0 /\ StepsTo["none"] = 0
BY DEF StepsTo

\* A coroutine that moves on to a later step has fewer left.
LEMMA MovesOn ==
  ASSUME TypeOK, NEW t \in Targets, NEW s \in Step, pc[t] \notin {"done", "none"},
         StepsTo[s] < StepsTo[pc[t]], Go(t, s), tries'[t] = tries[t] \/ s = "done"
  PROVE  Left(t)' < Left(t)
<1>1. pc'[t] = s /\ tries[t] \in 1..MaxTries /\ pc[t] \in Step
  BY DEF Go, TypeOK
<1>2. Left(t) = StepsTo[pc[t]] + (MaxTries - tries[t])
  BY DEF Left
<1>3. Left(t)' = StepsTo[s] + (IF s \in {"done", "none"} THEN 0 ELSE MaxTries - tries'[t])
  BY <1>1 DEF Left
<1>4. StepsTo[s] \in Nat /\ StepsTo[pc[t]] \in Nat
  BY <1>1, StepsToValues DEF Step, InSlot
<1> HIDE DEF Left
<1>5. CASE s \in {"done", "none"}
  BY <1>1, <1>2, <1>3, <1>4, <1>5, RoundAssumption
<1>6. CASE s \notin {"done", "none"}
  BY <1>1, <1>2, <1>3, <1>4, <1>6, RoundAssumption
<1> QED BY <1>5, <1>6

OnlyOf(t) == \A u \in Targets \ {t} : pc'[u] = pc[u] /\ tries'[u] = tries[u]

\* Each step of a coroutine: it moves on, or tries once more to save.
LEMMA DeviceMovesOn ==
  ASSUME TypeOK, NEW t \in Targets,
         \/ DeviceStarts(t) \/ TakesSlot(t) \/ LooksUpTarget(t) \/ LocksAddress(t)
         \/ ProbeAnswered(t) \/ ProbeSilent(t) \/ ProbeBreaks(t)
         \/ \E o \in [Collectors -> Outcome] : Collected(t, o)
         \/ HardTimeout(t) \/ SaveCommits(t) \/ SaveDeadlocks(t) \/ SaveFails(t)
  PROVE  Left(t)' < Left(t) /\ OnlyOf(t)
<1> DEFINE On(s) == Go(t, s) /\ tries' = tries /\ StepsTo[s] < StepsTo[pc[t]]
<1>0. ASSUME NEW s \in Step, On(s), pc[t] \notin {"done", "none"}
      PROVE  Left(t)' < Left(t) /\ OnlyOf(t)
  <2>1. Left(t)' < Left(t)
    BY <1>0, MovesOn
  <2> QED BY <1>0, <2>1 DEF Go, OnlyOf, TypeOK
<1>g. ASSUME NEW o, Got(t, o) PROVE Go(t, "save") /\ tries' = tries
  BY <1>g DEF Got
<1>m. ASSUME NEW s, Moves(t, s) PROVE Go(t, s) /\ tries' = tries
  BY <1>m DEF Moves
<1>1. CASE DeviceStarts(t)
  <2>1. pc[t] = "ready" /\ (On("save") \/ On("slot"))
    BY <1>1, <1>g, <1>m, StepsToValues DEF DeviceStarts
  <2> QED BY <1>0, <2>1 DEF Step
<1>2. CASE TakesSlot(t)
  <2>1. pc[t] = "slot" /\ On("target")
    BY <1>2, <1>m, StepsToValues DEF TakesSlot
  <2> QED BY <1>0, <2>1 DEF Step, InSlot
<1>3. CASE LooksUpTarget(t)
  <2>1. pc[t] = "target" /\ (On("save") \/ On("collect") \/ On("lock"))
    BY <1>3, <1>g, <1>m, ConsultCases, StepsToValues DEF LooksUpTarget
  <2> QED BY <1>0, <2>1 DEF Step, InSlot
<1>4. CASE LocksAddress(t)
  <2>1. pc[t] = "lock" /\ (On("save") \/ On("collect") \/ On("probe"))
    BY <1>4, <1>g, <1>m, ConsultCases, StepsToValues DEF LocksAddress
  <2> QED BY <1>0, <2>1 DEF Step, InSlot
<1>5. CASE ProbeAnswered(t) \/ ProbeSilent(t) \/ ProbeBreaks(t)
  <2>1. pc[t] = "probe" /\ (On("collect") \/ On("save") \/ On("done"))
    BY <1>5, <1>g, <1>m, StepsToValues DEF ProbeAnswered, ProbeSilent, ProbeBreaks
  <2> QED BY <1>0, <2>1 DEF Step, InSlot
<1>6. CASE \E o \in [Collectors -> Outcome] : Collected(t, o)
  <2>1. pc[t] = "collect" /\ On("save")
    BY <1>6, <1>g, StepsToValues DEF Collected
  <2> QED BY <1>0, <2>1 DEF Step
<1>7. CASE HardTimeout(t)
  <2>1. pc[t] \in InSlot /\ Go(t, "save") /\ tries' = tries
    BY <1>7, <1>g DEF HardTimeout
  <2>2. On("save") /\ pc[t] \notin {"done", "none"}
    BY <2>1, StepsToValues DEF InSlot
  <2> QED BY <1>0, <2>2 DEF Step
<1>8. CASE SaveCommits(t) \/ SaveFails(t)
  <2>1. pc[t] = "save" /\ Ends(t)
    BY <1>8 DEF SaveCommits, SaveFails
  <2>2. Go(t, "done") /\ tries' = [tries EXCEPT ![t] = 1]
    BY <2>1 DEF Ends
  <2>3. "done" \in Step /\ StepsTo["done"] < StepsTo[pc[t]]
    BY <2>1, StepsToValues DEF Step
  <2>4. Left(t)' < Left(t)
    BY <2>1, <2>2, <2>3, MovesOn
  <2>5. OnlyOf(t)
    BY <2>2 DEF Go, OnlyOf, TypeOK
  <2> QED BY <2>4, <2>5
<1>9. CASE SaveDeadlocks(t)
  <2>1. /\ pc[t] = "save" /\ pc' = pc /\ tries[t] \in 1..MaxTries
        /\ tries'[t] = tries[t] + 1 /\ \A u \in Targets \ {t} : tries'[u] = tries[u]
    BY <1>9 DEF SaveDeadlocks, TypeOK
  <2>2. Left(t) = StepsTo["save"] + (MaxTries - tries[t])
        /\ Left(t)' = StepsTo["save"] + (MaxTries - (tries[t] + 1))
    BY <2>1 DEF Left
  <2>3. OnlyOf(t)
    BY <2>1 DEF OnlyOf
  <2>4. StepsTo["save"] = 1 /\ tries[t] \in Nat /\ MaxTries \in Nat
    BY <2>1, StepsToValues, RoundAssumption
  <2> HIDE DEF Left
  <2>5. Left(t)' < Left(t)
    BY <2>2, <2>4
  <2> QED BY <2>3, <2>5
<1> QED BY <1>1, <1>2, <1>3, <1>4, <1>5, <1>6, <1>7, <1>8, <1>9

\* Within a round each step of a coroutine leaves it fewer (_collect_device): a round has no
\* more steps than targets times a constant and the attempts to save.
THEOREM StepsRunOutAlways == Spec => StepsRunOut
<1> DEFINE Fewer == phase # 0 /\ phase' # 0 =>
                      \A t \in Targets : <<pc[t], tries[t]>>' # <<pc[t], tries[t]>> => Left(t)' < Left(t)
<1>1. TypeOK /\ [Next]_vars => Fewer
  <2> SUFFICES ASSUME TypeOK, [Next]_vars, phase # 0, phase' # 0, NEW t \in Targets,
                      pc'[t] # pc[t] \/ tries'[t] # tries[t]
               PROVE  Left(t)' < Left(t)
    OBVIOUS
  <2>1. CASE Action
    <3>1. ASSUME NEW u \in Targets,
                 \/ DeviceStarts(u) \/ TakesSlot(u) \/ LooksUpTarget(u) \/ LocksAddress(u)
                 \/ ProbeAnswered(u) \/ ProbeSilent(u) \/ ProbeBreaks(u)
                 \/ \E o \in [Collectors -> Outcome] : Collected(u, o)
                 \/ HardTimeout(u) \/ SaveCommits(u) \/ SaveDeadlocks(u) \/ SaveFails(u)
          PROVE  Left(t)' < Left(t)
      <4>1. Left(u)' < Left(u) /\ OnlyOf(u)
        BY <3>1, DeviceMovesOn
      <4>2. t = u
        BY <4>1 DEF OnlyOf
      <4> QED BY <4>1, <4>2
    <3>2. CASE PhaseTwo
      <4>1. pc[t] = "queued" /\ pc'[t] = "ready" /\ tries'[t] = tries[t] /\ tries[t] \in 1..MaxTries
        BY <3>2 DEF PhaseTwo, TypeOK
      <4> QED BY <4>1, StepsToValues, RoundAssumption DEF Left
    <3>3. CASE (\E S \in SUBSET Targets : RoundStarts(S)) \/ RoundEnds \/ Cancelled \/ Restarts
      BY <3>3 DEF RoundStarts, RoundEnds, Cancelled, Restarts
    <3>4. CASE \E ip \in Ips : Expires(ip)
      BY <3>4 DEF Expires
    <3> QED BY <2>1, <3>1, <3>2, <3>3, <3>4 DEF Action
  <2>2. CASE UNCHANGED vars
    BY <2>2 DEF vars
  <2> QED BY <2>1, <2>2, NextIsAction
<1>2. Spec => [][Fewer]_vars
  BY <1>1, TypeCorrect, PTL DEF Spec
<1> QED BY <1>2 DEF StepsRunOut
=============================================================================
