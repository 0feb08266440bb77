-------------------------------- MODULE Plans --------------------------------
(***************************************************************************)
(* What a maintenance expects of versions and port channels, and how the   *)
(* indicators judge it.  Both tables work alike: a row has a key (a device *)
(* and, for a port channel, its name) and parts (substrings of package     *)
(* names, or member interfaces).  Names of interfaces are normalised when  *)
(* a row is written, and again, like those devices report, when it is      *)
(* judged.  The uplinks of Expectations are judged here too.               *)
(*                                                                         *)
(* A request checks and commits at once: the key of the table holds when   *)
(* two cross, and an update that finds its row gone fails.                 *)
(***************************************************************************)
EXTENDS Expectations, FiniteSets, Sequences

CONSTANTS
  Patterns,     \* substrings of package names
  PackagesWith, \* the packages each of them is a part of
  PlanParts,    \* sets of parts that users ask for, of each kind
  MaxPlans,     \* bound on the rows of both tables
  NoPlan,       \* a free row
  PortReports,  \* what a device may report of its port channels
  PackageLists, \* and of its packages
  NeighborLists \* and what neighbours all devices may report

PlanIds == 1..MaxPlans

ASSUME PlanAssumption ==
  /\ MaxPlans \in Nat
  /\ DOMAIN PackagesWith = Patterns
  /\ PlanParts.version \subseteq SUBSET Patterns /\ PlanParts.port_channel \subseteq SUBSET Names
  \* A device reports a port channel once, in one spelling.
  /\ \A report \in PortReports :
       /\ \A r \in report : r.name \in Names /\ r.members \subseteq Names
       /\ \A r, t \in report : CanonOf[r.name] = CanonOf[t.name] => r = t

VARIABLES
  plans,  \* version_expectations and port_channel_expectations
  asked   \* history: the same rows, as users spelled them

planVars == <<plans, asked>>

\* The key of a version expectation is its device: the name is not used.
PlanOf(kind) ==
  [kind : {kind}, host : Devices, parts : PlanParts[kind],
   name : IF kind = "version" THEN {NoName} ELSE Names]
Plan == PlanOf("version") \cup PlanOf("port_channel")

Normalized(p) ==
  IF p.kind = "version" THEN p
  ELSE [p EXCEPT !.name = CanonOf[p.name], !.parts = {CanonOf[m] : m \in p.parts}]

PlansTypeOK ==
  /\ asked \in [PlanIds -> Plan \cup {NoPlan}]
  /\ \A i \in PlanIds : plans[i] # NoPlan => plans[i].name \in Names \cup {NoName}

PlansInit ==
  /\ plans = [i \in PlanIds |-> NoPlan]
  /\ asked = [i \in PlanIds |-> NoPlan]

Planned == {i \in PlanIds : plans[i] # NoPlan}
PlanKey(p) == <<p.kind, p.host, p.name>>
HoldersOf(p) == {i \in Planned : PlanKey(plans[i]) = PlanKey(Normalized(p))}

-----------------------------------------------------------------------------
(* Requests. *)

Puts(i, p) ==
  /\ plans' = [plans EXCEPT ![i] = Normalized(p)]
  /\ asked' = [asked EXCEPT ![i] = p]

FreePlan(i) == i \notin Planned /\ \A j \in PlanIds \ Planned : i <= j

\* The key is not in use.
PlanCreated(kind, i) == FreePlan(i) /\ \E p \in PlanOf(kind) : HoldersOf(p) = {} /\ Puts(i, p)
CreateVersion(i) == PlanCreated("version", i)
CreatePortChannel(i) == PlanCreated("port_channel", i)

\* The columns that are not sent stay as they are: p is the whole row.
Edits(kind, i) ==
  /\ i \in Planned /\ plans[i].kind = kind
  /\ \E p \in PlanOf(kind) : HoldersOf(p) \subseteq {i} /\ Puts(i, p)
UpdateVersion(i) == Edits("version", i)
UpdatePortChannel(i) == Edits("port_channel", i)

\* A line of a file: the row of its key is overwritten, or one is added.  A later line does
\* not find a row that an earlier one adds, and the key then fails the whole file.
PlansLand(p, i) == IF HoldersOf(p) = {} THEN i \notin Planned ELSE i \in HoldersOf(p)

ImportPlans(file) ==
  /\ \A k, l \in DOMAIN file :
       k # l /\ HoldersOf(file[k]) = {} =>
         PlanKey(Normalized(file[k])) # PlanKey(Normalized(file[l]))
  /\ \E row \in [DOMAIN file -> PlanIds] :
       /\ \A k \in DOMAIN file : PlansLand(file[k], row[k])
       /\ \A k, l \in DOMAIN file :
            row[k] = row[l] => PlanKey(Normalized(file[k])) = PlanKey(Normalized(file[l]))
       /\ LET last(i) == CHOOSE k \in DOMAIN file :
                           row[k] = i /\ \A l \in DOMAIN file : row[l] = i => l <= k
              used == {row[k] : k \in DOMAIN file} IN
          /\ plans' = [i \in PlanIds |-> IF i \in used THEN Normalized(file[last(i)]) ELSE plans[i]]
          /\ asked' = [i \in PlanIds |-> IF i \in used THEN file[last(i)] ELSE asked[i]]

\* Files of one and of two lines.
FilesOf(kind) == {<<p>> : p \in PlanOf(kind)} \cup (PlanOf(kind) \X PlanOf(kind))
ImportVersions == \E file \in FilesOf("version") : ImportPlans(file)
ImportPortChannels == \E file \in FilesOf("port_channel") : ImportPlans(file)

\* One, or a batch.
DeletesPlans(kind) ==
  \E ids \in SUBSET {i \in Planned : plans[i].kind = kind} \ {{}} :
    /\ plans' = [i \in PlanIds |-> IF i \in ids THEN NoPlan ELSE plans[i]]
    /\ asked' = [i \in PlanIds |-> IF i \in ids THEN NoPlan ELSE asked[i]]
DeleteVersions == DeletesPlans("version")
DeletePortChannels == DeletesPlans("port_channel")

PlansNext ==
  \/ \E i \in PlanIds : \/ CreateVersion(i) \/ CreatePortChannel(i)
                        \/ UpdateVersion(i) \/ UpdatePortChannel(i)
  \/ ImportVersions \/ ImportPortChannels
  \/ DeleteVersions \/ DeletePortChannels

PlansSpec == PlansInit /\ [][PlansNext]_planVars

-----------------------------------------------------------------------------
(* The indicators. *)

\* A device that reported no package fails; a plan without parts asks for any package.
VersionPasses(p, packages) ==
  packages # {} /\ \A v \in p.parts : PackagesWith[v] \cap packages # {}

\* Mutant: no fallback to the normalised name.
FindsExactly(name, report) == {r \in report : r.name = name}
\* By its name as it is, or else by its normalised name.
Finds(name, report) ==
  LET exactly == {r \in report : r.name = name} IN
  IF exactly # {} THEN exactly ELSE {r \in report : CanonOf[r.name] = CanonOf[name]}

\* Members beside those expected are not noticed, unless they are down.
PortPasses(p, report) ==
  \E r \in Finds(p.name, report) :
    /\ r.up /\ r.down = {}
    /\ {CanonOf[m] : m \in p.parts} \subseteq {CanonOf[m] : m \in r.members}

\* Either device may have seen the other: the first at these interfaces.
LinkPasses(l, seen) ==
  \E s \in seen :
    \/ /\ s.hostname = l.hostname /\ s.neighbor = l.neighbor
       /\ CanonOf[s.local] = l.local /\ CanonOf[s.remote] = l.remote
    \/ s.hostname = l.neighbor /\ s.neighbor = l.hostname

-----------------------------------------------------------------------------
(* Properties. *)

Spelled(names) == {CanonOf[n] : n \in names}
Answers(p, r) == CanonOf[r.name] = CanonOf[p.name] /\ r.up /\ r.down = {}
SeesIt(l, s) == s.hostname = l.hostname /\ s.neighbor = l.neighbor
SeenBack(l, s) == s.hostname = l.neighbor /\ s.neighbor = l.hostname
AtItsEnds(l, s) == CanonOf[s.local] = Canon(l.local) /\ CanonOf[s.remote] = Canon(l.remote)

\* Whatever was created, updated column by column, imported or deleted before, the latest
\* request for a key is what is judged, once, in any spelling.  A port channel that is up
\* with exactly the members that were asked for passes, and what passes is up, has none down
\* and has these members; a version passes if each substring is in some package; a checked
\* uplink passes if its device sees the neighbour at these interfaces or the neighbour sees
\* its device, and never if neither sees the other.  Between these bounds docstrings and code
\* differ, and this holds of both: a docstring has members match completely, the code takes
\* more; another has it suffice that the device sees the neighbour, the code asks for the
\* interfaces, too (PortChannelIndicator, VersionIndicator, UplinkIndicator; see README).
JudgedAsAsked ==
  /\ \A i \in Planned :
       /\ \A j \in Planned \ {i} : PlanKey(plans[i]) # PlanKey(plans[j])
       /\ plans[i].kind = "port_channel" =>
            \A report \in PortReports :
              /\ (\E r \in report : /\ Answers(asked[i], r)
                                   /\ Spelled(r.members) = Spelled(asked[i].parts))
                   => PortPasses(plans[i], report)
              /\ PortPasses(plans[i], report)
                   => \E r \in report : /\ Answers(asked[i], r)
                                       /\ Spelled(asked[i].parts) \subseteq Spelled(r.members)
       /\ plans[i].kind = "version" =>
            \A packages \in PackageLists :
              VersionPasses(plans[i], packages) <=>
                packages # {} /\ \A v \in asked[i].parts : \E k \in packages : k \in PackagesWith[v]
  /\ \A i \in Expected \ loose, seen \in NeighborLists :
       /\ (\E s \in seen : (SeesIt(links[i], s) /\ AtItsEnds(links[i], s)) \/ SeenBack(links[i], s))
            => LinkPasses(links[i], seen)
       /\ LinkPasses(links[i], seen) => \E s \in seen : SeesIt(links[i], s) \/ SeenBack(links[i], s)
=============================================================================
