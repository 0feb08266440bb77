------------------------------ MODULE MCTables ------------------------------
(***************************************************************************)
(* The tables that requests and jobs write without a common lock, each     *)
(* with its own writers, on small instances.  Their variables are          *)
(* disjoint, so that a behaviour of all of them is a behaviour of each:    *)
(* one part is chosen at the start, and the others stay as they are.       *)
(***************************************************************************)
EXTENDS ClientRecords, MaintenanceTimer, TypedBatches, ThresholdCache, ApiRound,
        DeviceList, Plans, ClientCategories, Indicators, Accounts, Comparisons,
        Locations, ChangeFlags, CaseBoard, Contacts, DevicePings, ClientPages,
        MaintenanceRemoval

CONSTANTS p1, g1, s1, s2
VARIABLE part

tablesVars == <<part, vars, timerVars, batchVars, thresholdVars, apiVars, deviceVars,
                linkVars, planVars, categoryVars, indicatorVars, accountVars, comparisonVars,
                locationVars, flagVars, boardVars, contactVars, pingVars, pageVars,
                removalVars>>

\* Requests, savers and clients of one MAC are alike.
SameSlots == Permutations({s1, s2})

\* Two virtual machines behind one MAC.
MCMacOf == [c \in Clients |-> "mac"]

\* Two targets; the second result says nothing of the second one.
MCItems == {1, 2}
MCResults == {<<"up", "up">>, <<"down", None>>}

\* Two spellings of one interface.
MCNames == {"GE1", "Gi1", "GE2"}
MCCanonOf == [n \in MCNames |-> IF n = "Gi1" THEN "GE1" ELSE n]

MCTypeOf ==
  [i \in Shown |-> CASE i = "fan" -> "get_fan"
                     [] i = "transceiver" -> "get_gbic_details"
                     [] OTHER -> "get_error_count"]

\* A pattern that two packages match; aggregates as they are written, and as they are seen.
MCPackagesWith ==
  [v \in Patterns |-> IF v = "7.1" THEN {"os-7.1", "os-7.1-patch"} ELSE {"os-7.1-patch"}]
MCPlanParts == [version |-> {{}, Patterns}, port_channel |-> {{"Gi1"}, {"GE1", "GE2"}}]
MCPackageLists == {{}, {"os-7.1"}, {"os-7.1-patch"}}
MCPortReports ==
  {{}} \cup {{[name |-> n, up |-> u, members |-> ms, down |-> d]} :
    n \in {"GE1", "Gi1"}, u \in BOOLEAN, ms \in {{"Gi1"}, {"GE1", "GE2"}}, d \in {{}, {"GE2"}}}
MCNeighborLists ==
  {{}} \cup {{[hostname |-> h, neighbor |-> g, local |-> "Gi1", remote |-> r]} :
    h \in Devices, g \in Devices, r \in {"GE2", "Gi1"}}

\* A client is at a port and answers, or it is nowhere and does not.
MCSightings == {[port |-> p1, ping |-> "yes"], [port |-> Nowhere, ping |-> "no"]}

\* An uplink has no aggregate on it; speeds and MAC counts that tell each other apart.
MCCandidates ==
  {c \in [acl : BOOLEAN, channel : BOOLEAN, neighbor : BOOLEAN,
           speed : {NoSpeed, 1, 2}, macs : {1, 2}] :
     /\ ~(c.channel /\ c.neighbor)
     /\ <<c.speed, c.macs>> \in {<<1, 1>>, <<1, 2>>, <<2, 1>>, <<NoSpeed, 1>>}}

\* Cases 1 and 2 have the same MAC.
MCMacRank(c) == (c + 1) \div 2

\* Two rows share an address, the second one's tenant is not served; one is replaced.
MCPingRows ==
  LET at(h, i) == [host |-> h, ip |-> i]
  IN  {[old |-> NoSide, new |-> at("h2", "i1"), tenant |-> "a"],
       [old |-> at("h1", "i1"), new |-> NoSide, tenant |-> "b"],
       [old |-> at("h2", "i2"), new |-> at("h1", "i2"), tenant |-> "a"]}

\* The indicators are two parts: what is collected, and what users ignore; so are the
\* comparisons: what is stored of them, and the checkpoints of long histories.
Parts == {"records", "timer", "batches", "thresholds", "api", "devices", "links", "plans",
          "categories", "collection", "ignore", "accounts", "comparisons", "checkpoints",
          "locations", "flags", "board", "contacts", "pings", "pages", "removal"}

\* Two savers at a time save different results of one key: others meet in the ids of
\* batches only.
BatchesSmall ==
  /\ BatchNext
  /\ \A s, t \in Savers :
       s # t /\ saver'[s] # None /\ saver'[t] # None =>
         saver'[s].key = saver'[t].key /\ saver'[s].items # saver'[t].items

\* Two calls in flight at a time.
TimerSmall == TimerNext /\ Cardinality({a \in Actors : flight'[a] # Idle}) < 3

\* Clients are checked when the MAC is at one port at most.
LocationsSmall ==
  /\ LocationsNext
  /\ Len(candidates') < 2 \/ \A o \in Owners : checked'[o] = "NOT_CHECKED"

\* A write that others may cross has a new device; hostnames are alike.
DevicesSmall ==
  /\ DevicesNext
  /\ pending' # NoWrite => pending'.write.row["new"] = CHOOSE d \in Device : FullSide(d) /\ d # NoDevice

\* A third attempt begins when the tasks of the first one are done.
ApiSmall ==
  /\ ApiNext
  /\ attempt' > 2 => \A h \in Targets : task[1][h] \in {"ok", "fail", "deadlock", "raised"}

\* Root users are alike, but for the default one, which alone logs in.
AccountsSmall == AccountsNext /\ token' \subseteq {DefaultRoot}

StoredOnly ==
  /\ ComparisonsNext /\ tick' < 2
  /\ \A r \in found' : r.seen # NoRecord => r.seen.port # Nowhere /\ r.mac \in Members
CheckpointsOnly ==
  /\ ComparisonsNext /\ saves' = 0
  /\ \A e \in Regenerators : regen'[e].step # "read"

\* Notes are written while the cards are as they were made; only one is assigned anew.
BoardSmall ==
  /\ BoardNext
  /\ \A c \in DOMAIN board' : /\ board'[c].status \in {"ASSIGNED", "RESOLVED"}
                              /\ c # 1 => board'[c].assignee = Admin
  /\ noted' > 0 => \A c \in DOMAIN board' : board'[c] = NewCard

\* A category is on top or below one that is; during an import names change and nothing is
\* added, and no contacts are there before.
ContactsSmall ==
  /\ ContactsNext
  /\ LET onTop == {i \in DOMAIN book' : book'[i].parent = 0}
     IN  \A i \in DOMAIN book' : book'[i].parent \in {0} \cup onTop
  /\ ~importing.reading => \A i \in DOMAIN book \cap DOMAIN book' : book'[i].name = book[i].name
  /\ importing'.reading => entries' = <<>> /\ made' = made
  /\ ~importing.reading /\ ~importing'.reading => made' < 3 /\ Len(entries') < 2

\* While the job waits, one of the rows is edited.
PingsSmall == PingsNext /\ (pinger # Unanswered => mapping'[1] = mapping[1])

\* Clients 2 and 3 share a MAC, 1 and 3 an address; the first one may change its tenant.
\* Members are looked at while nothing is pinged or checked, two at a time, and pings with
\* one category in force.
MCListed == <<[mac |-> 1, ip |-> "i1"], [mac |-> 2, ip |-> "i2"], [mac |-> 2, ip |-> "i1"]>>
PagesSmall ==
  /\ PagesNext
  /\ \A c \in DOMAIN listEntry' :
       /\ [mac |-> listEntry'[c].mac, ip |-> listEntry'[c].ip] = MCListed[c]
       /\ c # 1 => listEntry'[c].tenant = "a"
       /\ joined' # {} => listEntry'[c].status = "not_checked"
  /\ IF joined' # {} THEN Unpinged' ELSE Unpinged' \/ inForce = {g1}
  /\ Cardinality(joined') < 3

\* One kind of data at a time: collected, client categories, the address book or a reference
\* client; headings are made in the order of their ids, and one has contacts.
RemovalSmall ==
  /\ RemovalNext
  /\ filled' \subseteq {"batches", "pings", "checkpoints", "thresholds"}
  /\ setup' = "nameless" => filled' \subseteq {"thresholds"} /\ kinds' = {} /\ shelf' = <<>>
  /\ IF filled' # {} THEN kinds' = {} /\ shelf' = <<>> /\ contacted' = {} /\ reserve' = "none"
     ELSE \/ kinds' = {} /\ reserve' = "none"
          \/ shelf' = <<>> /\ contacted' = {} /\ (kinds' = {} \/ reserve' = "none")
  /\ \A h \in DOMAIN shelf' : shelf'[h] \in {0, IF h = 1 THEN 3 ELSE h - 1}
  /\ DOMAIN shelf' \in {{}, {1}, {1, 2}, {1, 2, 3}} /\ Cardinality(contacted') < 2
  /\ overwritten => shelf' \in {shelf, <<>>} /\ contacted' = contacted

TablesInit ==
  /\ part \in Parts
  /\ Init /\ TimerInit /\ BatchInit /\ ThresholdInit /\ ApiInit /\ DevicesInit
  /\ LinksInit /\ PlansInit /\ CategoriesInit /\ IndicatorsInit /\ AccountsInit
  /\ ComparisonsInit /\ LocationsInit /\ FlagsInit /\ BoardInit /\ ContactsInit
  /\ PingsInit /\ PagesInit /\ RemovalInit
  /\ part # "pages" => inForce = {}

Still(ps, v) == IF part \in ps THEN TRUE ELSE UNCHANGED v

TablesNext ==
  /\ UNCHANGED part
  /\ \/ part = "records" /\ Next
     \/ part = "timer" /\ TimerSmall
     \/ part = "batches" /\ BatchesSmall
     \/ part = "thresholds" /\ ThresholdNext
     \/ part = "api" /\ ApiSmall
     \/ part = "devices" /\ DevicesSmall
     \/ part = "links" /\ LinksNext
     \/ part = "plans" /\ PlansNext
     \/ part = "categories" /\ CategoriesNext
     \/ part = "collection" /\ CollectionNext
     \/ part = "ignore" /\ IgnoreNext
     \/ part = "accounts" /\ AccountsSmall
     \/ part = "comparisons" /\ StoredOnly
     \/ part = "checkpoints" /\ CheckpointsOnly
     \/ part = "locations" /\ LocationsSmall
     \/ part = "flags" /\ FlagsNext
     \/ part = "board" /\ BoardSmall
     \/ part = "contacts" /\ ContactsSmall
     \/ part = "pings" /\ PingsSmall
     \/ part = "pages" /\ PagesSmall
     \/ part = "removal" /\ RemovalSmall
  /\ Still({"records"}, vars) /\ Still({"timer"}, timerVars) /\ Still({"batches"}, batchVars)
  /\ Still({"thresholds"}, thresholdVars) /\ Still({"api"}, apiVars)
  /\ Still({"devices"}, deviceVars) /\ Still({"links"}, linkVars)
  /\ Still({"plans"}, planVars) /\ Still({"categories"}, categoryVars)
  /\ Still({"collection", "ignore"}, indicatorVars)
  /\ Still({"accounts"}, accountVars)
  /\ Still({"comparisons", "checkpoints"}, comparisonVars) /\ Still({"locations"}, locationVars)
  /\ Still({"flags"}, flagVars) /\ Still({"board"}, boardVars) /\ Still({"contacts"}, contactVars)
  /\ Still({"pings"}, pingVars) /\ Still({"pages"}, pageVars)
  /\ Still({"removal"}, removalVars)

TablesSpec == TablesInit /\ [][TablesNext]_tablesVars
=============================================================================
