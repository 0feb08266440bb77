----------------------------- MODULE DevicePings -----------------------------
(***************************************************************************)
(* The device ping job of one maintenance.  It reads the device list, asks *)
(* the ping service of each tenant for the addresses of both sides, stores *)
(* a record for every hostname of an address that was answered, and writes *)
(* the answer into the rows it read; all of it is one transaction.  Users  *)
(* edit the list while it waits for the service.  The ping indicator, the  *)
(* reachability endpoint and the statistics read the records, the list     *)
(* shows the columns of its rows.                                          *)
(*                                                                         *)
(* DeviceList models how rows are validated; here a hostname or an address *)
(* is on one row of a side.  A record that says what the last one said is  *)
(* not stored again (TypedBatches), which nobody here can tell.            *)
(***************************************************************************)
EXTENDS Naturals, FiniteSets

CONSTANTS
  PingRows,   \* rows users enter: [old, new : [host, ip] or NoSide, tenant]
  Served,     \* tenants whose ping service is configured
  MaxListed,  \* bound on the rows of the list
  NoSide,     \* no hostname and no address
  Unanswered  \* no answer, no record, NULL; no row, no job

ASSUME PingAssumption ==
  MaxListed \in Nat /\ Unanswered \notin BOOLEAN /\ Unanswered \notin PingRows

ListIds == 1..MaxListed
BothSides == {"old", "new"}
PingAnswer == BOOLEAN \cup {Unanswered}
NeverPinged == [s \in BothSides |-> Unanswered]

SidesOf(r) == {s \in BothSides : r[s] # NoSide}
HostsIn(r) == {r[s].host : s \in SidesOf(r)}
PingHosts == UNION {HostsIn(r) : r \in PingRows}
PingIps == UNION {{r[s].ip : s \in SidesOf(r)} : r \in PingRows}

VARIABLES
  mapping,   \* maintenance_device_list: its rows
  shownUp,   \* and their old_is_reachable and new_is_reachable
  pingOf,    \* the record of each hostname that its current ping_batch batch has
  pinger,    \* the job: the rows it read, the tenants to come, what it is about to commit
  settled    \* history: rows whose new side was pinged as it is, with a hostname of its own

pingVars == <<mapping, shownUp, pingOf, pinger, settled>>

PingsTypeOK ==
  /\ mapping \in [ListIds -> PingRows \cup {Unanswered}]
  /\ shownUp \in [ListIds -> [BothSides -> PingAnswer]]
  /\ pingOf \in [PingHosts -> PingAnswer]
  /\ pinger = Unanswered \/
       /\ pinger.read \in [ListIds -> PingRows \cup {Unanswered}]
       /\ pinger.left \subseteq Served
       /\ pinger.records \in [PingHosts -> PingAnswer]
       /\ pinger.marks \in [ListIds -> [BothSides -> PingAnswer]]
  /\ settled \subseteq ListIds

PingsInit ==
  /\ mapping = [i \in ListIds |-> Unanswered]
  /\ shownUp = [i \in ListIds |-> NeverPinged]
  /\ pingOf = [h \in PingHosts |-> Unanswered]
  /\ pinger = Unanswered /\ settled = {}

ListedRows(list) == {i \in ListIds : list[i] # Unanswered}
HoldsAlone(i, list) ==
  /\ list[i]["new"] # NoSide
  /\ \A j \in ListedRows(list) : \A s \in SidesOf(list[j]) :
       <<j, s>> # <<i, "new">> => list[j][s].host # list[i]["new"].host

-----------------------------------------------------------------------------
(* Users. *)

\* What the open transaction has written is locked until it ends.
MarkWaits(i) == pinger # Unanswered /\ pinger.marks[i] # NeverPinged
RecordWaits(r) == pinger # Unanswered /\ \E h \in HostsIn(r) : pinger.records[h] # Unanswered

MayBeRow(i, r) ==
  \A j \in ListedRows(mapping) \ {i} : \A s \in SidesOf(r) \cap SidesOf(mapping[j]) :
    mapping[j][s].host # r[s].host /\ mapping[j][s].ip # r[s].ip

\* History: who has a hostname that comes or goes is to be pinged again.
Unsettles(i, rs) ==
  settled' = {j \in settled \ {i} : mapping[j]["new"].host \notin UNION {HostsIn(r) : r \in rs}}

\* Ids are not used again while the job remembers them.
EntersRow(i, r) ==
  /\ i \notin ListedRows(mapping) /\ MayBeRow(i, r)
  /\ pinger # Unanswered => i \notin ListedRows(pinger.read)
  /\ mapping' = [mapping EXCEPT ![i] = r]
  /\ Unsettles(i, {r})
  /\ UNCHANGED <<shownUp, pingOf, pinger>>

\* The columns of the ping stay as they are.
ChangesRow(i, r) ==
  /\ i \in ListedRows(mapping) /\ MayBeRow(i, r) /\ ~MarkWaits(i)
  /\ mapping' = [mapping EXCEPT ![i] = r]
  /\ Unsettles(i, {r, mapping[i]})
  /\ UNCHANGED <<shownUp, pingOf, pinger>>

\* The pointers of both hostnames go too.
RemovesRow(i) ==
  /\ i \in ListedRows(mapping) /\ ~MarkWaits(i) /\ ~RecordWaits(mapping[i])
  /\ mapping' = [mapping EXCEPT ![i] = Unanswered]
  /\ shownUp' = [shownUp EXCEPT ![i] = NeverPinged]
  /\ pingOf' = [h \in PingHosts |-> IF h \in HostsIn(mapping[i]) THEN Unanswered ELSE pingOf[h]]
  /\ Unsettles(i, {mapping[i]})
  /\ UNCHANGED pinger

-----------------------------------------------------------------------------
(* The job. *)

PingsStart ==
  /\ pinger = Unanswered /\ ListedRows(mapping) # {}
  /\ pinger' = [read |-> mapping,
                left |-> {mapping[i].tenant : i \in ListedRows(mapping)} \cap Served,
                records |-> [h \in PingHosts |-> Unanswered],
                marks |-> [i \in ListIds |-> NeverPinged]]
  /\ UNCHANGED <<mapping, shownUp, pingOf, settled>>

EndsIn(list) == UNION {{i} \X SidesOf(list[i]) : i \in ListedRows(list)}
IpAt(e) == pinger.read[e[1]][e[2]].ip
HostAt(e) == pinger.read[e[1]][e[2]].host

\* _parse_ping_response: an address that is not in the reply, or whose chunk failed, has no
\* answer; one without a verdict counts as not alive.
Replies(tenant) ==
  LET asked == {IpAt(e) : e \in {f \in EndsIn(pinger.read) : pinger.read[f[1]].tenant = tenant}}
  IN  {reply \in [PingIps -> PingAnswer] : \A a \in PingIps \ asked : reply[a] = Unanswered}

\* Mutant: an address stands for the hostname that was seen first with it.
FirstOf(answered) ==
  {e \in answered : \A f \in answered : IpAt(f) = IpAt(e) => e[1] <= f[1]}
\* The ends whose hostnames get a record: those of all tenants that have the address.
HoldersOfIp(answered) == answered

\* A hostname with two addresses keeps the answer that is first in the reply.
PingsAnswered(tenant) ==
  /\ pinger # Unanswered /\ tenant \in pinger.left
  /\ \E reply \in Replies(tenant) :
       LET answered == {e \in EndsIn(pinger.read) : reply[IpAt(e)] # Unanswered}
           holders(h) == {e \in HoldersOfIp(answered) : HostAt(e) = h}
       IN  /\ {e[1] : e \in answered} \subseteq ListedRows(mapping)
           /\ \E new \in [PingHosts -> PingAnswer] :
                /\ \A h \in PingHosts :
                     IF holders(h) = {} THEN new[h] = pinger.records[h]
                     ELSE new[h] \in {reply[IpAt(e)] : e \in holders(h)}
                /\ pinger' = [pinger EXCEPT
                     !.left = @ \ {tenant},
                     !.records = new,
                     !.marks = [i \in ListIds |-> [s \in BothSides |->
                       IF <<i, s>> \in answered THEN reply[IpAt(<<i, s>>)] ELSE @[i][s]]]]
  /\ UNCHANGED <<mapping, shownUp, pingOf, settled>>

UnlessUnanswered(new, old) == IF new = Unanswered THEN old ELSE new

PingsCommit ==
  /\ pinger # Unanswered /\ pinger.left = {}
  /\ shownUp' = [i \in ListIds |->
       [s \in BothSides |-> UnlessUnanswered(pinger.marks[i][s], shownUp[i][s])]]
  /\ pingOf' = [h \in PingHosts |-> UnlessUnanswered(pinger.records[h], pingOf[h])]
  /\ settled' = settled \cup
       {i \in ListedRows(mapping) : /\ pinger.read[i] = mapping[i]
                              /\ pinger.marks[i]["new"] # Unanswered
                              /\ HoldsAlone(i, mapping) /\ HoldsAlone(i, pinger.read)}
  /\ pinger' = Unanswered
  /\ UNCHANGED mapping

\* Any error, and a row to be marked that is gone (StaleDataError), undo the whole round.
PingsFail ==
  /\ pinger # Unanswered
  /\ pinger' = Unanswered
  /\ UNCHANGED <<mapping, shownUp, pingOf, settled>>

PingsNext ==
  \/ \E i \in ListIds :
       \/ \E r \in PingRows : EntersRow(i, r) \/ ChangesRow(i, r)
       \/ RemovesRow(i)
  \/ PingsStart \/ PingsCommit \/ PingsFail
  \/ \E t \in Served : PingsAnswered(t)

PingsSpec == PingsInit /\ [][PingsNext]_pingVars

-----------------------------------------------------------------------------
(* Readers. *)

\* Of both readers: the best of the records; there is one for each hostname.
ExpectedRows == {i \in ListedRows(mapping) : mapping[i]["new"] # NoSide}
PingPasses(i) == pingOf[mapping[i]["new"].host] = TRUE

HostsOn(side) ==
  {mapping[i][side].host : i \in {j \in ListedRows(mapping) : mapping[j][side] # NoSide}}
Statistics(side) ==
  LET those(a) == {h \in HostsOn(side) : pingOf[h] = a}
      all == Cardinality(HostsOn(side))
  IN  [reachable |-> Cardinality(those(TRUE)), unreachable |-> Cardinality(those(FALSE)),
       unchecked |-> all - Cardinality(those(TRUE)) - Cardinality(those(FALSE))]
Reachability == [h \in {g \in PingHosts : pingOf[g] # Unanswered} |-> pingOf[h]]

-----------------------------------------------------------------------------
(* Properties. *)

\* What the device list says of a new device, the ping indicator and the reachability page
\* say too, and the statistics count so: for a row that was pinged since it was edited and
\* whose hostname no other side has, whatever rounds fail, are cut short by a deletion, ask
\* only one of two tenants, or overlap with edits (_run_device_ping, PingIndicator,
\* get_stats, reachability_status).
PingsShown ==
  /\ \A i \in settled :
       LET h == mapping[i]["new"].host IN
       /\ PingPasses(i) <=> shownUp[i]["new"] = TRUE
       /\ h \in DOMAIN Reachability /\ Reachability[h] = shownUp[i]["new"]
  /\ Statistics("new").reachable = Cardinality({i \in ExpectedRows : PingPasses(i)})
=============================================================================
