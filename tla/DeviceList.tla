----------------------------- MODULE DeviceList -----------------------------
(***************************************************************************)
(* The device list of one maintenance: rows that pair an old device with a *)
(* new one, either side possibly empty.  Every write first validates the   *)
(* row it wants against the others; the database itself refuses only a     *)
(* second old or new hostname.  Two writes may cross: one is validated and *)
(* committed between the validation and the commit of the other, which is  *)
(* the one the model splits in two.                                        *)
(***************************************************************************)
EXTENDS Naturals

CONSTANTS
  Hostnames, Addresses,
  MaxRows,   \* bound on the rows of the list
  Empty,     \* NULL: no row, or no hostname or address
  New        \* in place of the id of a row yet to be inserted

ASSUME DeviceAssumption ==
  MaxRows \in Nat /\ Empty \notin Hostnames \cup Addresses /\ New \notin Nat

RowIds == 1..MaxRows
Ends == {"old", "new"}
Device == [host : Hostnames \cup {Empty}, ip : Addresses \cup {Empty}]
NoDevice == [host |-> Empty, ip |-> Empty]
Mapping == [Ends -> Device]
Write == [id : RowIds \cup {New}, row : Mapping]
Started == [write : Write, saw : Mapping]   \* a write, and the row that it was computed from
NoWrite == [write |-> Empty]

\* check_at_least_one_side, and the same test of the import.
FullSide(d) == d = NoDevice \/ (d.host # Empty /\ d.ip # Empty)
Complete == {m \in Mapping : (\A e \in Ends : FullSide(m[e])) /\ \E e \in Ends : m[e] # NoDevice}

VARIABLES
  devices,  \* maintenance_device_list
  pending,  \* the write that has been validated and not committed
  crossed   \* history: another write was committed in between

deviceVars == <<devices, pending, crossed>>

DevicesTypeOK ==
  /\ devices \in [RowIds -> Mapping \cup {Empty}]
  /\ pending \in Started \cup {NoWrite}
  /\ crossed \in BOOLEAN

DevicesInit ==
  /\ devices = [i \in RowIds |-> Empty]
  /\ pending = NoWrite /\ crossed = FALSE

OnList == {i \in RowIds : devices[i] # Empty}

-----------------------------------------------------------------------------
(* validate_device_mapping. *)

\* Mutant: addresses are not compared.
ClashesByHost(d, other) == d.host # Empty /\ d.host = other.host
Clashes(d, other) ==
  \/ d.host # Empty /\ d.host = other.host
  \/ d.ip # Empty /\ d.ip = other.ip

\* Old sides are compared with old ones, new with new; the row itself is left out.
Valid(m, id) ==
  \A i \in OnList \ {id} : \A e \in Ends : ~Clashes(m[e], devices[i][e])

\* A create; an update of some fields of a row, which is not asked for whole sides.  The
\* updates tried change one side at a time: a bound.
Creates == [id : {New}, row : Complete]
Updates ==
  UNION {{[id |-> i, row |-> [devices[i] EXCEPT ![e] = d]] : e \in Ends, d \in Device} : i \in OnList}

\* The row a line of a file stands for: the one with its old hostname, else the one
\* without an old hostname and with its new one, else none.
Existing(m) ==
  LET byOld == {i \in OnList : m["old"].host # Empty /\ devices[i]["old"].host = m["old"].host}
      byNew == {i \in OnList : /\ m["new"].host # Empty
                               /\ devices[i]["new"].host = m["new"].host
                               /\ devices[i]["old"].host = Empty}
  IN  IF byOld # {} THEN byOld ELSE byNew

Line(m) == [id |-> IF Existing(m) = {} THEN New ELSE CHOOSE i \in Existing(m) : TRUE, row |-> m]
Same(w) == w.id # New /\ devices[w.id] = w.row

-----------------------------------------------------------------------------
(* Commits. *)

FreeRows(list) == {i \in RowIds : list[i] = Empty}
Put(list, w) ==
  [list EXCEPT ![IF w.id = New THEN CHOOSE i \in FreeRows(list) : \A j \in FreeRows(list) : i <= j
                 ELSE w.id] = w.row]
Fits(list, w) == IF w.id = New THEN FreeRows(list) # {} ELSE list[w.id] # Empty

\* The unique keys of the table.
UniqueHosts(list) ==
  \A i, j \in RowIds \ FreeRows(list) : i # j => \A e \in Ends :
    list[i][e].host # Empty => list[i][e].host # list[j][e].host

\* One write crosses another, once: a bound.
Stores(list) ==
  /\ UniqueHosts(list) /\ (crossed => pending = NoWrite)
  /\ devices' = list
  /\ crossed' = (crossed \/ pending # NoWrite)
  /\ UNCHANGED pending

\* create_device and update_device, not disturbed.
WriteNow(w) ==
  /\ Valid(w.row, w.id) /\ Fits(devices, w)
  /\ Stores(Put(devices, w))

\* import_csv: all lines or none.  They differ from each other in all they have, and
\* each is valid against the list as it was; one that equals its row is skipped.
ImportNow(m1, m2) ==
  /\ m1 # m2 /\ \A e \in Ends : ~Clashes(m1[e], m2[e])
  /\ \A m \in {m1, m2} : Same(Line(m)) \/ Valid(m, Line(m).id)
  /\ Fits(devices, Line(m1)) /\ Fits(Put(devices, Line(m1)), Line(m2))
  /\ Stores(Put(Put(devices, Line(m1)), Line(m2)))

\* The same create or update, in two steps; one that leaves whole sides (a bound).
Validates(w) ==
  /\ pending = NoWrite /\ ~crossed
  /\ w.row \in Complete /\ Valid(w.row, w.id)
  /\ pending' = [write |-> w, saw |-> IF w.id = New THEN w.row ELSE devices[w.id]]
  /\ UNCHANGED <<devices, crossed>>

\* An update writes the columns that it changed, and no others.
Patch(w, saw) ==
  IF w.id = New THEN w
  ELSE [w EXCEPT !.row = [e \in Ends |-> [f \in {"host", "ip"} |->
          IF w.row[e][f] = saw[e][f] THEN devices[w.id][e][f] ELSE w.row[e][f]]]]

\* A row deleted meanwhile is not updated (StaleDataError).
CommitsPending ==
  /\ pending # NoWrite /\ Fits(devices, pending.write)
  /\ LET list == Put(devices, Patch(pending.write, pending.saw)) IN
       UniqueHosts(list) /\ devices' = list
  /\ pending' = NoWrite
  /\ UNCHANGED crossed

Refused == pending # NoWrite /\ pending' = NoWrite /\ UNCHANGED <<devices, crossed>>

\* delete_device, batch_delete_devices, clear_all; DevicesGo in TypedBatches is what
\* they do to the collected data.
Deletes(ids) ==
  /\ ids \subseteq OnList /\ ids # {}
  /\ devices' = [i \in RowIds |-> IF i \in ids THEN Empty ELSE devices[i]]
  /\ UNCHANGED <<pending, crossed>>
ClearAll ==
  /\ devices' = [i \in RowIds |-> Empty]
  /\ UNCHANGED <<pending, crossed>>

DevicesNext ==
  \/ \E w \in Creates \cup Updates : WriteNow(w) \/ Validates(w)
  \/ \E m1, m2 \in Complete : ImportNow(m1, m2)
  \/ CommitsPending \/ Refused
  \/ \E ids \in SUBSET RowIds : Deletes(ids)
  \/ ClearAll

DevicesSpec == DevicesInit /\ [][DevicesNext]_deviceVars

-----------------------------------------------------------------------------
(* Properties. *)

\* A hostname or an address means one device of a side, through creates, partial updates,
\* and files whose lines move names between rows; addresses only as long as no two
\* writes crossed, since nothing but the validation guards them.
DevicesDistinct ==
  /\ UniqueHosts(devices)
  /\ \/ crossed
     \/ \A i, j \in OnList : i # j => \A e \in Ends :
          devices[i][e].ip # Empty => devices[i][e].ip # devices[j][e].ip
=============================================================================
