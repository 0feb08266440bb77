---------------------------- MODULE Expectations ----------------------------
(***************************************************************************)
(* The uplinks a maintenance expects: links, each between an interface of  *)
(* a device and one of its neighbour.  Interface names come in several     *)
(* spellings.  Create and update check the whole list, so that an          *)
(* interface is used once; the two imports check nothing, and the table    *)
(* itself only refuses a second row with the same device and local name.   *)
(* A request checks and commits at once here: two that cross are not held  *)
(* together by anything, and nothing is claimed of the rows they leave.    *)
(***************************************************************************)
EXTENDS Naturals

CONSTANTS
  Devices,
  Names,      \* spellings of interface names
  CanonOf,    \* normalize_interface_name
  MaxLinks,   \* bound on the rows of the table
  NoName,     \* the empty string, which the topology import may store as remote name
  NoLink      \* a free row, or no request

LinkIds == 1..MaxLinks

ASSUME ExpectationAssumption ==
  /\ MaxLinks \in Nat /\ NoLink \notin Nat
  /\ CanonOf \in [Names -> Names]
  /\ \A n \in Names : CanonOf[CanonOf[n]] = CanonOf[n]
  /\ NoName \notin Names

VARIABLES
  links,  \* uplink_expectations
  loose   \* history: rows whose names or whose write escaped the checks

linkVars == <<links, loose>>

Link == [hostname : Devices, local : Names,
         neighbor : Devices, remote : Names \cup {NoName}]

LinksTypeOK ==
  /\ links \in [LinkIds -> Link \cup {NoLink}]
  /\ loose \subseteq LinkIds

LinksInit ==
  /\ links = [i \in LinkIds |-> NoLink]
  /\ loose = {}

Expected == {i \in LinkIds : links[i] # NoLink}
Canon(n) == IF n = NoName THEN NoName ELSE CanonOf[n]
Canonical(l) == [l EXCEPT !.local = Canon(@), !.remote = Canon(@)]

LocalEnd(l) == <<l.hostname, l.local>>
RemoteEnd(l) == <<l.neighbor, l.remote>>
UsedEnds(l) == {LocalEnd(l)} \cup (IF l.remote = NoName THEN {} ELSE {RemoteEnd(l)})

-----------------------------------------------------------------------------
(* The checks. *)

SelfLoop(l) == l.remote # NoName /\ LocalEnd(l) = RemoteEnd(l)

\* Mutant: the remote ends of other rows are not looked at.
UnusedLocally(l, id) == \A i \in Expected \ {id} : LocalEnd(links[i]) \notin UsedEnds(l)
\* Duplicate, local end in use as a remote one, remote end in use as either.
Unused(l, id) == \A i \in Expected \ {id} : UsedEnds(l) \cap UsedEnds(links[i]) = {}

Passes(r) ==
  /\ ~SelfLoop(IF r.id = NoLink THEN r.compared ELSE r.stored)
  /\ Unused(r.compared, r.id)

\* A request is the link as the checks see it, and as it is stored.  A create checks the
\* normalised names, and stores the names as they came.
LinkCreates == {[id |-> NoLink, compared |-> Canonical(l), stored |-> l] :
                  l \in [hostname : Devices, local : Names, neighbor : Devices, remote : Names]}

\* An update compares a local name that is sent normalised and a remote one as it came,
\* and stores both normalised.  The updates tried send one end: a bound.
LocalSent(l, d, n) == [l EXCEPT !.hostname = d, !.local = Canon(n)]
RemoteSent(l, d, n) == [l EXCEPT !.neighbor = d, !.remote = n]
RemoteStored(l) == [l EXCEPT !.remote = Canon(@)]
LinkUpdates ==
  UNION {{[id |-> i, compared |-> l, stored |-> l] :
            l \in {LocalSent(links[i], d, n) : d \in Devices, n \in Names}}
         \cup
         {[id |-> i, compared |-> l, stored |-> RemoteStored(l)] :
            l \in {RemoteSent(links[i], d, n) : d \in Devices, n \in Names}}
         : i \in Expected}

Strays(r) == r.stored # Canonical(r.stored) \/ r.compared # r.stored

-----------------------------------------------------------------------------
(* Commits. *)

FirstFree(i) == i \notin Expected /\ \A j \in LinkIds \ Expected : i <= j

\* create_uplink_expectation, update_uplink_expectation; the unique key holds anyway.
LinkWritten(r) ==
  /\ Passes(r)
  /\ \E i \in LinkIds :
       /\ IF r.id = NoLink THEN FirstFree(i) ELSE i = r.id
       /\ \A j \in Expected \ {i} : LocalEnd(r.stored) # LocalEnd(links[j])
       /\ links' = [links EXCEPT ![i] = r.stored]
       /\ loose' = IF Strays(r) THEN loose \cup {i} ELSE loose \ {i}

\* A line of a file or of the fetched topology: the row with its device and local name is
\* overwritten, or one is added.  Lines with different keys do not affect each other.
LineImported(l) ==
  LET same == {i \in Expected : LocalEnd(links[i]) = LocalEnd(l)} IN
  /\ \E i \in LinkIds :
       /\ IF same = {} THEN FirstFree(i) ELSE i \in same
       /\ links' = [links EXCEPT ![i] = l]
       /\ loose' = loose \cup {i}

\* One, or a batch.
LinksDeleted(ids) ==
  /\ ids # {} /\ ids \subseteq Expected
  /\ links' = [i \in LinkIds |-> IF i \in ids THEN NoLink ELSE links[i]]
  /\ loose' = loose \ ids

LinksNext ==
  \/ \E r \in LinkCreates \cup LinkUpdates : LinkWritten(r)
  \/ \E l \in Link : l = Canonical(l) /\ LineImported(l)
  \/ \E ids \in SUBSET LinkIds : LinksDeleted(ids)

LinksSpec == LinksInit /\ [][LinksNext]_linkVars

-----------------------------------------------------------------------------
(* Properties. *)

\* An interface is an end of one expected link only, and not both ends of it ("確保介面未
\* 被其他記錄使用"), for all links whose latest write was checked, with the names that
\* are stored: creates, updates of either end, deletes and imports that come between do
\* not undo it.
EndsUsedOnce ==
  \A i \in Expected \ loose :
    /\ ~SelfLoop(links[i])
    /\ \A j \in Expected \ loose : i # j => UsedEnds(links[i]) \cap UsedEnds(links[j]) = {}
=============================================================================
