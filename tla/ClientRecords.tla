---------------------------- MODULE ClientRecords ----------------------------
(***************************************************************************)
(* The history of each client: collect_client_data observes every listed   *)
(* client once per round, writes a ClientRecord only where the state       *)
(* changed since the LatestClientRecord (a baseline and its change         *)
(* points), and then deletes what is older than the retention, in a        *)
(* second transaction.  Readers ask for the newest record at or before a   *)
(* checkpoint.                                                             *)
(*                                                                         *)
(* Abstracted: the observed state (switch, port, VLAN, speed, duplex,      *)
(* link, ping, ACL) is one value, and data_hash is that value; the fields  *)
(* outside the hash (MAC, IP) are left out.  Times are the times at which  *)
(* rounds start, which the cooldown between rounds keeps distinct.         *)
(***************************************************************************)
EXTENDS Naturals

CONSTANTS
  Clients,    \* ids of maintenance_mac_list
  MacOf,      \* the MAC of each client
  Data,       \* the states a client can be observed in
  NotSeen,    \* no observation
  NoPointer,  \* no LatestClientRecord
  Retention,  \* retention_days of _cleanup_old_records
  MaxRound,   \* the bound on how long one collection takes
  MaxNow      \* the bound on the clock

ASSUME RecordsAssumption ==
  /\ Retention \in Nat /\ MaxRound \in Nat /\ MaxNow \in Nat
  /\ NotSeen \notin Data
  /\ NoPointer \notin [at : 0..MaxNow, data : Data]

Times == 0..MaxNow
Row == [at : Times, data : Data]   \* a ClientRecord, and a LatestClientRecord

VARIABLES
  now,
  life,     \* of a client: "new", "listed", "gone"
  rows,     \* the ClientRecords of each client
  latest,   \* its LatestClientRecord
  pc,       \* where collect_client_data stands
  start,    \* the time the running or last collection stamps its rows with
  loaded,   \* the clients it loaded
  base,     \* the LatestClientRecords it loaded
  observed  \* history: what each collection that committed saw

vars == <<now, life, rows, latest, pc, start, loaded, base, observed>>
collection == <<pc, start, loaded, base, observed>>

Listed == {c \in Clients : life[c] = "listed"}

TypeOK ==
  /\ now \in Times
  /\ life \in [Clients -> {"new", "listed", "gone"}]
  /\ rows \in [Clients -> SUBSET Row]
  /\ latest \in [Clients -> Row \cup {NoPointer}]
  /\ pc \in {"idle", "loaded", "saved"}
  /\ start \in Times
  /\ loaded \in SUBSET Clients
  /\ base \in [Clients -> Row \cup {NoPointer}]
  /\ observed \in [Clients -> [Times -> Data \cup {NotSeen}]]

Init ==
  /\ now = 0
  /\ life = [c \in Clients |-> "new"]
  /\ rows = [c \in Clients |-> {}]
  /\ latest = [c \in Clients |-> NoPointer]
  /\ pc = "idle" /\ start = 0 /\ loaded = {}
  /\ base = [c \in Clients |-> NoPointer]
  /\ observed = [c \in Clients |-> [t \in Times |-> NotSeen]]

-----------------------------------------------------------------------------
Tick ==
  /\ now < MaxNow /\ (pc # "idle" => now < start + MaxRound)
  /\ now' = now + 1
  /\ UNCHANGED <<life, rows, latest, collection>>

AddClients(S) ==
  /\ S # {} /\ \A c \in S : life[c] = "new"
  /\ life' = [c \in Clients |-> IF c \in S THEN "listed" ELSE life[c]]
  /\ UNCHANGED <<now, rows, latest, collection>>

\* Records and pointer of a client go together (or are cut off from its id by the foreign keys).
Forget(S) ==
  /\ rows' = [c \in Clients |-> IF c \in S THEN {} ELSE rows[c]]
  /\ latest' = [c \in Clients |-> IF c \in S THEN NoPointer ELSE latest[c]]

\* Also what belongs to other clients of the same MAC, which stay on the list.
RemoveClient(c) ==
  /\ life[c] = "listed" /\ life' = [life EXCEPT ![c] = "gone"]
  /\ Forget({d \in Clients : MacOf[d] = MacOf[c]})
  /\ UNCHANGED <<now, collection>>

\* batch_delete_macs, clear_all, and the list an import replaces.
DeleteClients(S) ==
  /\ S \subseteq Listed /\ S # {}
  /\ life' = [c \in Clients |-> IF c \in S THEN "gone" ELSE life[c]]
  /\ Forget(S)
  /\ UNCHANGED <<now, collection>>

-----------------------------------------------------------------------------
\* An empty list writes a marker row of no client, and skips the cleanup.
Load ==
  /\ pc = "idle" /\ start < now /\ Listed # {}
  /\ pc' = "loaded" /\ start' = now /\ loaded' = Listed /\ base' = latest
  /\ UNCHANGED <<now, life, rows, latest, observed>>

\* The flush fails if a client is gone (foreign key) or a pointer that was loaded is
\* (StaleDataError: the UPDATE matches no row).
Intact ==
  /\ loaded \subseteq Listed
  /\ \A c \in loaded : base[c] # NoPointer => latest[c] # NoPointer

Changed(c, data) == base[c] = NoPointer \/ base[c].data # data

\* Mutant: the hash of the first record stays.
PointerKeepsHash(c, data) ==
  IF base[c] = NoPointer THEN [at |-> start, data |-> data] ELSE [base[c] EXCEPT !.at = start]
Pointer(c, data) == [at |-> start, data |-> data]

Save(found) ==
  LET written == {c \in loaded : Changed(c, found[c])}
  IN  /\ pc = "loaded" /\ Intact
      /\ rows' = [c \in Clients |->
                    rows[c] \cup (IF c \in written THEN {[at |-> start, data |-> found[c]]} ELSE {})]
      /\ latest' = [c \in Clients |-> IF c \in written THEN Pointer(c, found[c]) ELSE latest[c]]
      /\ observed' = [c \in Clients |-> IF c \in loaded
                                          THEN [observed[c] EXCEPT ![start] = found[c]]
                                          ELSE observed[c]]
      /\ pc' = "saved"
      /\ UNCHANGED <<now, life, start, loaded, base>>

\* Mutant: what is younger than the retention is deleted.
ExpiredYoung(r) == r.at + Retention > now
Expired(r) == r.at + Retention < now

Cleanup ==
  /\ pc = "saved" /\ pc' = "idle"
  /\ rows' = [c \in Clients |-> {r \in rows[c] : ~Expired(r)}]
  /\ UNCHANGED <<now, life, latest, start, loaded, base, observed>>

\* Nothing of the open transaction stays: a conflict, another error, a cancelled task.
CollectionFails ==
  /\ pc # "idle" /\ pc' = "idle"
  /\ UNCHANGED <<now, life, rows, latest, start, loaded, base, observed>>

Next ==
  \/ Tick
  \/ \E S \in SUBSET Clients : AddClients(S) \/ DeleteClients(S)
  \/ \E c \in Clients : RemoveClient(c)
  \/ Load
  \/ \E found \in [Clients -> Data] : Save(found)
  \/ Cleanup
  \/ CollectionFails

Spec == Init /\ [][Next]_vars

-----------------------------------------------------------------------------
(* What readers see. *)

\* The record that a reader takes for the state of client c at time t.
AsOf(c, t) == {r \in rows[c] : r.at <= t /\ \A q \in rows[c] : q.at <= t => q.at <= r.at}

\* A checkpoint is never answered with a wrong state: the record read for time t is what
\* the collections from then until t saw, although only changes were written, old records
\* are gone and clients of the same MAC were removed meanwhile.
ReadBackTrue ==
  \A c \in Clients, t \in Times : \A r \in AsOf(c, t) :
    \A u \in r.at..t : observed[c][u] \in {NotSeen, r.data}

\* Why: a record is followed by another as soon as something else was seen, and the pointer
\* speaks for the last record and for everything seen since.
Explained(c) ==
  \A r \in rows[c], t \in Times :
    r.at <= t /\ observed[c][t] \notin {NotSeen, r.data}
      => \E q \in rows[c] : r.at < q.at /\ q.at <= t

PointerSpeaks(c) ==
  IF latest[c] = NoPointer
    THEN rows[c] = {}
    ELSE /\ \A r \in rows[c] : r.at < latest[c].at \/ r = latest[c]
         /\ \A t \in latest[c].at..MaxNow : observed[c][t] \in {NotSeen, latest[c].data}
         /\ rows[c] # {} => latest[c] \in rows[c]
         /\ latest[c].at <= start

\* Nothing is seen before its time, and a running collection knows the pointers that are left.
Ahead(c) ==
  /\ \A t \in Times : t > start => observed[c][t] = NotSeen
  /\ pc = "loaded" => /\ observed[c][start] = NotSeen
                      /\ latest[c] \in {base[c], NoPointer}
                      /\ latest[c] # NoPointer => latest[c].at < start

HistoryInv ==
  /\ TypeOK
  /\ start <= now
  /\ \A c \in Clients : Explained(c) /\ PointerSpeaks(c) /\ Ahead(c)

\* Every record is a baseline or a change: no two neighbours say the same.
ChangePoints ==
  \A c \in Clients : \A r, q \in rows[c] :
    (r.at < q.at /\ \A s \in rows[c] : ~(r.at < s.at /\ s.at < q.at)) => r.data # q.data

\* A change is not deleted before its time: while it is within the retention, the
\* record a pointer stands for is there.
RecentPointerHasRow ==
  \A c \in Clients :
    latest[c] # NoPointer /\ latest[c].at + Retention >= now => latest[c] \in rows[c]

\* Claimed by the code, and refuted (see README): as with LatestCollectionBatch, whatever
\* a pointer stands for is kept, however old.
PointerHasRow == \A c \in Clients : latest[c] # NoPointer => latest[c] \in rows[c]

\* What a reader of a checkpoint is told.
Answer(c, t) == IF AsOf(c, t) = {} THEN NotSeen ELSE (CHOOSE r \in AsOf(c, t) : TRUE).data

History == INSTANCE ClientHistory WITH
             seen  <- observed,
             told  <- [c \in Clients |-> [t \in Times |-> Answer(c, t)]],
             step  <- pc,
             asked <- loaded,
             begun <- start

\* Change points, pointers and their cleanup are a way to keep one state of each client for
\* each time: a round tells, of all clients it loaded, what it saw from its start on (or
\* still nothing of one whose last record is gone), an answer for an earlier checkpoint
\* never changes, and retention and removals take the oldest answers first
\* (_save_changed_records, _cleanup_old_records, _get_records_at_time).
ShowsHistory == History!HistorySpec
=============================================================================
