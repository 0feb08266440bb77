------------------------- MODULE ClientRecordsProofs -------------------------
(***************************************************************************)
(* Theorems about ClientRecords, for any clients, states and bounds.       *)
(*                                                                         *)
(* HistoryInv is inductive.  What it adds to the properties is the link    *)
(* between pointer and records: the pointer speaks for the newest record   *)
(* as long as any record is left, because the cleanup deletes the oldest   *)
(* records first and a removed client loses both together.  With it, the   *)
(* records implement ClientHistory.                                        *)
(***************************************************************************)
EXTENDS ClientRecords, WellFoundedInduction, TLAPS

LEMMA RowType == \A r \in Row : r.at \in Nat /\ r.data \in Data /\ r # NoPointer
BY RecordsAssumption DEF Row, Times

LEMMA InitHistory == Init => HistoryInv
BY RecordsAssumption
DEF Init, HistoryInv, TypeOK, Explained, PointerSpeaks, Ahead, Times

-----------------------------------------------------------------------------
(* One lemma per kind of step. *)

LEMMA KeepsHistory ==
  ASSUME HistoryInv, UNCHANGED <<rows, latest, start, observed>>,
         now' \in Times, now <= now', life' \in [Clients -> {"new", "listed", "gone"}],
         \/ UNCHANGED <<pc, loaded, base>>
         \/ pc' = "idle" /\ UNCHANGED <<loaded, base>>
  PROVE  HistoryInv'
<1>1. TypeOK'
  BY DEF HistoryInv, TypeOK
<1>2. start' <= now'
  BY DEF HistoryInv, TypeOK, Times
<1>3. ASSUME NEW c \in Clients PROVE (Explained(c) /\ PointerSpeaks(c) /\ Ahead(c))'
  BY <1>3 DEF HistoryInv, Explained, PointerSpeaks, Ahead
<1> QED BY <1>1, <1>2, <1>3 DEF HistoryInv

LEMMA ForgetHistory ==
  ASSUME HistoryInv, NEW S \in SUBSET Clients, Forget(S), UNCHANGED <<now, collection>>,
         life' \in [Clients -> {"new", "listed", "gone"}]
  PROVE  HistoryInv'
<1>1. TypeOK'
  BY DEF HistoryInv, TypeOK, Forget, collection
<1>2. start' <= now'
  BY DEF HistoryInv, collection
<1>3. ASSUME NEW c \in Clients PROVE (Explained(c) /\ PointerSpeaks(c) /\ Ahead(c))'
  <2>1. CASE c \in S
    <3>1. rows'[c] = {} /\ latest'[c] = NoPointer
      BY <2>1 DEF Forget
    <3> QED BY <3>1 DEF HistoryInv, Explained, PointerSpeaks, Ahead, collection
  <2>2. CASE c \notin S
    <3>1. rows'[c] = rows[c] /\ latest'[c] = latest[c]
      BY <2>2 DEF Forget
    <3> QED BY <3>1 DEF HistoryInv, Explained, PointerSpeaks, Ahead, collection
  <2> QED BY <2>1, <2>2
<1> QED BY <1>1, <1>2, <1>3 DEF HistoryInv

LEMMA LoadHistory == HistoryInv /\ Load => HistoryInv'
<1> SUFFICES ASSUME HistoryInv, Load PROVE HistoryInv'
  OBVIOUS
<1>1. TypeOK'
  BY DEF HistoryInv, TypeOK, Load, Listed
<1>2. start' <= now' /\ start < start'
  BY DEF HistoryInv, TypeOK, Times, Load
<1>3. ASSUME NEW c \in Clients PROVE (Explained(c) /\ PointerSpeaks(c) /\ Ahead(c))'
  <2>1. Explained(c)'
    BY DEF HistoryInv, Load, Explained
  <2>2. latest[c] # NoPointer => latest[c].at \in Nat /\ latest[c].at < start'
    <3>1. latest[c] # NoPointer => latest[c].at \in Nat /\ latest[c].at <= start
      BY RowType DEF HistoryInv, TypeOK, PointerSpeaks
    <3>2. start \in Nat /\ start' \in Nat
      BY RecordsAssumption, <1>1 DEF HistoryInv, TypeOK, Times
    <3> QED BY <3>1, <3>2, <1>2
  <2>3. PointerSpeaks(c)'
    BY <1>2, <2>2 DEF HistoryInv, TypeOK, Times, Load, PointerSpeaks
  <2>4. Ahead(c)'
    BY <1>2, <2>2 DEF HistoryInv, TypeOK, Times, Load, Ahead
  <2> QED BY <2>1, <2>3, <2>4
<1> QED BY <1>1, <1>2, <1>3 DEF HistoryInv

\* The records of one client after a collection that saw it in state d.
LEMMA SaveOne ==
  ASSUME HistoryInv, NEW found \in [Clients -> Data], Save(found), NEW c \in loaded
  PROVE  LET d == found[c]
             new == [at |-> start, data |-> d]
         IN  /\ observed'[c] = [observed[c] EXCEPT ![start] = d]
             /\ \/ /\ rows'[c] = rows[c] \cup {new} /\ latest'[c] = new
                   /\ latest[c] = NoPointer \/ latest[c].data # d
                \/ /\ rows'[c] = rows[c] /\ latest'[c] = latest[c]
                   /\ latest[c] # NoPointer /\ latest[c].data = d
<1>1. c \in Clients /\ latest[c] \in {base[c], NoPointer}
      /\ (base[c] # NoPointer => latest[c] # NoPointer)
  BY DEF HistoryInv, TypeOK, Ahead, Save, Intact
<1>2. base[c] = latest[c]
  BY <1>1
<1>3. CASE Changed(c, found[c])
  BY <1>1, <1>2, <1>3 DEF Save, Changed, Pointer
<1>4. CASE ~Changed(c, found[c])
  BY <1>1, <1>2, <1>4 DEF Save, Changed, HistoryInv, TypeOK
<1> QED BY <1>3, <1>4

LEMMA SaveHistory ==
  ASSUME HistoryInv, NEW found \in [Clients -> Data], Save(found)
  PROVE  HistoryInv'
<1>1. TypeOK'
  <2>1. \A c \in Clients : [at |-> start, data |-> found[c]] \in Row
    BY DEF HistoryInv, TypeOK, Row
  <2> QED BY <2>1 DEF HistoryInv, TypeOK, Save, Pointer
<1>2. start' <= now'
  BY DEF HistoryInv, Save
<1>3. ASSUME NEW c \in Clients PROVE (Explained(c) /\ PointerSpeaks(c) /\ Ahead(c))'
  <2>t. /\ rows[c] \subseteq Row /\ latest[c] \in Row \cup {NoPointer} /\ start \in Times
        /\ observed[c] \in [Times -> Data \cup {NotSeen}] /\ start' = start /\ pc' = "saved"
        /\ found[c] \in Data /\ Times \subseteq Nat /\ MaxNow \in Nat
    BY RecordsAssumption DEF HistoryInv, TypeOK, Save, Times
  <2>i. /\ Explained(c) /\ PointerSpeaks(c)
        /\ \A t \in Times : t >= start => observed[c][t] = NotSeen
        /\ latest[c] # NoPointer => latest[c].at < start
    BY <2>t DEF HistoryInv, Save, Ahead, Times
  <2>1. CASE c \notin loaded
    <3>1. rows'[c] = rows[c] /\ latest'[c] = latest[c] /\ observed'[c] = observed[c]
      BY <2>1 DEF Save, HistoryInv, TypeOK
    <3> QED BY <3>1, <2>t, <2>i DEF Explained, PointerSpeaks, Ahead
  <2>2. CASE c \in loaded
    <3> DEFINE d == found[c]
               new == [at |-> start, data |-> d]
    <3>1. observed'[c] = [observed[c] EXCEPT ![start] = d]
      BY <2>2, SaveOne
    <3>2. /\ observed'[c][start] = d
          /\ \A t \in Times : t < start => observed'[c][t] = observed[c][t]
          /\ \A t \in Times : t > start => observed'[c][t] = NotSeen
      BY <3>1, <2>t, <2>i
    <3>3. Ahead(c)'
      BY <3>2, <2>t DEF Ahead
    <3>4. CASE rows'[c] = rows[c] \cup {new} /\ latest'[c] = new
      <4>1. \A r \in rows[c] : r.at \in Nat /\ r.at < start
        BY <2>i, <2>t, RowType DEF PointerSpeaks
      <4>2. Explained(c)'
        <5> SUFFICES ASSUME NEW r \in rows'[c], NEW t \in Times, r.at <= t,
                            observed'[c][t] \notin {NotSeen, r.data}
                     PROVE  \E q \in rows'[c] : r.at < q.at /\ q.at <= t
          BY DEF Explained
        <5>1. t <= start
          BY <3>2, <2>t
        <5>2. CASE t = start
          <6>1. r # new
            BY <5>2, <3>2
          <6>2. r \in rows[c] /\ new \in rows'[c] /\ new.at = start
            BY <6>1, <3>4
          <6> QED BY <6>2, <5>2, <4>1, <2>t
        <5>3. CASE t < start
          <6>1. r \in rows[c] /\ observed[c][t] \notin {NotSeen, r.data}
            BY <5>3, <3>2, <3>4, <2>t
          <6> QED BY <6>1, <2>i, <3>4 DEF Explained
        <5> QED BY <5>1, <5>2, <5>3, <2>t
      <4>3. PointerSpeaks(c)'
        <5>1. new # NoPointer
          BY <2>t, RowType DEF Row
        <5>2. \A r \in rows'[c] : r.at < new.at \/ r = new
          BY <4>1, <3>4
        <5>3. \A t \in new.at..MaxNow : observed'[c][t] \in {NotSeen, new.data}
          BY <3>2, <2>t DEF Times
        <5> QED BY <5>1, <5>2, <5>3, <3>4, <2>t DEF PointerSpeaks
      <4> QED BY <3>3, <4>2, <4>3
    <3>5. CASE /\ rows'[c] = rows[c] /\ latest'[c] = latest[c]
               /\ latest[c] # NoPointer /\ latest[c].data = d
      <4>1. Explained(c)'
        <5> SUFFICES ASSUME NEW r \in rows[c], NEW t \in Times, r.at <= t,
                            observed'[c][t] \notin {NotSeen, r.data}
                     PROVE  \E q \in rows[c] : r.at < q.at /\ q.at <= t
          BY <3>5 DEF Explained
        <5>1. t <= start
          BY <3>2, <2>t
        <5>2. CASE t = start
          <6>1. r # latest[c] /\ latest[c] \in rows[c] /\ r.at < latest[c].at
            BY <5>2, <3>2, <3>5, <2>i DEF PointerSpeaks
          <6> QED BY <6>1, <5>2, <2>i, <2>t, <3>5, RowType
        <5>3. CASE t < start
          BY <5>3, <3>2, <2>i DEF Explained
        <5> QED BY <5>1, <5>2, <5>3, <2>t
      <4>2. PointerSpeaks(c)'
        <5>1. \A t \in latest[c].at..MaxNow : observed'[c][t] \in {NotSeen, latest[c].data}
          <6> TAKE t \in latest[c].at..MaxNow
          <6>1. t \in Times /\ observed[c][t] \in {NotSeen, latest[c].data}
            BY <3>5, <2>i, <2>t, RowType DEF PointerSpeaks, Times
          <6> QED BY <6>1, <3>2, <3>5, <2>t
        <5> QED BY <5>1, <3>5, <2>i, <2>t DEF PointerSpeaks
      <4> QED BY <3>3, <4>1, <4>2
    <3> QED BY <2>2, <3>4, <3>5, SaveOne
  <2> QED BY <2>1, <2>2
<1> QED BY <1>1, <1>2, <1>3 DEF HistoryInv

LEMMA CleanupHistory == HistoryInv /\ Cleanup => HistoryInv'
<1> SUFFICES ASSUME HistoryInv, Cleanup PROVE HistoryInv'
  OBVIOUS
<1>1. TypeOK'
  BY DEF HistoryInv, TypeOK, Cleanup
<1>2. start' <= now'
  BY DEF HistoryInv, Cleanup
<1>3. ASSUME NEW c \in Clients PROVE (Explained(c) /\ PointerSpeaks(c) /\ Ahead(c))'
  <2>1. /\ rows'[c] \subseteq rows[c] /\ rows[c] \subseteq Row /\ now \in Nat /\ Retention \in Nat
        /\ \A r \in rows'[c], q \in rows[c] : r.at < q.at => q \in rows'[c]
    BY RecordsAssumption, RowType DEF HistoryInv, TypeOK, Times, Cleanup, Expired
  <2>2. Explained(c)'
    BY <2>1 DEF HistoryInv, Explained, Cleanup
  <2>3. PointerSpeaks(c)'
    BY <2>1 DEF HistoryInv, PointerSpeaks, Cleanup
  <2>4. Ahead(c)'
    BY DEF HistoryInv, Ahead, Cleanup
  <2> QED BY <2>2, <2>3, <2>4
<1> QED BY <1>1, <1>2, <1>3 DEF HistoryInv

-----------------------------------------------------------------------------
(* The theorems. *)

\* The inductive invariant: a pointer speaks for the last record and for everything seen
\* since, wherever a collection was cut off and whichever clients were removed meanwhile.
THEOREM HistoryInvariant == Spec => []HistoryInv
<1>1. HistoryInv /\ [Next]_vars => HistoryInv'
  <2> SUFFICES ASSUME HistoryInv, [Next]_vars PROVE HistoryInv'
    OBVIOUS
  <2>1. CASE Tick
    BY <2>1, KeepsHistory, RecordsAssumption DEF Tick, collection, HistoryInv, TypeOK, Times
  <2>2. ASSUME NEW S \in SUBSET Clients, AddClients(S) PROVE HistoryInv'
    BY <2>2, KeepsHistory DEF AddClients, collection, HistoryInv, TypeOK, Times
  <2>3. ASSUME NEW S \in SUBSET Clients, DeleteClients(S) PROVE HistoryInv'
    BY <2>3, ForgetHistory DEF DeleteClients, HistoryInv, TypeOK
  <2>4. ASSUME NEW c \in Clients, RemoveClient(c) PROVE HistoryInv'
    <3> DEFINE S == {d \in Clients : MacOf[d] = MacOf[c]}
    <3>1. Forget(S) /\ life' \in [Clients -> {"new", "listed", "gone"}]
          /\ UNCHANGED <<now, collection>>
      BY <2>4 DEF RemoveClient, HistoryInv, TypeOK
    <3> QED BY <3>1, ForgetHistory
  <2>5. CASE Load
    BY <2>5, LoadHistory
  <2>6. ASSUME NEW found \in [Clients -> Data], Save(found) PROVE HistoryInv'
    BY <2>6, SaveHistory
  <2>7. CASE Cleanup
    BY <2>7, CleanupHistory
  <2>8. CASE CollectionFails
    BY <2>8, KeepsHistory DEF CollectionFails, HistoryInv, TypeOK, Times
  <2>9. CASE UNCHANGED vars
    BY <2>9, KeepsHistory DEF vars, collection, HistoryInv, TypeOK, Times
  <2> QED BY <2>1, <2>2, <2>3, <2>4, <2>5, <2>6, <2>7, <2>8, <2>9 DEF Next
<1> QED BY <1>1, InitHistory, PTL DEF Spec

\* The record read for a checkpoint is what the collections from then until the checkpoint
\* saw, for any retention and any number of clients of the same MAC.
THEOREM ReadBackAlways == Spec => []ReadBackTrue
<1>1. HistoryInv => ReadBackTrue
  <2> SUFFICES ASSUME HistoryInv, NEW c \in Clients, NEW t \in Times, NEW r \in AsOf(c, t),
                      NEW u \in r.at..t, observed[c][u] \notin {NotSeen, r.data}
               PROVE  FALSE
    BY DEF ReadBackTrue
  <2>1. r \in Row /\ rows[c] \subseteq Row
    BY DEF HistoryInv, TypeOK, AsOf
  <2>2. u \in Times /\ r.at <= u /\ u <= t
    BY <2>1, RecordsAssumption DEF Times, Row
  <2>3. PICK q \in rows[c] : r.at < q.at /\ q.at <= u
    BY <2>2 DEF HistoryInv, Explained, AsOf
  <2> QED BY <2>1, <2>2, <2>3, RowType DEF AsOf, Times
<1> QED BY <1>1, HistoryInvariant, PTL

\* A change that is within the retention has its record, although the cleanup runs after
\* every round and may be skipped or repeated.
THEOREM RecentPointerAlways == Spec => []RecentPointerHasRow
<1>1. Init => RecentPointerHasRow
  BY DEF Init, RecentPointerHasRow
<1>2. HistoryInv /\ RecentPointerHasRow /\ [Next]_vars => RecentPointerHasRow'
  <2> SUFFICES ASSUME HistoryInv, RecentPointerHasRow, [Next]_vars PROVE RecentPointerHasRow'
    OBVIOUS
  <2>t. /\ now \in Nat /\ Retention \in Nat /\ \A c \in Clients : latest[c] \in Row \cup {NoPointer}
        /\ \A c \in Clients : rows[c] \subseteq Row
    BY RecordsAssumption DEF HistoryInv, TypeOK, Times
  <2>1. CASE Tick
    BY <2>1, <2>t, RowType DEF Tick, RecentPointerHasRow
  <2>2. ASSUME NEW S, Forget(S), UNCHANGED now PROVE RecentPointerHasRow'
    BY <2>2 DEF Forget, RecentPointerHasRow
  <2>3. ASSUME NEW S \in SUBSET Clients, DeleteClients(S) PROVE RecentPointerHasRow'
    BY <2>2, <2>3 DEF DeleteClients
  <2>4. ASSUME NEW c \in Clients, RemoveClient(c) PROVE RecentPointerHasRow'
    <3>1. Forget({d \in Clients : MacOf[d] = MacOf[c]}) /\ UNCHANGED now
      BY <2>4 DEF RemoveClient
    <3> QED BY <2>2, <3>1
  <2>5. ASSUME NEW found \in [Clients -> Data], Save(found) PROVE RecentPointerHasRow'
    <3>1. ASSUME NEW c \in Clients
          PROVE  \/ latest'[c] \in rows'[c]
                 \/ latest'[c] = latest[c] /\ rows[c] \subseteq rows'[c]
      BY <2>5 DEF Save, Pointer
    <3> QED BY <2>5, <3>1 DEF Save, RecentPointerHasRow
  <2>6. CASE Cleanup
    BY <2>6, <2>t, RowType DEF Cleanup, Expired, RecentPointerHasRow
  <2>7. CASE UNCHANGED <<now, rows, latest>>
    BY <2>7 DEF RecentPointerHasRow
  <2>8. ASSUME NEW S \in SUBSET Clients, AddClients(S) PROVE RecentPointerHasRow'
    BY <2>7, <2>8 DEF AddClients
  <2>9. CASE Load \/ CollectionFails \/ UNCHANGED vars
    BY <2>7, <2>9 DEF Load, CollectionFails, vars
  <2> QED BY <2>1, <2>3, <2>4, <2>5, <2>6, <2>8, <2>9 DEF Next
<1> QED BY <1>1, <1>2, HistoryInvariant, PTL DEF Spec

\* No two neighbouring records say the same, whatever was removed or failed in between: what
\* a reader counts as a change was one.
THEOREM ChangePointsAlways == Spec => []ChangePoints
<1> DEFINE Points(R) == \A r, q \in R :
             (r.at < q.at /\ \A s \in R : ~(r.at < s.at /\ s.at < q.at)) => r.data # q.data
<1>1. Init => ChangePoints
  BY DEF Init, ChangePoints
<1>2. HistoryInv /\ ChangePoints /\ [Next]_vars => ChangePoints'
  <2> SUFFICES ASSUME HistoryInv, ChangePoints, [Next]_vars, NEW c \in Clients
               PROVE  Points(rows'[c])
    BY DEF ChangePoints
  <2>p. Points(rows[c]) /\ rows[c] \subseteq Row
    BY DEF ChangePoints, HistoryInv, TypeOK
  <2>1. ASSUME NEW S, Forget(S) PROVE Points(rows'[c])
    BY <2>1, <2>p DEF Forget
  <2>2. ASSUME NEW S \in SUBSET Clients, DeleteClients(S) PROVE Points(rows'[c])
    BY <2>1, <2>2 DEF DeleteClients
  <2>3. ASSUME NEW d \in Clients, RemoveClient(d) PROVE Points(rows'[c])
    BY <2>1, <2>3 DEF RemoveClient
  <2>4. ASSUME NEW found \in [Clients -> Data], Save(found) PROVE Points(rows'[c])
    <3> DEFINE new == [at |-> start, data |-> found[c]]
    <3>1. CASE rows'[c] = rows[c]
      BY <3>1, <2>p
    <3>2. CASE c \in loaded /\ rows'[c] = rows[c] \cup {new}
               /\ (latest[c] = NoPointer \/ latest[c].data # found[c])
      <4>1. /\ PointerSpeaks(c) /\ start \in Nat
            /\ latest[c] # NoPointer => latest[c] \in Row /\ latest[c].at < start
        BY <2>4, RecordsAssumption DEF HistoryInv, TypeOK, Ahead, Save, Times
      <4>2. \A r \in rows[c] : r.at \in Nat /\ r.at < start
        BY <4>1, <2>p, RowType DEF PointerSpeaks
      <4> SUFFICES ASSUME NEW r \in rows'[c], NEW q \in rows'[c], r.at < q.at,
                          \A s \in rows'[c] : ~(r.at < s.at /\ s.at < q.at)
                   PROVE  r.data # q.data
        OBVIOUS
      <4>3. CASE q = new
        <5>1. r \in rows[c] /\ latest[c] # NoPointer /\ latest[c] \in rows[c]
          BY <4>1, <4>3, <3>2 DEF PointerSpeaks
        <5>2. r = latest[c]
          <6>1. ~(r.at < latest[c].at)
            BY <5>1, <4>2, <4>3, <3>2
          <6> QED BY <6>1, <5>1, <4>1 DEF PointerSpeaks
        <5> QED BY <5>1, <5>2, <4>3, <3>2
      <4>4. CASE q # new
        <5>1. q \in rows[c] /\ r \in rows[c]
          BY <4>4, <4>2, <4>1, <3>2
        <5> QED BY <5>1, <2>p, <3>2
      <4> QED BY <4>3, <4>4
    <3>3. CASE c \notin loaded
      BY <3>1, <3>3, <2>4 DEF Save
    <3> QED BY <3>1, <3>2, <3>3, <2>4, SaveOne
  <2>5. CASE Cleanup
    <3>1. /\ now \in Nat /\ Retention \in Nat
          /\ rows'[c] = {r \in rows[c] : ~Expired(r)}
      BY <2>5, RecordsAssumption DEF Cleanup, HistoryInv, TypeOK, Times
    <3>2. \A r \in rows'[c], s \in rows[c] : r.at < s.at => s \in rows'[c]
      BY <3>1, <2>p, RowType DEF Expired
    <3> QED BY <3>1, <3>2, <2>p
  <2>6. ASSUME NEW S \in SUBSET Clients, AddClients(S) PROVE Points(rows'[c])
    BY <2>6, <2>p DEF AddClients
  <2>7. CASE Tick \/ Load \/ CollectionFails \/ UNCHANGED vars
    BY <2>7, <2>p DEF Tick, Load, CollectionFails, vars
  <2> QED BY <2>2, <2>3, <2>4, <2>5, <2>6, <2>7 DEF Next
<1> QED BY <1>1, <1>2, HistoryInvariant, PTL DEF Spec

-----------------------------------------------------------------------------
(* What is told. *)

Upto(R, t) == {r \in R : r.at <= t /\ \A q \in R : q.at <= t => q.at <= r.at}
StateIn(S) == IF S = {} THEN NotSeen ELSE (CHOOSE r \in S : TRUE).data
Say(R, t) == StateIn(Upto(R, t))
ToldIn(records) == [c \in Clients |-> [t \in Times |-> Say(records[c], t)]]

\* No two records of a client have one time.
Apart(R) == \A r, q \in R : r.at = q.at => r = q
RowsApart == \A c \in Clients : Apart(rows[c])

LEMMA SayIs ==
  ASSUME NEW R \in SUBSET Row, Apart(R), NEW t \in Times, NEW r \in Upto(R, t)
  PROVE  Say(R, t) = r.data
<1>1. ASSUME NEW q \in Upto(R, t) PROVE q = r
  <2>1. q \in R /\ r \in R /\ q.at <= r.at /\ r.at <= q.at /\ q.at \in Nat /\ r.at \in Nat
    BY RowType DEF Upto
  <2> QED BY <2>1 DEF Apart
<1>2. (CHOOSE q \in Upto(R, t) : TRUE) = r
  BY <1>1
<1> QED BY <1>2 DEF Say, StateIn

\* With a record up to a time there is a last one.
LEMMA SaysSomething ==
  ASSUME NEW R \in SUBSET Row, NEW t \in Times, NEW r \in R, r.at <= t
  PROVE  Upto(R, t) # {}
<1> DEFINE S == {q \in R : q.at <= t}  U == {t - q.at : q \in S}  L == OpToRel(<, Nat)
<1>1. t \in Nat /\ \A q \in R : q.at \in Nat
  BY RowType, RecordsAssumption DEF Times
<1>2. U \in SUBSET Nat /\ U # {}
  <2>1. \A q \in S : t - q.at \in Nat
    BY <1>1
  <2> QED BY <2>1
<1>3. IsWellFoundedOn(L, Nat) /\ \A x, y \in Nat : <<y, x>> \in L <=> y < x
  BY NatLessThanWellFounded DEF OpToRel
<1> HIDE DEF L
<1>4. PICK u \in U : \A v \in U : ~(<<v, u>> \in L)
  BY <1>2, <1>3, WFMin
<1>5. PICK q \in S : u = t - q.at
  OBVIOUS
<1>6. ASSUME NEW p \in S PROVE p.at <= q.at
  <2>1. t - p.at \in U /\ t - p.at \in Nat /\ u \in Nat
    BY <1>1, <1>2
  <2>2. ~(t - p.at < u)
    BY <1>3, <1>4, <2>1
  <2> QED BY <1>1, <1>5, <2>2
<1>7. q \in Upto(R, t)
  BY <1>6 DEF Upto
<1> QED BY <1>7

LEMMA SayType ==
  ASSUME NEW R \in SUBSET Row, Apart(R), NEW t \in Times
  PROVE  Say(R, t) \in Data \cup {NotSeen}
<1>1. CASE Upto(R, t) = {}
  BY <1>1 DEF Say, StateIn
<1>2. ASSUME NEW r \in Upto(R, t) PROVE Say(R, t) \in Data
  BY <1>2, SayIs, RowType DEF Upto
<1> QED BY <1>1, <1>2

\* A new last record speaks from its time on and leaves the times before as they are.
LEMMA SayNew ==
  ASSUME NEW R \in SUBSET Row, Apart(R), NEW new \in Row, \A r \in R : r.at < new.at,
         NEW t \in Times
  PROVE  /\ Apart(R \cup {new})
         /\ Say(R \cup {new}, t) = IF t < new.at THEN Say(R, t) ELSE new.data
<1>1. t \in Nat /\ new.at \in Nat /\ \A r \in R : r.at \in Nat /\ r.at < new.at
  BY RowType, RecordsAssumption DEF Times
<1>2. Apart(R \cup {new})
  BY <1>1 DEF Apart
<1>3. CASE t < new.at
  <2>1. Upto(R \cup {new}, t) = Upto(R, t)
    BY <1>1, <1>3 DEF Upto
  <2>2. Say(R \cup {new}, t) = Say(R, t)
    BY <2>1 DEF Say
  <2> QED BY <1>2, <1>3, <2>2
<1>4. CASE ~(t < new.at)
  <2>1. new \in Upto(R \cup {new}, t)
    BY <1>1, <1>4 DEF Upto
  <2> QED BY <1>2, <1>4, <2>1, SayIs
<1> QED BY <1>2, <1>3, <1>4

\* What is kept of records that lose the oldest.
LEMMA SayKept ==
  ASSUME NEW R \in SUBSET Row, Apart(R), NEW Q \in SUBSET R,
         \A r \in Q, q \in R : r.at < q.at => q \in Q,
         NEW t \in Times, Say(Q, t) # NotSeen, NEW u \in t..MaxNow
  PROVE  Say(Q, u) = Say(R, u)
<1>1. /\ t \in Nat /\ u \in Times /\ u \in Nat /\ t <= u /\ Q \in SUBSET Row /\ Apart(Q)
      /\ \A r \in R : r.at \in Nat
  BY RowType, RecordsAssumption DEF Times, Apart
<1>2. PICK r \in Q : r.at <= t
  <2>1. Upto(Q, t) # {}
    BY DEF Say, StateIn
  <2> QED BY <2>1 DEF Upto
<1>3. PICK q : q \in Upto(Q, u)
  <2>1. r.at <= u
    BY <1>1, <1>2
  <2> QED BY <1>1, <1>2, <2>1, SaysSomething
<1>4. q \in Upto(R, u)
  <2>1. ASSUME NEW p \in R, p.at <= u PROVE p.at <= q.at
    <3>1. CASE q.at < p.at
      BY <1>3, <2>1, <3>1 DEF Upto
    <3> QED BY <1>1, <1>3, <3>1 DEF Upto
  <2> QED BY <1>3, <2>1 DEF Upto
<1> QED BY <1>1, <1>3, <1>4, SayIs

-----------------------------------------------------------------------------
(* Steps. *)

LEMMA SavedRows ==
  ASSUME HistoryInv, NEW found \in [Clients -> Data], Save(found), NEW c \in Clients
  PROVE  LET new == [at |-> start, data |-> found[c]] IN
         /\ new \in Row /\ \A r \in rows[c] : r.at < start
         /\ \/ c \notin loaded /\ rows'[c] = rows[c]
            \/ c \in loaded /\ rows'[c] = rows[c] \cup {new}
            \/ /\ c \in loaded /\ rows'[c] = rows[c]
               /\ rows[c] # {} => latest[c] \in rows[c] /\ latest[c].data = found[c]
<1> DEFINE new == [at |-> start, data |-> found[c]]
<1>1. /\ rows[c] \subseteq Row /\ latest[c] \in Row \cup {NoPointer} /\ start \in Times
      /\ found[c] \in Data /\ PointerSpeaks(c) /\ start \in Nat
      /\ latest[c] # NoPointer => latest[c].at < start
  BY RecordsAssumption DEF HistoryInv, TypeOK, Save, Times, Ahead
<1>2. new \in Row /\ \A r \in rows[c] : r.at < start
  BY <1>1, RowType DEF PointerSpeaks, Row
<1>3. CASE c \notin loaded
  BY <1>2, <1>3 DEF Save, HistoryInv, TypeOK
<1>4. CASE c \in loaded
  BY <1>1, <1>2, <1>4, SaveOne DEF PointerSpeaks
<1> QED BY <1>3, <1>4

LEMMA RowsLost ==
  ASSUME HistoryInv, Cleanup \/ \E S : Forget(S), NEW c \in Clients
  PROVE  rows'[c] \subseteq rows[c] /\ \A r \in rows'[c], q \in rows[c] : r.at < q.at => q \in rows'[c]
<1>1. rows[c] \subseteq Row /\ now \in Nat /\ Retention \in Nat
  BY RecordsAssumption DEF HistoryInv, TypeOK, Times
<1>2. CASE Cleanup
  BY <1>1, <1>2, RowType DEF Cleanup, Expired
<1>3. ASSUME NEW S, Forget(S) PROVE rows'[c] = {} \/ rows'[c] = rows[c]
  BY <1>3 DEF Forget
<1> QED BY <1>2, <1>3

LEMMA ApartStep == HistoryInv /\ RowsApart /\ [Next]_vars => RowsApart'
<1> SUFFICES ASSUME HistoryInv, RowsApart, [Next]_vars, NEW c \in Clients PROVE Apart(rows'[c])
  BY DEF RowsApart
<1>1. Apart(rows[c]) /\ rows[c] \in SUBSET Row
  BY DEF RowsApart, HistoryInv, TypeOK
<1>2. rows'[c] \subseteq rows[c] => Apart(rows'[c])
  BY <1>1 DEF Apart
<1>3. ASSUME NEW S, Forget(S) PROVE Apart(rows'[c])
  BY <1>2, <1>3, RowsLost
<1>4. ASSUME NEW S \in SUBSET Clients, DeleteClients(S) PROVE Apart(rows'[c])
  BY <1>3, <1>4 DEF DeleteClients
<1>5. ASSUME NEW d \in Clients, RemoveClient(d) PROVE Apart(rows'[c])
  BY <1>3, <1>5 DEF RemoveClient
<1>6. ASSUME NEW found \in [Clients -> Data], Save(found) PROVE Apart(rows'[c])
  <2> DEFINE new == [at |-> start, data |-> found[c]]
  <2>1. /\ new \in Row /\ \A r \in rows[c] : r.at < new.at
        /\ rows'[c] = rows[c] \/ rows'[c] = rows[c] \cup {new}
    BY <1>6, SavedRows
  <2>2. \A r \in rows[c] : r.at \in Nat /\ r.at # new.at
    BY <1>1, <2>1, RowType
  <2> HIDE DEF new
  <2> QED BY <1>1, <2>1, <2>2 DEF Apart
<1>7. CASE Cleanup
  BY <1>2, <1>7, RowsLost
<1>8. CASE Tick \/ Load \/ CollectionFails \/ UNCHANGED vars
  BY <1>2, <1>8 DEF Tick, Load, CollectionFails, vars
<1>9. ASSUME NEW S \in SUBSET Clients, AddClients(S) PROVE Apart(rows'[c])
  BY <1>2, <1>9 DEF AddClients
<1> QED BY <1>4, <1>5, <1>6, <1>7, <1>8, <1>9 DEF Next

\* What is told, in both states of a step.
LEMMA ToldIs ==
  /\ [c \in Clients |-> [t \in Times |-> Answer(c, t)]] = ToldIn(rows)
  /\ [c \in Clients |-> [t \in Times |-> Answer(c, t)']] = ToldIn(rows')
BY DEF Answer, AsOf, ToldIn, Say, StateIn, Upto

\* The steps of the history, in terms of the records.
Told == [c \in Clients |-> [t \in Times |-> Answer(c, t)]]

LEMMA BeginsShown ==
  ASSUME HistoryInv, Load
  PROVE  History!Begins(loaded')
<1>1. pc = "idle" /\ pc' = "loaded" /\ loaded' # {} /\ start' = now /\ start < now /\ now \in Times
  BY DEF Load, HistoryInv, TypeOK
<1>2. UNCHANGED <<rows, observed>>
  BY DEF Load
<1>3. Told' = Told
  BY <1>2 DEF Told, Answer, AsOf
<1> QED BY <1>1, <1>2, <1>3 DEF History!Begins, History!Times, Times, Told

LEMMA ForgetsShown ==
  ASSUME HistoryInv, RowsApart, Cleanup \/ \E S : Forget(S),
         UNCHANGED <<observed, loaded, start>>, pc' = pc \/ (pc = "saved" /\ pc' = "idle")
  PROVE  History!Forgets
<1>1. ASSUME NEW c \in Clients
      PROVE  /\ rows[c] \in SUBSET Row /\ Apart(rows[c]) /\ rows'[c] \in SUBSET rows[c]
             /\ \A r \in rows'[c], q \in rows[c] : r.at < q.at => q \in rows'[c]
  BY RowsLost DEF HistoryInv, TypeOK, RowsApart
<1>2. Told = ToldIn(rows) /\ Told' = ToldIn(rows')
  BY ToldIs DEF Told
<1>3. ToldIn(rows') \in [Clients -> [Times -> Data \cup {NotSeen}]]
  <2>1. ASSUME NEW c \in Clients, NEW t \in Times PROVE Say(rows'[c], t) \in Data \cup {NotSeen}
    <3>1. rows'[c] \in SUBSET Row /\ Apart(rows'[c])
      BY <1>1 DEF Apart
    <3> QED BY <3>1, SayType
  <2> QED BY <2>1 DEF ToldIn
<1>4. ASSUME NEW c \in Clients, NEW t \in Times, ToldIn(rows')[c][t] # NotSeen, NEW u \in t..MaxNow
      PROVE  ToldIn(rows')[c][u] = ToldIn(rows)[c][u]
  <2>1. u \in Times
    BY RecordsAssumption DEF Times
  <2>2. Say(rows'[c], t) # NotSeen
    BY <1>4 DEF ToldIn
  <2>3. Say(rows'[c], u) = Say(rows[c], u)
    BY <1>1, <2>2, SayKept
  <2> QED BY <2>1, <2>3 DEF ToldIn
<1>5. Told' \in [Clients -> [Times -> Data \cup {NotSeen}]]
  BY <1>2, <1>3
<1>6. \A c \in Clients, t \in Times : Told'[c][t] # NotSeen => \A u \in t..MaxNow : Told'[c][u] = Told[c][u]
  BY <1>2, <1>4
<1> QED BY <1>5, <1>6 DEF History!Forgets, History!Times, Times, Told

LEMMA ReportsShown ==
  ASSUME HistoryInv, RowsApart, NEW found \in [Clients -> Data], Save(found)
  PROVE  History!Reports(found)
<1> DEFINE silent == {c \in loaded : rows'[c] = {}}
           after == [c \in Clients |->
             IF c \in loaded \ silent
             THEN [t \in Times |-> IF t < start THEN ToldIn(rows)[c][t] ELSE found[c]]
             ELSE ToldIn(rows)[c]]
<1>1. /\ pc = "loaded" /\ pc' = "saved" /\ UNCHANGED <<loaded, start>> /\ loaded \subseteq Clients
      /\ observed' = [c \in Clients |-> IF c \in loaded
                                          THEN [observed[c] EXCEPT ![start] = found[c]]
                                          ELSE observed[c]]
  BY DEF Save, HistoryInv, TypeOK
<1>2. Told = ToldIn(rows) /\ Told' = ToldIn(rows')
  BY ToldIs DEF Told
<1>3. ASSUME NEW c \in Clients, rows'[c] = {} PROVE Told[c] = [t \in Times |-> NotSeen]
  <2>1. rows[c] = {}
    BY <1>3, SavedRows
  <2>2. \A t \in Times : Say(rows[c], t) = NotSeen
    BY <2>1 DEF Say, StateIn, Upto
  <2> QED BY <1>2, <2>2 DEF ToldIn
<1>4. ToldIn(rows') = after
  <2>1. ASSUME NEW c \in Clients, NEW t \in Times
        PROVE  Say(rows'[c], t) =
                 IF c \in loaded \ silent THEN (IF t < start THEN Say(rows[c], t) ELSE found[c])
                 ELSE Say(rows[c], t)
    <3> DEFINE R == rows[c]  new == [at |-> start, data |-> found[c]]
    <3>1. /\ R \in SUBSET Row /\ Apart(R) /\ start \in Nat /\ t \in Nat
          /\ new \in Row /\ \A r \in R : r.at \in Nat /\ r.at < start
      BY RowType, RecordsAssumption, SavedRows DEF HistoryInv, TypeOK, RowsApart, Times
    <3>2. CASE c \notin loaded
      BY <3>2, SavedRows
    <3>3. CASE c \in loaded /\ rows'[c] = R \cup {new}
      <4>1. new.at = start /\ new.data = found[c] /\ \A r \in R : r.at < new.at
        BY <3>1
      <4>2. Say(R \cup {new}, t) = IF t < new.at THEN Say(R, t) ELSE new.data
        BY <3>1, <4>1, SayNew
      <4>3. c \notin silent
        BY <3>3
      <4> QED BY <3>3, <4>1, <4>2, <4>3
    <3>4. CASE c \in loaded /\ rows'[c] = R /\ R = {}
      BY <3>4
    <3>5. CASE /\ c \in loaded /\ rows'[c] = R /\ R # {}
               /\ latest[c] \in R /\ latest[c].data = found[c]
      <4>1. c \notin silent
        BY <3>5
      <4>2. CASE t < start
        BY <3>5, <4>1, <4>2
      <4>3. CASE ~(t < start)
        <5>1. \A r \in R : r.at < latest[c].at \/ r = latest[c]
          BY <3>5, RowType DEF HistoryInv, PointerSpeaks
        <5>2. latest[c] \in Upto(R, t)
          BY <3>1, <3>5, <4>3, <5>1 DEF Upto
        <5>3. Say(R, t) = found[c]
          BY <3>1, <3>5, <5>2, SayIs
        <5> QED BY <3>5, <4>1, <4>3, <5>3
      <4> QED BY <4>2, <4>3
    <3> QED BY <3>2, <3>3, <3>4, <3>5, SavedRows
  <2>2. ASSUME NEW c \in Clients
        PROVE  [t \in Times |-> Say(rows'[c], t)] = after[c]
    BY <2>1 DEF ToldIn
  <2> QED BY <2>2 DEF ToldIn
<1>5. silent \in SUBSET {c \in loaded : Told[c] = [t \in Times |-> NotSeen]}
  BY <1>1, <1>3
<1> HIDE DEF silent
<1>6. Told' = [c \in Clients |->
                 IF c \in loaded \ silent
                 THEN [t \in Times |-> IF t < start THEN Told[c][t] ELSE found[c]] ELSE Told[c]]
  BY <1>2, <1>4
<1> QED BY <1>1, <1>5, <1>6 DEF History!Reports, History!Since, History!Nothing, History!Times, Times, Told

LEMMA StepShown ==
  ASSUME HistoryInv, RowsApart, [Next]_vars
  PROVE  History!HistoryNext \/ UNCHANGED History!historyVars
<1>0. ASSUME UNCHANGED <<rows, observed, pc, loaded, start>>
      PROVE  UNCHANGED History!historyVars
  <2>1. Told' = Told
    BY <1>0 DEF Told, Answer, AsOf
  <2> QED BY <1>0, <2>1 DEF History!historyVars, Told
<1>1. CASE Tick \/ UNCHANGED vars
  BY <1>0, <1>1 DEF Tick, vars, collection
<1>2. ASSUME NEW S \in SUBSET Clients, AddClients(S) PROVE UNCHANGED History!historyVars
  BY <1>0, <1>2 DEF AddClients, collection
<1>3. ASSUME NEW S \in SUBSET Clients, DeleteClients(S) PROVE History!Forgets
  <2>1. Forget(S) /\ UNCHANGED <<observed, loaded, start, pc>>
    BY <1>3 DEF DeleteClients, collection
  <2> QED BY <2>1, ForgetsShown
<1>4. ASSUME NEW c \in Clients, RemoveClient(c) PROVE History!Forgets
  <2>1. (\E S : Forget(S)) /\ UNCHANGED <<observed, loaded, start, pc>>
    BY <1>4 DEF RemoveClient, collection
  <2> QED BY <2>1, ForgetsShown
<1>5. CASE Load
  <2>1. loaded' \in SUBSET Clients
    BY <1>5 DEF Load, Listed
  <2> QED BY <1>5, <2>1, BeginsShown DEF History!HistoryNext
<1>6. ASSUME NEW found \in [Clients -> Data], Save(found) PROVE History!Reports(found)
  BY <1>6, ReportsShown
<1>7. CASE Cleanup
  <2>1. UNCHANGED <<observed, loaded, start>> /\ pc = "saved" /\ pc' = "idle"
    BY <1>7 DEF Cleanup
  <2>2. History!Forgets
    BY <1>7, <2>1, ForgetsShown
  <2> QED BY <2>2 DEF History!HistoryNext
<1>8. CASE CollectionFails
  <2>1. pc # "idle" /\ pc' = "idle" /\ UNCHANGED <<rows, observed, loaded, start>>
    BY <1>8 DEF CollectionFails
  <2>2. Told' = Told
    BY <2>1 DEF Told, Answer, AsOf
  <2>3. History!GivesUp
    BY <2>1, <2>2 DEF History!GivesUp, Told
  <2> QED BY <2>3 DEF History!HistoryNext
<1> QED BY <1>1, <1>2, <1>3, <1>4, <1>5, <1>6, <1>7, <1>8 DEF Next, History!HistoryNext

\* Change points, pointers and their cleanup keep one answer for each client and each time,
\* for any clients, MACs, states and retention: a round that is saved tells from its start
\* on what it saw, answers for earlier times stand, and the oldest are forgotten first
\* (_save_changed_records, _cleanup_old_records, _get_records_at_time).
THEOREM ImplementsHistory == Spec => ShowsHistory
<1>1. Init => History!HistoryInit /\ RowsApart
  <2> SUFFICES ASSUME Init PROVE History!HistoryInit /\ RowsApart
    OBVIOUS
  <2>1. \A c \in Clients : rows[c] = {}
    BY DEF Init
  <2>2. \A c \in Clients, t \in Times : Answer(c, t) = NotSeen
    BY <2>1 DEF Answer, AsOf
  <2>3. RowsApart
    BY <2>1 DEF RowsApart, Apart
  <2> QED BY <2>2, <2>3 DEF Init, History!HistoryInit, History!Nothing, History!Times, Times
<1>2. HistoryInv /\ RowsApart /\ [Next]_vars => RowsApart' /\ [History!HistoryNext]_(History!historyVars)
  BY ApartStep, StepShown
<1> QED BY <1>1, <1>2, HistoryInvariant, PTL DEF Spec, ShowsHistory, History!HistorySpec
=============================================================================
