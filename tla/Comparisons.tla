----------------------------- MODULE Comparisons -----------------------------
(***************************************************************************)
(* Client comparison.  The pages compare each listed MAC at a checkpoint   *)
(* with the newest snapshot, computed from the client records when they    *)
(* are asked for: for one checkpoint (/diff, /list with a time), or for    *)
(* all of them by a bisection (/summaries).  Beside them a table of stored *)
(* comparisons is thrown away and made again, in a session of its own,     *)
(* after each change of the client list.                                   *)
(*                                                                         *)
(* One client per MAC: with several, rows and totals count different       *)
(* things.  What a record says is a port and a ping answer; its address,   *)
(* which does not change here, is not compared.  Which records a round     *)
(* writes is ClientRecords' matter: any listed MAC may get one.            *)
(***************************************************************************)
EXTENDS Sorting

CONSTANTS
  Terminals,   \* MACs
  Sightings,   \* what a record may say: a port or Nowhere, and a ping answer
  Nowhere,     \* a MAC no switch knows, or at no port in particular
  NoRecord,
  Marker,      \* the MAC of the marker row that a round without clients writes
  Members,     \* MACs of active categories
  Interval,    \* checkpoint_interval_minutes, in ticks of more than five seconds
  Window,      \* max_days of the pages
  KeptFor,     \* retention_days of the records
  MaxTick,     \* bound on the clock
  MaxSaves,    \* bound on the comparisons ever made
  Regenerators \* slots for requests that change the list: the bound on them

ASSUME ComparisonAssumption ==
  /\ Interval \in Nat \ {0} /\ Window \in Nat /\ KeptFor \in Nat
  /\ MaxTick \in Nat /\ MaxSaves \in Nat
  /\ IsFiniteSet(Terminals) /\ Members \subseteq Terminals
  /\ \A s \in Sightings : s.ping \in {"yes", "no", "unknown"}

VARIABLES
  tick,
  listed,   \* the MACs of maintenance_mac_list
  found,    \* client_records
  storedRows,  \* client_comparisons, each with the number of the save that made it
  saves,    \* the saves so far
  regen,    \* the request of each slot: its list change is committed
  broken    \* history: the last regeneration failed, or was overtaken

comparisonVars == <<tick, listed, found, storedRows, saves, regen, broken>>

Record == [mac : Terminals \cup {Marker}, at : 0..MaxTick, seen : Sightings \cup {NoRecord}]
Compared == [mac : Terminals, verdict : {"undetected", "changed", "same"}]
Stored == [save : 1..MaxSaves, row : Compared]
Resting == [step |-> "idle"]
Pending == [step |-> "due"]

ComparisonsTypeOK ==
  /\ tick \in 0..MaxTick
  /\ listed \subseteq Terminals
  /\ found \subseteq Record
  /\ storedRows \subseteq Stored
  /\ saves \in 0..MaxSaves
  /\ regen \in [Regenerators -> {Resting, Pending} \cup
       [step : {"read"}, rows : SUBSET Compared, old : SUBSET (1..MaxSaves), late : BOOLEAN]]
  /\ broken \in BOOLEAN

ComparisonsInit ==
  /\ tick = 0 /\ listed = {} /\ found = {}
  /\ storedRows = {} /\ saves = 0
  /\ regen = [e \in Regenerators |-> Resting] /\ broken = FALSE

-----------------------------------------------------------------------------
(* Comparing. *)

Newest(m, t) ==
  LET rs == {r \in found : r.mac = m /\ r.at <= t} IN
  IF rs = {} THEN NoRecord ELSE (CHOOSE r \in rs : \A s \in rs : s.at <= r.at).seen

TimePoints == {r.at : r \in found}
Latest(times) == CHOOSE t \in times : \A u \in times : u <= t
Current == IF TimePoints = {} THEN 0 ELSE Latest(TimePoints)

\* The later side of a comparison is left empty for a MAC that is nowhere; the earlier one
\* keeps the address and the ping answer.
Later(seen) == IF seen # NoRecord /\ seen.port = Nowhere THEN NoRecord ELSE seen

\* A field that one side does not know is not compared.
Differs(old, new) ==
  \/ Nowhere \notin {old.port, new.port} /\ old.port # new.port
  \/ "unknown" \notin {old.ping, new.ping} /\ old.ping # new.ping

Verdict(old, new) ==
  CASE old = NoRecord /\ new = NoRecord -> "undetected"
    [] (old = NoRecord) # (new = NoRecord) -> "changed"
    [] OTHER -> IF Differs(old, new) THEN "changed" ELSE "same"

Recorded == {r.mac : r \in found} \ {Marker}
\* Without a list, every MAC that has a record.
ComparedMacs == IF listed = {} THEN Recorded ELSE listed

RowsOf(old, new) == {[mac |-> m, verdict |-> Verdict(old[m], new[m])] : m \in ComparedMacs}
SeenAt(t) == [m \in Terminals |-> Newest(m, t)]
LaterAt(t) == [m \in Terminals |-> Later(Newest(m, t))]

\* One checkpoint.
Diff(t) == RowsOf(SeenAt(t), LaterAt(Current))

\* All of them: the records of each MAC in ascending order, and a bisection.
Ascending(m, t) ==
  LET rs == {r \in found : r.mac = m /\ r.at <= t}
  IN  InOrderOf(rs, {p \in rs \X rs : p[1].at < p[2].at})
\* Mutant: bisect_left.
BisectLeft(s, t) == Cardinality({i \in DOMAIN s : s[i].at < t})
Bisect(s, t) == Cardinality({i \in DOMAIN s : s[i].at <= t})

AllDiffs(checkpoints) ==
  [t \in checkpoints |->
     RowsOf([m \in Terminals |-> LET s == Ascending(m, Latest(checkpoints))
                                     i == Bisect(s, t)
                                 IN  IF i = 0 THEN NoRecord ELSE s[i].seen],
            LaterAt(Current))]

\* The first time point of each interval, not too long ago.
Checkpoints ==
  LET recent == {t \in TimePoints : t + Window >= tick}
  IN  {t \in recent : \A u \in recent : u \div Interval = t \div Interval => t <= u}

\* The newest snapshot is not compared with itself, unless there is nothing else.
ValidCheckpoints == IF Checkpoints \subseteq {Current} THEN Checkpoints ELSE Checkpoints \ {Current}

\* The numbers of a page: all MACs, and those of categories.
Tally(rows) ==
  LET issues == {r \in rows : r.verdict # "same"} IN
  [changes |-> Cardinality({r \in rows : r.verdict = "changed"}),
   issues  |-> Cardinality(issues),
   grouped |-> Cardinality({r \in issues : r.mac \in Members}),
   total   |-> IF listed = {} THEN Cardinality(rows) ELSE Cardinality(listed)]

\* get_diff, and get_checkpoint_summaries.
DiffPage(t) == Tally(Diff(t))
Summaries == [t \in ValidCheckpoints |-> Tally(AllDiffs(ValidCheckpoints)[t])]

\* The cards of get_category_stats: of a set of MACs, those compared and, for members of
\* categories, those that are not, which count as undetected.
CategoryCard(rows, macs) ==
  LET missing == (macs \cap Members) \ {r.mac : r \in rows}
      Of(verdicts) == {r.mac : r \in {q \in rows : q.mac \in macs /\ q.verdict \in verdicts}}
  IN  [total      |-> Cardinality(Of({"undetected", "changed", "same"}) \cup missing),
       issues     |-> Cardinality(Of({"undetected", "changed"}) \cup missing),
       undetected |-> Cardinality(Of({"undetected"}) \cup missing)]
CardsOf(rows) ==
  [all |-> CategoryCard(rows, Terminals), grouped |-> CategoryCard(rows, Members),
   rest |-> CategoryCard(rows, Terminals \ Members)]

\* With a time, and without one.
CardsAt(t) == CardsOf(Diff(t))
StoredCards == CardsOf({s.row : s \in storedRows})

-----------------------------------------------------------------------------
(* Rounds and requests. *)

\* collect_client_data; an empty list gets a marker, and no cleanup.
Round(macs, see) ==
  /\ tick < MaxTick /\ tick' = tick + 1
  /\ found' = IF listed = {}
               THEN found \cup {[mac |-> Marker, at |-> tick, seen |-> NoRecord]}
               ELSE {r \in found : r.at + KeptFor >= tick}
                    \cup {[mac |-> m, at |-> tick, seen |-> see[m]] : m \in macs \cap listed}
  /\ UNCHANGED <<listed, storedRows, saves, regen, broken>>

\* The reads of other requests are older than this change.
Outdates(slots) ==
  [e \in Regenerators |->
    IF e \in slots /\ regen[e].step = "read" THEN [regen[e] EXCEPT !.late = TRUE] ELSE regen[e]]

Changes(e) == regen[e] = Resting /\ regen' = [Outdates(Regenerators) EXCEPT ![e] = Pending]

\* Adding, importing, batch delete, clear, a new MAC for a client, or only a detection.
EditsList(e, macs) ==
  /\ Changes(e) /\ listed' = macs
  /\ UNCHANGED <<tick, found, storedRows, saves, broken>>

\* Removing one client takes its records and comparisons along.
RemovesOne(e, m) ==
  /\ Changes(e) /\ m \in listed /\ listed' = listed \ {m}
  /\ found' = {r \in found : r.mac # m}
  /\ storedRows' = {s \in storedRows : s.row.mac # m}
  /\ UNCHANGED <<tick, saves, broken>>

\* Both sides are read by the same query.
Generated == RowsOf(SeenAt(tick), IF listed = {} THEN SeenAt(tick) ELSE LaterAt(tick))

\* generate_comparisons, and the stored rows that save_comparisons finds.
ReadsLists(e) ==
  /\ regen[e] = Pending
  /\ regen' = [regen EXCEPT ![e] =
       [step |-> "read", rows |-> Generated, old |-> {s.save : s \in storedRows}, late |-> FALSE]]
  /\ UNCHANGED <<tick, listed, found, storedRows, saves, broken>>

\* Mutant: the rows of the save before stay.
ReplacedNever(g) == {}
\* Nothing is deleted for a result without rows.
Replaced(g) == IF g.rows = {} THEN {} ELSE g.old

Saves(e) ==
  /\ regen[e].step = "read" /\ saves < MaxSaves
  /\ LET g == regen[e] IN
     /\ storedRows' = {s \in storedRows : s.save \notin Replaced(g)}
                  \cup {[save |-> saves + 1, row |-> r] : r \in g.rows}
     /\ broken' = (g.late \/ (broken /\ g.rows = {}))
  /\ saves' = saves + 1
  /\ regen' = [Outdates(Regenerators \ {e}) EXCEPT ![e] = Resting]
  /\ UNCHANGED <<tick, listed, found>>

\* An error is logged, and the request answers as if nothing had happened.
RegenerationFails(e) ==
  /\ regen[e] # Resting /\ regen' = [regen EXCEPT ![e] = Resting]
  /\ broken' = TRUE
  /\ UNCHANGED <<tick, listed, found, storedRows, saves>>

ComparisonsNext ==
  \/ \E macs \in SUBSET Terminals, see \in [Terminals -> Sightings] : Round(macs, see)
  \/ \E e \in Regenerators :
       \/ \E macs \in SUBSET Terminals : EditsList(e, macs)
       \/ \E m \in Terminals : RemovesOne(e, m)
       \/ ReadsLists(e) \/ Saves(e) \/ RegenerationFails(e)

ComparisonsSpec == ComparisonsInit /\ [][ComparisonsNext]_comparisonVars

-----------------------------------------------------------------------------
(* Properties. *)

\* The page without a time shows what is stored, and the members of categories that are not.
Added == Members \ {s.row.mac : s \in storedRows}

\* Once the requests are through, and unless the last regeneration failed or was overtaken,
\* the page of comparisons has each listed MAC in one row, and beside them only members of
\* categories ("以確保客戶端比較頁面與 Client 清單保持同步", regenerate_comparisons).
ListShown ==
  (listed # {} /\ ~broken /\ \A e \in Regenerators : regen[e] = Resting) =>
    /\ \A m \in listed : Cardinality({s \in storedRows : s.row.mac = m}) = 1
    /\ {s.row.mac : s \in storedRows} = listed
    /\ Added = Members \ listed

\* The numbers of every checkpoint in the summaries are those its own page shows
\* ("使用與 /diff 端點相同的比較邏輯，確保數字一致", get_checkpoint_summaries), and so are the
\* issues on the cards of the categories ("與 /diff 端點一致", get_category_stats), as long
\* as all members are compared.  The card of all MACs has those of the others.
SummariesAgree ==
  \A t \in ValidCheckpoints :
    /\ Summaries[t] = DiffPage(t)
    /\ Members \subseteq ComparedMacs =>
         /\ CardsAt(t).all.issues = DiffPage(t).issues
         /\ CardsAt(t).grouped.issues = DiffPage(t).grouped
    /\ \A cards \in {CardsAt(t), StoredCards} :
         cards.all.total = cards.grouped.total + cards.rest.total
=============================================================================
