------------------------------ MODULE Locations ------------------------------
(***************************************************************************)
(* Where a client is.  The MAC tables of all switches know its MAC, also   *)
(* on uplinks and on each VLAN of a port: every row is a candidate, and    *)
(* five rules narrow them down until one is left.  Its port is what the    *)
(* records of all clients with the MAC say, each with the ping answer of   *)
(* its own address; without one they say nothing of a port.                *)
(*                                                                         *)
(* A candidate is what the rules ask of its port, looked up in the newest  *)
(* rows of the other tables, which may be of other rounds.                 *)
(***************************************************************************)
EXTENDS Naturals, FiniteSets, Sequences, SequencesExt

CONSTANTS
  Candidates,    \* [acl, channel, neighbor : BOOLEAN, speed : Nat or NoSpeed, macs : Nat]
  NoSpeed,       \* no speed, or one that cannot be read
  Nobody,        \* no candidate, or none that the rules single out
  Owners,        \* the clients with this MAC, as several virtual machines have
  MaxCandidates  \* bound on the rows of the MAC

ASSUME LocationAssumption ==
  /\ MaxCandidates \in Nat /\ {NoSpeed, Nobody} \cap Nat = {}
  /\ \A c \in Candidates : c.macs \in Nat /\ (c.speed = NoSpeed \/ c.speed \in Nat)

VARIABLES
  candidates,  \* the rows of mac_table_records with the MAC, in the order they are read
  checked      \* their detection_status

locationVars == <<candidates, checked>>

LocationsTypeOK ==
  /\ candidates \in Seq(Candidates) /\ Len(candidates) <= MaxCandidates
  /\ checked \in [Owners -> {"NOT_CHECKED", "DETECTED", "NOT_DETECTED"}]

LocationsInit ==
  /\ candidates = <<>>
  /\ checked = [o \in Owners |-> "NOT_CHECKED"]

-----------------------------------------------------------------------------
(* _select_best_candidate: each rule works on the rows the one before left. *)

\* Those that are good, if there are any.
Prefer(rs, good) ==
  LET those == {i \in rs : candidates[i] \in good} IN IF those = {} THEN rs ELSE those

\* Mutant: rows whose speed is not known stay in.
SlowestOrUnknown(rs) ==
  {i \in rs : \A j \in rs : \/ NoSpeed \in {candidates[i].speed, candidates[j].speed}
                            \/ candidates[i].speed <= candidates[j].speed}
Slowest(rs) ==
  LET known == {i \in rs : candidates[i].speed # NoSpeed} IN
  IF known = {} THEN rs
  ELSE {i \in known : \A j \in known : candidates[i].speed <= candidates[j].speed}

FewestMacs(rs) == {i \in rs : \A j \in rs : candidates[i].macs <= candidates[j].macs}

Best ==
  LET withAcl == Prefer(DOMAIN candidates, {c \in Candidates : c.acl})
      single  == Prefer(withAcl, {c \in Candidates : ~c.channel})
      access  == Prefer(single, {c \in Candidates : ~c.neighbor})
      left    == FewestMacs(Slowest(access))
  IN  IF Cardinality(left) = 1 THEN CHOOSE i \in left : TRUE ELSE Nobody

\* What collect_client_data records of each client, given the addresses that answer.
Observed(answering) == [o \in Owners |-> [row |-> Best, ping |-> o \in answering]]

-----------------------------------------------------------------------------
\* A switch learns the MAC, or forgets it; rows are read in any order.
Learns(c) ==
  /\ Len(candidates) < MaxCandidates
  /\ \E k \in 1..Len(candidates) + 1 : candidates' = InsertAt(candidates, k, c)
  /\ UNCHANGED checked

Unlearns(k) ==
  /\ k \in DOMAIN candidates /\ candidates' = RemoveAt(candidates, k)
  /\ UNCHANGED checked

\* detect_clients: in a MAC table and answering.
Detects(answering) ==
  /\ checked' = [o \in Owners |->
       IF candidates # <<>> /\ o \in answering THEN "DETECTED" ELSE "NOT_DETECTED"]
  /\ UNCHANGED candidates

LocationsNext ==
  \/ \E c \in Candidates : Learns(c)
  \/ \E k \in 1..MaxCandidates : Unlearns(k)
  \/ \E answering \in SUBSET Owners : Detects(answering)

LocationsSpec == LocationsInit /\ [][LocationsNext]_locationVars

-----------------------------------------------------------------------------
(* Properties. *)

\* The rules as a ranking: the first that tells two candidates apart decides.
Rank(c) == <<IF c.acl THEN 0 ELSE 1, IF c.channel THEN 1 ELSE 0, IF c.neighbor THEN 1 ELSE 0,
             c.speed, c.macs>>
Before(a, b) == a # NoSpeed /\ (b = NoSpeed \/ a < b)
Beats(c, d) ==
  \E k \in 1..5 : /\ Before(Rank(c)[k], Rank(d)[k])
                  /\ \A l \in 1..(k - 1) : Rank(c)[l] = Rank(d)[l]

\* A client is recorded at the port that beats every other one by the five rules in their
\* order, whatever order the rows of the switches are read in, and nowhere if none does
\* ("五條規則都無法分出唯一 → 各項數值設為空", _select_best_candidate).
PlaceIsBest ==
  \A answering \in SUBSET Owners, o \in Owners, i \in DOMAIN candidates :
    Observed(answering)[o].row = i <=>
      \A j \in DOMAIN candidates \ {i} : Beats(candidates[i], candidates[j])
=============================================================================
