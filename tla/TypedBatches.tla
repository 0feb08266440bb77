---------------------------- MODULE TypedBatches ----------------------------
(***************************************************************************)
(* Collected data: batches of rows, and one pointer per maintenance, type  *)
(* and hostname to the batch that is current, with the hash of its data.   *)
(* Collectors save what they found as one transaction: read the pointer,   *)
(* compare hashes, write.  Retention and the deletion of a maintenance take *)
(* the data away beneath them.                                             *)
(*                                                                         *)
(* A transaction reads a snapshot and writes at its commit; an update of a *)
(* pointer that is gone fails (StaleDataError), a second insert too (unique *)
(* key), and a failed transaction leaves nothing.  The hash is the data it *)
(* was made of.                                                            *)
(***************************************************************************)
EXTENDS Naturals

CONSTANTS
  Maintenances,
  Kinds,        \* pairs of collection type and hostname
  InPlace,      \* those of the client ping job, which rewrites its batch
  Items,        \* what may be in a result: ping targets, interfaces, ...
  Results,      \* the results a collector may return: what it says of each item
  Savers,       \* coroutines that save
  MaxBatch,     \* bound on the batches stored at one time
  None

Lost == [id |-> 0, hash |-> None]   \* in place of a pointer read: it has been deleted since
Ids == 1..MaxBatch
Keys == Maintenances \X Kinds

Said(r) == {r[i] : i \in Items}
Rows == [Items -> {None} \cup UNION {Said(r) : r \in Results}]
Batch == [key : Keys, rows : Rows, old : BOOLEAN]
PointerRow == [id : Ids, hash : Results]
Transaction == [key : Keys, items : Results, saw : PointerRow \cup {None, Lost}]

ASSUME BatchAssumption ==
  /\ MaxBatch \in Nat
  /\ InPlace \subseteq Kinds
  /\ \A r \in Results : r = [i \in Items |-> r[i]]
  /\ None \notin Results \cup Rows \cup Batch \cup PointerRow \cup Transaction \cup {Lost}

VARIABLES
  config,   \* maintenance_configs: none, paused, aged (paused beyond retention), active
  batch,    \* collection_batches with their rows
  pointer,  \* latest_collection_batches
  saver,    \* the transaction of each saver
  cleaner   \* what cleanup_deactivated has selected

batchVars == <<config, batch, pointer, saver, cleaner>>

BatchTypeOK ==
  /\ config \in [Maintenances -> {"none", "paused", "aged", "active"}]
  /\ batch \in [Ids -> Batch \cup {None}]
  /\ pointer \in [Keys -> PointerRow \cup {None}]
  /\ saver \in [Savers -> Transaction \cup {None}]
  /\ cleaner \subseteq Maintenances

BatchInit ==
  /\ config = [m \in Maintenances |-> "none"]
  /\ batch = [i \in Ids |-> None]
  /\ pointer = [k \in Keys |-> None]
  /\ saver = [s \in Savers |-> None]
  /\ cleaner = {}

Active == {m \in Maintenances : config[m] = "active"}
Exists(m) == config[m] # "none"

-----------------------------------------------------------------------------
(* save_batch. *)

\* The ping job never runs twice at a time (max_instances of the scheduler).
MaySave(k) == k \in InPlace => \A s \in Savers : saver[s] # None => saver[s].key[2] # k

SaverReads(s, m, k, r) ==
  /\ saver[s] = None /\ MaySave(k)
  /\ saver' = [saver EXCEPT ![s] =
       [key |-> <<m, k>>, items |-> r, saw |-> pointer[<<m, k>>]]]
  /\ UNCHANGED <<config, batch, pointer, cleaner>>

Free(i) == batch[i] = None
NextId(i) == Free(i) /\ \A j \in Ids : Free(j) => i <= j

\* Mutant: only a pointer that exists is updated.
PointsIfKnown(t, i) ==
  pointer' = IF t.saw = None THEN pointer
            ELSE [pointer EXCEPT ![t.key] = [id |-> i, hash |-> t.items]]
\* Mutant: the pointer keeps the hash it had.
PointerKeepsOldHash(t, i) ==
  pointer' = [pointer EXCEPT ![t.key] =
    [id |-> i, hash |-> IF t.saw = None THEN t.items ELSE t.saw.hash]]
\* Only the columns of the pointer row change that differ from what was read: all do.
PointsTo(t, i) == pointer' = [pointer EXCEPT ![t.key] = [id |-> i, hash |-> t.items]]

NewBatch(t) ==
  \E i \in Ids :
    /\ NextId(i)
    /\ batch' = [batch EXCEPT ![i] = [key |-> t.key, rows |-> t.items, old |-> FALSE]]
    /\ PointsTo(t, i)

\* Mutant: what the new result does not mention is dropped.
MergedAnew(rows, items) == items
\* Rows of targets that are no longer asked for stay; known ones change, new ones come.
Merged(rows, items) == [i \in Items |-> IF items[i] = None THEN rows[i] ELSE items[i]]

Rewrites(t) ==
  /\ batch' = [batch EXCEPT ![t.saw.id] =
       [key |-> @.key, rows |-> Merged(@.rows, t.items), old |-> FALSE]]
  /\ PointsTo(t, t.saw.id)

Unchanged(t) == t.saw # None /\ t.saw.hash = t.items
Possible(t) == IF t.saw = None THEN pointer[t.key] = None ELSE t.saw # Lost

SaverCommits(s) ==
  /\ saver[s] # None /\ Possible(saver[s])
  /\ LET t == saver[s] IN
       \/ /\ Unchanged(t)
          /\ UNCHANGED <<batch, pointer>>
       \/ /\ ~Unchanged(t) /\ (t.saw = None \/ t.key[2] \notin InPlace)
          /\ NewBatch(t)
       \/ /\ ~Unchanged(t) /\ t.saw # None /\ t.key[2] \in InPlace
          /\ Rewrites(t)
  /\ saver' = [saver EXCEPT ![s] = None]
  /\ UNCHANGED <<config, cleaner>>

\* An error, a timeout or a cancelled task: the session rolls back.
SaverFails(s) ==
  /\ saver[s] # None
  /\ saver' = [saver EXCEPT ![s] = None]
  /\ UNCHANGED <<config, batch, pointer, cleaner>>

-----------------------------------------------------------------------------
(* Retention. *)

\* Pointers are deleted, also those that savers have read.
Loses(ks) ==
  /\ pointer' = [k \in Keys |-> IF k \in ks THEN None ELSE pointer[k]]
  /\ saver' = [s \in Savers |->
       IF saver[s] # None /\ saver[s].key \in ks /\ saver[s].saw # None
       THEN [key |-> saver[s].key, items |-> saver[s].items, saw |-> Lost]
       ELSE saver[s]]

\* DELETE of pointers and batches of these maintenances; rows go with their batch.
Purge(ms) ==
  /\ batch' = [i \in Ids |->
       IF batch[i] # None /\ batch[i].key[1] \in ms THEN None ELSE batch[i]]
  /\ Loses({k \in Keys : k[1] \in ms})

Unattended == {m \in Maintenances : config[m] = "aged"}

CleanupSelects ==
  /\ cleaner = {} /\ Unattended # {}
  /\ cleaner' = Unattended
  /\ UNCHANGED <<config, batch, pointer, saver>>

CleanupDeletes ==
  /\ cleaner # {}
  /\ Purge(cleaner)
  /\ cleaner' = {}
  /\ UNCHANGED config

Superseded(i) ==
  /\ batch[i] # None /\ batch[i].old
  /\ \A k \in Keys : pointer[k] # None => pointer[k].id # i

\* A pointer to a batch that is deleted goes with it (ON DELETE CASCADE).
CleanupOldBatches ==
  /\ \E i \in Ids : Superseded(i)
  /\ batch' = [i \in Ids |-> IF Superseded(i) THEN None ELSE batch[i]]
  /\ pointer' = [k \in Keys |->
       IF pointer[k] # None /\ Superseded(pointer[k].id) THEN None ELSE pointer[k]]
  /\ UNCHANGED <<config, saver, cleaner>>

BatchAges(i) ==
  /\ batch[i] # None /\ ~batch[i].old
  /\ batch' = [batch EXCEPT ![i] = [key |-> @.key, rows |-> @.rows, old |-> TRUE]]
  /\ UNCHANGED <<config, pointer, saver, cleaner>>

-----------------------------------------------------------------------------
(* Maintenances. *)

Sets(m, state) ==
  /\ config' = [config EXCEPT ![m] = state]
  /\ UNCHANGED <<batch, pointer, saver, cleaner>>

CreateMaintenance(m) == ~Exists(m) /\ Sets(m, "paused")
Resume(m) == config[m] \in {"paused", "aged"} /\ Sets(m, "active")
Pause(m) == config[m] = "active" /\ Sets(m, "paused")   \* by a user or by auto-stop
Ages(m) == config[m] = "paused" /\ Sets(m, "aged")

DeleteMaintenance(m) ==
  /\ Exists(m)
  /\ config' = [config EXCEPT ![m] = "none"]
  /\ Purge({m})
  /\ UNCHANGED cleaner

\* A device leaves the device list, or all do: the pointers of its hostnames go, their
\* batches stay for the cleanup.
Forgets(ks) ==
  /\ \E k \in ks : pointer[k] # None
  /\ Loses(ks)
  /\ UNCHANGED <<config, batch, cleaner>>
DeleteDevice(m, k) == k \notin InPlace /\ Forgets({<<m, k>>})
ClearDevices(m) == Forgets({m} \X Kinds)
DevicesGo(m) == ClearDevices(m) \/ \E k \in Kinds : DeleteDevice(m, k)

\* Collectors on their own: each may save, at any time, for a maintenance it once read
\* as active; CollectionLoop says when they do.
BatchNext ==
  \/ \E s \in Savers :
       \/ \E m \in Maintenances, k \in Kinds, r \in Results : SaverReads(s, m, k, r)
       \/ SaverCommits(s) \/ SaverFails(s)
  \/ CleanupSelects \/ CleanupDeletes \/ CleanupOldBatches
  \/ \E i \in Ids : BatchAges(i)
  \/ \E m \in Maintenances :
       \/ CreateMaintenance(m) \/ Resume(m) \/ Pause(m) \/ Ages(m)
       \/ DeleteMaintenance(m) \/ DevicesGo(m)

BatchSpec == BatchInit /\ [][BatchNext]_batchVars

-----------------------------------------------------------------------------
(* Properties. *)

\* A pointer has its batch, of the same key and no other's, and its hash speaks for the
\* rows, whoever saved, cleaned up or deleted in between (save_batch in both forms,
\* cleanup_deactivated, cleanup_old_batches): an equal hash is a reason not to save.
CurrentHasBatch ==
  \A k \in Keys : pointer[k] # None =>
    LET b == batch[pointer[k].id] IN
    /\ b # None /\ b.key = k
    /\ \A i \in Items : pointer[k].hash[i] # None => b.rows[i] = pointer[k].hash[i]
    /\ k[2] \notin InPlace => b.rows = pointer[k].hash

\* Of savers that rewrite in place there is one per kind, and what it read of the pointer
\* is still so; with types and CurrentHasBatch, this is inductive.
SaversAgree ==
  /\ \A s, t \in Savers :
       /\ saver[s] # None /\ saver[t] # None
       /\ saver[s].key[2] \in InPlace /\ saver[s].key[2] = saver[t].key[2]
       => s = t
  /\ \A s \in Savers :
       saver[s] # None /\ saver[s].key[2] \in InPlace /\ saver[s].saw \notin {None, Lost} =>
         saver[s].saw = pointer[saver[s].key]

BatchInv == BatchTypeOK /\ CurrentHasBatch /\ SaversAgree

\* An active maintenance does not lose its current data, however old it is, except by
\* its deletion, with its devices, or to a cleanup that had selected it before it was
\* resumed.
CurrentDataKept ==
  [][\A k \in Keys : config[k[1]] = "active" /\ pointer[k] # None /\ pointer'[k] = None =>
       config'[k[1]] = "none" \/ k[1] \in cleaner \/ DevicesGo(k[1])]_batchVars

\* Readers follow the pointer.
CurrentRows == [k \in Keys |-> IF pointer[k] = None THEN None ELSE batch[pointer[k].id].rows]

View == INSTANCE CurrentView WITH
          Merging <- {k \in Keys : k[2] \in InPlace}, shown <- CurrentRows

\* Batches, pointers, hashes and their cleanup are a way to keep one current result per
\* key: whatever savers, retention and deletions do, a reader of the current data sees
\* the reports, laid over one another by the ping job, and never a mixture of keys
\* (save_batch in both forms, cleanup_old_batches).
ShowsCurrentView == View!ViewSpec
=============================================================================
