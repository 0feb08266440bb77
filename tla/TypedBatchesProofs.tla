------------------------- MODULE TypedBatchesProofs -------------------------
(***************************************************************************)
(* Theorems about TypedBatches, for any maintenances, kinds, results,      *)
(* savers and bounds: pointers have their batches, and what readers see    *)
(* through them is CurrentView.  The same for CollectionLoop, whose        *)
(* cancellations and crashes end several savers at once, and what the loop *)
(* visits when.                                                            *)
(*                                                                         *)
(* A pointer that is not None is a record with an id, so the value None of *)
(* the model stays apart from all records (BatchAssumption).  A new batch  *)
(* takes a free id, which by CurrentHasBatch no pointer holds; a batch     *)
(* that is rewritten belongs to one key only, for the same reason, and is  *)
(* the one its saver read, by SaversAgree.                                 *)
(***************************************************************************)
EXTENDS CollectionLoop, TLAPS

LEMMA Apart ==
  /\ None \notin Rows /\ None \notin Batch /\ None \notin PointerRow /\ None \notin Transaction
  /\ None # Lost
BY BatchAssumption

LEMMA ResultsAreRows == \A r \in Results : r \in Rows
<1> SUFFICES ASSUME NEW r \in Results PROVE r \in Rows
  OBVIOUS
<1>1. r = [i \in Items |-> r[i]]
  BY BatchAssumption
<1>2. \A i \in Items : r[i] \in UNION {Said(q) : q \in Results}
  BY DEF Said
<1>3. [i \in Items |-> r[i]] \in Rows
  BY <1>2 DEF Rows
<1> QED BY <1>1, <1>3

LEMMA LostIsNone == Lost \notin PointerRow
BY BatchAssumption DEF Lost, PointerRow, Ids

\* Keys that are apart hold batches that are apart.
LEMMA OneKeyPerBatch ==
  ASSUME CurrentHasBatch, NEW k \in Keys, NEW q \in Keys,
         pointer[k] # None, pointer[q] # None, pointer[k].id = pointer[q].id
  PROVE  k = q
BY DEF CurrentHasBatch

LEMMA InitBatches == BatchInit => BatchInv
BY DEF BatchInit, BatchInv, BatchTypeOK, CurrentHasBatch, SaversAgree

-----------------------------------------------------------------------------
(* Steps that leave batches and pointers. *)

LEMMA ReadsKeep ==
  ASSUME BatchInv, NEW s \in Savers, NEW m \in Maintenances, NEW k \in Kinds, NEW r \in Results,
         SaverReads(s, m, k, r)
  PROVE  BatchInv'
<1> DEFINE t == [key |-> <<m, k>>, items |-> r, saw |-> pointer[<<m, k>>]]
<1>1. t \in Transaction /\ t # None
  <2>1. <<m, k>> \in Keys
    BY DEF Keys
  <2>2. pointer[<<m, k>>] \in PointerRow \cup {None, Lost}
    BY <2>1 DEF BatchInv, BatchTypeOK
  <2>3. t \in Transaction
    BY <2>1, <2>2 DEF Transaction
  <2> QED BY <2>3, Apart
<1>2. saver' = [saver EXCEPT ![s] = t] /\ UNCHANGED <<config, batch, pointer, cleaner>>
  BY DEF SaverReads
<1>3. saver \in [Savers -> Transaction \cup {None}]
  BY DEF BatchInv, BatchTypeOK
<1>4. BatchTypeOK'
  BY <1>1, <1>2, <1>3 DEF BatchInv, BatchTypeOK
<1>5. CurrentHasBatch'
  BY <1>2 DEF BatchInv, CurrentHasBatch
<1>6. SaversAgree'
  <2>1. saver'[s] = t /\ \A u \in Savers \ {s} : saver'[u] = saver[u]
    BY <1>2, <1>3
  <2>2. t.key[2] = k /\ t.key = <<m, k>> /\ t.saw = pointer[<<m, k>>]
    OBVIOUS
  <2>3. k \in InPlace => \A u \in Savers : saver[u] # None => saver[u].key[2] # k
    BY DEF SaverReads, MaySave
  <2> HIDE DEF t
  <2> QED BY <1>2, <2>1, <2>2, <2>3 DEF BatchInv, SaversAgree
<1> QED BY <1>4, <1>5, <1>6 DEF BatchInv

\* Savers end, or a maintenance changes its state.
LEMMA AbandonKeeps ==
  ASSUME BatchInv, UNCHANGED <<batch, pointer>>,
         saver' \in [Savers -> Transaction \cup {None}],
         \A u \in Savers : saver'[u] \in {saver[u], None},
         config' \in [Maintenances -> {"none", "paused", "aged", "active"}],
         cleaner' \subseteq Maintenances
  PROVE  BatchInv'
<1>1. BatchTypeOK'
  BY DEF BatchInv, BatchTypeOK
<1>2. CurrentHasBatch'
  BY DEF BatchInv, CurrentHasBatch
<1>3. SaversAgree'
  BY DEF BatchInv, SaversAgree
<1> QED BY <1>1, <1>2, <1>3 DEF BatchInv

LEMMA EndsKeep ==
  ASSUME BatchInv, UNCHANGED <<batch, pointer>>,
         \/ UNCHANGED saver
         \/ \E s \in Savers : saver' = [saver EXCEPT ![s] = None],
         config' \in [Maintenances -> {"none", "paused", "aged", "active"}],
         cleaner' \subseteq Maintenances
  PROVE  BatchInv'
<1>1. saver \in [Savers -> Transaction \cup {None}]
  BY DEF BatchInv, BatchTypeOK
<1>2. /\ saver' \in [Savers -> Transaction \cup {None}]
      /\ \A u \in Savers : saver'[u] \in {saver[u], None}
  BY <1>1
<1> QED BY <1>2, AbandonKeeps

-----------------------------------------------------------------------------
(* Saves. *)

LEMMA SaverParts ==
  ASSUME BatchTypeOK, NEW s \in Savers, saver[s] # None
  PROVE  /\ saver[s].key \in Keys
         /\ saver[s].items \in Results /\ saver[s].items \in Rows
         /\ saver[s].saw \in PointerRow \cup {None, Lost}
BY ResultsAreRows DEF BatchTypeOK, Transaction

LEMMA PointerParts ==
  ASSUME BatchTypeOK, NEW k \in Keys, pointer[k] # None
  PROVE  pointer[k] \in PointerRow /\ pointer[k].id \in Ids /\ pointer[k].hash \in Results
BY DEF BatchTypeOK, PointerRow

\* A saver that ends changes what others agreed on only at its own key.
LEMMA OthersAgree ==
  ASSUME BatchInv, NEW s \in Savers, saver[s] # None,
         saver' = [saver EXCEPT ![s] = None],
         \A k \in Keys : k # saver[s].key => pointer'[k] = pointer[k]
  PROVE  SaversAgree'
<1>1. saver'[s] = None /\ \A u \in Savers \ {s} : saver'[u] = saver[u]
  BY DEF BatchInv, BatchTypeOK
<1>2. ASSUME NEW u \in Savers, u # s, saver[u] # None, saver[u].key[2] \in InPlace
      PROVE  saver[u].key \in Keys /\ pointer'[saver[u].key] = pointer[saver[u].key]
  <2>1. saver[u].key \in Keys
    BY <1>2, SaverParts DEF BatchInv
  <2>2. saver[u].key # saver[s].key
    BY <1>2 DEF BatchInv, SaversAgree
  <2> QED BY <2>1, <2>2
<1> QED BY <1>1, <1>2 DEF BatchInv, SaversAgree

LEMMA NewBatchKeeps ==
  ASSUME BatchInv, NEW s \in Savers, saver[s] # None, Possible(saver[s]), NewBatch(saver[s]),
         saver[s].saw = None \/ saver[s].key[2] \notin InPlace,
         saver' = [saver EXCEPT ![s] = None], UNCHANGED <<config, cleaner>>
  PROVE  BatchInv' /\ View!Report(saver[s].key, saver[s].items)
<1> DEFINE t == saver[s]
<1>1. PICK i \in Ids : NextId(i)
        /\ batch' = [batch EXCEPT ![i] = [key |-> t.key, rows |-> t.items, old |-> FALSE]]
        /\ PointsTo(t, i)
  BY DEF NewBatch
<1> DEFINE b == [key |-> t.key, rows |-> t.items, old |-> FALSE]
           p == [id |-> i, hash |-> t.items]
<1>2. t.key \in Keys /\ t.items \in Results /\ t.items \in Rows
  BY SaverParts DEF BatchInv
<1>3. b \in Batch /\ b # None /\ p \in PointerRow /\ p # None
  <2>1. b \in Batch /\ p \in PointerRow
    BY <1>2 DEF Batch, PointerRow
  <2> QED BY <2>1, Apart
<1>4. batch[i] = None /\ batch' = [batch EXCEPT ![i] = b] /\ pointer' = [pointer EXCEPT ![t.key] = p]
  BY <1>1 DEF NextId, Free, PointsTo
<1>5. /\ batch \in [Ids -> Batch \cup {None}] /\ pointer \in [Keys -> PointerRow \cup {None}]
      /\ saver \in [Savers -> Transaction \cup {None}]
  BY DEF BatchInv, BatchTypeOK
<1>6. /\ batch'[i] = b /\ \A j \in Ids \ {i} : batch'[j] = batch[j]
      /\ pointer'[t.key] = p /\ \A k \in Keys \ {t.key} : pointer'[k] = pointer[k]
  BY <1>2, <1>4, <1>5
<1>7. p.id = i /\ p.hash = t.items /\ b.key = t.key /\ b.rows = t.items
  OBVIOUS
<1>8. BatchTypeOK'
  BY <1>3, <1>4, <1>5 DEF BatchInv, BatchTypeOK
<1> HIDE DEF b, p
<1>9. ASSUME NEW k \in Keys, k # t.key, pointer[k] # None
      PROVE  pointer[k].id \in Ids \ {i}
  <2>1. pointer[k].id \in Ids
    BY <1>9, PointerParts DEF BatchInv
  <2>2. batch[pointer[k].id] # None
    BY <1>9 DEF BatchInv, CurrentHasBatch
  <2> QED BY <1>4, <2>1, <2>2
<1>10. CurrentHasBatch'
  <2> SUFFICES ASSUME NEW k \in Keys, pointer'[k] # None
               PROVE  LET c == batch'[pointer'[k].id] IN
                      /\ c # None /\ c.key = k
                      /\ \A j \in Items : pointer'[k].hash[j] # None => c.rows[j] = pointer'[k].hash[j]
                      /\ k[2] \notin InPlace => c.rows = pointer'[k].hash
    BY DEF CurrentHasBatch
  <2>1. CASE k = t.key
    BY <2>1, <1>3, <1>6, <1>7
  <2>2. CASE k # t.key
    <3>1. pointer'[k] = pointer[k] /\ batch'[pointer[k].id] = batch[pointer[k].id]
      BY <2>2, <1>6, <1>9
    <3> QED BY <3>1 DEF BatchInv, CurrentHasBatch
  <2> QED BY <2>1, <2>2
<1>11. SaversAgree'
  BY <1>6, OthersAgree
<1>12. View!Report(t.key, t.items)
  <2>1. CurrentRows'[t.key] = t.items
    BY <1>2, <1>3, <1>6, <1>7 DEF CurrentRows
  <2>2. \A k \in Keys \ {t.key} : CurrentRows'[k] = CurrentRows[k]
    BY <1>6, <1>9 DEF CurrentRows
  <2>3. t.key[2] \notin InPlace \/ CurrentRows[t.key] = None
    BY <1>2 DEF Possible, CurrentRows
  <2>4. CurrentRows' = [k \in Keys |-> CurrentRows'[k]] /\ CurrentRows = [k \in Keys |-> CurrentRows[k]]
    BY DEF CurrentRows
  <2>5. CurrentRows' = [CurrentRows EXCEPT ![t.key] = t.items]
    BY <1>2, <2>1, <2>2, <2>4
  <2> QED BY <1>2, <2>3, <2>5 DEF View!Report
<1> QED BY <1>8, <1>10, <1>11, <1>12 DEF BatchInv

LEMMA RewritesKeep ==
  ASSUME BatchInv, NEW s \in Savers, saver[s] # None, Possible(saver[s]), Rewrites(saver[s]),
         saver[s].saw # None, saver[s].key[2] \in InPlace,
         saver' = [saver EXCEPT ![s] = None], UNCHANGED <<config, cleaner>>
  PROVE  BatchInv' /\ View!Report(saver[s].key, saver[s].items)
<1> DEFINE t == saver[s]
           i == t.saw.id
           b == [key |-> batch[i].key, rows |-> Merged(batch[i].rows, t.items), old |-> FALSE]
           p == [id |-> i, hash |-> t.items]
<1>1. /\ t.key \in Keys /\ t.items \in Results /\ t.items \in Rows
      /\ t.saw = pointer[t.key] /\ pointer[t.key] # None
  <2>1. t.saw # Lost
    BY DEF Possible
  <2> QED BY <2>1, SaverParts DEF BatchInv, SaversAgree
<1>2. i \in Ids /\ batch[i] # None /\ batch[i].key = t.key /\ batch[i] \in Batch
  <2>1. i \in Ids
    BY <1>1, PointerParts DEF BatchInv
  <2>2. batch[i] # None /\ batch[i].key = t.key
    BY <1>1 DEF BatchInv, CurrentHasBatch
  <2> QED BY <2>1, <2>2 DEF BatchInv, BatchTypeOK
<1>3. Merged(batch[i].rows, t.items) \in Rows
  BY <1>1, <1>2 DEF Merged, Rows, Batch
<1>5. b \in Batch /\ b # None /\ p \in PointerRow /\ p # None
  <2>1. b \in Batch /\ p \in PointerRow
    BY <1>1, <1>2, <1>3 DEF Batch, PointerRow
  <2> QED BY <2>1, Apart
<1>6. /\ batch \in [Ids -> Batch \cup {None}] /\ pointer \in [Keys -> PointerRow \cup {None}]
      /\ saver \in [Savers -> Transaction \cup {None}]
  BY DEF BatchInv, BatchTypeOK
<1>7. batch' = [batch EXCEPT ![i] = b] /\ pointer' = [pointer EXCEPT ![t.key] = p]
  BY <1>6, <1>2 DEF Rewrites, PointsTo
<1>8. /\ batch'[i] = b /\ \A j \in Ids \ {i} : batch'[j] = batch[j]
      /\ pointer'[t.key] = p /\ \A k \in Keys \ {t.key} : pointer'[k] = pointer[k]
  BY <1>1, <1>2, <1>6, <1>7
<1>9. p.id = i /\ p.hash = t.items /\ b.key = t.key /\ b.rows = Merged(batch[i].rows, t.items)
  BY <1>2
<1>10. BatchTypeOK'
  BY <1>2, <1>5, <1>6, <1>7 DEF BatchInv, BatchTypeOK
<1>11. \A j \in Items : t.items[j] # None => Merged(batch[i].rows, t.items)[j] = t.items[j]
  BY DEF Merged
<1> HIDE DEF b, p
<1>12. ASSUME NEW k \in Keys, k # t.key, pointer[k] # None
       PROVE  pointer[k].id \in Ids \ {i}
  <2>1. pointer[k].id \in Ids
    BY <1>12, PointerParts DEF BatchInv
  <2>2. pointer[k].id # pointer[t.key].id
    BY <1>1, <1>12, OneKeyPerBatch DEF BatchInv
  <2> QED BY <1>1, <2>1, <2>2
<1>13. CurrentHasBatch'
  <2> SUFFICES ASSUME NEW k \in Keys, pointer'[k] # None
               PROVE  LET c == batch'[pointer'[k].id] IN
                      /\ c # None /\ c.key = k
                      /\ \A j \in Items : pointer'[k].hash[j] # None => c.rows[j] = pointer'[k].hash[j]
                      /\ k[2] \notin InPlace => c.rows = pointer'[k].hash
    BY DEF CurrentHasBatch
  <2>1. CASE k = t.key
    BY <2>1, <1>5, <1>8, <1>9, <1>11
  <2>2. CASE k # t.key
    <3>1. pointer'[k] = pointer[k] /\ batch'[pointer[k].id] = batch[pointer[k].id]
      BY <2>2, <1>8, <1>12
    <3> QED BY <3>1 DEF BatchInv, CurrentHasBatch
  <2> QED BY <2>1, <2>2
<1>14. SaversAgree'
  BY <1>8, OthersAgree
<1>15. View!Report(t.key, t.items)
  <2>1. CurrentRows'[t.key] = Merged(batch[i].rows, t.items)
    BY <1>1, <1>5, <1>8, <1>9 DEF CurrentRows
  <2>2. \A k \in Keys \ {t.key} : CurrentRows'[k] = CurrentRows[k]
    BY <1>8, <1>12 DEF CurrentRows
  <2>3. CurrentRows[t.key] = batch[i].rows /\ batch[i].rows # None
    BY <1>1, <1>2, Apart DEF CurrentRows, Batch
  <2>4. CurrentRows' = [k \in Keys |-> CurrentRows'[k]] /\ CurrentRows = [k \in Keys |-> CurrentRows[k]]
    BY DEF CurrentRows
  <2>5. CurrentRows' = [CurrentRows EXCEPT ![t.key] = View!Over(CurrentRows[t.key], t.items)]
    BY <1>1, <2>1, <2>2, <2>3, <2>4 DEF View!Over, Merged
  <2> QED BY <1>1, <2>3, <2>5 DEF View!Report
<1> QED BY <1>10, <1>13, <1>14, <1>15 DEF BatchInv

LEMMA CommitKeeps ==
  ASSUME BatchInv, NEW s \in Savers, SaverCommits(s)
  PROVE  BatchInv' /\ (View!ViewNext \/ UNCHANGED CurrentRows)
<1>1. saver[s].key \in Keys /\ saver[s].items \in Results
  BY SaverParts DEF BatchInv, SaverCommits
<1>2. CASE UNCHANGED <<batch, pointer>>
  <2>1. BatchInv'
    BY <1>2, EndsKeep DEF SaverCommits, BatchInv, BatchTypeOK
  <2>2. UNCHANGED CurrentRows
    BY <1>2 DEF CurrentRows
  <2> QED BY <2>1, <2>2
<1>3. CASE (saver[s].saw = None \/ saver[s].key[2] \notin InPlace) /\ NewBatch(saver[s])
  BY <1>1, <1>3, NewBatchKeeps DEF SaverCommits, View!ViewNext
<1>4. CASE saver[s].saw # None /\ saver[s].key[2] \in InPlace /\ Rewrites(saver[s])
  BY <1>1, <1>4, RewritesKeep DEF SaverCommits, View!ViewNext
<1> QED BY <1>2, <1>3, <1>4 DEF SaverCommits

-----------------------------------------------------------------------------
(* Deletions. *)

\* Pointers of some keys go; the batches that the others point to stay.
LEMMA LosesKeep ==
  ASSUME BatchInv, NEW ks \in SUBSET Keys,
         batch' \in [Ids -> Batch \cup {None}],
         Loses(ks),
         \A k \in Keys \ ks : pointer[k] # None => batch'[pointer[k].id] = batch[pointer[k].id],
         config' \in [Maintenances -> {"none", "paused", "aged", "active"}],
         cleaner' \subseteq Maintenances
  PROVE  BatchInv' /\ View!Forget(ks)
<1>1. ASSUME NEW s \in Savers, saver[s] # None, saver[s].key \in ks, saver[s].saw # None
      PROVE  /\ saver'[s] \in Transaction /\ saver'[s] # None
             /\ saver'[s].key = saver[s].key /\ saver'[s].saw = Lost
  <2>1. saver'[s] = [key |-> saver[s].key, items |-> saver[s].items, saw |-> Lost]
    BY <1>1 DEF Loses
  <2>2. saver'[s] \in Transaction
    BY <1>1, <2>1, SaverParts DEF BatchInv, Transaction
  <2> QED BY <2>1, <2>2, Apart
<1>2. ASSUME NEW s \in Savers, ~(saver[s] # None /\ saver[s].key \in ks /\ saver[s].saw # None)
      PROVE  saver'[s] = saver[s]
  BY <1>2 DEF Loses
<1>3. BatchTypeOK'
  <2>1. saver' \in [Savers -> Transaction \cup {None}]
    <3>1. saver' = [s \in Savers |-> saver'[s]]
      BY DEF Loses
    <3>2. \A s \in Savers : saver'[s] \in Transaction \cup {None}
      BY <1>1, <1>2 DEF BatchInv, BatchTypeOK
    <3> QED BY <3>1, <3>2
  <2>2. pointer' \in [Keys -> PointerRow \cup {None}]
    BY DEF BatchInv, BatchTypeOK, Loses
  <2> QED BY <2>1, <2>2 DEF BatchTypeOK
<1>4. CurrentHasBatch'
  <2> SUFFICES ASSUME NEW k \in Keys, pointer'[k] # None
               PROVE  LET c == batch'[pointer'[k].id] IN
                      /\ c # None /\ c.key = k
                      /\ \A j \in Items : pointer'[k].hash[j] # None => c.rows[j] = pointer'[k].hash[j]
                      /\ k[2] \notin InPlace => c.rows = pointer'[k].hash
    BY DEF CurrentHasBatch
  <2>1. k \notin ks /\ pointer'[k] = pointer[k] /\ batch'[pointer[k].id] = batch[pointer[k].id]
    BY DEF Loses
  <2> QED BY <2>1 DEF BatchInv, CurrentHasBatch
<1>5. SaversAgree'
  <2>1. ASSUME NEW s \in Savers, saver'[s] # None
        PROVE  saver[s] # None /\ saver'[s].key = saver[s].key /\ saver[s].key \in Keys
    BY <2>1, <1>1, <1>2, SaverParts DEF BatchInv
  <2>2. ASSUME NEW s \in Savers, saver'[s] # None, saver'[s].saw \notin {None, Lost}
        PROVE  saver'[s] = saver[s] /\ saver[s].key \notin ks
    BY <2>2, <1>1, <1>2
  <2>3. ASSUME NEW s \in Savers, saver'[s] # None, saver'[s].key[2] \in InPlace,
               saver'[s].saw \notin {None, Lost}
        PROVE  saver'[s].saw = pointer'[saver'[s].key]
    <3>1. saver'[s] = saver[s] /\ saver[s].key \in Keys \ ks /\ saver[s] # None
      BY <2>1, <2>2, <2>3
    <3>2. saver[s].saw = pointer[saver[s].key]
      BY <2>3, <3>1 DEF BatchInv, SaversAgree
    <3>3. pointer'[saver[s].key] = pointer[saver[s].key]
      BY <3>1 DEF Loses
    <3> QED BY <3>1, <3>2, <3>3
  <2> QED BY <2>1, <2>3 DEF BatchInv, SaversAgree
<1>6. View!Forget(ks)
  BY DEF View!Forget, CurrentRows, Loses
<1> QED BY <1>3, <1>4, <1>5, <1>6 DEF BatchInv

LEMMA PurgeKeeps ==
  ASSUME BatchInv, NEW ms \in SUBSET Maintenances, Purge(ms),
         config' \in [Maintenances -> {"none", "paused", "aged", "active"}],
         cleaner' \subseteq Maintenances
  PROVE  BatchInv' /\ View!ViewNext
<1> DEFINE ks == {k \in Keys : k[1] \in ms}
<1>1. batch' \in [Ids -> Batch \cup {None}]
  BY DEF BatchInv, BatchTypeOK, Purge
<1>2. ASSUME NEW k \in Keys \ ks, pointer[k] # None
      PROVE  batch'[pointer[k].id] = batch[pointer[k].id]
  <2>1. pointer[k].id \in Ids /\ batch[pointer[k].id].key = k
    BY <1>2, PointerParts DEF BatchInv, CurrentHasBatch
  <2>2. k[1] \notin ms
    OBVIOUS
  <2> QED BY <2>1, <2>2 DEF Purge
<1>3. Loses(ks)
  BY DEF Purge
<1>4. ks \in SUBSET Keys
  OBVIOUS
<1> HIDE DEF ks
<1>5. BatchInv' /\ View!Forget(ks)
  BY <1>1, <1>2, <1>3, <1>4, LosesKeep
<1> QED BY <1>4, <1>5 DEF View!ViewNext

LEMMA ForgetsKeep ==
  ASSUME BatchInv, NEW ks \in SUBSET Keys, Forgets(ks)
  PROVE  BatchInv' /\ View!ViewNext
<1>1. BatchInv' /\ View!Forget(ks)
  BY LosesKeep DEF Forgets, BatchInv, BatchTypeOK
<1> QED BY <1>1 DEF View!ViewNext

\* Batches that no pointer holds go, or a batch turns old: nobody sees it.
LEMMA UnseenKeeps ==
  ASSUME BatchInv, batch' \in [Ids -> Batch \cup {None}], UNCHANGED <<config, saver, cleaner>>,
         \A k \in Keys : pointer'[k] = pointer[k],
         pointer' \in [Keys -> PointerRow \cup {None}],
         \A k \in Keys : pointer[k] # None =>
           /\ batch'[pointer[k].id] # None
           /\ batch'[pointer[k].id].key = batch[pointer[k].id].key
           /\ batch'[pointer[k].id].rows = batch[pointer[k].id].rows
  PROVE  BatchInv' /\ UNCHANGED CurrentRows
<1>1. BatchTypeOK'
  BY DEF BatchInv, BatchTypeOK
<1>2. CurrentHasBatch'
  BY DEF BatchInv, CurrentHasBatch
<1>3. SaversAgree'
  <2>1. \A s \in Savers : saver[s] # None => saver[s].key \in Keys
    BY SaverParts DEF BatchInv
  <2> QED BY <2>1 DEF BatchInv, SaversAgree
<1>4. UNCHANGED CurrentRows
  BY DEF CurrentRows
<1> QED BY <1>1, <1>2, <1>3, <1>4 DEF BatchInv

LEMMA CleanupKeeps ==
  ASSUME BatchInv, CleanupOldBatches
  PROVE  BatchInv' /\ UNCHANGED CurrentRows
<1>1. \A k \in Keys : pointer[k] # None => ~Superseded(pointer[k].id)
  BY DEF Superseded
<1>2. pointer' = [k \in Keys |-> pointer[k]]
  BY <1>1 DEF CleanupOldBatches
<1>3. pointer' \in [Keys -> PointerRow \cup {None}] /\ \A k \in Keys : pointer'[k] = pointer[k]
  BY <1>2 DEF BatchInv, BatchTypeOK
<1>4. batch' \in [Ids -> Batch \cup {None}]
  BY DEF BatchInv, BatchTypeOK, CleanupOldBatches
<1>5. ASSUME NEW k \in Keys, pointer[k] # None
      PROVE  batch'[pointer[k].id] = batch[pointer[k].id] /\ batch[pointer[k].id] # None
  <2>1. pointer[k].id \in Ids /\ batch[pointer[k].id] # None
    BY <1>5, PointerParts DEF BatchInv, CurrentHasBatch
  <2> QED BY <1>1, <1>5, <2>1 DEF CleanupOldBatches
<1> QED BY <1>3, <1>4, <1>5, UnseenKeeps DEF CleanupOldBatches

LEMMA AgingKeeps ==
  ASSUME BatchInv, NEW i \in Ids, BatchAges(i)
  PROVE  BatchInv' /\ UNCHANGED CurrentRows
<1> DEFINE b == [key |-> batch[i].key, rows |-> batch[i].rows, old |-> TRUE]
<1>1. batch[i] \in Batch /\ batch' = [batch EXCEPT ![i] = b]
  BY DEF BatchInv, BatchTypeOK, BatchAges
<1>2. b \in Batch /\ b.key = batch[i].key /\ b.rows = batch[i].rows
  BY <1>1 DEF Batch
<1>3. b # None
  BY <1>2, Apart
<1>4. batch \in [Ids -> Batch \cup {None}]
  BY DEF BatchInv, BatchTypeOK
<1> HIDE DEF b
<1>5. batch' \in [Ids -> Batch \cup {None}]
  BY <1>1, <1>2, <1>4
<1>6. ASSUME NEW j \in Ids, batch[j] # None
      PROVE  batch'[j] # None /\ batch'[j].key = batch[j].key /\ batch'[j].rows = batch[j].rows
  BY <1>1, <1>2, <1>3, <1>4, <1>6
<1>7. \A k \in Keys : pointer[k] # None => pointer[k].id \in Ids /\ batch[pointer[k].id] # None
  BY PointerParts DEF BatchInv, CurrentHasBatch
<1>8. pointer' = pointer /\ pointer \in [Keys -> PointerRow \cup {None}]
  BY DEF BatchAges, BatchInv, BatchTypeOK
<1> QED BY <1>5, <1>6, <1>7, <1>8, UnseenKeeps DEF BatchAges

-----------------------------------------------------------------------------
(* The theorems. *)

LEMMA StepBatches ==
  BatchInv /\ [BatchNext]_batchVars => BatchInv' /\ (View!ViewNext \/ UNCHANGED CurrentRows)
<1> SUFFICES ASSUME BatchInv, [BatchNext]_batchVars
             PROVE  BatchInv' /\ (View!ViewNext \/ UNCHANGED CurrentRows)
  OBVIOUS
<1>1. ASSUME UNCHANGED <<batch, pointer>>,
             UNCHANGED saver \/ \E s \in Savers : saver' = [saver EXCEPT ![s] = None],
             config' \in [Maintenances -> {"none", "paused", "aged", "active"}],
             cleaner' \subseteq Maintenances
      PROVE  BatchInv' /\ UNCHANGED CurrentRows
  BY <1>1, EndsKeep DEF CurrentRows
<1>2. config \in [Maintenances -> {"none", "paused", "aged", "active"}] /\ cleaner \subseteq Maintenances
  BY DEF BatchInv, BatchTypeOK
<1>3. CASE \E s \in Savers, m \in Maintenances, k \in Kinds, r \in Results : SaverReads(s, m, k, r)
  BY <1>3, ReadsKeep DEF SaverReads, CurrentRows
<1>4. CASE \E s \in Savers : SaverCommits(s)
  BY <1>4, CommitKeeps
<1>5. CASE \E s \in Savers : SaverFails(s)
  BY <1>1, <1>2, <1>5 DEF SaverFails
<1>6. CASE CleanupSelects
  BY <1>1, <1>2, <1>6 DEF CleanupSelects, Unattended
<1>7. CASE CleanupDeletes
  BY <1>2, <1>7, PurgeKeeps DEF CleanupDeletes
<1>8. CASE CleanupOldBatches
  BY <1>8, CleanupKeeps
<1>9. CASE \E i \in Ids : BatchAges(i)
  BY <1>9, AgingKeeps
<1>10. CASE \E m \in Maintenances : CreateMaintenance(m) \/ Resume(m) \/ Pause(m) \/ Ages(m)
  BY <1>1, <1>2, <1>10 DEF CreateMaintenance, Resume, Pause, Ages, Sets
<1>11. CASE \E m \in Maintenances : DeleteMaintenance(m)
  <2>1. PICK m \in Maintenances : DeleteMaintenance(m)
    BY <1>11
  <2>2. Purge({m}) /\ {m} \in SUBSET Maintenances
        /\ config' \in [Maintenances -> {"none", "paused", "aged", "active"}]
        /\ cleaner' \subseteq Maintenances
    BY <1>2, <2>1 DEF DeleteMaintenance
  <2> QED BY <2>2, PurgeKeeps
<1>12. CASE \E m \in Maintenances : DevicesGo(m)
  <2>1. PICK m \in Maintenances : DevicesGo(m)
    BY <1>12
  <2>2. CASE ClearDevices(m)
    <3>1. {m} \X Kinds \in SUBSET Keys
      BY DEF Keys
    <3> QED BY <2>2, <3>1, ForgetsKeep DEF ClearDevices
  <2>3. ASSUME NEW k \in Kinds, DeleteDevice(m, k)
        PROVE  BatchInv' /\ View!ViewNext
    <3>1. {<<m, k>>} \in SUBSET Keys
      BY DEF Keys
    <3> QED BY <2>3, <3>1, ForgetsKeep DEF DeleteDevice
  <2> QED BY <2>1, <2>2, <2>3 DEF DevicesGo
<1>13. CASE UNCHANGED batchVars
  BY <1>1, <1>2, <1>13 DEF batchVars
<1> QED BY <1>3, <1>4, <1>5, <1>6, <1>7, <1>8, <1>9, <1>10, <1>11, <1>12, <1>13 DEF BatchNext

\* The inductive invariant of savers, retention and deletions.
THEOREM BatchesInvariant == BatchSpec => []BatchInv
<1>1. BatchInit => BatchInv
  BY InitBatches
<1>2. BatchInv /\ [BatchNext]_batchVars => BatchInv'
  BY StepBatches
<1> QED BY <1>1, <1>2, PTL DEF BatchSpec

\* Every pointer has its own batch, and its hash speaks for the rows (CurrentHasBatch).
THEOREM CurrentBatches == BatchSpec => []CurrentHasBatch
<1>1. BatchInv => CurrentHasBatch
  BY DEF BatchInv
<1> QED BY <1>1, BatchesInvariant, PTL

\* What readers find through the pointers is one current result per key, with nothing but
\* reports and forgetting: TypedBatches implements CurrentView.
THEOREM ImplementsCurrentView == BatchSpec => ShowsCurrentView
<1>1. BatchInit => View!ViewInit
  BY DEF BatchInit, View!ViewInit, CurrentRows
<1>2. BatchInv /\ [BatchNext]_batchVars => [View!ViewNext]_CurrentRows
  BY StepBatches
<1> QED BY <1>1, <1>2, BatchesInvariant, PTL DEF BatchSpec, ShowsCurrentView, View!ViewSpec

LEMMA CommitKeepsPointers ==
  ASSUME BatchInv, NEW s \in Savers, SaverCommits(s), NEW k \in Keys, pointer[k] # None
  PROVE  pointer'[k] # None
<1> DEFINE t == saver[s]
<1>1. t.key \in Keys /\ t.items \in Results /\ t.saw \in PointerRow \cup {None, Lost}
  BY SaverParts DEF BatchInv, SaverCommits
<1>2. ASSUME NEW i \in Ids, PointsTo(t, i) PROVE pointer'[k] # None
  <2>1. [id |-> i, hash |-> t.items] \in PointerRow
    BY <1>1 DEF PointerRow
  <2>2. [id |-> i, hash |-> t.items] # None
    BY <2>1, Apart
  <2>3. pointer'[k] \in {pointer[k], [id |-> i, hash |-> t.items]}
    BY <1>2 DEF PointsTo, BatchInv, BatchTypeOK
  <2> QED BY <2>2, <2>3
<1>3. CASE UNCHANGED <<batch, pointer>>
  BY <1>3
<1>4. CASE NewBatch(t)
  BY <1>2, <1>4 DEF NewBatch
<1>5. CASE t.saw # None /\ Rewrites(t)
  <2>1. t.saw.id \in Ids
    BY <1>1, <1>5 DEF Possible, SaverCommits, PointerRow
  <2> QED BY <1>2, <1>5, <2>1 DEF Rewrites
<1> QED BY <1>3, <1>4, <1>5 DEF SaverCommits

LEMMA StepKeepsData ==
  ASSUME BatchInv, BatchNext, NEW k \in Keys, pointer[k] # None, pointer'[k] = None
  PROVE  config'[k[1]] = "none" \/ k[1] \in cleaner \/ DevicesGo(k[1])
<1>1. pointer' # pointer
  OBVIOUS
<1>2. CASE CleanupDeletes
  BY <1>2 DEF CleanupDeletes, Purge, Loses
<1>3. ~CleanupOldBatches
  <2>1. ~Superseded(pointer[k].id)
    BY DEF Superseded
  <2> QED BY <2>1 DEF CleanupOldBatches
<1>4. CASE \E m \in Maintenances : DeleteMaintenance(m)
  <2>1. PICK m \in Maintenances : DeleteMaintenance(m)
    BY <1>4
  <2>2. k[1] = m
    BY <2>1 DEF DeleteMaintenance, Purge, Loses
  <2>3. config'[m] = "none"
    BY <2>1 DEF DeleteMaintenance, BatchInv, BatchTypeOK
  <2> QED BY <2>2, <2>3
<1>5. CASE \E m \in Maintenances : DevicesGo(m)
  <2>1. PICK m \in Maintenances : DevicesGo(m)
    BY <1>5
  <2>2. k[1] = m
    <3>1. CASE ClearDevices(m)
      BY <3>1 DEF ClearDevices, Forgets, Loses
    <3>2. ASSUME NEW q \in Kinds, DeleteDevice(m, q) PROVE k[1] = m
      BY <3>2 DEF DeleteDevice, Forgets, Loses
    <3> QED BY <2>1, <3>1, <3>2 DEF DevicesGo
  <2> QED BY <2>1, <2>2
<1>6. \A s \in Savers : ~SaverCommits(s)
  BY CommitKeepsPointers
<1>7. \A s \in Savers, m \in Maintenances, q \in Kinds, r \in Results :
        ~SaverReads(s, m, q, r) /\ ~SaverFails(s)
  BY <1>1 DEF SaverReads, SaverFails
<1>8. \A s \in Savers : ~SaverFails(s)
  BY <1>1 DEF SaverFails
<1>9. ~CleanupSelects /\ \A i \in Ids : ~BatchAges(i)
  BY <1>1 DEF CleanupSelects, BatchAges
<1>10. \A m \in Maintenances : ~CreateMaintenance(m) /\ ~Resume(m) /\ ~Pause(m) /\ ~Ages(m)
  BY <1>1 DEF CreateMaintenance, Resume, Pause, Ages, Sets
<1> QED BY <1>2, <1>3, <1>4, <1>5, <1>6, <1>7, <1>8, <1>9, <1>10 DEF BatchNext

\* The current data of a maintenance goes with it, with its devices, or to a cleanup that
\* had selected it, and not otherwise (CurrentDataKept).
THEOREM DataKept == BatchSpec => CurrentDataKept
<1> DEFINE Kept == \A k \in Keys :
             config[k[1]] = "active" /\ pointer[k] # None /\ pointer'[k] = None =>
               config'[k[1]] = "none" \/ k[1] \in cleaner \/ DevicesGo(k[1])
<1>1. BatchInv /\ [BatchNext]_batchVars => [Kept]_batchVars
  BY StepKeepsData
<1> QED BY <1>1, BatchesInvariant, PTL DEF BatchSpec, CurrentDataKept

-----------------------------------------------------------------------------
(* The loop over the batches. *)

\* Savers that were not ended keep their keys.
KeysStay == \A s \in Savers : saver'[s] # None => saver[s] # None /\ saver'[s].key = saver[s].key

LEMMA LosesKeysStay ==
  ASSUME NEW ks \in SUBSET Keys, Loses(ks)
  PROVE  KeysStay
BY DEF Loses, KeysStay

LEMMA InitService == ServiceInit => ServiceInv
<1> SUFFICES ASSUME ServiceInit PROVE ServiceInv
  OBVIOUS
<1>1. BatchInv
  BY InitBatches DEF ServiceInit
<1>2. ServiceTypeOK
  <2>1. /\ todo \in [Phases -> SUBSET Maintenances]
        /\ current \in [Phases -> Maintenances \cup {None}]
    BY DEF ServiceInit
  <2>2. pc = "none" /\ stop = FALSE /\ left = {} /\ crashes \in 0..MaxCrashes
        /\ task \in [Savers -> Maintenances \cup {None}] /\ tries \in [Calls -> 0..Retries]
    BY LoopAssumption DEF ServiceInit
  <2> QED BY <1>1, <2>1, <2>2 DEF ServiceTypeOK, BatchInv
<1>3. SavesForVisit
  BY DEF ServiceInit, SavesForVisit, BatchInit, Awaited
<1> QED BY <1>1, <1>2, <1>3 DEF ServiceInv

\* A collector at work is for a maintenance; one that is waited for, for the one visited.
LEMMA Working ==
  ASSUME ServiceInv, NEW s \in Savers, task[s] # None
  PROVE  /\ SaverPhase[s] \in Phases \ {"client"} /\ SaverKind[s] \in Kinds
         /\ task[s] \in Maintenances
         /\ s \notin left => current[SaverPhase[s]] = task[s]
         /\ s \in left => s \in LoopSavers
<1>1. SaverPhase[s] \in Phases \ {"client"} /\ SaverKind[s] \in Kinds
  BY LoopAssumption DEF Phases
<1>2. task[s] \in Maintenances
  BY DEF ServiceInv, ServiceTypeOK
<1>3. s \notin left => current[SaverPhase[s]] = task[s]
  BY DEF ServiceInv, SavesForVisit, Awaited
<1>4. s \in left => SaverCall[s] # None
  BY DEF ServiceInv, ServiceTypeOK
<1>5. s \in left => s \in LoopSavers
  BY <1>4, LoopAssumption DEF LoopSavers, Of
<1> QED BY <1>1, <1>2, <1>3, <1>5

\* What the loop does to the tables is what collectors on their own do, or the end of
\* several of them at once.
LEMMA StepIsBatchStep ==
  ASSUME ServiceInv, [ServiceNext]_serviceVars
  PROVE  [BatchNext]_batchVars \/ Abandons
<1>1. CASE \E s \in Savers : Looks(s)
  <2>1. PICK s \in Savers, r \in Results :
          task[s] # None /\ SaverReads(s, task[s], SaverKind[s], r)
    BY <1>1 DEF Looks
  <2> QED BY <2>1, Working DEF BatchNext
<1>2. CASE \E s \in Savers : Saved(s) \/ Unsaved(s)
  BY <1>2 DEF Saved, Unsaved, BatchNext
<1>3. CASE \E s \in Savers : Skips(s)
  BY <1>3 DEF Skips
<1>10. CASE \E s \in Savers : Raises(s)
  <2>1. PICK s \in Savers : Raises(s)
    BY <1>10
  <2>2. saver \in [Savers -> Transaction \cup {None}]
    BY DEF ServiceInv, BatchInv, BatchTypeOK
  <2>3. CASE saver[s] = None
    <3>1. saver' = saver
      BY <2>1, <2>2, <2>3 DEF Raises
    <3> QED BY <2>1, <3>1 DEF Raises, batchVars
  <2>4. CASE saver[s] # None
    BY <2>1, <2>4 DEF Raises, SaverFails, BatchNext
  <2> QED BY <2>3, <2>4
<1>4. CASE (BatchStep \/ UserStep) /\ UNCHANGED loopVars
  BY <1>4 DEF BatchStep, UserStep, BatchNext
<1>5. CASE Cancelled \/ Crashes
  BY <1>5 DEF Cancelled, Crashes
<1>6. CASE SetupJobs \/ Stop \/ Restarts
  BY <1>6 DEF SetupJobs, Stop, Restarts
<1>7. CASE \/ Wakes \/ RoundStarts \/ PhaseEnds("snmp", "api") \/ ClientPassStarts
           \/ PhaseEnds("client", "cooldown") \/ RoundFails \/ Cooled \/ LeavesLoop
  BY <1>7 DEF Wakes, RoundStarts, PhaseEnds, ClientPassStarts, RoundFails, Cooled, LeavesLoop, LoopStep
<1>8. CASE LoopPhase \/ PingStarts \/ PingStep
  BY <1>8 DEF LoopPhase, PingStarts, PingStep, Begins, Done
<1>9. CASE UNCHANGED serviceVars
  BY <1>9 DEF serviceVars
<1> QED BY <1>1, <1>2, <1>3, <1>4, <1>5, <1>6, <1>7, <1>8, <1>9, <1>10 DEF ServiceNext

LEMMA ServiceKeepsBatches ==
  ASSUME ServiceInv, [ServiceNext]_serviceVars
  PROVE  BatchInv' /\ (View!ViewNext \/ UNCHANGED CurrentRows)
<1>1. CASE [BatchNext]_batchVars
  BY <1>1, StepBatches DEF ServiceInv
<1>2. CASE Abandons
  <2>1. /\ saver' \in [Savers -> Transaction \cup {None}]
        /\ \A u \in Savers : saver'[u] \in {saver[u], None}
    BY <1>2 DEF Abandons, ServiceInv, BatchInv, BatchTypeOK
  <2>2. BatchInv'
    BY <1>2, <2>1, AbandonKeeps DEF Abandons, ServiceInv, BatchInv, BatchTypeOK
  <2> QED BY <1>2, <2>2 DEF Abandons, CurrentRows
<1> QED BY <1>1, <1>2, StepIsBatchStep

-----------------------------------------------------------------------------
(* The loop's own variables. *)

LoopTypeOK ==
  /\ stop \in BOOLEAN
  /\ pc \in Running \cup {"none", "ended", "crashed"}
  /\ todo \in [Phases -> SUBSET Maintenances]
  /\ current \in [Phases -> Maintenances \cup {None}]
  /\ task \in [Savers -> Maintenances \cup {None}]
  /\ left \subseteq {s \in Savers : task[s] # None /\ SaverCall[s] # None}
  /\ tries \in [Calls -> 0..Retries]
  /\ crashes \in 0..MaxCrashes

\* The loop moves on, and nobody is visited or left in between.
LEMMA MovesKeep ==
  ASSUME ServiceInv, pc' \in Running \cup {"none", "ended", "crashed"}, stop' \in BOOLEAN,
         todo' \in [Phases -> SUBSET Maintenances],
         UNCHANGED <<current, workVars, crashes>>, UNCHANGED saver,
         \A p \in Phases \ {"ping"} : current[p] # None => pc' = p,
         pc' = "ended" => stop'
  PROVE  LoopTypeOK' /\ SavesForVisit'
<1>1. LoopTypeOK'
  BY DEF ServiceInv, ServiceTypeOK, LoopTypeOK, workVars
<1>2. SavesForVisit'
  BY DEF ServiceInv, SavesForVisit, Awaited, workVars
<1> QED BY <1>1, <1>2

LEMMA BeginsKeeps ==
  ASSUME ServiceInv, NEW p \in Phases, Begins(p), p = "ping" \/ pc = p
  PROVE  LoopTypeOK' /\ SavesForVisit'
<1>1. PICK m \in todo[p] : /\ current' = [current EXCEPT ![p] = m]
                           /\ todo' = [todo EXCEPT ![p] = @ \ {m}]
                           /\ task' = Starting(Of(p), m)
  BY DEF Begins
<1>2. m \in Maintenances /\ m # None
  BY LoopAssumption DEF ServiceInv, ServiceTypeOK
<1>3. current'[p] = m /\ \A q \in Phases \ {p} : current'[q] = current[q]
  BY <1>1 DEF ServiceInv, ServiceTypeOK
<1>4. /\ UNCHANGED <<saver, stop, pc, left, crashes>> /\ current[p] = None
      /\ tries' = [c \in Calls |-> IF \E s \in Of(p) : SaverCall[s] = c THEN 0 ELSE tries[c]]
  BY DEF Begins, batchVars
<1>5. \A s \in Savers : task'[s] = IF s \in Of(p) \ left THEN m ELSE task[s]
  BY <1>1 DEF Starting
\* Nobody of the phase is at work, but those who were left behind.
<1>6. ASSUME NEW s \in Savers, s \in Of(p) \ left PROVE task[s] = None /\ saver[s] = None
  <2>1. task[s] = None
    BY <1>4, <1>6, Working DEF Of
  <2> QED BY <2>1 DEF ServiceInv, SavesForVisit
<1>7. LoopTypeOK'
  <2>1. task' \in [Savers -> Maintenances \cup {None}]
    BY <1>1, <1>2 DEF Starting, ServiceInv, ServiceTypeOK
  <2>2. tries' \in [Calls -> 0..Retries]
    BY <1>4, LoopAssumption DEF ServiceInv, ServiceTypeOK
  <2>3. todo' \in [Phases -> SUBSET Maintenances] /\ current' \in [Phases -> Maintenances \cup {None}]
    BY <1>1, <1>2 DEF ServiceInv, ServiceTypeOK
  <2>4. left' \subseteq {s \in Savers : task'[s] # None /\ SaverCall[s] # None}
    BY <1>4, <1>5 DEF ServiceInv, ServiceTypeOK
  <2> QED BY <1>4, <2>1, <2>2, <2>3, <2>4 DEF ServiceInv, ServiceTypeOK, LoopTypeOK
<1>8. SavesForVisit'
  <2>1. \A s \in Savers : saver'[s] # None => task'[s] # None /\ saver'[s].key = <<task'[s], SaverKind[s]>>
    BY <1>4, <1>5, <1>6 DEF ServiceInv, SavesForVisit
  <2>2. ASSUME NEW s \in Savers, task'[s] # None, s \notin left' PROVE task'[s] = current'[SaverPhase[s]]
    <3>1. CASE s \in Of(p)
      BY <1>3, <1>4, <1>5, <2>2, <3>1 DEF Of
    <3>2. CASE s \notin Of(p)
      BY <1>3, <1>4, <1>5, <2>2, <3>2, Working DEF Of
    <3> QED BY <3>1, <3>2
  <2>3. \A q \in Phases \ {"ping"} : current'[q] # None => pc' = q
    BY <1>3, <1>4 DEF ServiceInv, SavesForVisit
  <2> QED BY <2>1, <2>2, <2>3, <1>4 DEF ServiceInv, SavesForVisit, Awaited
<1> QED BY <1>7, <1>8

LEMMA DoneKeeps ==
  ASSUME ServiceInv, NEW p \in Phases, Done(p)
  PROVE  LoopTypeOK' /\ SavesForVisit'
<1>1. current' = [current EXCEPT ![p] = None] /\ Of(p) \cap Awaited = {}
      /\ UNCHANGED <<saver, stop, pc, todo, task, left, tries, crashes>>
  BY DEF Done, batchVars, workVars
<1>2. current'[p] = None /\ \A q \in Phases \ {p} : current'[q] = current[q]
  BY <1>1 DEF ServiceInv, ServiceTypeOK
<1>3. LoopTypeOK'
  BY <1>1 DEF ServiceInv, ServiceTypeOK, LoopTypeOK
<1>4. ASSUME NEW s \in Awaited PROVE SaverPhase[s] \in Phases \ {p}
  BY <1>1, Working DEF Of, Awaited
<1>5. Awaited' = Awaited
  BY <1>1 DEF Awaited
<1>6. SavesForVisit'
  BY <1>1, <1>2, <1>4, <1>5 DEF ServiceInv, SavesForVisit
<1> QED BY <1>3, <1>6

LEMMA EndOfTaskKeeps ==
  ASSUME ServiceInv, Abandons, pc' \in {"ended", "crashed"}, UNCHANGED stop, crashes' \in 0..MaxCrashes,
         pc' = "ended" => stop
  PROVE  LoopTypeOK' /\ SavesForVisit'
<1> DEFINE dropped == LoopSavers \cap Awaited
<1>1. /\ \A s \in Savers : task'[s] = IF s \in dropped THEN None ELSE task[s]
      /\ \A s \in Savers : saver'[s] = IF s \in dropped THEN None ELSE saver[s]
      /\ left' = left /\ tries' = tries
  BY DEF Abandons
<1>2. \A p \in Phases : current'[p] = IF p = "ping" THEN current[p] ELSE None
  BY DEF Abandons
<1>3. LoopTypeOK'
  <2>1. task' \in [Savers -> Maintenances \cup {None}]
    BY DEF Abandons, ServiceInv, ServiceTypeOK
  <2>2. left' \subseteq {s \in Savers : task'[s] # None /\ SaverCall[s] # None}
    BY <1>1 DEF ServiceInv, ServiceTypeOK, Awaited
  <2>3. todo' \in [Phases -> SUBSET Maintenances] /\ current' \in [Phases -> Maintenances \cup {None}]
    BY DEF Abandons, ServiceInv, ServiceTypeOK
  <2> QED BY <1>1, <2>1, <2>2, <2>3 DEF ServiceInv, ServiceTypeOK, LoopTypeOK
<1>4. ASSUME NEW s \in Savers, s \notin LoopSavers PROVE SaverPhase[s] = "ping" /\ "ping" \in Phases
  BY <1>4, LoopAssumption DEF LoopSavers, Of, Phases
<1>5. SavesForVisit'
  <2>1. \A s \in Savers : saver'[s] # None => task'[s] # None /\ saver'[s].key = <<task'[s], SaverKind[s]>>
    BY <1>1 DEF ServiceInv, SavesForVisit
  <2>2. ASSUME NEW s \in Savers, task'[s] # None, s \notin left' PROVE task'[s] = current'[SaverPhase[s]]
    <3>1. s \notin dropped /\ task'[s] = task[s] /\ s \in Awaited
      BY <1>1, <2>2 DEF Awaited
    <3>2. s \notin LoopSavers
      BY <3>1
    <3> QED BY <1>2, <1>4, <3>1, <3>2 DEF ServiceInv, SavesForVisit
  <2> QED BY <1>2, <2>1, <2>2 DEF SavesForVisit, Awaited
<1> QED BY <1>3, <1>5

\* A collector looks, ends or is done: the others are left alone.
LEMMA SaverStepKeeps ==
  ASSUME ServiceInv, NEW s \in Savers, task[s] # None, UNCHANGED <<stop, pc, todo, current, crashes>>,
         \/ \E r \in Results :
              saver' = [saver EXCEPT ![s] = [key |-> <<task[s], SaverKind[s]>>,
                items |-> r, saw |-> pointer[<<task[s], SaverKind[s]>>]]]
              /\ UNCHANGED workVars
         \/ saver' = [saver EXCEPT ![s] = None] /\ Ends(s)
         \/ saver[s] = None /\ saver' = saver /\ Ends(s)
  PROVE  LoopTypeOK' /\ SavesForVisit'
<1>1. saver \in [Savers -> Transaction \cup {None}] /\ task \in [Savers -> Maintenances \cup {None}]
  BY DEF ServiceInv, BatchInv, BatchTypeOK, ServiceTypeOK
<1>2. \A u \in Savers \ {s} : saver'[u] = saver[u] /\ task'[u] = task[u] /\ (u \in left' <=> u \in left)
  BY <1>1 DEF Ends, workVars
<1>3. /\ tries' = tries /\ task' \in [Savers -> Maintenances \cup {None}]
      /\ task'[s] \in {task[s], None}
      /\ task'[s] = None => s \notin left'
      /\ left' \subseteq left
      /\ task'[s] # None => left' = left
  BY <1>1 DEF Ends, workVars
<1>4. saver'[s] # None => task'[s] = task[s] /\ saver'[s].key = <<task[s], SaverKind[s]>>
  BY <1>1 DEF workVars
<1>5. LoopTypeOK'
  <2>1. left' \subseteq {u \in Savers : task'[u] # None /\ SaverCall[u] # None}
    BY <1>2, <1>3 DEF ServiceInv, ServiceTypeOK
  <2> QED BY <1>3, <2>1 DEF ServiceInv, ServiceTypeOK, LoopTypeOK
<1>6. SavesForVisit'
  <2>1. \A u \in Savers : saver'[u] # None => task'[u] # None /\ saver'[u].key = <<task'[u], SaverKind[u]>>
    BY <1>2, <1>4 DEF ServiceInv, SavesForVisit
  <2>2. \A u \in Savers : task'[u] # None /\ u \notin left' => task'[u] = current[SaverPhase[u]]
    BY <1>2, <1>3, Working
  <2> QED BY <2>1, <2>2 DEF ServiceInv, SavesForVisit, Awaited
<1> QED BY <1>5, <1>6

\* A task raises: those it leaves behind keep what they are at, and a collection that begins
\* again is for the maintenance that is visited.
LEMMA RaisesKeeps ==
  ASSUME ServiceInv, NEW s \in Savers, Raises(s)
  PROVE  LoopTypeOK' /\ SavesForVisit'
<1> DEFINE c == SaverCall[s]
           all == {t \in Savers : SaverCall[t] = c}
           others == (all \cap Awaited) \ {s}
           again == (all \ others) \ left
<1>1. /\ s \in Awaited /\ c # None /\ c \in Calls
      /\ saver' = [saver EXCEPT ![s] = None] /\ left' = left \cup others
      /\ UNCHANGED <<stop, pc, todo, current, crashes>>
  BY DEF Raises, Calls
<1>2. task[s] # None /\ s \notin left /\ task[s] \in Maintenances /\ current[SaverPhase[s]] = task[s]
  BY <1>1, Working DEF Awaited
<1>3. saver'[s] = None /\ \A t \in Savers \ {s} : saver'[t] = saver[t]
  BY <1>1 DEF ServiceInv, BatchInv, BatchTypeOK
<1>4. \/ /\ \A t \in Savers : task'[t] = IF t = s THEN None ELSE task[t]
         /\ task' = [task EXCEPT ![s] = None] /\ tries' = tries
      \/ /\ \A t \in Savers : task'[t] = IF t \in again THEN task[s] ELSE task[t]
         /\ task' = Starting(all \ others, task[s])
         /\ tries[c] < Retries /\ tries' = [tries EXCEPT ![c] = @ + 1]
  <2>1. CASE task' = [task EXCEPT ![s] = None] /\ tries' = tries
    BY <2>1 DEF ServiceInv, ServiceTypeOK
  <2>2. CASE /\ tries[c] < Retries /\ tries' = [tries EXCEPT ![c] = @ + 1]
             /\ task' = Starting(all \ others, task[s])
    BY <2>2 DEF Starting
  <2> QED BY <2>1, <2>2 DEF Raises
<1>5. \A t \in again : t = s \/ (task[t] = None /\ saver[t] = None)
  BY DEF Awaited, ServiceInv, SavesForVisit
<1>6. \A t \in again : SaverPhase[t] = SaverPhase[s]
  BY <1>1, LoopAssumption
<1>7. \A t \in left' : task[t] # None /\ SaverCall[t] # None /\ t \in Savers /\ t # s /\ t \notin again
  BY <1>1, <1>2 DEF ServiceInv, ServiceTypeOK, Awaited
<1> HIDE DEF again, others, all
<1>8. LoopTypeOK'
  <2>1. task' \in [Savers -> Maintenances \cup {None}]
    BY <1>2, <1>4 DEF Starting, ServiceInv, ServiceTypeOK
  <2>2. left' \subseteq {t \in Savers : task'[t] # None /\ SaverCall[t] # None}
    BY <1>4, <1>7
  <2>3. tries' \in [Calls -> 0..Retries]
    BY <1>1, <1>4, LoopAssumption DEF ServiceInv, ServiceTypeOK
  <2> QED BY <1>1, <2>1, <2>2, <2>3 DEF ServiceInv, ServiceTypeOK, LoopTypeOK
<1>9. SavesForVisit'
  <2>1. ASSUME NEW t \in Savers, saver'[t] # None
        PROVE  task'[t] # None /\ saver'[t].key = <<task'[t], SaverKind[t]>>
    BY <1>3, <1>4, <1>5, <2>1 DEF ServiceInv, SavesForVisit
  <2>2. ASSUME NEW t \in Savers, task'[t] # None, t \notin left'
        PROVE  task'[t] = current'[SaverPhase[t]]
    <3>1. CASE task'[t] = task[t] /\ task[t] # None
      BY <1>1, <2>2, <3>1, Working
    <3>2. CASE t \in again /\ task'[t] = task[s]
      BY <1>1, <1>2, <1>6, <3>2
    <3> QED BY <1>4, <2>2, <3>1, <3>2
  <2> QED BY <1>1, <2>1, <2>2 DEF ServiceInv, SavesForVisit, Awaited
<1> QED BY <1>8, <1>9

LEMMA TablesKeep ==
  ASSUME ServiceInv, BatchStep \/ UserStep, UNCHANGED loopVars
  PROVE  LoopTypeOK' /\ SavesForVisit'
<1>1. KeysStay
  <2>1. CASE UNCHANGED saver
    BY <2>1 DEF KeysStay
  <2>2. CASE CleanupDeletes
    <3>1. {k \in Keys : k[1] \in cleaner} \in SUBSET Keys
      OBVIOUS
    <3> QED BY <2>2, <3>1, LosesKeysStay DEF CleanupDeletes, Purge
  <2>3. CASE \E m \in Maintenances : DeleteMaintenance(m)
    <3>1. PICK m \in Maintenances : DeleteMaintenance(m)
      BY <2>3
    <3>2. {k \in Keys : k[1] \in {m}} \in SUBSET Keys
      OBVIOUS
    <3> QED BY <3>1, <3>2, LosesKeysStay DEF DeleteMaintenance, Purge
  <2> QED BY <2>1, <2>2, <2>3 DEF BatchStep, UserStep, CleanupSelects, CleanupOldBatches, BatchAges,
             CreateMaintenance, Resume, Pause, Ages, Sets
<1>2. UNCHANGED <<stop, pc, todo, current, task, left, tries, crashes>>
  BY DEF loopVars, workVars
<1>3. LoopTypeOK'
  BY <1>2 DEF ServiceInv, ServiceTypeOK, LoopTypeOK
<1>4. SavesForVisit'
  BY <1>1, <1>2 DEF ServiceInv, SavesForVisit, KeysStay, Awaited
<1> QED BY <1>3, <1>4

LEMMA StepService == ServiceInv /\ [ServiceNext]_serviceVars => ServiceInv'
<1> SUFFICES ASSUME ServiceInv, [ServiceNext]_serviceVars PROVE LoopTypeOK' /\ SavesForVisit'
  BY ServiceKeepsBatches DEF ServiceInv, ServiceTypeOK, BatchInv, LoopTypeOK
<1> USE DEF Phases
<1>1. CASE SetupJobs \/ Stop \/ Restarts
  <2>1. \A p \in Phases \ {"ping"} : current[p] # None => pc' = p
    BY <1>1 DEF SetupJobs, Stop, Restarts, StartsAgain, ServiceInv, SavesForVisit
  <2> QED BY <1>1, <2>1, MovesKeep
          DEF SetupJobs, Stop, Restarts, StartsAgain, Running, batchVars, ServiceInv, ServiceTypeOK, SavesForVisit
<1>2. CASE Cancelled \/ Crashes
  <2>1. crashes' \in 0..MaxCrashes
    BY <1>2, LoopAssumption DEF Cancelled, Crashes, ServiceInv, ServiceTypeOK
  <2> QED BY <1>2, <2>1, EndOfTaskKeeps DEF Cancelled, Crashes
<1>3. CASE \/ Wakes \/ RoundStarts \/ PhaseEnds("snmp", "api") \/ ClientPassStarts
           \/ PhaseEnds("client", "cooldown") \/ RoundFails \/ Cooled \/ LeavesLoop
  <2>1. /\ UNCHANGED <<current, workVars, crashes, saver, stop>>
        /\ pc' \in Running \cup {"ended"}
        /\ pc' = "ended" => stop
    BY <1>3 DEF Wakes, RoundStarts, PhaseEnds, ClientPassStarts, RoundFails, Cooled, LeavesLoop,
                LoopStep, Running, batchVars, Waits
  <2>2. todo' \in [Phases -> SUBSET Maintenances]
    BY <1>3 DEF Wakes, RoundStarts, PhaseEnds, ClientPassStarts, RoundFails, Cooled, LeavesLoop,
                LoopStep, Visits, Active, ServiceInv, ServiceTypeOK
  <2>3. \A p \in Phases \ {"ping"} : current[p] = None
    BY <1>3 DEF Wakes, RoundStarts, PhaseEnds, ClientPassStarts, RoundFails, Cooled, LeavesLoop,
                LoopStep, Waits, ServiceInv, SavesForVisit
  <2> QED BY <2>1, <2>2, <2>3, MovesKeep DEF ServiceInv, ServiceTypeOK
<1>4. CASE PingStarts
  <2>1. UNCHANGED <<stop, pc, current, workVars, crashes, saver>>
        /\ todo' \in [Phases -> SUBSET Maintenances]
    BY <1>4 DEF PingStarts, Visits, Active, batchVars, ServiceInv, ServiceTypeOK
  <2> QED BY <2>1, MovesKeep DEF ServiceInv, ServiceTypeOK, SavesForVisit
<1>5. CASE LoopPhase \/ PingStep
  <2>1. PICK p \in Phases : (Begins(p) /\ (p = "ping" \/ pc = p)) \/ Done(p)
    BY <1>5 DEF LoopPhase, PingStep
  <2> QED BY <2>1, BeginsKeeps, DoneKeeps
<1>6. CASE \E s \in Savers : Skips(s) \/ Looks(s)
  <2>1. PICK s \in Savers : Skips(s) \/ Looks(s)
    BY <1>6
  <2> QED BY <2>1, SaverStepKeeps DEF Skips, Looks, SaverReads, loopVars, batchVars
<1>7. CASE \E s \in Savers : Saved(s) \/ Unsaved(s)
  <2>1. PICK s \in Savers : Saved(s) \/ Unsaved(s)
    BY <1>7
  <2>2. saver[s] # None /\ saver' = [saver EXCEPT ![s] = None] /\ SaveEnds(s)
    BY <2>1 DEF Saved, Unsaved, SaverCommits, SaverFails
  <2>3. task[s] # None
    BY <2>2 DEF ServiceInv, SavesForVisit
  <2> QED BY <2>2, <2>3, SaverStepKeeps DEF SaveEnds
<1>8. CASE (BatchStep \/ UserStep) /\ UNCHANGED loopVars
  BY <1>8, TablesKeep
<1>9. CASE UNCHANGED serviceVars
  <2>1. UNCHANGED <<stop, pc, todo, current, workVars, crashes, saver>>
    BY <1>9 DEF serviceVars, loopVars, batchVars
  <2> QED BY <2>1, MovesKeep DEF ServiceInv, ServiceTypeOK, SavesForVisit
<1>10. CASE \E s \in Savers : Raises(s)
  BY <1>10, RaisesKeeps
<1> QED BY <1>1, <1>2, <1>3, <1>4, <1>5, <1>6, <1>7, <1>8, <1>9, <1>10 DEF ServiceNext

\* The inductive invariant of the loop, the ping job, their collectors and the tables.
THEOREM ServiceInvariant == ServiceSpec => []ServiceInv
<1> QED BY InitService, StepService, PTL DEF ServiceSpec

\* Collectors save for the maintenance their phase visits, while the round is in that phase,
\* and the loop ends by stop() only, whatever crashes and fails; beside them work only tasks
\* of API collections that raised, which finish what they began (SavesForVisit).
THEOREM VisitsInOrder == ServiceSpec => []SavesForVisit
<1>1. ServiceInv => SavesForVisit
  BY DEF ServiceInv
<1> QED BY <1>1, ServiceInvariant, PTL

\* The safety half of StopIsFinal: a loop that was stopped stays so and does not come back
\* once it has ended.  Then none of its collectors begins anything: at work are only tasks
\* that a gather left behind before, each for the maintenance it was begun for.
Retired == \A s \in LoopSavers : task'[s] # None => s \in left' /\ task'[s] = task[s]
THEOREM StopStays ==
  ServiceSpec => [][stop => stop' /\ (pc = "ended" => pc' = "ended" /\ Retired)]_serviceVars
<1>1. ASSUME ServiceInv, ServiceNext, stop
      PROVE  stop' /\ (pc = "ended" => pc' = "ended" /\ \A s \in LoopSavers : task'[s] \in {task[s], None})
  <2>1. CASE SetupJobs \/ Stop \/ Restarts \/ Cancelled \/ Crashes
    BY <1>1, <2>1 DEF SetupJobs, Stop, Restarts, Cancelled, Crashes, StartsAgain, Alive, Running
  <2>2. CASE \/ Wakes \/ RoundStarts \/ PhaseEnds("snmp", "api") \/ ClientPassStarts
             \/ PhaseEnds("client", "cooldown") \/ RoundFails \/ Cooled \/ LeavesLoop
    BY <1>1, <2>2 DEF Wakes, RoundStarts, PhaseEnds, ClientPassStarts, RoundFails, Cooled,
                      LeavesLoop, LoopStep, Waits
  <2>3. CASE LoopPhase \/ PingStarts \/ PingStep
    <3>1. stop' /\ pc' = pc
      BY <1>1, <2>3 DEF LoopPhase, PingStarts, PingStep, Begins, Done
    <3>2. pc = "ended" => PingStarts \/ Begins("ping") \/ Done("ping")
      BY <2>3 DEF LoopPhase, PingStep
    <3>3. \A s \in LoopSavers : s \in Savers /\ s \notin Of("ping")
      BY DEF LoopSavers, Of
    <3>4. pc = "ended" => \A s \in LoopSavers : task'[s] = task[s]
      BY <3>2, <3>3 DEF PingStarts, Begins, Done, Starting, workVars
    <3> QED BY <3>1, <3>4
  <2>4. CASE \E s \in Savers : Skips(s) \/ Looks(s) \/ Saved(s) \/ Unsaved(s)
    <3>1. PICK s \in Savers : Skips(s) \/ Looks(s) \/ Saved(s) \/ Unsaved(s)
      BY <2>4
    <3>2. stop' /\ pc' = pc /\ (task' = task \/ task' = [task EXCEPT ![s] = None])
      BY <1>1, <3>1 DEF Skips, Looks, Saved, Unsaved, SaveEnds, Ends, loopVars, workVars
    <3>3. \A t \in Savers : task'[t] \in {task[t], None}
      BY <1>1, <3>2 DEF ServiceInv, ServiceTypeOK
    <3> QED BY <3>2, <3>3 DEF LoopSavers, Of
  <2>5. CASE (BatchStep \/ UserStep) /\ UNCHANGED loopVars
    BY <1>1, <2>5 DEF loopVars, workVars
  <2>6. CASE \E s \in Savers : Raises(s)
    <3>1. PICK s \in Savers : Raises(s)
      BY <2>6
    <3>2. s \in Awaited /\ SaverPhase[s] \in {"snmp", "api"} /\ UNCHANGED <<stop, pc>>
      BY <3>1, LoopAssumption DEF Raises
    <3>3. current[SaverPhase[s]] # None
      BY <1>1, <3>2 DEF ServiceInv, SavesForVisit, Awaited
    <3>4. pc = SaverPhase[s]
      BY <1>1, <3>2, <3>3 DEF ServiceInv, SavesForVisit, Phases
    <3> QED BY <1>1, <3>2, <3>4
  <2> QED BY <1>1, <2>1, <2>2, <2>3, <2>4, <2>5, <2>6 DEF ServiceNext
<1>2. ASSUME ServiceInv', pc' = "ended", NEW s \in LoopSavers, task'[s] # None PROVE s \in left'
  <2>1. SaverPhase[s] \in Phases \ {"ping"} /\ s \in Savers
    BY DEF LoopSavers, Of, Phases
  <2>2. current'[SaverPhase[s]] = None
    BY <1>2, <2>1 DEF ServiceInv, SavesForVisit, Phases
  <2> QED BY <1>2, <2>1, <2>2 DEF ServiceInv, SavesForVisit, Awaited
<1>3. ServiceInv /\ ServiceInv' /\ [ServiceNext]_serviceVars =>
        [stop => stop' /\ (pc = "ended" => pc' = "ended" /\ Retired)]_serviceVars
  BY <1>1, <1>2 DEF Retired
<1> QED BY <1>3, ServiceInvariant, PTL DEF ServiceSpec

\* The loop and the ping job, with their crashes and cancellations, leave pointers with their
\* batches as collectors on their own do (CurrentHasBatch).
THEOREM ServiceBatches == ServiceSpec => []CurrentHasBatch
<1>1. ServiceInv => CurrentHasBatch
  BY DEF ServiceInv, BatchInv
<1> QED BY <1>1, ServiceInvariant, PTL

\* And what readers see under the running loop is CurrentView (ShowsCurrentView).
THEOREM ServiceShowsCurrentView == ServiceSpec => ShowsCurrentView
<1>1. ServiceInit => View!ViewInit
  BY DEF ServiceInit, BatchInit, View!ViewInit, CurrentRows
<1>2. ServiceInv /\ [ServiceNext]_serviceVars => [View!ViewNext]_CurrentRows
  BY ServiceKeepsBatches
<1> QED BY <1>1, <1>2, ServiceInvariant, PTL DEF ServiceSpec, ShowsCurrentView, View!ViewSpec
=============================================================================
