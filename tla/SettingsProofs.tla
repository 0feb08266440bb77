--------------------------- MODULE SettingsProofs ---------------------------
(***************************************************************************)
(* Theorems about the tables that users edit (ThresholdCache, Accounts,    *)
(* DeviceList, Expectations, Plans, ClientCategories and Contacts), for    *)
(* any number of callers, rows, names and lines.                           *)
(*                                                                         *)
(* A table that is checked in one statement and written in another keeps   *)
(* its property only as long as what was checked still holds, so each      *)
(* inductive invariant says what a call between the two still knows: what  *)
(* it saw is still what is stored, what it asks for is still free, unless  *)
(* another has committed since, and then the call is marked.  The two      *)
(* tables that are checked and written in one step need what is stored to  *)
(* be in the form that the checks compare.  An import of contacts needs    *)
(* what it knows after each of its lines.                                  *)
(***************************************************************************)
EXTENDS ThresholdCache, Accounts, DeviceList, Plans, ClientCategories, Contacts,
        FiniteSetTheorems, SequenceTheorems, WellFoundedInduction, TLAPS

-----------------------------------------------------------------------------
(* Thresholds. *)

\* While nothing has set cache and row apart, one call is in flight at most, and it has
\* the row that is stored; what an update has still to write is in the cache already.
LoadInStep(r) == r.op = "load" => r.saw = stored /\ InForce
UpdateInStep(r) ==
  r.op = "update" =>
    /\ r.mine
    /\ r.step = "called" => cache = AsCache(stored)
    /\ r.step = "read" => r.saw = stored /\ cache = Overridden(AsCache(stored), r.sent)
ResetInStep(r) ==
  r.op = "reset" => cache = Plain /\ r.sent = Plain /\ (r.step = "read" => r.saw = stored)

CleanInStep ==
  clean =>
    /\ AtRest => InForce
    /\ \A c \in Requests : Busy(c) =>
         Alone(c) /\ LoadInStep(request[c]) /\ UpdateInStep(request[c]) /\ ResetInStep(request[c])

\* What a call has seen stays as long as it is in flight: the dictionary that an update
\* makes until the process restarts, a row for ever.
SeenStays ==
  \A c \in Requests : Busy(c) =>
    /\ request[c].op = "update" => cache # NoRow
    /\ request[c].saw # NoRow => stored # NoRow

ThresholdInv == ThresholdTypeOK /\ SeenStays /\ CleanInStep

LEMMA ValuesLemma ==
  /\ NoRow \notin Values
  /\ Plain \in Values
  /\ \A v \in Values : AsCache(v) = v
  /\ AsCache(NoRow) = Plain
  /\ \A row \in Values \cup {NoRow} : AsCache(row) \in Values
<1>1. NoRow \notin Values
  <2>1. DOMAIN NoRow = {}
    BY DEF NoRow
  <2>2. \A v \in Values : DOMAIN v = Fields
    BY DEF Values
  <2> QED BY <2>1, <2>2 DEF Fields
<1>2. Plain \in Values
  BY DEF Plain, Values
<1> QED BY <1>1, <1>2 DEF AsCache

LEMMA SendableLemma ==
  ASSUME NEW u \in Sendable
  PROVE  /\ DOMAIN u \subseteq Fields
         /\ \A f \in DOMAIN u : u[f] \in Overrides \cup {Default}
BY DEF Sendable

LEMMA OverriddenLemma ==
  ASSUME NEW old \in Values, NEW u, DOMAIN u \subseteq Fields,
         \A f \in DOMAIN u : u[f] \in Overrides \cup {Default}
  PROVE  Overridden(old, u) \in Values
BY DEF Overridden, Values

\* What a call may send names fields, and values for them.
LEMMA SentLemma ==
  ASSUME NEW u \in Sendable \cup {NoRow}
  PROVE  /\ DOMAIN u \subseteq Fields
         /\ \A f \in DOMAIN u : u[f] \in Overrides \cup {Default}
BY SendableLemma DEF NoRow

LEMMA PlainIsSendable == Plain \in Sendable
<1>1. Plain \in [Fields -> Overrides \cup {Default}] /\ Fields \in (SUBSET Fields) \ {{}}
  BY DEF Plain, Fields
<1>2. Plain["min"] = Default
  BY DEF Plain, Fields
<1> QED BY <1>1, <1>2 DEF Sendable

\* A step adds a well-typed call, or changes the step of one.
LEMMA CallLemma ==
  ASSUME NEW op \in {"load", "update", "reset"}, NEW u \in Sendable \cup {NoRow}
  PROVE  /\ Call(op, u) \in Request
         /\ Call(op, u).op = op /\ Call(op, u).step = "called" /\ Call(op, u).sent = u
         /\ Call(op, u).saw = NoRow /\ Call(op, u).mine = TRUE
BY DEF Call, Request

LEMMA RequestLemma ==
  ASSUME NEW r \in Request
  PROVE  /\ r.op \in {"load", "update", "reset"} /\ r.step \in {"called", "read"}
         /\ r.saw \in Values \cup {NoRow} /\ r.sent \in Sendable \cup {NoRow}
         /\ r.mine \in BOOLEAN
BY DEF Request

Disowned(r) == [r EXCEPT !.mine = FALSE]
LEMMA DisownedLemma ==
  ASSUME NEW r \in Request
  PROVE  /\ Disowned(r) \in Request
         /\ Disowned(r).op = r.op /\ Disowned(r).step = r.step
         /\ Disowned(r).saw = r.saw /\ Disowned(r).sent = r.sent
BY Zenon DEF Disowned, Request

HasRead(r, v) == [[r EXCEPT !.step = "read"] EXCEPT !.saw = v]
LEMMA HasReadLemma ==
  ASSUME NEW r \in Request, NEW v \in Values \cup {NoRow}
  PROVE  /\ HasRead(r, v) \in Request
         /\ HasRead(r, v).op = r.op /\ HasRead(r, v).step = "read" /\ HasRead(r, v).saw = v
         /\ HasRead(r, v).sent = r.sent /\ HasRead(r, v).mine = r.mine
BY Zenon DEF HasRead, Request

LEMMA ReadStepLemma ==
  ASSUME NEW c \in Requests, NEW v, request \in [Requests -> Request \cup {NoRequest}]
  PROVE  LET q == [request EXCEPT ![c].step = "read", ![c].saw = v] IN
         /\ q[c] = HasRead(request[c], v)
         /\ \A d \in Requests \ {c} : q[d] = request[d]
         /\ q = [d \in Requests |-> IF d = c THEN HasRead(request[c], v) ELSE request[d]]
BY Zenon DEF HasRead

LEMMA NoRequestLemma == NoRequest.op = "none" /\ NoRequest \notin Request
BY DEF NoRequest, Request

LEMMA ThresholdInitInv == ThresholdInit => ThresholdInv
BY DEF ThresholdInit, ThresholdInv, ThresholdTypeOK, SeenStays, CleanInStep, InForce,
       Busy, NoRequest

\* What every step but a crossing one has to keep: c is the only call in flight.
LEMMA OnlyCall ==
  ASSUME NEW c \in Requests, Alone(c)', request' \in [Requests -> Request \cup {NoRequest}],
         request'[c] # NoRequest,
         LoadInStep(request[c])', UpdateInStep(request[c])', ResetInStep(request[c])'
  PROVE  CleanInStep'
<1>1. \A d \in Requests : Busy(d)' => d = c
  BY DEF Alone
<1>2. Busy(c)'
  BY DEF Busy
<1> QED BY <1>1, <1>2 DEF CleanInStep, AtRest

LEMMA LoadReadsKeeps ==
  ASSUME ThresholdInv, NEW c \in Requests, LoadReads(c)
  PROVE  ThresholdInv'
<1> DEFINE r == [Call("load", NoRow) EXCEPT !.step = "read", !.saw = stored]
<1>1. r = HasRead(Call("load", NoRow), stored)
  BY Zenon DEF HasRead
<1>2. Call("load", NoRow) \in Request /\ Call("load", NoRow).op = "load"
  BY CallLemma
<1>3. r \in Request /\ r.op = "load" /\ r.saw = stored
  BY <1>1, <1>2, HasReadLemma DEF ThresholdInv, ThresholdTypeOK
<1>4. /\ request' = [request EXCEPT ![c] = r] /\ clean' = (clean /\ Alone(c))
      /\ UNCHANGED <<stored, cache>> /\ ~Busy(c)
  BY DEF LoadReads
<1> HIDE DEF r
<1>5. ThresholdTypeOK'
  BY <1>3, <1>4 DEF ThresholdInv, ThresholdTypeOK
<1>6. CleanInStep'
  <2> SUFFICES ASSUME clean' PROVE CleanInStep'
    BY DEF CleanInStep
  <2>1. clean /\ AtRest /\ InForce /\ Alone(c)
    BY <1>4 DEF AtRest, Alone, ThresholdInv, CleanInStep
  <2>2. request'[c] = r /\ \A d \in Requests \ {c} : request'[d] = request[d]
    BY <1>4 DEF ThresholdInv, ThresholdTypeOK
  <2>3. Alone(c)' /\ InForce' /\ r # NoRequest
    BY <2>1, <2>2, <1>3, <1>4, NoRequestLemma DEF Alone, Busy, InForce
  <2>4. LoadInStep(request[c])' /\ UpdateInStep(request[c])' /\ ResetInStep(request[c])'
    BY <2>2, <2>3, <1>3, <1>4 DEF LoadInStep, UpdateInStep, ResetInStep
  <2> QED BY <2>2, <2>3, <2>4, <1>5, OnlyCall DEF ThresholdTypeOK
<1>7. SeenStays'
  BY <1>3, <1>4 DEF ThresholdInv, ThresholdTypeOK, SeenStays, Busy
<1> QED BY <1>5, <1>6, <1>7 DEF ThresholdInv

\* The call of c ends; nothing is said of the others but that they are in flight or not.
LEMMA CallEnds ==
  ASSUME ThresholdInv, NEW c \in Requests, Alone(c), request'[c] = NoRequest,
         \A d \in Requests \ {c} : request'[d] = NoRequest <=> request[d] = NoRequest
  PROVE  /\ AtRest'
         /\ InForce' => CleanInStep'
BY DEF CleanInStep, AtRest, Busy, Alone

LEMMA LoadSetsKeeps ==
  ASSUME ThresholdInv, NEW c \in Requests, LoadSets(c)
  PROVE  ThresholdInv'
<1>1. request[c] \in Request /\ request[c].op = "load"
  BY NoRequestLemma DEF LoadSets, ThresholdInv, ThresholdTypeOK
<1>2. cache' = AsCache(request[c].saw) /\ cache' \in Values /\ UNCHANGED stored
  BY <1>1, RequestLemma, ValuesLemma DEF LoadSets
<1>3. /\ request'[c] = NoRequest
      /\ \A d \in Requests \ {c} : request'[d] = IF request[d] = NoRequest THEN NoRequest
                                              ELSE Disowned(request[d])
      /\ request' = [d \in Requests |-> IF d = c \/ request[d] = NoRequest THEN NoRequest
                                       ELSE Disowned(request[d])]
  BY DEF LoadSets, Orphaned, ThresholdInv, ThresholdTypeOK, Disowned
<1>4. ThresholdTypeOK'
  <2>1. \A d \in Requests : request[d] # NoRequest => Disowned(request[d]) \in Request
    BY DisownedLemma DEF ThresholdInv, ThresholdTypeOK
  <2>2. request' \in [Requests -> Request \cup {NoRequest}]
    BY <1>3, <2>1
  <2>3. clean' \in BOOLEAN
    BY DEF LoadSets, ThresholdInv, ThresholdTypeOK
  <2> QED BY <1>2, <2>2, <2>3 DEF ThresholdInv, ThresholdTypeOK
<1>5. CleanInStep'
  <2> SUFFICES ASSUME clean' PROVE CleanInStep'
    BY DEF CleanInStep
  <2>1. request[c].saw = stored /\ Alone(c)
    BY <1>1, NoRequestLemma DEF LoadSets, ThresholdInv, CleanInStep, Busy, LoadInStep
  <2>2. InForce'
    BY <2>1, <1>2 DEF InForce
  <2>3. \A d \in Requests \ {c} : request'[d] = NoRequest <=> request[d] = NoRequest
    BY <2>1, <1>3 DEF Alone, Busy
  <2> QED BY <2>1, <2>2, <2>3, <1>3, CallEnds
<1>6. SeenStays'
  BY <1>2, <1>3, DisownedLemma, ValuesLemma DEF SeenStays, Busy, ThresholdInv, ThresholdTypeOK
<1> QED BY <1>4, <1>5, <1>6 DEF ThresholdInv

LEMMA UpdateCalledKeeps ==
  ASSUME ThresholdInv, NEW c \in Requests, NEW u \in Sendable, UpdateCalled(c, u)
  PROVE  ThresholdInv'
<1> DEFINE r == Call("update", u)
<1>1. /\ r \in Request /\ r.op = "update" /\ r.step = "called" /\ r.mine = TRUE
      /\ r # NoRequest
  BY CallLemma, NoRequestLemma
<1>2. /\ request' = [request EXCEPT ![c] = r] /\ cache' = AsCache(cache) /\ UNCHANGED stored
      /\ clean' = (clean /\ Alone(c) /\ (cache = NoRow => stored = NoRow)) /\ ~Busy(c)
  BY DEF UpdateCalled
<1> HIDE DEF r
<1>3. cache' \in Values /\ cache' # NoRow
  BY <1>2, ValuesLemma DEF ThresholdInv, ThresholdTypeOK
<1>4. ThresholdTypeOK'
  BY <1>1, <1>2, <1>3 DEF ThresholdInv, ThresholdTypeOK
<1>5. CleanInStep'
  <2> SUFFICES ASSUME clean' PROVE CleanInStep'
    BY DEF CleanInStep
  <2>1. InForce /\ Alone(c) /\ (cache = NoRow => stored = NoRow)
    BY <1>2 DEF AtRest, Alone, ThresholdInv, CleanInStep
  <2>2. request'[c] = r /\ \A d \in Requests \ {c} : request'[d] = request[d]
    BY <1>2 DEF ThresholdInv, ThresholdTypeOK
  <2>3. Alone(c)'
    BY <2>1, <2>2 DEF Alone, Busy
  <2>4. cache' = AsCache(stored)
    <3>1. CASE cache = NoRow
      BY <3>1, <2>1, <1>2
    <3>2. CASE cache # NoRow
      BY <3>2, <2>1, <1>2, ValuesLemma DEF InForce, ThresholdInv, ThresholdTypeOK
    <3> QED BY <3>1, <3>2
  <2>5. LoadInStep(request[c])' /\ UpdateInStep(request[c])' /\ ResetInStep(request[c])'
    BY <2>2, <2>4, <1>1, <1>2, <1>3 DEF LoadInStep, UpdateInStep, ResetInStep
  <2> QED BY <1>1, <2>2, <2>3, <2>5, <1>4, OnlyCall DEF ThresholdTypeOK
<1>6. SeenStays'
  BY <1>1, <1>2, <1>3, CallLemma DEF SeenStays, Busy, ThresholdInv, ThresholdTypeOK, r
<1> QED BY <1>4, <1>5, <1>6 DEF ThresholdInv

\* A call that is alone keeps the invariant when it keeps to what is said of its kind.
LEMMA GoesOnAlone ==
  ASSUME ThresholdInv, ThresholdTypeOK', SeenStays', NEW c \in Requests, Busy(c), Busy(c)',
         \A d \in Requests \ {c} : request'[d] = request[d],
         clean' = clean,
         clean /\ Alone(c) /\ LoadInStep(request[c]) /\ UpdateInStep(request[c])
           /\ ResetInStep(request[c])
           => LoadInStep(request[c])' /\ UpdateInStep(request[c])' /\ ResetInStep(request[c])'
  PROVE  ThresholdInv'
<1> SUFFICES ASSUME clean PROVE CleanInStep'
  BY DEF ThresholdInv, CleanInStep
<1>1. Alone(c) /\ LoadInStep(request[c]) /\ UpdateInStep(request[c]) /\ ResetInStep(request[c])
  BY DEF ThresholdInv, CleanInStep
<1>2. Alone(c)'
  BY <1>1 DEF Alone, Busy
<1>3. request' \in [Requests -> Request \cup {NoRequest}] /\ request'[c] # NoRequest
  BY DEF ThresholdTypeOK, Busy
<1> QED BY <1>1, <1>2, <1>3, OnlyCall

LEMMA UpdateReadsKeeps ==
  ASSUME ThresholdInv, NEW c \in Requests, UpdateReads(c)
  PROVE  ThresholdInv'
<1> DEFINE r == request[c]
           q == HasRead(r, stored)
<1>1. r \in Request /\ r.op = "update" /\ r.step = "called"
  BY NoRequestLemma DEF UpdateReads, ThresholdInv, ThresholdTypeOK
<1>2. /\ q \in Request /\ q # NoRequest /\ q.op = "update" /\ q.step = "read" /\ q.saw = stored
      /\ q.sent = r.sent /\ q.mine = r.mine
  BY <1>1, HasReadLemma, NoRequestLemma DEF ThresholdInv, ThresholdTypeOK
<1>3. /\ request' = [request EXCEPT ![c].step = "read", ![c].saw = stored]
      /\ cache' = IF r.mine THEN Overridden(cache, r.sent) ELSE cache
      /\ stored' = stored /\ clean' = clean
  BY DEF UpdateReads
<1>4. /\ request'[c] = q
      /\ \A d \in Requests \ {c} : request'[d] = request[d]
      /\ request' = [d \in Requests |-> IF d = c THEN q ELSE request[d]]
  BY <1>3, ReadStepLemma DEF ThresholdInv, ThresholdTypeOK
<1> HIDE DEF q
<1>5. cache \in Values
  BY <1>1, NoRequestLemma DEF ThresholdInv, SeenStays, Busy, ThresholdTypeOK
<1>6. Overridden(cache, r.sent) \in Values
  BY <1>1, <1>5, RequestLemma, SentLemma, OverriddenLemma
<1>7. ThresholdTypeOK' /\ SeenStays'
  BY <1>1, <1>2, <1>3, <1>4, <1>5, <1>6, ValuesLemma, NoRequestLemma
     DEF ThresholdInv, ThresholdTypeOK, SeenStays, Busy
<1>8. UpdateInStep(r) => LoadInStep(request[c])' /\ UpdateInStep(request[c])' /\ ResetInStep(request[c])'
  <2>1. UpdateInStep(r) => r.mine /\ cache = AsCache(stored)
    BY <1>1 DEF UpdateInStep
  <2> QED BY <2>1, <1>2, <1>3, <1>4 DEF LoadInStep, UpdateInStep, ResetInStep
<1>9. Busy(c) /\ Busy(c)'
  BY <1>1, <1>2, <1>4, NoRequestLemma DEF Busy
<1> QED BY <1>3, <1>4, <1>7, <1>8, <1>9, GoesOnAlone

LEMMA ResetCalledKeeps ==
  ASSUME ThresholdInv, NEW c \in Requests, ResetCalled(c)
  PROVE  ThresholdInv'
<1> DEFINE r == Call("reset", Plain)
<1>1. /\ r \in Request /\ r.op = "reset" /\ r.step = "called" /\ r.sent = Plain
      /\ r.saw = NoRow /\ r # NoRequest
  <2>1. Plain \in Sendable \cup {NoRow}
    BY PlainIsSendable
  <2>2. r \in Request
    BY <2>1 DEF Call, Request
  <2> QED BY <2>2, NoRequestLemma DEF Call
<1>2. /\ request' = [Orphaned(request) EXCEPT ![c] = r] /\ cache' = Plain /\ UNCHANGED stored
      /\ clean' = (clean /\ Alone(c)) /\ ~Busy(c)
  BY DEF ResetCalled
<1> HIDE DEF r
<1>3. /\ request'[c] = r
      /\ \A d \in Requests \ {c} : request'[d] = IF request[d] = NoRequest THEN NoRequest
                                              ELSE Disowned(request[d])
      /\ request' = [d \in Requests |-> IF d = c THEN r
                       ELSE IF request[d] = NoRequest THEN NoRequest ELSE Disowned(request[d])]
  BY <1>2, Zenon DEF Orphaned, Disowned
<1>4. ThresholdTypeOK'
  <2>1. \A d \in Requests : request[d] # NoRequest => Disowned(request[d]) \in Request
    BY DisownedLemma DEF ThresholdInv, ThresholdTypeOK
  <2>2. request' \in [Requests -> Request \cup {NoRequest}]
    BY <1>1, <1>3, <2>1
  <2> QED BY <1>2, <2>2, ValuesLemma DEF ThresholdInv, ThresholdTypeOK
<1>5. SeenStays'
  <2>1. \A d \in Requests \ {c} : Busy(d)' =>
          /\ Busy(d) /\ request'[d].op = request[d].op /\ request'[d].saw = request[d].saw
    BY <1>3, DisownedLemma DEF Busy, ThresholdInv, ThresholdTypeOK
  <2> QED BY <1>1, <1>2, <1>3, <2>1, ValuesLemma DEF SeenStays, ThresholdInv
<1>6. CleanInStep'
  <2> SUFFICES ASSUME clean' PROVE CleanInStep'
    BY DEF CleanInStep
  <2>1. Alone(c)'
    BY <1>2, <1>3 DEF Alone, Busy
  <2>2. LoadInStep(request[c])' /\ UpdateInStep(request[c])' /\ ResetInStep(request[c])'
    BY <1>1, <1>2, <1>3 DEF LoadInStep, UpdateInStep, ResetInStep
  <2> QED BY <1>1, <1>3, <1>4, <2>1, <2>2, OnlyCall DEF ThresholdTypeOK
<1> QED BY <1>4, <1>5, <1>6 DEF ThresholdInv

LEMMA RowReadByKeeps ==
  ASSUME ThresholdInv, NEW c \in Requests, RowReadBy(c)
  PROVE  ThresholdInv'
<1> DEFINE r == request[c]
           q == HasRead(r, stored)
<1>1. r \in Request /\ r.op = "reset" /\ r.step = "called"
  BY NoRequestLemma DEF RowReadBy, ThresholdInv, ThresholdTypeOK
<1>2. /\ q \in Request /\ q # NoRequest /\ q.op = "reset" /\ q.step = "read" /\ q.saw = stored
      /\ q.sent = r.sent
  BY <1>1, HasReadLemma, NoRequestLemma DEF ThresholdInv, ThresholdTypeOK
<1>3. /\ request' = [request EXCEPT ![c].step = "read", ![c].saw = stored]
      /\ cache' = cache /\ stored' = stored /\ clean' = clean
  BY DEF RowReadBy
<1>4. /\ request'[c] = q
      /\ \A d \in Requests \ {c} : request'[d] = request[d]
      /\ request' = [d \in Requests |-> IF d = c THEN q ELSE request[d]]
  BY <1>3, ReadStepLemma DEF ThresholdInv, ThresholdTypeOK
<1> HIDE DEF q
<1>5. ThresholdTypeOK' /\ SeenStays'
  BY <1>1, <1>2, <1>3, <1>4, NoRequestLemma DEF ThresholdInv, ThresholdTypeOK, SeenStays, Busy
<1>6. ResetInStep(r) => LoadInStep(request[c])' /\ UpdateInStep(request[c])' /\ ResetInStep(request[c])'
  BY <1>1, <1>2, <1>3, <1>4 DEF LoadInStep, UpdateInStep, ResetInStep
<1>7. Busy(c) /\ Busy(c)'
  BY <1>1, <1>2, <1>4, NoRequestLemma DEF Busy
<1> QED BY <1>3, <1>4, <1>5, <1>6, <1>7, GoesOnAlone

\* The columns written and those left are the override of the row, when the row that was
\* read is the one there is.
LEMMA WrittenLemma ==
  ASSUME NEW row \in Values, NEW u, DOMAIN u \subseteq Fields
  PROVE  [f \in Fields |-> IF f \in {g \in DOMAIN u : row[g] # u[g]} THEN u[f] ELSE row[f]]
           = Overridden(row, u)
BY DEF Overridden, Values

LEMMA CommitsStores ==
  ASSUME NEW c \in Requests, Commits(c)
  PROVE  LET r == request[c] IN
         /\ r.saw = NoRow /\ r.op = "reset" => stored' = stored
         /\ r.saw = NoRow /\ r.op = "update" => stored' = Overridden(Plain, r.sent)
         /\ r.saw # NoRow =>
              stored' = [f \in Fields |-> IF f \in Assigned(r) THEN r.sent[f] ELSE stored[f]]
<1> DEFINE r == request[c]
<1>1. ASSUME r.saw = NoRow, r.op = "reset" PROVE stored' = stored
  BY <1>1, Zenon DEF Commits
<1>2. ASSUME r.saw = NoRow, r.op = "update" PROVE stored' = Overridden(Plain, r.sent)
  BY <1>2, Zenon DEF Commits
<1>3. ASSUME r.saw # NoRow
      PROVE  stored' = [f \in Fields |-> IF f \in Assigned(r) THEN r.sent[f] ELSE stored[f]]
  BY <1>3, Zenon DEF Commits
<1> QED BY <1>1, <1>2, <1>3

\* A clean commit: the row becomes what the cache holds already.
LEMMA CommitsClean ==
  ASSUME ThresholdInv, NEW c \in Requests, Commits(c), clean
  PROVE  InForce' /\ Alone(c)
<1> DEFINE r == request[c]
<1>1. r \in Request /\ r.op \in {"update", "reset"} /\ r.step = "read" /\ cache' = cache
  BY NoRequestLemma DEF Commits, ThresholdInv, ThresholdTypeOK
<1>2. Alone(c) /\ UpdateInStep(r) /\ ResetInStep(r)
  BY <1>1, NoRequestLemma DEF ThresholdInv, CleanInStep, Busy
<1>3. r.saw = stored
  BY <1>1, <1>2 DEF UpdateInStep, ResetInStep
<1>4. r.sent \in Sendable \cup {NoRow}
  BY <1>1, RequestLemma
<1>5. CASE r.op = "reset" /\ stored = NoRow
  BY <1>1, <1>2, <1>3, <1>5, CommitsStores, ValuesLemma DEF ResetInStep, InForce
<1>6. CASE r.op = "reset" /\ stored # NoRow
  <2>1. r.sent = Plain /\ cache = Plain /\ stored \in Values
    BY <1>2, <1>6 DEF ResetInStep, ThresholdInv, ThresholdTypeOK
  <2>2. stored' = Overridden(stored, Plain)
    BY <1>1, <1>3, <1>4, <1>6, <2>1, SentLemma, WrittenLemma, CommitsStores DEF Assigned
  <2>3. Overridden(stored, Plain) = Plain
    BY DEF Overridden, Plain
  <2> QED BY <1>1, <1>2, <2>1, <2>2, <2>3, ValuesLemma DEF InForce
<1>7. CASE r.op = "update" /\ stored = NoRow
  <2>1. stored' = Overridden(Plain, r.sent) /\ cache = Overridden(Plain, r.sent)
    BY <1>1, <1>2, <1>3, <1>7, ValuesLemma, CommitsStores DEF UpdateInStep
  <2>2. stored' \in Values
    BY <1>4, <2>1, SentLemma, OverriddenLemma, ValuesLemma
  <2> QED BY <1>1, <1>2, <2>1, <2>2, ValuesLemma DEF InForce
<1>8. CASE r.op = "update" /\ stored # NoRow
  <2>1. stored \in Values
    BY <1>8 DEF ThresholdInv, ThresholdTypeOK
  <2>2. stored' = Overridden(stored, r.sent)
    BY <1>1, <1>3, <1>4, <1>8, <2>1, SentLemma, WrittenLemma, CommitsStores DEF Assigned
  <2>3. cache = Overridden(stored, r.sent)
    BY <1>1, <1>2, <1>8, <2>1, ValuesLemma DEF UpdateInStep
  <2>4. stored' \in Values
    BY <1>4, <2>1, <2>2, SentLemma, OverriddenLemma
  <2> QED BY <1>1, <1>2, <2>2, <2>3, <2>4, ValuesLemma DEF InForce
<1> QED BY <1>1, <1>2, <1>5, <1>6, <1>7, <1>8

LEMMA CommitsKeeps ==
  ASSUME ThresholdInv, NEW c \in Requests, Commits(c)
  PROVE  ThresholdInv'
<1> DEFINE r == request[c]
<1>1. r \in Request /\ r.op \in {"update", "reset"} /\ r.step = "read"
  BY NoRequestLemma DEF Commits, ThresholdInv, ThresholdTypeOK
<1>2. /\ request' = [request EXCEPT ![c] = NoRequest]
      /\ cache' = cache /\ clean' = clean
  BY DEF Commits
<1>3. r.sent \in Sendable \cup {NoRow} /\ r.saw \in Values \cup {NoRow}
  BY <1>1, RequestLemma
<1>4. stored' \in Values \cup {NoRow}
  <2>1. CASE r.saw = NoRow /\ r.op = "reset"
    BY <2>1, CommitsStores DEF ThresholdInv, ThresholdTypeOK
  <2>2. CASE r.saw = NoRow /\ r.op = "update"
    BY <1>3, <2>2, SentLemma, OverriddenLemma, ValuesLemma, CommitsStores
  <2>3. CASE r.saw # NoRow
    <3>1. stored' = [f \in Fields |-> IF f \in Assigned(r) THEN r.sent[f] ELSE stored[f]]
      BY <2>3, CommitsStores
    <3>2. stored \in Values
      BY <1>1, <2>3, NoRequestLemma DEF ThresholdInv, ThresholdTypeOK, SeenStays, Busy
    <3> QED BY <1>3, <3>1, <3>2, SentLemma DEF Values, Assigned
  <2> QED BY <1>1, <2>1, <2>2, <2>3
<1>5. ThresholdTypeOK'
  BY <1>2, <1>4 DEF ThresholdInv, ThresholdTypeOK
<1>6. SeenStays'
  <2>1. stored # NoRow => stored' # NoRow
    <3>1. CASE r.saw = NoRow /\ r.op = "reset"
      BY <3>1, CommitsStores
    <3>2. CASE r.saw = NoRow /\ r.op = "update"
      BY <1>3, <3>2, SentLemma, OverriddenLemma, ValuesLemma, CommitsStores
    <3>3. CASE r.saw # NoRow
      BY <3>3, CommitsStores DEF NoRow, Fields
    <3> QED BY <1>1, <3>1, <3>2, <3>3
  <2> QED BY <1>2, <2>1 DEF SeenStays, Busy, ThresholdInv, ThresholdTypeOK
<1>7. CleanInStep'
  <2> SUFFICES ASSUME clean' PROVE CleanInStep'
    BY DEF CleanInStep
  <2> QED BY <1>2, CommitsClean, CallEnds DEF ThresholdInv, ThresholdTypeOK
<1> QED BY <1>5, <1>6, <1>7 DEF ThresholdInv

LEMMA RequestFailsKeeps ==
  ASSUME ThresholdInv, NEW c \in Requests, RequestFails(c)
  PROVE  ThresholdInv'
<1>1. /\ Busy(c) /\ request' = [request EXCEPT ![c] = NoRequest]
      /\ clean' = (clean /\ request[c].op = "load") /\ UNCHANGED <<stored, cache>>
  BY DEF RequestFails
<1>2. ThresholdTypeOK' /\ SeenStays'
  BY <1>1 DEF ThresholdInv, ThresholdTypeOK, SeenStays, Busy
<1>3. CleanInStep'
  <2> SUFFICES ASSUME clean' PROVE CleanInStep'
    BY DEF CleanInStep
  <2>1. Alone(c) /\ InForce
    BY <1>1 DEF ThresholdInv, CleanInStep, LoadInStep
  <2> QED BY <1>1, <2>1, CallEnds DEF ThresholdInv, ThresholdTypeOK, InForce
<1> QED BY <1>2, <1>3 DEF ThresholdInv

LEMMA ProcessRestartsKeeps ==
  ASSUME ThresholdInv, ProcessRestarts
  PROVE  ThresholdInv'
<1>1. ThresholdTypeOK'
  BY DEF ProcessRestarts, ThresholdInv, ThresholdTypeOK
<1>2. AtRest' /\ InForce'
  BY DEF ProcessRestarts, AtRest, Busy, InForce
<1> QED BY <1>1, <1>2 DEF ThresholdInv, SeenStays, CleanInStep, AtRest

LEMMA ThresholdStep == ThresholdInv /\ [ThresholdNext]_thresholdVars => ThresholdInv'
<1> SUFFICES ASSUME ThresholdInv, [ThresholdNext]_thresholdVars PROVE ThresholdInv'
  OBVIOUS
<1>1. ASSUME NEW c \in Requests, LoadReads(c) PROVE ThresholdInv'
  BY <1>1, LoadReadsKeeps
<1>2. ASSUME NEW c \in Requests, LoadSets(c) PROVE ThresholdInv'
  BY <1>2, LoadSetsKeeps
<1>3. ASSUME NEW c \in Requests, NEW u \in Sendable, UpdateCalled(c, u) PROVE ThresholdInv'
  BY <1>3, UpdateCalledKeeps
<1>4. ASSUME NEW c \in Requests, UpdateReads(c) PROVE ThresholdInv'
  BY <1>4, UpdateReadsKeeps
<1>5. ASSUME NEW c \in Requests, ResetCalled(c) PROVE ThresholdInv'
  BY <1>5, ResetCalledKeeps
<1>6. ASSUME NEW c \in Requests, RowReadBy(c) PROVE ThresholdInv'
  BY <1>6, RowReadByKeeps
<1>7. ASSUME NEW c \in Requests, Commits(c) PROVE ThresholdInv'
  BY <1>7, CommitsKeeps
<1>8. ASSUME NEW c \in Requests, RequestFails(c) PROVE ThresholdInv'
  BY <1>8, RequestFailsKeeps
<1>9. CASE UNCHANGED thresholdVars
  BY <1>9 DEF thresholdVars, ThresholdInv, ThresholdTypeOK, SeenStays, CleanInStep, AtRest, InForce,
     Busy, Alone, LoadInStep, UpdateInStep, ResetInStep
<1> QED BY <1>1, <1>2, <1>3, <1>4, <1>5, <1>6, <1>7, <1>8, <1>9, ProcessRestartsKeeps
        DEF ThresholdNext

\* The inductive invariant of the threshold cache, for any number of calls in flight.
THEOREM ThresholdInvariant == ThresholdSpec => []ThresholdInv
BY ThresholdInitInv, ThresholdStep, PTL DEF ThresholdSpec

\* At rest the cache is the row, unless calls crossed, one failed, or an update met a
\* dictionary that nothing had loaded (load_thresholds, update_thresholds, reset_thresholds).
THEOREM CleanCacheAlways == ThresholdSpec => []CleanCacheInForce
<1>1. ThresholdInv => CleanCacheInForce
  BY DEF ThresholdInv, CleanInStep, CleanCacheInForce
<1> QED BY <1>1, ThresholdInvariant, PTL

-----------------------------------------------------------------------------
(* Accounts. *)

\* What the request between its checks and its commit would make of its target.
UpdateOutcome == IF update.target = 0 THEN update.change ELSE Edited(user[update.target], update.change)

\* It waits only while the application is up, for a user that is there.  As long as nobody
\* has overtaken it, the place of the PM that it makes is free, or its target's own.
UpdateInForce ==
  update # NoUpdate =>
    /\ app = "up"
    /\ update.target = 0 => update.change \in User
    /\ update.target # 0 => HasAccount(update.target)
    /\ ~update.unchecked /\ UpdateOutcome.role = "pm" /\ UpdateOutcome.project \in Projects =>
         PMsOf(UpdateOutcome.project, user) \subseteq {update.target}

AccountsInv == AccountsTypeOK /\ OnePM /\ UpdateInForce

LEMMA PMsFinite ==
  ASSUME NEW p, NEW users
  PROVE  IsFiniteSet(PMsOf(p, users)) /\ Cardinality(PMsOf(p, users)) \in Nat
<1>1. IsFiniteSet(UserIds)
  BY FS_Interval, AccountAssumption DEF UserIds
<1>2. PMsOf(p, users) \subseteq UserIds
  BY DEF PMsOf
<1> QED BY <1>1, <1>2, FS_Subset, FS_CardinalityType

\* PMs that are among those there were before, or one alone.
LEMMA FewerPMs ==
  ASSUME NEW p, NEW users, NEW others, PMsOf(p, users) \subseteq PMsOf(p, others),
         Cardinality(PMsOf(p, others)) <= 1
  PROVE  Cardinality(PMsOf(p, users)) <= 1
<1>1. Cardinality(PMsOf(p, users)) <= Cardinality(PMsOf(p, others))
  BY PMsFinite, FS_Subset
<1> QED BY <1>1, PMsFinite

LEMMA OnePMAlone ==
  ASSUME NEW p, NEW users, NEW u, PMsOf(p, users) \subseteq {u}
  PROVE  Cardinality(PMsOf(p, users)) <= 1
<1>1. IsFiniteSet({u}) /\ Cardinality({u}) = 1
  BY FS_Singleton
<1>2. Cardinality(PMsOf(p, users)) <= Cardinality({u})
  BY <1>1, FS_Subset
<1> QED BY <1>1, <1>2, PMsFinite

LEMMA EditedLemma ==
  ASSUME NEW a \in User, NEW c \in Change
  PROVE  /\ Edited(a, c) \in User
         /\ Edited(a, c).role = Given(c.role, a.role)
         /\ Edited(a, c).project = Given(c.project, a.project)
BY DEF Edited, Given, User, Change

LEMMA DifferingLemma ==
  ASSUME NEW a \in User, NEW c \in Change
  PROVE  /\ Differing(a, c) \in Change
         /\ Given(Differing(a, c).role, a.role) = Given(c.role, a.role)
         /\ Given(Differing(a, c).project, a.project) = Given(c.project, a.project)
BY DEF Differing, Given, User, Change

LEMMA NoUpdateLemma == NoUpdate \notin Update /\ NoUpdate.target = Keep /\ User \subseteq Change
<1>1. NoUpdate \notin Update
  BY DEF NoUpdate, Update
<1>2. NoUpdate.target = Keep
  BY DEF NoUpdate
<1>3. User \subseteq Change
  BY DEF User, Change
<1> QED BY <1>1, <1>2, <1>3

Raced(up) == [up EXCEPT !.unchecked = TRUE]
LEMMA RacedUpdate ==
  ASSUME NEW up \in Update
  PROVE  /\ Raced(up) \in Update /\ Raced(up).unchecked = TRUE
         /\ Raced(up).target = up.target /\ Raced(up).change = up.change
BY Zenon DEF Raced, Update

LEMMA AccountsInitInv == AccountsInit => AccountsInv
<1> SUFFICES ASSUME AccountsInit PROVE AccountsInv
  OBVIOUS
<1>1. AccountsTypeOK /\ UpdateInForce
  BY DEF AccountsInit, AccountsTypeOK, UpdateInForce
<1>2. \A p \in Projects : PMsOf(p, user) \subseteq {Keep}
  BY DEF AccountsInit, PMsOf
<1> QED BY <1>1, <1>2, OnePMAlone DEF AccountsInv, OnePM

\* A request that waits is told that another one came, and nothing more is claimed of it.
LEMMA OvertakesKeeps ==
  ASSUME AccountsInv, OvertakesUpdate, app' = app,
         update # NoUpdate /\ update.target # 0 => user'[update.target] # Keep
  PROVE  update' \in Update \cup {NoUpdate} /\ UpdateInForce'
<1>1. CASE update = NoUpdate
  BY <1>1 DEF OvertakesUpdate, UpdateInForce
<1>2. CASE update # NoUpdate
  <2>1. update \in Update /\ update' = Raced(update)
    BY <1>2, Zenon DEF OvertakesUpdate, Raced, AccountsInv, AccountsTypeOK
  <2>2. /\ update' \in Update /\ update'.unchecked = TRUE
        /\ update'.target = update.target /\ update'.change = update.change
    BY <2>1, RacedUpdate
  <2>3. /\ app = "up" /\ (update.target = 0 => update.change \in User)
    BY <1>2 DEF AccountsInv, UpdateInForce
  <2> QED BY <1>2, <2>2, <2>3 DEF UpdateInForce, HasAccount
<1> QED BY <1>1, <1>2

\* A maintenance that is not excused has few PMs when those it had are fewer, or one is left.
LEMMA ExcusesKeep ==
  ASSUME AccountsInv, NEW ps \in SUBSET Projects, Excuses(ps),
         \A p \in Projects \ (excused \cup ps) :
           PMsOf(p, user') \subseteq PMsOf(p, user) \/ \E u : PMsOf(p, user') \subseteq {u}
  PROVE  OnePM' /\ excused' \subseteq Projects
<1>1. excused' = {p \in excused \cup ps : Cardinality(PMsOf(p, user')) > 1}
  BY DEF Excuses
<1>2. excused' \subseteq Projects
  BY <1>1 DEF AccountsInv, AccountsTypeOK
<1>3. ASSUME NEW p \in Projects \ excused' PROVE Cardinality(PMsOf(p, user')) <= 1
  <2>1. CASE p \in excused \cup ps
    BY <1>1, <1>3, <2>1, PMsFinite
  <2>2. CASE p \notin excused \cup ps
    <3>1. Cardinality(PMsOf(p, user)) <= 1
      BY <2>2 DEF AccountsInv, OnePM
    <3> QED BY <2>2, <3>1, FewerPMs, OnePMAlone
  <2> QED BY <2>1, <2>2
<1> QED BY <1>2, <1>3 DEF OnePM

LEMMA SetsUserPMs ==
  ASSUME AccountsInv, NEW u \in UserIds, NEW account \in User,
         user' = [user EXCEPT ![u] = account]
  PROVE  /\ user' \in [UserIds -> User \cup {Keep}]
         /\ HasAccount(u)' /\ \A w \in UserIds \ {u} : user'[w] = user[w]
         /\ \A w \in UserIds : HasAccount(w) => HasAccount(w)'
         /\ \A p : PMsOf(p, user') \subseteq PMsOf(p, user) \cup {u}
         /\ \A p : ~(account.role = "pm" /\ account.project = p) =>
              PMsOf(p, user') \subseteq PMsOf(p, user)
<1>1. account # Keep
  BY AccountAssumption DEF User
<1>2. user'[u] = account /\ \A w \in UserIds \ {u} : user'[w] = user[w]
  BY DEF AccountsInv, AccountsTypeOK
<1>3. user' \in [UserIds -> User \cup {Keep}]
  BY DEF AccountsInv, AccountsTypeOK
<1> QED BY <1>1, <1>2, <1>3 DEF HasAccount, PMsOf

\* A place that is vacant for all has no PM.
LEMMA VacantLemma ==
  ASSUME NEW p \in Projects, Vacant("pm", p, Keep)
  PROVE  PMsOf(p, user) = {}
BY AccountAssumption DEF Vacant, PMsOf

LEMMA NewAccountLemma ==
  ASSUME NEW role \in Roles, NEW p \in Projects \cup {NoProject}
  PROVE  /\ NewAccount(role, p) \in User
         /\ NewAccount(role, p).role = role
         /\ role # "root" => NewAccount(role, p).project = p
BY DEF NewAccount, User

LEMMA AppKeeps ==
  ASSUME AccountsInv, AppStarts \/ AppStops
  PROVE  AccountsInv'
<1>1. CASE AppStops
  BY <1>1 DEF AppStops, AccountsInv, AccountsTypeOK, OnePM, UpdateInForce
<1>2. CASE AppStarts /\ UNCHANGED user
  BY <1>2 DEF AppStarts, AccountsInv, AccountsTypeOK, OnePM, UpdateInForce
<1>3. CASE AppStarts /\ ~UNCHANGED user
  <2>1. /\ user' = [user EXCEPT ![DefaultRoot] = RootAccount] /\ app' = "up" /\ app = "down"
        /\ UNCHANGED <<projects, token, update, excused>>
    BY <1>3 DEF AppStarts
  <2>2. RootAccount \in User /\ RootAccount.role # "pm" /\ DefaultRoot \in UserIds
    BY AccountAssumption DEF RootAccount, User, Roles, DefaultRoot, UserIds
  <2>3. /\ user' \in [UserIds -> User \cup {Keep}]
        /\ \A w \in UserIds : HasAccount(w) => HasAccount(w)'
        /\ \A p : PMsOf(p, user') \subseteq PMsOf(p, user)
    BY <2>1, <2>2, SetsUserPMs
  <2>4. AccountsTypeOK'
    BY <2>1, <2>3 DEF AccountsInv, AccountsTypeOK, HasAccount
  <2>5. OnePM'
    BY <2>1, <2>3, FewerPMs DEF AccountsInv, OnePM
  <2>6. UpdateInForce'
    BY <2>1 DEF AccountsInv, UpdateInForce
  <2> QED BY <2>4, <2>5, <2>6 DEF AccountsInv
<1> QED BY <1>1, <1>2, <1>3

\* A new account, made in one step.
LEMMA MakesKeeps ==
  ASSUME AccountsInv, NEW u \in UserIds, NEW account \in User,
         SetsUser(u, account), OvertakesUpdate, Excuses({}),
         account.role = "pm" /\ account.project \in Projects => PMsOf(account.project, user) = {}
  PROVE  AccountsInv'
<1>1. user' = [user EXCEPT ![u] = account] /\ UNCHANGED <<app, projects, token>>
  BY DEF SetsUser
<1>2. /\ user' \in [UserIds -> User \cup {Keep}]
      /\ \A w \in UserIds : HasAccount(w) => HasAccount(w)'
      /\ \A p : PMsOf(p, user') \subseteq PMsOf(p, user) \cup {u}
      /\ \A p : ~(account.role = "pm" /\ account.project = p) =>
           PMsOf(p, user') \subseteq PMsOf(p, user)
  BY <1>1, SetsUserPMs
<1>3. ASSUME NEW p \in Projects
      PROVE  PMsOf(p, user') \subseteq PMsOf(p, user) \/ PMsOf(p, user') \subseteq {u}
  BY <1>2
<1>4. OnePM' /\ excused' \subseteq Projects
  BY <1>3, ExcusesKeep
<1>5. update # NoUpdate /\ update.target # 0 => user'[update.target] # Keep
  <2>1. update # NoUpdate /\ update.target # 0 => update.target \in UserIds
    BY DEF AccountsInv, AccountsTypeOK, Update
  <2> QED BY <1>2, <2>1 DEF AccountsInv, UpdateInForce, HasAccount
<1>6. update' \in Update \cup {NoUpdate} /\ UpdateInForce'
  BY <1>1, <1>5, OvertakesKeeps
<1>7. AccountsTypeOK'
  BY <1>1, <1>2, <1>4, <1>6 DEF AccountsInv, AccountsTypeOK, HasAccount
<1> QED BY <1>4, <1>6, <1>7 DEF AccountsInv

LEMMA UpdateCommittedKeeps ==
  ASSUME AccountsInv, UpdateCommitted
  PROVE  AccountsInv'
<1>1. update \in Update /\ update # NoUpdate /\ update' = NoUpdate
  BY DEF UpdateCommitted, AccountsInv, AccountsTypeOK
<1>2. PICK u \in UserIds :
        /\ IF update.target = 0 THEN NextUser(u) /\ SetsUser(u, update.change)
           ELSE u = update.target /\ SetsUser(u, Edited(user[u], update.change))
        /\ Excuses(IF update.unchecked THEN {user'[u].project} \cap Projects ELSE {})
  BY DEF UpdateCommitted
<1> DEFINE ps == IF update.unchecked THEN {user'[u].project} \cap Projects ELSE {}
<1>3. /\ UpdateOutcome \in User /\ SetsUser(u, UpdateOutcome)
      /\ ~update.unchecked /\ UpdateOutcome.role = "pm" /\ UpdateOutcome.project \in Projects =>
           PMsOf(UpdateOutcome.project, user) \subseteq {u}
  <2>1. CASE update.target = 0
    <3>1. UpdateOutcome = update.change /\ UpdateOutcome \in User
      BY <1>1, <2>1 DEF UpdateOutcome, AccountsInv, UpdateInForce
    <3>2. u # 0
      BY AccountAssumption DEF UserIds
    <3>3. ~update.unchecked /\ UpdateOutcome.role = "pm" /\ UpdateOutcome.project \in Projects =>
            PMsOf(UpdateOutcome.project, user) \subseteq {0}
      BY <1>1, <2>1 DEF AccountsInv, UpdateInForce
    <3>4. 0 \notin UserIds
      BY DEF UserIds
    <3> QED BY <1>2, <2>1, <3>1, <3>3, <3>4 DEF PMsOf
  <2>2. CASE update.target # 0
    <3>1. u = update.target /\ UpdateOutcome = Edited(user[u], update.change) /\ SetsUser(u, UpdateOutcome)
      BY <1>2, <2>2 DEF UpdateOutcome
    <3>2. user[u] \in User /\ update.change \in Change
      BY <1>1, <2>2, <3>1 DEF AccountsInv, AccountsTypeOK, UpdateInForce, HasAccount, Update
    <3>3. UpdateOutcome \in User
      BY <3>1, <3>2, EditedLemma
    <3> QED BY <1>1, <3>1, <3>3 DEF AccountsInv, UpdateInForce
  <2> QED BY <2>1, <2>2
<1>4. user' = [user EXCEPT ![u] = UpdateOutcome] /\ UNCHANGED <<app, projects, token>>
  BY <1>3 DEF SetsUser
<1>5. /\ user' \in [UserIds -> User \cup {Keep}] /\ user'[u] = UpdateOutcome
      /\ \A w \in UserIds : HasAccount(w) => HasAccount(w)'
      /\ \A p : PMsOf(p, user') \subseteq PMsOf(p, user) \cup {u}
      /\ \A p : ~(UpdateOutcome.role = "pm" /\ UpdateOutcome.project = p) =>
           PMsOf(p, user') \subseteq PMsOf(p, user)
  <2>1. user'[u] = UpdateOutcome
    BY <1>4 DEF AccountsInv, AccountsTypeOK
  <2> QED BY <1>3, <1>4, <2>1, SetsUserPMs
<1>6. Excuses(ps) /\ ps \in SUBSET Projects
  BY <1>2
<1>7. ASSUME NEW p \in Projects \ (excused \cup ps)
      PROVE  PMsOf(p, user') \subseteq PMsOf(p, user) \/ PMsOf(p, user') \subseteq {u}
  <2>1. CASE UpdateOutcome.role = "pm" /\ UpdateOutcome.project = p
    <3>1. ~update.unchecked
      BY <1>5, <1>7, <2>1
    <3>2. PMsOf(p, user) \subseteq {u}
      BY <1>3, <2>1, <3>1
    <3> QED BY <1>5, <3>2
  <2>2. CASE ~(UpdateOutcome.role = "pm" /\ UpdateOutcome.project = p)
    BY <1>5, <2>2
  <2> QED BY <2>1, <2>2
<1> HIDE DEF ps
<1>8. OnePM' /\ excused' \subseteq Projects
  BY <1>6, <1>7, ExcusesKeep
<1>9. AccountsTypeOK'
  BY <1>1, <1>4, <1>5, <1>8 DEF AccountsInv, AccountsTypeOK, HasAccount
<1> QED BY <1>1, <1>8, <1>9 DEF AccountsInv, UpdateInForce

LEMMA RemovesKeeps ==
  ASSUME AccountsInv, app = "up", NEW us \in SUBSET UserIds, Removes(us),
         projects' \subseteq Projects
  PROVE  AccountsInv'
<1>1. /\ user' = [u \in UserIds |-> IF u \in us THEN Keep ELSE user[u]]
      /\ token' = token \ us /\ Excuses({}) /\ app' = app
  BY DEF Removes
<1>2. \A p : PMsOf(p, user') \subseteq PMsOf(p, user)
  BY <1>1 DEF PMsOf
<1>3. OnePM' /\ excused' \subseteq Projects
  BY <1>1, <1>2, ExcusesKeep
<1>4. update' \in Update \cup {NoUpdate} /\ UpdateInForce'
  <2>1. CASE update' = NoUpdate
    BY <2>1 DEF UpdateInForce
  <2>2. CASE update' # NoUpdate
    <3>1. update.target \notin us /\ OvertakesUpdate
      BY <2>2 DEF Removes
    <3>2. update # NoUpdate /\ update.target # 0 => update.target \in UserIds
      BY DEF AccountsInv, AccountsTypeOK, Update
    <3>3. update # NoUpdate /\ update.target # 0 => user'[update.target] # Keep
      BY <1>1, <3>1, <3>2 DEF AccountsInv, UpdateInForce, HasAccount
    <3> QED BY <1>1, <3>1, <3>3, OvertakesKeeps
  <2> QED BY <2>1, <2>2
<1>5. AccountsTypeOK'
  BY <1>1, <1>3, <1>4 DEF AccountsInv, AccountsTypeOK, HasAccount
<1> QED BY <1>3, <1>4, <1>5 DEF AccountsInv

\* A request that has checked what it asks for.
LEMMA CheckedKeeps ==
  ASSUME AccountsInv, app = "up", NEW u \in UserIds \cup {0}, NEW c \in Change,
         NEW unchecked \in BOOLEAN, Checked(u, c, unchecked),
         u = 0 => c \in User, u # 0 => HasAccount(u),
         LET o == IF u = 0 THEN c ELSE Edited(user[u], c) IN
           ~unchecked /\ o.role = "pm" /\ o.project \in Projects =>
             PMsOf(o.project, user) \subseteq {u}
  PROVE  AccountsInv'
<1>1. /\ update' = [target |-> u, change |-> c, unchecked |-> unchecked]
      /\ UNCHANGED <<app, projects, user, token, excused>>
  BY DEF Checked
<1>2. /\ update' \in Update /\ update'.target = u /\ update'.change = c
      /\ update'.unchecked = unchecked
  BY <1>1 DEF Update
<1>3. AccountsTypeOK' /\ OnePM'
  BY <1>1, <1>2 DEF AccountsInv, AccountsTypeOK, OnePM
<1>4. UpdateInForce'
  BY <1>1, <1>2 DEF UpdateInForce, UpdateOutcome, HasAccount
<1> QED BY <1>3, <1>4 DEF AccountsInv

LEMMA CreateCheckedKeeps ==
  ASSUME AccountsInv, app = "up", NEW role \in Roles, NEW p \in Projects \cup {NoProject},
         CreateChecked(role, p)
  PROVE  AccountsInv'
<1> DEFINE c == NewAccount(role, p)
<1>1. c \in User /\ c.role = role /\ (role # "root" => c.project = p)
  BY NewAccountLemma
<1>2. c \in Change
  BY <1>1, NoUpdateLemma
<1>3. Checked(0, c, FALSE) /\ Vacant(role, p, Keep)
  BY DEF CreateChecked, MayCreate
<1>4. c.role = "pm" /\ c.project \in Projects => PMsOf(c.project, user) \subseteq {0}
  BY <1>1, <1>3, VacantLemma DEF Roles
<1> HIDE DEF c
<1> QED BY <1>1, <1>2, <1>3, <1>4, CheckedKeeps

LEMMA UpdateCheckedKeeps ==
  ASSUME AccountsInv, app = "up", NEW actor, NEW u \in UserIds, NEW c \in Change,
         UpdateChecked(actor, u, c)
  PROVE  AccountsInv'
<1> DEFINE d == Differing(user[u], c)
           o == Edited(user[u], d)
<1>1. /\ HasAccount(u) /\ Checked(u, d, c.role = Keep)
      /\ c.role = "pm" => Vacant("pm", Given(c.project, user[u].project), u)
  BY DEF UpdateChecked
<1>2. user[u] \in User
  BY <1>1 DEF AccountsInv, AccountsTypeOK, HasAccount
<1>3. /\ d \in Change
      /\ o.role = Given(c.role, user[u].role) /\ o.project = Given(c.project, user[u].project)
  BY <1>2, DifferingLemma, EditedLemma
<1>4. c.role # Keep /\ o.role = "pm" /\ o.project \in Projects =>
        PMsOf(o.project, user) \subseteq {u}
  BY <1>1, <1>3, AccountAssumption DEF Given, Vacant
<1>5. u # 0 /\ (c.role = Keep) \in BOOLEAN
  BY DEF UserIds
<1> HIDE DEF d
<1> QED BY <1>1, <1>3, <1>4, <1>5, CheckedKeeps

LEMMA CreateUserKeeps ==
  ASSUME AccountsInv, NEW role \in Roles, NEW p \in Projects \cup {NoProject},
         CreateUser(role, p)
  PROVE  AccountsInv'
<1> DEFINE c == NewAccount(role, p)
<1>1. c \in User /\ c.role = role /\ (role # "root" => c.project = p)
  BY NewAccountLemma
<1>2. PICK u \in UserIds : SetsUser(u, c)
  BY DEF CreateUser
<1>3. Vacant(role, p, Keep) /\ OvertakesUpdate /\ Excuses({})
  BY DEF CreateUser, MayCreate
<1>4. c.role = "pm" /\ c.project \in Projects => PMsOf(c.project, user) = {}
  BY <1>1, <1>3, VacantLemma DEF Roles
<1> HIDE DEF c
<1> QED BY <1>1, <1>2, <1>3, <1>4, MakesKeeps

LEMMA RegisterGuestKeeps ==
  ASSUME AccountsInv, NEW p \in Projects, RegisterGuest(p)
  PROVE  AccountsInv'
<1> DEFINE c == [role |-> "guest", project |-> p]
<1>1. c \in User /\ c.role # "pm"
  BY DEF User, Roles
<1>2. PICK u \in UserIds : SetsUser(u, c)
  BY DEF RegisterGuest
<1>3. OvertakesUpdate /\ Excuses({})
  BY DEF RegisterGuest
<1> HIDE DEF c
<1> QED BY <1>1, <1>2, <1>3, MakesKeeps

LEMMA AccountsStep == AccountsInv /\ [AccountsNext]_accountVars => AccountsInv'
<1> SUFFICES ASSUME AccountsInv, [AccountsNext]_accountVars PROVE AccountsInv'
  OBVIOUS
<1>1. CASE UpdateRefused
  BY <1>1 DEF UpdateRefused, AccountsInv, AccountsTypeOK, OnePM, UpdateInForce
<1>2. ASSUME NEW u \in UserIds, Login(u) \/ TokenExpires(u) PROVE AccountsInv'
  BY <1>2 DEF Login, TokenExpires, With, HasAccount, AccountsInv, AccountsTypeOK, OnePM,
     UpdateInForce, UpdateOutcome
<1>3. ASSUME NEW p \in Projects, CreateProject(p) PROVE AccountsInv'
  BY <1>3 DEF CreateProject, AccountsInv, AccountsTypeOK, OnePM, UpdateInForce, UpdateOutcome, HasAccount
<1>4. ASSUME app = "up", NEW p \in Projects, DeleteProject(p) PROVE AccountsInv'
  <2> DEFINE us == {u \in UserIds : HasAccount(u) /\ user[u].project = p /\ user[u].role # "root"}
  <2>1. us \in SUBSET UserIds /\ Removes(us) /\ projects' \subseteq Projects
    BY <1>4 DEF DeleteProject, AccountsInv, AccountsTypeOK
  <2> HIDE DEF us
  <2> QED BY <1>4, <2>1, RemovesKeeps
<1>5. ASSUME app = "up", NEW actor \in token, NEW u \in UserIds, DeleteUser(actor, u)
      PROVE  AccountsInv'
  <2>1. {u} \in SUBSET UserIds /\ Removes({u}) /\ projects' \subseteq Projects
    BY <1>5 DEF DeleteUser, AccountsInv, AccountsTypeOK
  <2> QED BY <1>5, <2>1, RemovesKeeps
<1>6. CASE UNCHANGED accountVars
  BY <1>6 DEF accountVars, AccountsInv, AccountsTypeOK, OnePM, UpdateInForce, UpdateOutcome, HasAccount
<1> QED BY <1>1, <1>2, <1>3, <1>4, <1>5, <1>6, AppKeeps, UpdateCommittedKeeps, RegisterGuestKeeps,
           CreateUserKeeps, CreateCheckedKeeps, UpdateCheckedKeeps
        DEF AccountsNext

\* The inductive invariant of the accounts, for any number of users and maintenances.
THEOREM AccountsInvariant == AccountsSpec => []AccountsInv
BY AccountsInitInv, AccountsStep, PTL DEF AccountsSpec

\* A maintenance has one PM at most, unless an update that did not send the role, or one that
\* was overtaken, gave it a second ("每個歲修只能有一位執秘": create_user, update_user).
THEOREM OnePMAlways == AccountsSpec => []OnePM
<1>1. AccountsInv => OnePM
  BY DEF AccountsInv
<1> QED BY <1>1, AccountsInvariant, PTL

-----------------------------------------------------------------------------
(* The device list. *)

DistinctAddresses(list) ==
  \A i, j \in RowIds \ FreeRows(list) : i # j => \A e \in Ends :
    list[i][e].ip # Empty => list[i][e].ip # list[j][e].ip

\* A write that no other has crossed is still valid, and the row it was computed from is
\* still the one on the list, unless it is gone.
PendingValid ==
  pending # NoWrite /\ ~crossed =>
    /\ Valid(pending.write.row, pending.write.id)
    /\ pending.write.id # New /\ devices[pending.write.id] # Empty =>
         devices[pending.write.id] = pending.saw

DevicesInv == DevicesTypeOK /\ DevicesDistinct /\ PendingValid

Lists == [RowIds -> Mapping \cup {Empty}]

\* A set of numbers that is not empty has a least one.
LEMMA LeastNumber ==
  ASSUME NEW T \in SUBSET Nat, T # {}
  PROVE  \E x \in T : \A y \in T : x <= y
<1> DEFINE R == OpToRel(<, Nat)
<1>1. IsWellFoundedOn(R, Nat)
  BY NatLessThanWellFounded
<1>2. \A x, y \in Nat : <<y, x>> \in R <=> y < x
  BY DEF OpToRel
<1> HIDE DEF R
<1>3. PICK x \in T : \A y \in T : ~(<<y, x>> \in R)
  BY <1>1, WFMin
<1>4. x \in Nat /\ \A y \in T : y \in Nat
  OBVIOUS
<1>5. \A y \in T : ~(y < x)
  BY <1>2, <1>3, <1>4
<1> QED BY <1>4, <1>5

Position(list, w) ==
  IF w.id = New THEN CHOOSE i \in FreeRows(list) : \A j \in FreeRows(list) : i <= j ELSE w.id

LEMMA PutLemma ==
  ASSUME NEW list \in Lists, NEW w \in Write, Fits(list, w)
  PROVE  LET p == Position(list, w) IN
         /\ p \in RowIds /\ w.id \in {New, p} /\ (w.id = New <=> p \in FreeRows(list))
         /\ Put(list, w) \in Lists /\ Put(list, w)[p] = w.row
         /\ \A i \in RowIds \ {p} : Put(list, w)[i] = list[i]
<1> DEFINE p == Position(list, w)
<1>1. New \notin RowIds /\ w.id \in RowIds \cup {New} /\ w.row \in Mapping
  BY DeviceAssumption DEF RowIds, Write
<1>2. CASE w.id = New
  <2>1. FreeRows(list) \in SUBSET Nat /\ FreeRows(list) # {}
    BY <1>2 DEF FreeRows, RowIds, Fits
  <2>2. p \in FreeRows(list)
    BY <1>2, <2>1, LeastNumber DEF Position
  <2>3. FreeRows(list) \subseteq RowIds
    BY DEF FreeRows
  <2> HIDE DEF p
  <2>4. p \in RowIds /\ w.id \in {New, p} /\ (w.id = New <=> p \in FreeRows(list))
    BY <1>2, <2>2, <2>3
  <2>5. Put(list, w) = [list EXCEPT ![p] = w.row]
    BY DEF Put, Position, p
  <2> QED BY <1>1, <2>4, <2>5 DEF Lists, p
<1>3. CASE w.id # New
  <2>1. p = w.id /\ p \in RowIds /\ p \notin FreeRows(list)
    BY <1>1, <1>3 DEF Position, Fits, FreeRows
  <2>2. Put(list, w) = [list EXCEPT ![p] = w.row]
    BY <1>3 DEF Put, Position
  <2> HIDE DEF p
  <2> QED BY <1>1, <1>3, <2>1, <2>2 DEF Lists, p
<1> QED BY <1>2, <1>3

\* One row is put on a list of distinct addresses, with addresses of its own.
LEMMA PutDistinct ==
  ASSUME NEW list \in Lists, NEW after \in Lists, NEW p \in RowIds, DistinctAddresses(list),
         \A i \in RowIds \ {p} : after[i] = list[i],
         \A i \in RowIds \ ({p} \cup FreeRows(list)) : \A e \in Ends :
           after[p][e].ip # Empty => after[p][e].ip # list[i][e].ip
  PROVE  DistinctAddresses(after)
<1> SUFFICES ASSUME NEW i \in RowIds \ FreeRows(after), NEW j \in RowIds \ FreeRows(after), i # j,
                    NEW e \in Ends, after[i][e].ip # Empty
             PROVE  after[i][e].ip # after[j][e].ip
  BY DEF DistinctAddresses
<1>1. \A k \in RowIds \ {p} : k \in FreeRows(after) <=> k \in FreeRows(list)
  BY DEF FreeRows
<1>2. CASE i = p
  BY <1>1, <1>2
<1>3. CASE j = p
  BY <1>1, <1>3
<1>4. CASE i # p /\ j # p
  BY <1>1, <1>4 DEF DistinctAddresses
<1> QED BY <1>2, <1>3, <1>4

LEMMA StartedLemma == NoWrite \notin Started
BY DEF NoWrite, Started

LEMMA WritesLemma ==
  ASSUME DevicesTypeOK, NEW w \in Creates \cup Updates
  PROVE  w \in Write /\ (w.id # New => w.id \in OnList)
<1>1. CASE w \in Creates
  BY <1>1 DEF Creates, Complete, Write
<1>2. CASE w \in Updates
  <2>1. PICK i \in OnList, e \in Ends, d \in Device :
          w = [id |-> i, row |-> [devices[i] EXCEPT ![e] = d]]
    BY <1>2 DEF Updates
  <2>2. i \in RowIds /\ devices[i] \in Mapping
    BY DEF OnList, DevicesTypeOK
  <2>3. [devices[i] EXCEPT ![e] = d] \in Mapping
    BY <2>2 DEF Mapping
  <2> QED BY <2>1, <2>2, <2>3 DEF Write
<1> QED BY <1>1, <1>2

LEMMA LineLemma ==
  ASSUME NEW m \in Complete
  PROVE  Line(m) \in Write /\ Line(m).row = m /\ Line(m).id \in OnList \cup {New}
<1>1. Existing(m) \subseteq OnList /\ OnList \subseteq RowIds
  BY DEF Existing, OnList
<1>2. m \in Mapping
  BY DEF Complete
<1>3. (IF Existing(m) = {} THEN New ELSE CHOOSE i \in Existing(m) : TRUE) \in OnList \cup {New}
  BY <1>1
<1> QED BY <1>1, <1>2, <1>3 DEF Line, Write

LEMMA OnListLemma ==
  /\ OnList = RowIds \ FreeRows(devices)
  /\ DevicesDistinct <=> UniqueHosts(devices) /\ (crossed \/ DistinctAddresses(devices))
<1>1. OnList = RowIds \ FreeRows(devices)
  BY DEF OnList, FreeRows
<1> QED BY <1>1 DEF DevicesDistinct, DistinctAddresses

\* A row that is valid, or that is on the list already, has addresses of its own.
LEMMA ValidAddresses ==
  ASSUME NEW m, NEW id, Valid(m, id) \/ (id # New /\ devices[id] = m /\ id \in OnList),
         DistinctAddresses(devices)
  PROVE  \A i \in OnList \ {id} : \A e \in Ends :
           m[e].ip # Empty => m[e].ip # devices[i][e].ip
<1>1. CASE Valid(m, id)
  BY <1>1 DEF Valid, Clashes
<1>2. CASE id # New /\ devices[id] = m /\ id \in OnList
  BY <1>2, OnListLemma DEF DistinctAddresses
<1> QED BY <1>1, <1>2

LEMMA DevicesInitInv == DevicesInit => DevicesInv
BY OnListLemma DEF DevicesInit, DevicesInv, DevicesTypeOK, UniqueHosts, DistinctAddresses, FreeRows,
   PendingValid

\* A list that is stored has unique hostnames; nothing is claimed of its addresses, nor of
\* the write that waits, when it crosses one.
LEMMA StoresKeeps ==
  ASSUME DevicesInv, NEW list \in Lists, Stores(list),
         DistinctAddresses(devices) => DistinctAddresses(list)
  PROVE  DevicesInv'
<1>1. /\ devices' = list /\ crossed' = (crossed \/ pending # NoWrite) /\ pending' = pending
      /\ UniqueHosts(list)
  BY DEF Stores
<1>2. DevicesTypeOK'
  BY <1>1 DEF DevicesInv, DevicesTypeOK, Lists
<1>3. UniqueHosts(devices)' /\ (crossed' \/ DistinctAddresses(devices)')
  BY <1>1, OnListLemma DEF DevicesInv
<1>4. DevicesDistinct'
  <2>1. (OnList = RowIds \ FreeRows(devices))'
    BY DEF OnList, FreeRows
  <2> QED BY <1>3, <2>1 DEF DevicesDistinct, DistinctAddresses
<1>5. PendingValid'
  BY <1>1 DEF PendingValid
<1> QED BY <1>2, <1>4, <1>5 DEF DevicesInv

LEMMA WriteNowKeeps ==
  ASSUME DevicesInv, NEW w \in Write, WriteNow(w)
  PROVE  DevicesInv'
<1> DEFINE list == Put(devices, w)
           p == Position(devices, w)
<1>1. devices \in Lists /\ Valid(w.row, w.id) /\ Fits(devices, w) /\ Stores(list)
  BY DEF WriteNow, DevicesInv, DevicesTypeOK, Lists
<1>2. /\ p \in RowIds /\ w.id \in {New, p} /\ list \in Lists /\ list[p] = w.row
      /\ \A i \in RowIds \ {p} : list[i] = devices[i]
  BY <1>1, PutLemma
<1>3. New \notin RowIds
  BY DeviceAssumption DEF RowIds
<1> HIDE DEF list, p
<1>4. ASSUME DistinctAddresses(devices) PROVE DistinctAddresses(list)
  <2>1. \A i \in OnList \ {w.id} : \A e \in Ends :
          w.row[e].ip # Empty => w.row[e].ip # devices[i][e].ip
    BY <1>1, <1>4, ValidAddresses
  <2>2. \A i \in RowIds \ ({p} \cup FreeRows(devices)) : i \in OnList \ {w.id}
    BY <1>2, <1>3, OnListLemma
  <2> QED BY <1>1, <1>2, <1>4, <2>1, <2>2, PutDistinct
<1> QED BY <1>1, <1>2, <1>4, StoresKeeps

LEMMA ImportNowKeeps ==
  ASSUME DevicesInv, NEW m1 \in Complete, NEW m2 \in Complete, ImportNow(m1, m2)
  PROVE  DevicesInv'
<1> DEFINE w1 == Line(m1)
           w2 == Line(m2)
           once == Put(devices, w1)
           p1 == Position(devices, w1)
           both == Put(once, w2)
           p2 == Position(once, w2)
<1>1. /\ w1 \in Write /\ w1.row = m1 /\ w2 \in Write /\ w2.row = m2 /\ devices \in Lists
      /\ w2.id \in OnList \cup {New}
  BY LineLemma DEF DevicesInv, DevicesTypeOK, Lists
<1>2. /\ Fits(devices, w1) /\ Fits(once, w2) /\ Stores(both)
      /\ \A e \in Ends : ~Clashes(m1[e], m2[e])
      /\ Same(w1) \/ Valid(m1, w1.id)
      /\ Same(w2) \/ Valid(m2, w2.id)
  BY DEF ImportNow
<1>3. New \notin RowIds
  BY DeviceAssumption DEF RowIds
<1> HIDE DEF w1, w2
<1>4. /\ p1 \in RowIds /\ w1.id \in {New, p1} /\ (w1.id = New <=> p1 \in FreeRows(devices))
      /\ once \in Lists /\ once[p1] = m1
      /\ \A i \in RowIds \ {p1} : once[i] = devices[i]
  BY <1>1, <1>2, PutLemma
<1> HIDE DEF once, p1
<1>5. /\ p2 \in RowIds /\ w2.id \in {New, p2} /\ (w2.id = New <=> p2 \in FreeRows(once))
      /\ both \in Lists /\ both[p2] = m2
      /\ \A i \in RowIds \ {p2} : both[i] = once[i]
  BY <1>1, <1>2, <1>4, PutLemma
<1> HIDE DEF both, p2
<1>6. ASSUME DistinctAddresses(devices) PROVE DistinctAddresses(both)
  <2>1. Same(w1) => w1.id # New /\ devices[w1.id] = m1 /\ w1.id \in OnList
    BY <1>1, <1>3, <1>4, OnListLemma DEF Same
  <2>2. \A i \in OnList \ {w1.id} : \A e \in Ends : m1[e].ip # Empty => m1[e].ip # devices[i][e].ip
    BY <1>2, <1>6, <2>1, ValidAddresses
  <2>3. \A i \in RowIds \ ({p1} \cup FreeRows(devices)) : i \in OnList \ {w1.id}
    BY <1>3, <1>4, OnListLemma
  <2>4. DistinctAddresses(once)
    BY <1>1, <1>4, <1>6, <2>2, <2>3, PutDistinct
  <2>5. ASSUME NEW i \in RowIds \ ({p2} \cup FreeRows(once)), NEW e \in Ends, m2[e].ip # Empty
        PROVE  m2[e].ip # once[i][e].ip
    <3>1. CASE i = p1
      BY <1>2, <1>4, <2>5, <3>1 DEF Clashes
    <3>2. CASE i # p1
      <4>1. once[i] = devices[i] /\ i \in OnList
        BY <1>4, <3>2 DEF OnList, FreeRows
      <4>2. i # w2.id
        BY <1>3, <1>5
      <4>3. Same(w2) /\ w2.id # p1 => w2.id # New /\ devices[w2.id] = m2 /\ w2.id \in OnList
        BY <1>1, <1>3, <1>4, <1>5 DEF Same, OnList, FreeRows
      <4>4. CASE Valid(m2, w2.id)
        BY <1>6, <2>5, <4>1, <4>2, <4>4, ValidAddresses
      <4>5. CASE Same(w2) /\ w2.id # p1
        <5>1. w2.id # New /\ devices[w2.id] = m2 /\ w2.id \in OnList
          BY <4>3, <4>5
        <5>2. \A j \in OnList \ {w2.id} : \A f \in Ends :
                m2[f].ip # Empty => m2[f].ip # devices[j][f].ip
          BY <1>6, <5>1, ValidAddresses
        <5> QED BY <2>5, <4>1, <4>2, <5>2
      <4>6. CASE Same(w2) /\ w2.id = p1
        <5>1. w1.id = p1 /\ devices[p1] = m2 /\ p1 \in OnList
          BY <1>1, <1>3, <1>4, <4>6, OnListLemma DEF Same
        <5> QED BY <1>6, <2>5, <3>2, <4>1, <5>1, OnListLemma DEF DistinctAddresses
      <4> QED BY <1>2, <4>4, <4>5, <4>6
    <3> QED BY <3>1, <3>2
  <2> QED BY <1>4, <1>5, <2>4, <2>5, PutDistinct
<1> QED BY <1>2, <1>5, <1>6, StoresKeeps

LEMMA ValidatesKeeps ==
  ASSUME DevicesInv, NEW w \in Creates \cup Updates, Validates(w)
  PROVE  DevicesInv'
<1> DEFINE saw == IF w.id = New THEN w.row ELSE devices[w.id]
<1>1. /\ pending' = [write |-> w, saw |-> saw] /\ UNCHANGED <<devices, crossed>>
      /\ Valid(w.row, w.id)
  BY DEF Validates
<1>2. saw \in Mapping /\ w \in Write
  <2>1. w \in Write /\ (w.id # New => w.id \in OnList)
    BY WritesLemma DEF DevicesInv
  <2>2. w.row \in Mapping /\ (w.id # New => devices[w.id] \in Mapping)
    BY <2>1 DEF Write, OnList, DevicesInv, DevicesTypeOK
  <2> QED BY <2>1, <2>2
<1>3. DevicesTypeOK'
  BY <1>1, <1>2 DEF DevicesInv, DevicesTypeOK, Started
<1>4. DevicesDistinct'
  BY <1>1 DEF DevicesInv, DevicesDistinct, UniqueHosts, FreeRows, OnList
<1>5. PendingValid'
  BY <1>1 DEF PendingValid, Valid, OnList
<1> QED BY <1>3, <1>4, <1>5 DEF DevicesInv

\* The columns that an update did not change are those that the row has.
LEMMA PatchLemma ==
  ASSUME NEW w \in Write, NEW saw \in Mapping, w.id # New => devices[w.id] \in Mapping
  PROVE  LET q == Patch(w, saw) IN
         /\ q.id = w.id /\ q.row \in Mapping /\ q \in Write
         /\ w.id # New /\ devices[w.id] = saw => \A e \in Ends : q.row[e].ip = w.row[e].ip
         /\ w.id = New => q.row = w.row
<1>1. CASE w.id = New
  BY <1>1 DEF Patch, Write
<1>2. CASE w.id # New
  <2> DEFINE row == [e \in Ends |-> [f \in {"host", "ip"} |->
                       IF w.row[e][f] = saw[e][f] THEN devices[w.id][e][f] ELSE w.row[e][f]]]
             q == Patch(w, saw)
  <2>1. w.row \in Mapping
    BY DEF Write
  <2>2. row \in Mapping
    BY <1>2, <2>1 DEF Mapping, Device
  <2>3. devices[w.id] = saw => \A e \in Ends : row[e].ip = w.row[e].ip
    BY <2>1 DEF Mapping, Device
  <2>4. q = [w EXCEPT !.row = row]
    BY <1>2 DEF Patch
  <2> HIDE DEF row, q
  <2>5. q.id = w.id /\ q.row = row /\ q \in Write
    BY <2>2, <2>4, Zenon DEF Write
  <2> QED BY <1>2, <2>2, <2>3, <2>5 DEF q
<1> QED BY <1>1, <1>2

LEMMA CommitsPendingKeeps ==
  ASSUME DevicesInv, CommitsPending
  PROVE  DevicesInv'
<1> DEFINE w == pending.write
           q == Patch(w, pending.saw)
           list == Put(devices, q)
           p == Position(devices, q)
<1>1. /\ pending # NoWrite /\ Fits(devices, w) /\ UniqueHosts(list) /\ devices' = list
      /\ pending' = NoWrite /\ crossed' = crossed
  BY DEF CommitsPending
<1>2. w \in Write /\ pending.saw \in Mapping /\ devices \in Lists
  BY <1>1 DEF DevicesInv, DevicesTypeOK, Started, Lists
<1>3. w.id # New => devices[w.id] \in Mapping /\ w.id \in OnList
  BY <1>1, <1>2 DEF Fits, Lists, Write, OnList
<1>4. /\ q.id = w.id /\ q \in Write
      /\ w.id # New /\ devices[w.id] = pending.saw => \A e \in Ends : q.row[e].ip = w.row[e].ip
      /\ w.id = New => q.row = w.row
  BY <1>2, <1>3, PatchLemma
<1> HIDE DEF q
<1>5. Fits(devices, q)
  BY <1>1, <1>4 DEF Fits
<1>6. /\ p \in RowIds /\ q.id \in {New, p} /\ list \in Lists /\ list[p] = q.row
      /\ \A i \in RowIds \ {p} : list[i] = devices[i]
  BY <1>2, <1>4, <1>5, PutLemma
<1> HIDE DEF list, p
<1>7. ASSUME ~crossed PROVE DistinctAddresses(list)
  <2>1. DistinctAddresses(devices) /\ Valid(w.row, w.id)
    BY <1>1, <1>7, OnListLemma DEF DevicesInv, PendingValid
  <2>2. \A e \in Ends : q.row[e].ip = w.row[e].ip
    BY <1>1, <1>3, <1>4, <1>7 DEF DevicesInv, PendingValid, OnList
  <2>3. \A i \in OnList \ {w.id} : \A e \in Ends :
          w.row[e].ip # Empty => w.row[e].ip # devices[i][e].ip
    BY <2>1, ValidAddresses
  <2>4. New \notin RowIds
    BY DeviceAssumption DEF RowIds
  <2>5. \A i \in RowIds \ ({p} \cup FreeRows(devices)) : i \in OnList \ {w.id}
    BY <1>4, <1>6, <2>4, OnListLemma
  <2> QED BY <1>2, <1>6, <2>1, <2>2, <2>3, <2>5, PutDistinct
<1>8. DevicesTypeOK'
  BY <1>1, <1>6 DEF DevicesInv, DevicesTypeOK, Lists
<1>9. DevicesDistinct'
  <2>1. (OnList = RowIds \ FreeRows(devices))'
    BY DEF OnList, FreeRows
  <2> QED BY <1>1, <1>7, <2>1 DEF DevicesDistinct, DistinctAddresses
<1> QED BY <1>1, <1>8, <1>9 DEF DevicesInv, PendingValid

\* Rows go; what is left was there before.
LEMMA DeletesKeeps ==
  ASSUME DevicesInv, NEW ids, devices' = [i \in RowIds |-> IF i \in ids THEN Empty ELSE devices[i]],
         UNCHANGED <<pending, crossed>>
  PROVE  DevicesInv'
<1>1. DevicesTypeOK'
  BY DEF DevicesInv, DevicesTypeOK
<1>2. \A i \in RowIds : devices'[i] # Empty => i \in OnList /\ devices'[i] = devices[i]
  BY DEF OnList
<1>3. DevicesDistinct'
  BY <1>2 DEF DevicesInv, DevicesDistinct, UniqueHosts, FreeRows, OnList
<1>4. PendingValid'
  <2>1. pending # NoWrite => pending.write.id \in RowIds \cup {New}
    BY DEF DevicesInv, DevicesTypeOK, Started, Write
  <2> QED BY <1>2, <2>1 DEF DevicesInv, PendingValid, Valid, OnList
<1> QED BY <1>1, <1>3, <1>4 DEF DevicesInv

LEMMA DevicesStep == DevicesInv /\ [DevicesNext]_deviceVars => DevicesInv'
<1> SUFFICES ASSUME DevicesInv, [DevicesNext]_deviceVars PROVE DevicesInv'
  OBVIOUS
<1>1. ASSUME NEW w \in Creates \cup Updates, WriteNow(w) \/ Validates(w) PROVE DevicesInv'
  BY <1>1, WritesLemma, WriteNowKeeps, ValidatesKeeps DEF DevicesInv
<1>2. ASSUME NEW m1 \in Complete, NEW m2 \in Complete, ImportNow(m1, m2) PROVE DevicesInv'
  BY <1>2, ImportNowKeeps
<1>3. CASE Refused
  BY <1>3 DEF Refused, DevicesInv, DevicesTypeOK, DevicesDistinct, UniqueHosts, FreeRows, OnList,
     PendingValid
<1>4. ASSUME NEW ids, Deletes(ids) PROVE DevicesInv'
  BY <1>4, DeletesKeeps DEF Deletes
<1>5. CASE ClearAll
  <2>1. devices' = [i \in RowIds |-> IF i \in RowIds THEN Empty ELSE devices[i]]
    BY <1>5 DEF ClearAll
  <2> QED BY <1>5, <2>1, DeletesKeeps DEF ClearAll
<1>6. CASE UNCHANGED deviceVars
  BY <1>6 DEF deviceVars, DevicesInv, DevicesTypeOK, DevicesDistinct, UniqueHosts, FreeRows, OnList,
     PendingValid, Valid
<1> QED BY <1>1, <1>2, <1>3, <1>4, <1>5, <1>6, CommitsPendingKeeps DEF DevicesNext

\* The inductive invariant of the device list, for any hostnames, addresses and rows.
THEOREM DevicesInvariant == DevicesSpec => []DevicesInv
BY DevicesInitInv, DevicesStep, PTL DEF DevicesSpec

\* No two rows have a hostname in common on one side, nor an address as long as no two writes
\* crossed (validate_device_mapping, import_csv and the unique keys).
THEOREM DevicesAlwaysDistinct == DevicesSpec => []DevicesDistinct
<1>1. DevicesInv => DevicesDistinct
  BY DEF DevicesInv
<1> QED BY <1>1, DevicesInvariant, PTL

-----------------------------------------------------------------------------
(* Expected uplinks. *)

\* A row that passed the checks is stored with the names the checks saw.
CheckedCanonical == \A i \in Expected \ loose : links[i] = Canonical(links[i])
LinksInv == LinksTypeOK /\ EndsUsedOnce /\ CheckedCanonical

LEMMA CanonLemma ==
  ASSUME NEW n \in Names \cup {NoName}
  PROVE  Canon(n) \in Names \cup {NoName} /\ (n \in Names => Canon(n) \in Names)
BY ExpectationAssumption DEF Canon

\* Each side of an update keeps to the fields of a link.
LEMMA EndSent ==
  ASSUME NEW l \in Link, NEW d \in Devices, NEW n \in Names
  PROVE  LocalSent(l, d, n) \in Link /\ RemoteSent(l, d, n) \in Link /\ RemoteStored(l) \in Link
<1>1. Canon(n) \in Names /\ Canon(l.remote) \in Names \cup {NoName}
  BY CanonLemma DEF Link
<1>2. LocalSent(l, d, n) \in Link
  BY <1>1, Zenon DEF Link, LocalSent
<1>3. RemoteSent(l, d, n) \in Link
  BY <1>1, Zenon DEF Link, RemoteSent
<1>4. RemoteStored(l) \in Link
  BY <1>1, Zenon DEF Link, RemoteStored
<1> QED BY <1>2, <1>3, <1>4

LEMMA RequestedLink ==
  ASSUME LinksTypeOK, NEW r \in LinkCreates \cup LinkUpdates
  PROVE  r.stored \in Link /\ r.id \in LinkIds \cup {NoLink}
<1>1. CASE r \in LinkCreates
  BY <1>1 DEF LinkCreates, Link
<1>2. CASE r \in LinkUpdates
  <2>1. PICK i \in Expected :
          r \in {[id |-> i, compared |-> l, stored |-> l] :
                   l \in {LocalSent(links[i], d, n) : d \in Devices, n \in Names}}
                \cup
                {[id |-> i, compared |-> l, stored |-> RemoteStored(l)] :
                   l \in {RemoteSent(links[i], d, n) : d \in Devices, n \in Names}}
    BY <1>2 DEF LinkUpdates
  <2>2. i \in LinkIds /\ links[i] \in Link
    BY DEF Expected, LinksTypeOK
  <2>3. PICK d \in Devices, n \in Names :
          \/ r = [id |-> i, compared |-> LocalSent(links[i], d, n), stored |-> LocalSent(links[i], d, n)]
          \/ r = [id |-> i, compared |-> RemoteSent(links[i], d, n),
                  stored |-> RemoteStored(RemoteSent(links[i], d, n))]
    BY <2>1
  <2>4. /\ LocalSent(links[i], d, n) \in Link /\ RemoteSent(links[i], d, n) \in Link
        /\ RemoteStored(RemoteSent(links[i], d, n)) \in Link
    BY <2>2, EndSent
  <2> QED BY <2>2, <2>3, <2>4
<1> QED BY <1>1, <1>2

LEMMA LinksInitInv == LinksInit => LinksInv
BY DEF LinksInit, LinksInv, LinksTypeOK, EndsUsedOnce, CheckedCanonical, Expected

\* A row is written: checked, with ends of its own, or loose.
LEMMA WrittenLink ==
  ASSUME LinksInv, NEW i \in LinkIds, NEW l \in Link, links' = [links EXCEPT ![i] = l],
         loose' \in {loose \cup {i}, loose \ {i}},
         i \notin loose' =>
           /\ ~SelfLoop(l) /\ l = Canonical(l)
           /\ \A j \in Expected \ {i} : UsedEnds(l) \cap UsedEnds(links[j]) = {}
  PROVE  LinksInv'
<1>1. links'[i] = l /\ \A j \in LinkIds \ {i} : links'[j] = links[j]
  BY DEF LinksInv, LinksTypeOK
<1>2. LinksTypeOK'
  BY DEF LinksInv, LinksTypeOK
<1>3. \A j \in Expected' \ loose' : j # i => j \in Expected \ loose
  BY <1>1 DEF Expected
<1>4. ASSUME NEW j \in Expected' \ loose'
      PROVE  ~SelfLoop(links'[j]) /\ links'[j] = Canonical(links'[j])
  <2>1. CASE j = i
    BY <1>1, <2>1
  <2>2. CASE j # i
    BY <1>1, <1>3, <2>2 DEF LinksInv, EndsUsedOnce, CheckedCanonical, Expected
  <2> QED BY <2>1, <2>2
<1>5. ASSUME NEW j \in Expected' \ loose', NEW k \in Expected' \ loose', j # k
      PROVE  UsedEnds(links'[j]) \cap UsedEnds(links'[k]) = {}
  <2>1. j \in LinkIds /\ k \in LinkIds
    BY DEF Expected
  <2>2. CASE j = i
    BY <1>1, <1>3, <1>5, <2>1, <2>2
  <2>3. CASE k = i
    BY <1>1, <1>3, <1>5, <2>1, <2>3
  <2>4. CASE j # i /\ k # i
    BY <1>1, <1>3, <1>5, <2>1, <2>4 DEF LinksInv, EndsUsedOnce
  <2> QED BY <2>2, <2>3, <2>4
<1> QED BY <1>2, <1>4, <1>5 DEF LinksInv, EndsUsedOnce, CheckedCanonical

LEMMA LinkWrittenKeeps ==
  ASSUME LinksInv, NEW r \in LinkCreates \cup LinkUpdates, LinkWritten(r)
  PROVE  LinksInv'
<1>1. r.stored \in Link /\ r.id \in LinkIds \cup {NoLink}
  BY RequestedLink DEF LinksInv
<1>2. PICK i \in LinkIds :
        /\ IF r.id = NoLink THEN FirstFree(i) ELSE i = r.id
        /\ links' = [links EXCEPT ![i] = r.stored]
        /\ loose' = IF Strays(r) THEN loose \cup {i} ELSE loose \ {i}
  BY DEF LinkWritten
<1>3. ASSUME i \notin loose'
      PROVE  /\ ~SelfLoop(r.stored) /\ r.stored = Canonical(r.stored)
             /\ \A j \in Expected \ {i} : UsedEnds(r.stored) \cap UsedEnds(links[j]) = {}
  <2>1. r.stored = Canonical(r.stored) /\ r.compared = r.stored
    BY <1>2, <1>3 DEF Strays
  <2>2. ~SelfLoop(r.stored) /\ Unused(r.stored, r.id)
    BY <2>1 DEF LinkWritten, Passes
  <2>3. \A j \in Expected \ {i} : j # r.id
    BY <1>2, ExpectationAssumption DEF Expected, LinkIds
  <2> QED BY <2>1, <2>2, <2>3 DEF Unused
<1> QED BY <1>1, <1>2, <1>3, WrittenLink

LEMMA LinksStep == LinksInv /\ [LinksNext]_linkVars => LinksInv'
<1> SUFFICES ASSUME LinksInv, [LinksNext]_linkVars PROVE LinksInv'
  OBVIOUS
<1>1. ASSUME NEW r \in LinkCreates \cup LinkUpdates, LinkWritten(r) PROVE LinksInv'
  BY <1>1, LinkWrittenKeeps
<1>2. ASSUME NEW l \in Link, LineImported(l) PROVE LinksInv'
  <2>1. PICK i \in LinkIds : links' = [links EXCEPT ![i] = l] /\ loose' = loose \cup {i}
    BY <1>2 DEF LineImported
  <2> QED BY <2>1, WrittenLink
<1>3. ASSUME NEW ids \in SUBSET LinkIds, LinksDeleted(ids) PROVE LinksInv'
  <2>1. /\ links' = [i \in LinkIds |-> IF i \in ids THEN NoLink ELSE links[i]]
        /\ loose' = loose \ ids
    BY <1>3 DEF LinksDeleted
  <2>2. \A i \in Expected' \ loose' : i \in Expected \ loose /\ links'[i] = links[i]
    BY <2>1 DEF Expected
  <2>3. LinksTypeOK'
    BY <2>1 DEF LinksInv, LinksTypeOK
  <2> QED BY <2>2, <2>3 DEF LinksInv, EndsUsedOnce, CheckedCanonical
<1>4. CASE UNCHANGED linkVars
  BY <1>4 DEF linkVars, LinksInv, LinksTypeOK, EndsUsedOnce, CheckedCanonical, Expected
<1> QED BY <1>1, <1>2, <1>3, <1>4 DEF LinksNext

\* The inductive invariant of the expected uplinks, for any devices and interface names.
THEOREM LinksInvariant == LinksSpec => []LinksInv
BY LinksInitInv, LinksStep, PTL DEF LinksSpec

\* An interface is an end of one checked link only, and not both of its ends
\* (create_uplink_expectation, update_uplink_expectation between imports and deletes).
THEOREM EndsUsedOnceAlways == LinksSpec => []EndsUsedOnce
<1>1. LinksInv => EndsUsedOnce
  BY DEF LinksInv
<1> QED BY <1>1, LinksInvariant, PTL

-----------------------------------------------------------------------------
(* Expected versions and port channels, and how they are judged. *)

PlanStored(i) == plans[i] = NoPlan \/ (asked[i] \in Plan /\ plans[i] = Normalized(asked[i]))
PlanKeysDistinct ==
  \A i, j \in Planned : PlanKey(plans[i]) = PlanKey(plans[j]) => i = j

PlansInv ==
  /\ PlansTypeOK
  /\ plans = [i \in PlanIds |-> plans[i]]
  /\ \A i \in PlanIds : PlanStored(i)
  /\ PlanKeysDistinct

LEMMA PlanFields ==
  ASSUME NEW p \in Plan
  PROVE  /\ p.kind \in {"version", "port_channel"}
         /\ p.kind = "port_channel" => p.name \in Names /\ p.parts \subseteq Names
         /\ p.kind = "version" => p.name = NoName
<1>1. CASE p \in PlanOf("version")
  BY <1>1 DEF PlanOf
<1>2. CASE p \in PlanOf("port_channel")
  <2>1. p.kind = "port_channel" /\ p.name \in Names /\ p.parts \in PlanParts["port_channel"]
    BY <1>2 DEF PlanOf
  <2> QED BY <2>1, PlanAssumption
<1> QED BY <1>1, <1>2 DEF Plan

LEMMA NormalizedPlan ==
  ASSUME NEW p \in Plan
  PROVE  /\ Normalized(p).kind = p.kind
         /\ p.kind = "version" => Normalized(p) = p
         /\ p.kind = "port_channel" =>
              Normalized(p).name = CanonOf[p.name] /\ Normalized(p).parts = {CanonOf[m] : m \in p.parts}
         /\ Normalized(p).name \in Names \cup {NoName}
<1> DEFINE Written == [[p EXCEPT !.name = CanonOf[p.name]] EXCEPT !.parts = {CanonOf[m] : m \in p.parts}]
<1>1. CASE p.kind = "version"
  BY <1>1, PlanFields DEF Normalized
<1>2. CASE p.kind # "version"
  <2>1. p \in PlanOf("port_channel") /\ p.kind = "port_channel"
    BY <1>2 DEF Plan, PlanOf
  <2>2. Normalized(p) = Written
    BY <1>2, Zenon DEF Normalized
  <2>3. DOMAIN p = {"kind", "host", "parts", "name"}
    BY <2>1 DEF PlanOf
  <2>4. Written.kind = p.kind /\ Written.name = CanonOf[p.name]
        /\ Written.parts = {CanonOf[m] : m \in p.parts}
    BY <2>3, Zenon
  <2>5. CanonOf[p.name] \in Names
    BY <2>1, PlanFields, ExpectationAssumption
  <2> QED BY <1>2, <2>1, <2>2, <2>4, <2>5
<1> QED BY <1>1, <1>2

\* After a write with these rows, nothing but keys is left to show.
LEMMA PlansWritten ==
  ASSUME PlansInv, NEW used \in SUBSET PlanIds, NEW p \in [used -> Plan],
         plans' = [i \in PlanIds |-> IF i \in used THEN Normalized(p[i]) ELSE plans[i]],
         asked' = [i \in PlanIds |-> IF i \in used THEN p[i] ELSE asked[i]],
         \A i, j \in used : PlanKey(Normalized(p[i])) = PlanKey(Normalized(p[j])) => i = j,
         \A i \in used : HoldersOf(p[i]) \subseteq used
  PROVE  PlansInv'
<1>1. ASSUME NEW i \in PlanIds PROVE PlanStored(i)' /\ (plans'[i] # NoPlan => plans'[i].name \in Names \cup {NoName})
  <2>1. CASE i \in used
    <3>1. plans'[i] = Normalized(p[i]) /\ asked'[i] = p[i] /\ p[i] \in Plan
      BY <2>1
    <3> QED BY <3>1, NormalizedPlan DEF PlanStored
  <2>2. CASE i \notin used
    BY <2>2 DEF PlansInv, PlanStored, PlansTypeOK
  <2> QED BY <2>1, <2>2
<1>2. PlansTypeOK'
  BY <1>1 DEF PlansTypeOK, PlansInv
<1>3. ASSUME NEW i \in Planned', NEW j \in Planned', PlanKey(plans'[i]) = PlanKey(plans'[j])
      PROVE  i = j
  <2>0. i \in PlanIds /\ j \in PlanIds
    BY DEF Planned
  <2>1. CASE i \in used /\ j \in used
    BY <1>3, <2>0, <2>1
  <2>2. CASE i \notin used /\ j \notin used
    <3>1. i \in Planned /\ j \in Planned /\ plans'[i] = plans[i] /\ plans'[j] = plans[j]
      BY <2>0, <2>2 DEF Planned
    <3> QED BY <1>3, <3>1 DEF PlansInv, PlanKeysDistinct
  <2>3. ASSUME NEW k \in PlanIds, NEW l \in Planned', k \in used, l \notin used,
               PlanKey(plans'[k]) = PlanKey(plans'[l])
        PROVE  FALSE
    <3>1. l \in Planned /\ plans'[l] = plans[l] /\ plans'[k] = Normalized(p[k])
      BY <2>3 DEF Planned
    <3>2. l \in HoldersOf(p[k])
      BY <2>3, <3>1 DEF HoldersOf
    <3> QED BY <2>3, <3>2
  <2> QED BY <1>3, <2>0, <2>1, <2>2, <2>3
<1> QED BY <1>1, <1>2, <1>3 DEF PlansInv, PlanKeysDistinct

\* One row is written, by a request that found its key free or held by that row.
LEMMA PutKeeps ==
  ASSUME PlansInv, NEW i \in PlanIds, NEW p \in Plan, HoldersOf(p) \subseteq {i}, Puts(i, p)
  PROVE  PlansInv'
<1> DEFINE q == [j \in {i} |-> p]
<1>1. q \in [{i} -> Plan] /\ q[i] = p
  OBVIOUS
<1>2. /\ plans' = [j \in PlanIds |-> IF j \in {i} THEN Normalized(q[j]) ELSE plans[j]]
      /\ asked' = [j \in PlanIds |-> IF j \in {i} THEN q[j] ELSE asked[j]]
  BY <1>1 DEF Puts, PlansInv, PlansTypeOK
<1>3. \A j \in {i} : HoldersOf(q[j]) \subseteq {i}
  BY <1>1
<1> HIDE DEF q
<1> QED BY <1>1, <1>2, <1>3, PlansWritten

LEMMA FileLines ==
  ASSUME NEW kind \in {"version", "port_channel"}, NEW file \in FilesOf(kind)
  PROVE  /\ DOMAIN file \in {1..1, 1..2}
         /\ \A k \in DOMAIN file : file[k] \in Plan
<1>1. CASE file \in {<<p>> : p \in PlanOf(kind)}
  BY <1>1 DEF Plan
<1>2. CASE file \in PlanOf(kind) \X PlanOf(kind)
  BY <1>2 DEF Plan
<1> QED BY <1>1, <1>2 DEF FilesOf

\* A file leaves each key in one row: a key in use is overwritten where it is, and a key that
\* is not is in one line.
LEMMA ImportKeeps ==
  ASSUME PlansInv, NEW kind \in {"version", "port_channel"}, NEW file \in FilesOf(kind),
         ImportPlans(file)
  PROVE  PlansInv'
<1>1. PICK row \in [DOMAIN file -> PlanIds] :
       /\ \A k \in DOMAIN file : PlansLand(file[k], row[k])
       /\ \A k, l \in DOMAIN file :
            row[k] = row[l] => PlanKey(Normalized(file[k])) = PlanKey(Normalized(file[l]))
       /\ LET last(i) == CHOOSE k \in DOMAIN file :
                           row[k] = i /\ \A l \in DOMAIN file : row[l] = i => l <= k
              used == {row[k] : k \in DOMAIN file} IN
          /\ plans' = [i \in PlanIds |-> IF i \in used THEN Normalized(file[last(i)]) ELSE plans[i]]
          /\ asked' = [i \in PlanIds |-> IF i \in used THEN file[last(i)] ELSE asked[i]]
  BY DEF ImportPlans
<1> DEFINE last(i) == CHOOSE k \in DOMAIN file :
                        row[k] = i /\ \A l \in DOMAIN file : row[l] = i => l <= k
           used == {row[k] : k \in DOMAIN file}
           p == [i \in used |-> file[last(i)]]
<1>2. \A k \in DOMAIN file : file[k] \in Plan
  BY FileLines
<1>3. ASSUME NEW i \in used PROVE last(i) \in DOMAIN file /\ row[last(i)] = i
  <2>1. \E k \in DOMAIN file : row[k] = i /\ \A l \in DOMAIN file : row[l] = i => l <= k
    <3>0. PICK k \in DOMAIN file : row[k] = i
      OBVIOUS
    <3>1. CASE DOMAIN file = 1..1
      BY <3>0, <3>1
    <3>2. CASE DOMAIN file = 1..2
      <4>1. CASE row[2] = i
        BY <3>2, <4>1
      <4>2. CASE row[2] # i
        BY <3>0, <3>2, <4>2
      <4> QED BY <4>1, <4>2
    <3> QED BY <3>1, <3>2, FileLines
  <2> QED BY <2>1
<1>4. plans' = [i \in PlanIds |-> IF i \in used THEN Normalized(file[last(i)]) ELSE plans[i]]
      /\ asked' = [i \in PlanIds |-> IF i \in used THEN file[last(i)] ELSE asked[i]]
  BY <1>1
<1> HIDE DEF last
<1>5. p \in [used -> Plan] /\ \A i \in used : p[i] = file[last(i)]
  BY <1>2, <1>3
<1>6. used \in SUBSET PlanIds
  OBVIOUS
<1> HIDE DEF p, used
<1>7. plans' = [i \in PlanIds |-> IF i \in used THEN Normalized(p[i]) ELSE plans[i]]
  BY <1>4, <1>5
<1>8. asked' = [i \in PlanIds |-> IF i \in used THEN p[i] ELSE asked[i]]
  BY <1>4, <1>5
<1>9. ASSUME NEW i \in used, NEW j \in Planned,
             PlanKey(Normalized(p[i])) = PlanKey(plans[j])
      PROVE  i = j
  <2>1. j \in HoldersOf(p[i])
    BY <1>9 DEF HoldersOf
  <2>2. i \in HoldersOf(p[i])
    BY <1>1, <1>3, <1>5, <2>1 DEF PlansLand
  <2> QED BY <2>1, <2>2 DEF HoldersOf, PlansInv, PlanKeysDistinct
<1>10. ASSUME NEW i \in used, NEW j \in used, PlanKey(Normalized(p[i])) = PlanKey(Normalized(p[j]))
       PROVE  i = j
  <2>1. HoldersOf(p[i]) = HoldersOf(p[j])
    BY <1>10 DEF HoldersOf
  <2>2. CASE HoldersOf(p[i]) = {}
    <3>1. last(i) # last(j) =>
            PlanKey(Normalized(file[last(i)])) # PlanKey(Normalized(file[last(j)]))
      BY <1>3, <1>5, <2>1, <2>2 DEF ImportPlans
    <3> QED BY <1>3, <1>5, <1>10, <3>1
  <2>3. CASE HoldersOf(p[i]) # {}
    <3>1. i \in HoldersOf(p[i]) /\ j \in HoldersOf(p[j])
      BY <1>1, <1>3, <1>5, <2>1, <2>3 DEF PlansLand
    <3> QED BY <1>9, <2>1, <3>1 DEF HoldersOf
  <2> QED BY <2>2, <2>3
<1>11. \A i \in used : HoldersOf(p[i]) \subseteq used
  BY <1>9 DEF HoldersOf
<1> QED BY <1>5, <1>6, <1>7, <1>8, <1>10, <1>11, PlansWritten

LEMMA PlansInitInv == PlansInit => PlansInv
BY DEF PlansInit, PlansInv, PlansTypeOK, PlanStored, PlanKeysDistinct, Planned

LEMMA DeletesKeep ==
  ASSUME PlansInv, NEW kind, DeletesPlans(kind)
  PROVE  PlansInv'
<1>1. PICK ids \in SUBSET PlanIds :
        /\ plans' = [i \in PlanIds |-> IF i \in ids THEN NoPlan ELSE plans[i]]
        /\ asked' = [i \in PlanIds |-> IF i \in ids THEN NoPlan ELSE asked[i]]
  BY DEF DeletesPlans, Planned
<1>2. \A i \in PlanIds : PlanStored(i)'
  BY <1>1 DEF PlansInv, PlanStored
<1>3. PlansTypeOK'
  BY <1>1 DEF PlansInv, PlansTypeOK
<1>4. \A i \in Planned' : i \in Planned /\ plans'[i] = plans[i]
  BY <1>1 DEF Planned
<1> QED BY <1>1, <1>2, <1>3, <1>4 DEF PlansInv, PlanKeysDistinct

LEMMA PlansStep == PlansInv /\ [PlansNext]_planVars => PlansInv'
<1> SUFFICES ASSUME PlansInv, [PlansNext]_planVars PROVE PlansInv'
  OBVIOUS
<1> DEFINE Kinds == {"version", "port_channel"}
<1>1. ASSUME NEW i \in PlanIds, NEW kind \in Kinds, PlanCreated(kind, i) PROVE PlansInv'
  BY <1>1, PutKeeps DEF PlanCreated, Plan
<1>2. ASSUME NEW i \in PlanIds, NEW kind \in Kinds, Edits(kind, i) PROVE PlansInv'
  BY <1>2, PutKeeps DEF Edits, Plan
<1>3. ASSUME NEW kind \in Kinds, NEW file \in FilesOf(kind), ImportPlans(file) PROVE PlansInv'
  BY <1>3, ImportKeeps
<1>4. ASSUME NEW kind \in Kinds, DeletesPlans(kind) PROVE PlansInv'
  BY <1>4, DeletesKeep
<1>5. CASE UNCHANGED planVars
  BY <1>5 DEF planVars, PlansInv, PlansTypeOK, PlanStored, PlanKeysDistinct, Planned
<1> QED
  BY <1>1, <1>2, <1>3, <1>4, <1>5
  DEF PlansNext, CreateVersion, CreatePortChannel, UpdateVersion, UpdatePortChannel,
      ImportVersions, ImportPortChannels, DeleteVersions, DeletePortChannels

\* The port channel that is found is the one that the request named, because a device has it
\* once; parts are compared in their normalised spelling on both sides.
LEMMA PortJudged ==
  ASSUME NEW a \in Plan, a.kind = "port_channel", NEW report \in PortReports
  PROVE  PortPasses(Normalized(a), report) <=>
           \E r \in report : Answers(a, r) /\ Spelled(a.parts) \subseteq Spelled(r.members)
<1> DEFINE p == Normalized(a)
           Shows(r) == r.up /\ r.down = {} /\ Spelled(p.parts) \subseteq Spelled(r.members)
           AskedFor(r) == r.up /\ r.down = {} /\ Spelled(a.parts) \subseteq Spelled(r.members)
<1>1. a.name \in Names /\ a.parts \subseteq Names
  BY PlanFields
<1>2. p.name = CanonOf[a.name] /\ p.parts = {CanonOf[m] : m \in a.parts}
  BY NormalizedPlan
<1> HIDE DEF p
<1>3. CanonOf[p.name] = CanonOf[a.name]
  BY <1>1, <1>2, ExpectationAssumption
<1>4. Spelled(p.parts) = Spelled(a.parts)
  BY <1>1, <1>2, ExpectationAssumption DEF Spelled
<1>5. Finds(p.name, report) = {r \in report : CanonOf[r.name] = CanonOf[a.name]}
  <2>1. CASE {r \in report : r.name = p.name} = {}
    BY <1>3, <2>1 DEF Finds
  <2>2. CASE {r \in report : r.name = p.name} # {}
    BY <1>3, <2>2, PlanAssumption DEF Finds
  <2> QED BY <2>1, <2>2
<1>6. PortPasses(p, report) <=> \E r \in Finds(p.name, report) : Shows(r)
  BY DEF PortPasses, Spelled
<1>7. \A r : Answers(a, r) /\ Spelled(a.parts) \subseteq Spelled(r.members)
              <=> CanonOf[r.name] = CanonOf[a.name] /\ AskedFor(r)
  BY DEF Answers
<1>8. \A r : Shows(r) <=> AskedFor(r)
  BY <1>4
<1> HIDE DEF Shows, AskedFor
<1>9. PortPasses(p, report) <=> \E r \in report : CanonOf[r.name] = CanonOf[a.name] /\ AskedFor(r)
  BY <1>5, <1>6, <1>8
<1> QED BY <1>7, <1>9 DEF p

LEMMA VersionJudged ==
  ASSUME NEW a \in Plan, a.kind = "version", NEW packages
  PROVE  VersionPasses(Normalized(a), packages) <=>
           packages # {} /\ \A v \in a.parts : \E k \in packages : k \in PackagesWith[v]
BY NormalizedPlan DEF VersionPasses

LEMMA LinkJudged ==
  ASSUME NEW l \in Link, l = Canonical(l), NEW seen
  PROVE  LinkPasses(l, seen) <=>
           \E s \in seen : (SeesIt(l, s) /\ AtItsEnds(l, s)) \/ SeenBack(l, s)
<1>1. Canonical(l).local = Canon(l.local) /\ Canonical(l).remote = Canon(l.remote)
  BY Zenon DEF Canonical, Link
<1>2. l.local = Canon(l.local) /\ l.remote = Canon(l.remote)
  BY <1>1
<1>3. ASSUME NEW s PROVE (SeesIt(l, s) /\ AtItsEnds(l, s)) \/ SeenBack(l, s) <=>
        \/ /\ s.hostname = l.hostname /\ s.neighbor = l.neighbor
           /\ CanonOf[s.local] = l.local /\ CanonOf[s.remote] = l.remote
        \/ s.hostname = l.neighbor /\ s.neighbor = l.hostname
  BY <1>2 DEF SeesIt, AtItsEnds, SeenBack
<1> QED BY <1>3 DEF LinkPasses

\* The inductive invariant of the expected versions and port channels, for any devices, names
\* and files: what is stored is what was asked, normalised, and each key is in one row.
THEOREM PlansInvariant == PlansSpec => []PlansInv
BY PlansInitInv, PlansStep, PTL DEF PlansSpec

\* An expectation is judged by its latest request, whatever spellings users and devices use,
\* and counts once: what answers it in full passes, and nothing passes that lacks what was
\* asked for (PortChannelIndicator, VersionIndicator, UplinkIndicator).
THEOREM JudgedAsAskedAlways == LinksSpec /\ PlansSpec => []JudgedAsAsked
<1>1. LinksInv /\ PlansInv => JudgedAsAsked
  <2> SUFFICES ASSUME LinksInv, PlansInv PROVE JudgedAsAsked
    OBVIOUS
  <2>1. ASSUME NEW i \in Planned
        PROVE  asked[i] \in Plan /\ plans[i] = Normalized(asked[i]) /\ plans[i].kind = asked[i].kind
    BY NormalizedPlan DEF Planned, PlansInv, PlanStored
  <2>2. \A i \in Planned : \A j \in Planned \ {i} : PlanKey(plans[i]) # PlanKey(plans[j])
    BY DEF PlansInv, PlanKeysDistinct
  <2>3. ASSUME NEW i \in Planned, plans[i].kind = "port_channel", NEW report \in PortReports
        PROVE  /\ (\E r \in report : Answers(asked[i], r)
                                       /\ Spelled(r.members) = Spelled(asked[i].parts))
                    => PortPasses(plans[i], report)
               /\ PortPasses(plans[i], report)
                    => \E r \in report : Answers(asked[i], r)
                                          /\ Spelled(asked[i].parts) \subseteq Spelled(r.members)
    <3>1. PortPasses(plans[i], report) <=>
            \E r \in report : Answers(asked[i], r)
                                /\ Spelled(asked[i].parts) \subseteq Spelled(r.members)
      BY <2>1, <2>3, PortJudged
    <3> QED BY <3>1
  <2>4. ASSUME NEW i \in Planned, plans[i].kind = "version", NEW packages \in PackageLists
        PROVE  VersionPasses(plans[i], packages) <=>
                 packages # {} /\ \A v \in asked[i].parts : \E k \in packages : k \in PackagesWith[v]
    BY <2>1, <2>4, VersionJudged
  <2>5. ASSUME NEW i \in Expected \ loose, NEW seen \in NeighborLists
        PROVE  LinkPasses(links[i], seen) <=>
                 \E s \in seen : (SeesIt(links[i], s) /\ AtItsEnds(links[i], s))
                                   \/ SeenBack(links[i], s)
    BY LinkJudged DEF LinksInv, CheckedCanonical, LinksTypeOK, Expected
  <2> QED BY <2>2, <2>3, <2>4, <2>5 DEF JudgedAsAsked
<1> QED BY <1>1, LinksInvariant, PlansInvariant, PTL

-----------------------------------------------------------------------------
(* Members of client categories. *)

\* A request about a member that nobody has overtaken still finds what its query found, and
\* it is about a category that is there.
EditsInForce ==
  \A e \in Editors : edit[e] # NoEdit =>
    /\ edit[e].id \in Made
    /\ edit[e].op \in {"join", "import"} /\ ~edit[e].late => Absent(edit[e].id, edit[e].mac)

CategoriesInv == CategoriesTypeOK /\ EditsInForce /\ MembersOnce

LEMMA MadeLemma ==
  ASSUME CategoriesTypeOK
  PROVE  category \in Seq(Category) /\ Made = 1..Len(category) /\ Len(category) \in 0..MaxRowsMade
<1>1. PICK n \in 0..MaxRowsMade : category \in [1..n -> Category]
  BY DEF CategoriesTypeOK
<1>2. n \in Nat
  BY CategoryAssumption
<1>3. category \in Seq(Category)
  BY <1>1, <1>2, SeqDef
<1>4. Len(category) = n /\ DOMAIN category = 1..n
  BY <1>1, <1>2, <1>3, LenProperties
<1> QED BY <1>3, <1>4 DEF Made

LEMMA NoEditLemma == NoEdit \notin Edit
BY DEF NoEdit, Edit

LEMMA CategoriesInitInv == CategoriesInit => CategoriesInv
<1> SUFFICES ASSUME CategoriesInit PROVE CategoriesInv
  OBVIOUS
<1>1. category \in [1..0 -> Category] /\ 0 \in 0..MaxRowsMade
  BY CategoryAssumption DEF CategoriesInit
<1>2. CategoriesTypeOK
  BY <1>1 DEF CategoriesInit, CategoriesTypeOK
<1> QED BY <1>2, CategoryAssumption DEF CategoriesInit, CategoriesInv, EditsInForce, MembersOnce

\* A step that leaves members and edits, and keeps the rows made.
LEMMA OnlyRows ==
  ASSUME CategoriesInv, UNCHANGED <<member, edit, twice>>, Made \subseteq Made',
         \E n \in 0..MaxRowsMade : category' \in [1..n -> Category]
  PROVE  CategoriesInv'
BY DEF CategoriesInv, CategoriesTypeOK, EditsInForce, MembersOnce, Absent

LEMMA CreateCategoryKeeps ==
  ASSUME CategoriesInv, NEW n \in CategoryNames, CreateCategory(n)
  PROVE  CategoriesInv'
<1> DEFINE l == Len(category)
<1>1. category \in Seq(Category) /\ Made = 1..l /\ l \in 0..MaxRowsMade /\ l < MaxRowsMade
  BY MadeLemma DEF CategoriesInv, CreateCategory
<1>2. category' = Append(category, NewCategory(n)) /\ UNCHANGED <<member, edit, twice>>
  BY DEF CreateCategory
<1>3. NewCategory(n) \in Category
  BY DEF NewCategory, Category
<1>4. category' \in Seq(Category) /\ Len(category') = l + 1
  BY <1>1, <1>2, <1>3, AppendProperties
<1>5. category' \in [1..(l + 1) -> Category] /\ Made' = 1..(l + 1)
  BY <1>4, LenProperties DEF Made
<1>6. l + 1 \in 0..MaxRowsMade
  BY <1>1, CategoryAssumption
<1> QED BY <1>1, <1>2, <1>5, <1>6, OnlyRows

LEMMA RowChanges ==
  ASSUME CategoriesInv, NEW i \in Made, NEW row \in Category,
         category' = [category EXCEPT ![i] = row], UNCHANGED <<member, edit, twice>>
  PROVE  CategoriesInv'
<1>1. PICK n \in 0..MaxRowsMade : category \in [1..n -> Category]
  BY DEF CategoriesInv, CategoriesTypeOK
<1>2. category' \in [1..n -> Category] /\ Made' = Made
  BY <1>1 DEF Made
<1> QED BY <1>2, OnlyRows

LEMMA RenameOrDeleteKeeps ==
  ASSUME CategoriesInv, NEW i \in CategoryIds,
         DeleteCategory(i) \/ \E n \in CategoryNames : RenameCategory(i, n)
  PROVE  CategoriesInv'
<1>1. PICK l \in 0..MaxRowsMade : category \in [1..l -> Category]
  BY DEF CategoriesInv, CategoriesTypeOK
<1>2. i \in Made /\ category[i] \in Category /\ UNCHANGED <<member, edit, twice>>
  BY <1>1 DEF DeleteCategory, RenameCategory, Made
<1>3. CASE DeleteCategory(i)
  <2> DEFINE row == [category[i] EXCEPT !.active = "false"]
  <2>1. row \in Category
    BY <1>2, Zenon DEF Category
  <2>2. category' = [category EXCEPT ![i] = row]
    BY <1>3, Zenon DEF DeleteCategory
  <2> HIDE DEF row
  <2> QED BY <1>2, <2>1, <2>2, RowChanges
<1>4. ASSUME NEW n \in CategoryNames, RenameCategory(i, n) PROVE CategoriesInv'
  <2> DEFINE row == [category[i] EXCEPT !.name = n]
  <2>1. row \in Category
    BY <1>2, Zenon DEF Category
  <2>2. category' = [category EXCEPT ![i] = row]
    BY <1>4, Zenon DEF RenameCategory
  <2> HIDE DEF row
  <2> QED BY <1>2, <2>1, <2>2, RowChanges
<1> QED BY <1>3, <1>4

LEMMA BulkImportKeeps ==
  ASSUME CategoriesInv, NEW names \in SUBSET CategoryNames, NEW x \in Macs, NEW lines \in 1..MaxLines,
         BulkImport(names, x, lines)
  PROVE  CategoriesInv'
<1> DEFINE new == names \ NamesInUse
           k == Cardinality(new)
           l == Len(category)
           ids == DOMAIN category' \ Made
<1>1. category \in Seq(Category) /\ Made = 1..l /\ l \in 0..MaxRowsMade /\ lines \in Nat
  BY MadeLemma, CategoryAssumption DEF CategoriesInv
<1>2. k \in Nat /\ l + k <= MaxRowsMade
  <2>1. IsFiniteSet(new)
    BY FS_Subset, CategoryAssumption
  <2> QED BY <2>1, FS_CardinalityType DEF BulkImport
<1>3. PICK s \in [1..k -> new] :
        /\ category' = category \o [i \in DOMAIN s |-> NewCategory(s[i])]
        /\ member' = [i \in CategoryIds |->
             IF i \in Made \/ i \notin DOMAIN category' THEN member[i]
             ELSE [member[i] EXCEPT ![x] = lines]]
        /\ twice' = twice \cup Repeats(ids, x, lines)
        /\ edit' = edit
  BY DEF BulkImport
<1> DEFINE t == [i \in DOMAIN s |-> NewCategory(s[i])]
<1>4. t \in Seq(Category) /\ Len(t) = k
  <2>1. \A i \in 1..k : NewCategory(s[i]) \in Category
    BY DEF NewCategory, Category
  <2>2. t \in [1..k -> Category]
    BY <2>1
  <2>3. t \in Seq(Category)
    BY <1>2, <2>2, SeqDef
  <2> QED BY <1>2, <2>2, <2>3, LenProperties
<1> HIDE DEF t, k, new
<1>5. category' \in Seq(Category) /\ Len(category') = l + k
  BY <1>1, <1>3, <1>4, ConcatProperties DEF t
<1>6. category' \in [1..(l + k) -> Category] /\ DOMAIN category' = 1..(l + k)
  BY <1>5, LenProperties
<1>7. l + k \in 0..MaxRowsMade /\ 1..(l + k) \subseteq CategoryIds /\ 1..l \subseteq 1..(l + k)
  BY <1>1, <1>2, CategoryAssumption DEF CategoryIds
<1>8. \A i \in CategoryIds : i \in Made => member'[i] = member[i]
  BY <1>3
<1>9. /\ member' \in [CategoryIds -> [Macs -> Nat]]
      /\ \A i \in CategoryIds, y \in Macs :
           member'[i][y] = member[i][y] \/ (i \in ids /\ y = x /\ member'[i][y] = lines)
  <2>1. member \in [CategoryIds -> [Macs -> Nat]]
    BY DEF CategoriesInv, CategoriesTypeOK
  <2> QED BY <1>1, <1>3, <2>1
<1>10. ids \X {x} \subseteq CategoryIds \X Macs
  BY <1>6, <1>7
<1>11. CategoriesTypeOK'
  BY <1>3, <1>6, <1>7, <1>9, <1>10 DEF CategoriesInv, CategoriesTypeOK, Repeats
<1>12. MembersOnce'
  <2> SUFFICES ASSUME NEW i \in CategoryIds, NEW y \in Macs, member'[i][y] > 1
               PROVE  <<i, y>> \in twice'
    BY DEF MembersOnce
  <2>1. CASE member'[i][y] = member[i][y]
    BY <1>3, <2>1 DEF CategoriesInv, MembersOnce
  <2>2. CASE i \in ids /\ y = x /\ member'[i][y] = lines
    BY <1>3, <2>2 DEF Repeats
  <2> QED BY <1>9, <2>1, <2>2
<1>13. EditsInForce'
  <2>1. Made \subseteq Made' /\ Made \subseteq CategoryIds
    BY <1>1, <1>6, <1>7 DEF Made
  <2> QED BY <1>3, <1>8, <2>1 DEF CategoriesInv, EditsInForce, Absent
<1> QED BY <1>11, <1>12, <1>13 DEF CategoriesInv

LEMMA AsksKeeps ==
  ASSUME CategoriesInv, NEW e \in Editors, NEW op \in {"join", "import", "leave"},
         NEW i \in CategoryIds, NEW x \in Macs, NEW lines \in 1..MaxLines, Asks(e, op, i, x, lines),
         op \in {"join", "import"} => Absent(i, x)
  PROVE  CategoriesInv'
<1> DEFINE q == [op |-> op, id |-> i, mac |-> x, lines |-> lines, late |-> FALSE]
<1>1. q \in Edit /\ q.op = op /\ q.id = i /\ q.mac = x
  BY DEF Edit
<1>2. i \in Made /\ edit' = [edit EXCEPT ![e] = q] /\ UNCHANGED <<category, member, twice>>
  BY DEF Asks
<1> HIDE DEF q
<1>3. CategoriesTypeOK'
  BY <1>1, <1>2 DEF CategoriesInv, CategoriesTypeOK
<1>4. edit'[e] = q /\ \A d \in Editors \ {e} : edit'[d] = edit[d]
  BY <1>2 DEF CategoriesInv, CategoriesTypeOK
<1>5. EditsInForce'
  <2> SUFFICES ASSUME NEW d \in Editors, edit'[d] # NoEdit
               PROVE  /\ edit'[d].id \in Made
                      /\ edit'[d].op \in {"join", "import"} /\ ~edit'[d].late =>
                           member[edit'[d].id][edit'[d].mac] = 0
    BY <1>2 DEF EditsInForce, Absent, Made
  <2>1. CASE d = e
    BY <1>1, <1>2, <1>4, <2>1 DEF Absent
  <2>2. CASE d # e
    BY <1>4, <2>2 DEF CategoriesInv, EditsInForce, Absent
  <2> QED BY <2>1, <2>2
<1>6. MembersOnce'
  BY <1>2 DEF CategoriesInv, MembersOnce
<1> QED BY <1>3, <1>5, <1>6 DEF CategoriesInv

MadeLate(q) == [q EXCEPT !.late = TRUE]
LEMMA LateEdit ==
  ASSUME NEW q \in Edit
  PROVE  MadeLate(q) \in Edit /\ MadeLate(q).late = TRUE /\ MadeLate(q).id = q.id
BY Zenon DEF MadeLate, Edit

\* When members change all requests in flight are overtaken, or have ended.
LEMMA AllLate ==
  ASSUME CategoriesInv, UNCHANGED category,
         \A d \in Editors : edit'[d] = NoEdit \/ (edit[d] # NoEdit /\ edit'[d] = MadeLate(edit[d])),
         edit' = [d \in Editors |-> edit'[d]]
  PROVE  edit' \in [Editors -> Edit \cup {NoEdit}] /\ EditsInForce'
<1>1. \A d \in Editors : edit[d] # NoEdit =>
        /\ MadeLate(edit[d]) \in Edit /\ MadeLate(edit[d]).late = TRUE
        /\ MadeLate(edit[d]).id \in Made
  BY LateEdit DEF CategoriesInv, CategoriesTypeOK, EditsInForce
<1>2. edit' \in [Editors -> Edit \cup {NoEdit}]
  BY <1>1
<1>3. EditsInForce'
  BY <1>1 DEF EditsInForce, Made
<1> QED BY <1>2, <1>3

LEMMA EditCommitKeeps ==
  ASSUME CategoriesInv, NEW e \in Editors,
         JoinCommits(e) \/ ImportCommits(e) \/ LeaveCommits(e)
  PROVE  CategoriesInv'
<1> DEFINE i == edit[e].id
           x == edit[e].mac
<1>1. edit[e] \in Edit /\ edit[e] # NoEdit
  <2>1. edit[e].op # "none"
    BY DEF JoinCommits, ImportCommits, LeaveCommits
  <2> QED BY <2>1 DEF CategoriesInv, CategoriesTypeOK, NoEdit, Edit
<1> DEFINE lines == edit[e].lines
<1>2. i \in CategoryIds /\ x \in Macs /\ member[i][x] \in Nat /\ lines \in Nat \ {0}
  BY <1>1, CategoryAssumption DEF Edit, CategoriesInv, CategoriesTypeOK
<1>3. edit' \in [Editors -> Edit \cup {NoEdit}] /\ EditsInForce' /\ UNCHANGED category
  <2>1. edit' = [d \in Editors |->
                   IF d = e \/ edit[d] = NoEdit THEN NoEdit ELSE MadeLate(edit[d])]
    BY Zenon DEF JoinCommits, ImportCommits, Adds, LeaveCommits, Finishes, MadeLate
  <2>2. UNCHANGED category
    BY DEF JoinCommits, ImportCommits, Adds, LeaveCommits
  <2> QED BY <2>1, <2>2, AllLate
<1> HIDE DEF i, x, lines
<1>4. CASE JoinCommits(e) \/ ImportCommits(e)
  <2>1. /\ member' = [member EXCEPT ![i][x] = member[i][x] + lines]
        /\ twice' = IF edit[e].late \/ lines > 1 THEN twice \cup {<<i, x>>} ELSE twice
    BY <1>4 DEF JoinCommits, ImportCommits, Adds, i, x, lines
  <2>2. /\ member' \in [CategoryIds -> [Macs -> Nat]] /\ member'[i][x] = member[i][x] + lines
        /\ \A j \in CategoryIds, y \in Macs : <<j, y>> # <<i, x>> => member'[j][y] = member[j][y]
    BY <1>2, <2>1 DEF CategoriesInv, CategoriesTypeOK
  <2>3. CategoriesTypeOK'
    BY <1>2, <1>3, <2>1, <2>2 DEF CategoriesInv, CategoriesTypeOK
  <2>4. ~edit[e].late => member[i][x] = 0
    BY <1>1, <1>4 DEF CategoriesInv, EditsInForce, Absent, JoinCommits, ImportCommits, i, x
  <2>5. MembersOnce'
    <3> SUFFICES ASSUME NEW j \in CategoryIds, NEW y \in Macs, member'[j][y] > 1
                 PROVE  <<j, y>> \in twice'
      BY DEF MembersOnce
    <3>1. CASE <<j, y>> = <<i, x>>
      BY <1>2, <2>1, <2>2, <2>4, <3>1
    <3>2. CASE <<j, y>> # <<i, x>>
      BY <2>1, <2>2, <3>2 DEF CategoriesInv, MembersOnce
    <3> QED BY <3>1, <3>2
  <2> QED BY <1>3, <2>3, <2>5 DEF CategoriesInv
<1>5. CASE LeaveCommits(e)
  <2>1. member' = [member EXCEPT ![i][x] = member[i][x] - 1] /\ member[i][x] > 0 /\ twice' = twice
    BY <1>5 DEF LeaveCommits, i, x
  <2>2. /\ member' \in [CategoryIds -> [Macs -> Nat]] /\ member'[i][x] < member[i][x]
        /\ \A j \in CategoryIds, y \in Macs : <<j, y>> # <<i, x>> => member'[j][y] = member[j][y]
    BY <1>2, <2>1 DEF CategoriesInv, CategoriesTypeOK
  <2>3. CategoriesTypeOK'
    BY <1>3, <2>1, <2>2 DEF CategoriesInv, CategoriesTypeOK
  <2>4. MembersOnce'
    <3> SUFFICES ASSUME NEW j \in CategoryIds, NEW y \in Macs, member'[j][y] > 1
                 PROVE  <<j, y>> \in twice
      BY <2>1 DEF MembersOnce
    <3>1. CASE <<j, y>> = <<i, x>>
      BY <1>2, <2>1, <2>2, <3>1 DEF CategoriesInv, MembersOnce
    <3>2. CASE <<j, y>> # <<i, x>>
      BY <2>2, <3>2 DEF CategoriesInv, MembersOnce
    <3> QED BY <3>1, <3>2
  <2> QED BY <1>3, <2>3, <2>4 DEF CategoriesInv
<1> QED BY <1>4, <1>5

LEMMA EditFailsKeeps ==
  ASSUME CategoriesInv, NEW e \in Editors, EditFails(e)
  PROVE  CategoriesInv'
<1>1. edit' = [edit EXCEPT ![e] = NoEdit] /\ UNCHANGED <<category, member, twice>>
  BY DEF EditFails
<1>2. \A d \in Editors : edit'[d] # NoEdit => edit'[d] = edit[d]
  BY <1>1 DEF CategoriesInv, CategoriesTypeOK
<1> QED BY <1>1, <1>2 DEF CategoriesInv, CategoriesTypeOK, EditsInForce, MembersOnce, Absent, Made

LEMMA CategoriesStep == CategoriesInv /\ [CategoriesNext]_categoryVars => CategoriesInv'
<1> SUFFICES ASSUME CategoriesInv, [CategoriesNext]_categoryVars PROVE CategoriesInv'
  OBVIOUS
<1>1. ASSUME NEW e \in Editors, NEW i \in CategoryIds, NEW x \in Macs,
             JoinAsks(e, i, x) \/ LeaveAsks(e, i, x)
      PROVE  CategoriesInv'
  BY <1>1, AsksKeeps, CategoryAssumption DEF JoinAsks, LeaveAsks
<1>3. ASSUME NEW e \in Editors, NEW i \in CategoryIds, NEW x \in Macs, NEW lines \in 1..MaxLines,
             ImportAsks(e, i, x, lines)
      PROVE  CategoriesInv'
  BY <1>3, AsksKeeps DEF ImportAsks
<1>2. CASE UNCHANGED categoryVars
  BY <1>2 DEF categoryVars, CategoriesInv, CategoriesTypeOK, EditsInForce, MembersOnce, Absent, Made
<1> QED BY <1>1, <1>2, <1>3, CreateCategoryKeeps, BulkImportKeeps, RenameOrDeleteKeeps,
           EditCommitKeeps, EditFailsKeeps
        DEF CategoriesNext

\* The inductive invariant of the client categories, for any names, MACs and requests.
THEOREM CategoriesInvariant == CategoriesSpec => []CategoriesInv
BY CategoriesInitInv, CategoriesStep, PTL DEF CategoriesSpec

\* A MAC is a member of a category once, unless the request that added it was overtaken, or a
\* file had it twice (add_member, remove_member, import_members_csv).
THEOREM MembersOnceAlways == CategoriesSpec => []MembersOnce
<1>1. CategoriesInv => MembersOnce
  BY DEF CategoriesInv
<1> QED BY <1>1, CategoriesInvariant, PTL

-----------------------------------------------------------------------------
(* The lines of an import. *)

Shelf == [parent : Nat, name : Titles]
\* A book whose ids are used ones.
BookUpTo(b, n) == DOMAIN b \subseteq 1..n /\ b \in [DOMAIN b -> Shelf]

\* Ids never come twice, and what an import has read has used ids too.
ContactsInv ==
  /\ made \in Nat /\ BookUpTo(book, made)
  /\ entries \in Seq(Nat)
  /\ importing.reading => importing.file \in Seq(Imported) /\ BookUpTo(importing.known, made)

LEMMA ContactsInitInv == ContactsInit => ContactsInv
BY EmptySeq DEF ContactsInit, ContactsInv, BookUpTo, NoImport

LEMMA HeadingsKeep ==
  ASSUME ContactsInv, made' \in Nat, made' >= made, BookUpTo(book', made'),
         entries' \in Seq(Nat), UNCHANGED importing
  PROVE  ContactsInv'
BY DEF ContactsInv, BookUpTo

-----------------------------------------------------------------------------
(* What is known after some lines. *)

\* The later book has what the earlier one has.
Extends(c, b) == DOMAIN b \subseteq DOMAIN c /\ \A i \in DOMAIN b : c[i] = b[i]

\* A place that has the name of a line.
Lands(b, at, line) ==
  IF line.main = Untitled THEN at = 0
  ELSE /\ at \in DOMAIN b
       /\ IF line.sub = Untitled THEN b[at] = [parent |-> 0, name |-> line.main]
          ELSE LET top == b[at].parent IN
               /\ b[at].name = line.sub /\ top \in DOMAIN b
               /\ b[top] = [parent |-> 0, name |-> line.main]

LEMMA LandsStill ==
  ASSUME NEW b, NEW c, Extends(c, b), NEW at, NEW line, Lands(b, at, line)
  PROVE  Lands(c, at, line)
BY DEF Extends, Lands

\* After k lines: all that was known is, new ids are above the used ones, and each line so
\* far has its place.
Knows(s, file, k) ==
  /\ s.last \in Nat /\ s.last >= made /\ s.placed \in Seq(Nat) /\ Len(s.placed) = k
  /\ DOMAIN s.known = DOMAIN importing.known \cup ((made + 1)..s.last)
  /\ BookUpTo(s.known, s.last) /\ Extends(s.known, importing.known)
  /\ \A j \in 1..k : Lands(s.known, s.placed[j], file[j])

Books == UNION {[D -> Shelf] : D \in SUBSET Nat}
State == [known : Books, last : Nat, at : Nat, placed : Seq(Nat)]

\* Of some of the numbers up to a bound one is the greatest.
LEMMA GreatestNumber ==
  ASSUME NEW n \in Nat, NEW T \in SUBSET (1..n), T # {}
  PROVE  /\ \E x \in T : \A y \in T : y <= x
         /\ \A x, z \in T : (\A y \in T : y <= x) /\ (\A y \in T : y <= z) => x = z
<1> DEFINE U == {n - x : x \in T}
<1>1. U \in SUBSET Nat /\ U # {}
  <2>1. \A x \in T : n - x \in Nat
    OBVIOUS
  <2> QED BY <2>1
<1>2. PICK u \in U : \A v \in U : u <= v
  BY <1>1, LeastNumber
<1>3. PICK x \in T : u = n - x
  OBVIOUS
<1>4. \A y \in T : n - x <= n - y
  BY <1>2, <1>3
<1>5. \A y \in T : y <= x
  BY <1>4
<1> QED BY <1>5

LEMMA LastOfIs ==
  ASSUME NEW n \in Nat, NEW ids \in SUBSET (1..n)
  PROVE  (ids = {} /\ LastOf(ids) = 0) \/ LastOf(ids) \in ids
<1>1. CASE ids = {}
  BY <1>1 DEF LastOf
<1>2. CASE ids # {}
  <2>1. \E i \in ids : \A j \in ids : j <= i
    BY <1>2, GreatestNumber
  <2> QED BY <1>2, <2>1 DEF LastOf
<1> QED BY <1>1, <1>2

\* Reaching a heading: the one that was found, or a new one.
LEMMA ReachesIs ==
  ASSUME NEW s \in State, BookUpTo(s.known, s.last), NEW heading \in Shelf,
         NEW id, id = 0 \/ (id \in DOMAIN s.known /\ s.known[id] = heading)
  PROVE  LET r == Reaches(s, heading, id) IN
         /\ r \in State /\ r.placed = s.placed
         /\ r.last \in Nat /\ (r.last = s.last \/ r.last = s.last + 1)
         /\ DOMAIN r.known = DOMAIN s.known \cup ((s.last + 1)..r.last)
         /\ BookUpTo(r.known, r.last) /\ Extends(r.known, s.known)
         /\ r.at \in DOMAIN r.known /\ r.known[r.at] = heading
<1> DEFINE r == Reaches(s, heading, id)
<1>1. s.last \in Nat /\ DOMAIN s.known \subseteq 1..s.last
  BY DEF State, BookUpTo
<1>2. CASE id = 0
  <2> DEFINE new == s.last + 1  b == Shelved(s.known, new, heading)
  <2>1. r = [s EXCEPT !.known = b, !.last = new, !.at = new]
    BY <1>2 DEF Reaches
  <2>2. /\ DOMAIN b = DOMAIN s.known \cup {new}
        /\ \A j \in DOMAIN b : b[j] = IF j = new THEN heading ELSE s.known[j]
    BY DEF Shelved
  <2>3. new \notin DOMAIN s.known /\ new \in Nat /\ (s.last + 1)..new = {new}
    BY <1>1
  <2>4. BookUpTo(b, new) /\ Extends(b, s.known)
    <3>1. DOMAIN b \subseteq 1..new
      BY <1>1, <2>2
    <3>2. Extends(b, s.known)
      BY <2>2, <2>3 DEF Extends
    <3>3. \A j \in DOMAIN b : b[j] \in Shelf
      BY <2>2 DEF BookUpTo
    <3>4. b = [j \in DOMAIN b |-> b[j]]
      BY DEF Shelved
    <3> HIDE DEF b
    <3>5. b \in [DOMAIN b -> Shelf]
      BY <3>3, <3>4
    <3> QED BY <3>1, <3>2, <3>5 DEF BookUpTo
  <2>5. b \in Books
    <3>1. DOMAIN b \in SUBSET Nat /\ b \in [DOMAIN b -> Shelf]
      BY <1>1, <2>2, <2>3, <2>4 DEF BookUpTo
    <3> QED BY <3>1 DEF Books
  <2> HIDE DEF b, new
  <2>6. r \in State /\ r.placed = s.placed /\ r.last = new /\ r.known = b /\ r.at = new
    BY <2>1, <2>3, <2>5 DEF State
  <2>7. b[new] = heading /\ new \in DOMAIN b
    BY <2>2
  <2>8. new = s.last + 1
    BY DEF new
  <2> QED BY <2>2, <2>3, <2>4, <2>6, <2>7, <2>8
<1>3. CASE id # 0
  <2>1. r = [s EXCEPT !.at = id]
    BY <1>3 DEF Reaches
  <2>2. id \in Nat
    BY <1>1, <1>3
  <2>3. r \in State /\ r.placed = s.placed /\ r.last = s.last /\ r.known = s.known /\ r.at = id
    BY <2>1, <2>2 DEF State
  <2>4. (s.last + 1)..s.last = {}
    BY <1>1
  <2>5. Extends(s.known, s.known)
    BY DEF Extends
  <2> QED BY <1>1, <1>3, <2>3, <2>4, <2>5
<1> QED BY <1>2, <1>3

\* The heading that a line asks for, if there is one.
LEMMA FoundIs ==
  ASSUME NEW s \in State, BookUpTo(s.known, s.last), NEW parent \in Nat, NEW name \in Titles
  PROVE  LET id == LastOf({i \in DOMAIN s.known : s.known[i].parent = parent /\ s.known[i].name = name})
         IN  \/ id = 0
             \/ id \in DOMAIN s.known /\ s.known[id] = [parent |-> parent, name |-> name]
<1> DEFINE ids == {i \in DOMAIN s.known : s.known[i].parent = parent /\ s.known[i].name = name}
<1>1. s.last \in Nat /\ ids \in SUBSET (1..s.last)
  BY DEF State, BookUpTo
<1>2. ASSUME NEW i \in ids PROVE i \in DOMAIN s.known /\ s.known[i] = [parent |-> parent, name |-> name]
  BY DEF BookUpTo, Shelf
<1> HIDE DEF ids
<1>3. (ids = {} /\ LastOf(ids) = 0) \/ LastOf(ids) \in ids
  BY <1>1, LastOfIs
<1>4. LastOf(ids) = 0 \/ (/\ LastOf(ids) \in DOMAIN s.known
                          /\ s.known[LastOf(ids)] = [parent |-> parent, name |-> name])
  BY <1>2, <1>3
<1> QED BY <1>4 DEF ids

LEMMA ExtendsOn ==
  ASSUME NEW a, NEW b, NEW c, Extends(b, a), Extends(c, b)
  PROVE  Extends(c, a)
BY DEF Extends

\* Sorting a line: what is known is extended, and the place is the line's.
LEMMA SortedIs ==
  ASSUME NEW s \in State, BookUpTo(s.known, s.last), NEW line \in Imported
  PROVE  LET r == Sorted(line, s) IN
         /\ r \in State /\ r.last \in Nat /\ r.last >= s.last
         /\ DOMAIN r.known = DOMAIN s.known \cup ((s.last + 1)..r.last)
         /\ BookUpTo(r.known, r.last) /\ Extends(r.known, s.known)
         /\ \E at \in Nat : r.placed = Append(s.placed, at) /\ Lands(r.known, at, line)
<1> DEFINE top == [parent |-> 0, name |-> line.main]
           main == Reaches(s, top, OnTop(s.known, line.main))
           below == [parent |-> main.at, name |-> line.sub]
           sub == Reaches(main, below, Below(main.known, main.at, line.sub))
           done == IF line.main = Untitled THEN [s EXCEPT !.at = 0]
                   ELSE IF line.sub = Untitled THEN main ELSE sub
           r == Sorted(line, s)
<1>1. r = [done EXCEPT !.placed = Append(@, done.at)]
  BY DEF Sorted
<1>2. s.last \in Nat /\ s.placed \in Seq(Nat)
  BY DEF State
<1>3. ASSUME line.main # Untitled
      PROVE  /\ main \in State /\ main.placed = s.placed
             /\ main.last \in Nat /\ (main.last = s.last \/ main.last = s.last + 1)
             /\ DOMAIN main.known = DOMAIN s.known \cup ((s.last + 1)..main.last)
             /\ BookUpTo(main.known, main.last) /\ Extends(main.known, s.known)
             /\ main.at \in DOMAIN main.known /\ main.known[main.at] = top
  <2>1. line.main \in Titles /\ top \in Shelf
    BY <1>3 DEF Imported, Shelf
  <2>2. \/ OnTop(s.known, line.main) = 0
        \/ /\ OnTop(s.known, line.main) \in DOMAIN s.known
           /\ s.known[OnTop(s.known, line.main)] = top
    BY <2>1, FoundIs DEF OnTop
  <2> HIDE DEF top
  <2> QED BY <2>1, <2>2, ReachesIs
<1>4. ASSUME line.main # Untitled, line.sub # Untitled
      PROVE  /\ sub \in State /\ sub.placed = main.placed
             /\ sub.last \in Nat /\ (sub.last = main.last \/ sub.last = main.last + 1)
             /\ DOMAIN sub.known = DOMAIN main.known \cup ((main.last + 1)..sub.last)
             /\ BookUpTo(sub.known, sub.last) /\ Extends(sub.known, main.known)
             /\ sub.at \in DOMAIN sub.known /\ sub.known[sub.at] = below
  <2>1. main \in State /\ BookUpTo(main.known, main.last) /\ main.at \in Nat
    BY <1>3, <1>4 DEF State
  <2>2. line.sub \in Titles /\ below \in Shelf
    BY <1>4, <2>1, ContactsAssumption DEF Imported, Shelf
  <2> HIDE DEF main
  <2>3. \/ Below(main.known, main.at, line.sub) = 0
        \/ /\ Below(main.known, main.at, line.sub) \in DOMAIN main.known
           /\ main.known[Below(main.known, main.at, line.sub)] = below
    BY <2>1, <2>2, FoundIs DEF Below
  <2> HIDE DEF below
  <2> QED BY <2>1, <2>2, <2>3, ReachesIs
<1> HIDE DEF main, sub
<1>5. /\ done \in State /\ done.placed = s.placed /\ done.at \in Nat /\ done.last \in Nat
      /\ done.last >= s.last
      /\ DOMAIN done.known = DOMAIN s.known \cup ((s.last + 1)..done.last)
      /\ BookUpTo(done.known, done.last) /\ Extends(done.known, s.known)
      /\ Lands(done.known, done.at, line)
  <2>1. CASE line.main = Untitled
    <3>1. /\ done = [s EXCEPT !.at = 0] /\ done \in State /\ done.placed = s.placed
          /\ done.at = 0 /\ done.last = s.last /\ done.known = s.known
      BY <2>1 DEF State
    <3>2. (s.last + 1)..s.last = {} /\ Extends(s.known, s.known)
      BY <1>2 DEF Extends
    <3> HIDE DEF done
    <3> QED BY <1>2, <2>1, <3>1, <3>2 DEF Lands
  <2>2. CASE line.main # Untitled /\ line.sub = Untitled
    <3>1. done = main
      BY <2>2
    <3>2. done.at \in Nat
      BY <1>3, <2>2, <3>1 DEF State
    <3> HIDE DEF done
    <3> QED BY <1>2, <1>3, <2>2, <3>1, <3>2 DEF Lands
  <2>3. CASE line.main # Untitled /\ line.sub # Untitled
    <3>1. done = sub
      BY <2>3
    <3> HIDE DEF done
    <3>2. done.at \in Nat /\ done \in State /\ done.placed = s.placed /\ done.last \in Nat
      BY <1>3, <1>4, <2>3, <3>1 DEF State
    <3>3. done.last >= main.last /\ main.last >= s.last /\ main.last \in Nat
      BY <1>2, <1>3, <1>4, <2>3, <3>1
    <3>4. (s.last + 1)..done.last = ((s.last + 1)..main.last) \cup ((main.last + 1)..done.last)
      BY <1>2, <3>2, <3>3
    <3>5. DOMAIN done.known = DOMAIN s.known \cup ((s.last + 1)..done.last)
      BY <1>3, <1>4, <2>3, <3>1, <3>4
    <3>6. BookUpTo(done.known, done.last) /\ Extends(done.known, s.known)
      BY <1>3, <1>4, <2>3, <3>1, ExtendsOn
    <3>7. Lands(done.known, done.at, line)
      <4>1. done.at \in DOMAIN done.known /\ done.known[done.at] = below
        BY <1>4, <2>3, <3>1
      <4>2. main.at \in DOMAIN done.known /\ done.known[main.at] = top
        BY <1>3, <1>4, <2>3, <3>1 DEF Extends
      <4> QED BY <2>3, <4>1, <4>2 DEF Lands
    <3>8. done.last >= s.last
      BY <1>2, <3>2, <3>3
    <3> QED BY <3>2, <3>5, <3>6, <3>7, <3>8
  <2> QED BY <2>1, <2>2, <2>3
<1> HIDE DEF done
<1>6. /\ r \in State /\ r.last = done.last /\ r.known = done.known
      /\ r.placed = Append(s.placed, done.at)
  <2>1. Append(s.placed, done.at) \in Seq(Nat)
    BY <1>2, <1>5, AppendProperties
  <2>2. r = [done EXCEPT !.placed = Append(s.placed, done.at)]
    BY <1>1, <1>5
  <2> QED BY <1>5, <2>1, <2>2 DEF State
<1> QED BY <1>5, <1>6

-----------------------------------------------------------------------------
(* A whole file. *)

NothingSorted == [known |-> importing.known, last |-> made, at |-> 0, placed |-> <<>>]
\* g is what is known after each of the first n lines.
SortsUpTo(g, file, n) ==
  g = [k \in 0..n |-> IF k = 0 THEN NothingSorted ELSE Sorted(file[k], g[k - 1])]

LEMMA FileIsSorted ==
  ASSUME NEW file, NEW n \in Nat
  PROVE  \E g : SortsUpTo(g, file, n)
<1> DEFINE T == {m \in Nat : ~\E g : SortsUpTo(g, file, m)}
<1>1. ASSUME T # {} PROVE FALSE
  <2>1. PICK m \in T : \A l \in T : m <= l
    BY <1>1, LeastNumber
  <2>2. CASE m = 0
    <3> DEFINE g == [k \in 0..0 |-> NothingSorted]
    <3>1. \A k \in 0..0 : k = 0
      OBVIOUS
    <3>2. SortsUpTo(g, file, 0)
      BY <3>1 DEF SortsUpTo
    <3> QED BY <2>2, <3>2
  <2>3. CASE m # 0
    <3>1. m \in Nat /\ m - 1 \in Nat /\ m - 1 \notin T
      BY <2>1, <2>3
    <3>2. PICK g : SortsUpTo(g, file, m - 1)
      BY <3>1
    <3> DEFINE h == [k \in 0..m |-> IF k = m THEN Sorted(file[m], g[m - 1]) ELSE g[k]]
    <3>3. /\ DOMAIN g = 0..(m - 1)
          /\ \A k \in 0..(m - 1) : g[k] = IF k = 0 THEN NothingSorted ELSE Sorted(file[k], g[k - 1])
      BY <3>2 DEF SortsUpTo
    <3>4. \A k \in 0..m : h[k] = IF k = 0 THEN NothingSorted ELSE Sorted(file[k], h[k - 1])
      <4> SUFFICES ASSUME NEW k \in 0..m
                   PROVE  h[k] = IF k = 0 THEN NothingSorted ELSE Sorted(file[k], h[k - 1])
        OBVIOUS
      <4>1. CASE k = m
        <5>1. h[k] = Sorted(file[k], g[k - 1]) /\ k # 0 /\ k - 1 \in 0..m /\ k - 1 # m
          BY <2>3, <3>1, <4>1
        <5>2. h[k - 1] = g[k - 1]
          BY <5>1
        <5> QED BY <5>1, <5>2
      <4>2. CASE k # m
        <5>1. k \in 0..(m - 1) /\ h[k] = g[k]
          BY <3>1, <4>2
        <5>2. ASSUME k # 0 PROVE h[k - 1] = g[k - 1]
          <6>1. k - 1 \in 0..m /\ k - 1 # m
            BY <3>1, <5>1, <5>2
          <6> QED BY <6>1
        <5> QED BY <3>3, <5>1, <5>2
      <4> QED BY <4>1, <4>2
    <3>5. SortsUpTo(h, file, m)
      <4>1. h = [k \in 0..m |-> h[k]]
        OBVIOUS
      <4> HIDE DEF h
      <4> QED BY <3>4, <4>1 DEF SortsUpTo
    <3> QED BY <2>1, <3>5
  <2> QED BY <2>2, <2>3
<1> QED BY <1>1

\* All lines of a file have their places once it is sorted.
LEMMA OutcomeKnows ==
  ASSUME ContactsInv, importing.reading
  PROVE  Knows(Outcome, importing.file, Len(importing.file))
<1> DEFINE file == importing.file  n == Len(file)
           run == CHOOSE g : SortsUpTo(g, file, n)
<1>1. file \in Seq(Imported) /\ n \in Nat /\ BookUpTo(importing.known, made) /\ made \in Nat
  BY LenProperties DEF ContactsInv
<1>2. Outcome = run[n]
  BY DEF Outcome, SortsUpTo, NothingSorted
<1>3. SortsUpTo(run, file, n)
  BY <1>1, FileIsSorted
<1> HIDE DEF run
<1>4. \A k \in 0..n : run[k] = IF k = 0 THEN NothingSorted ELSE Sorted(file[k], run[k - 1])
  BY <1>3 DEF SortsUpTo
<1>5. \A k \in 1..n : file[k] \in Imported
  BY <1>1, ElementOfSeq
<1> HIDE DEF file, n
<1> DEFINE T == {k \in 0..n : ~(run[k] \in State /\ Knows(run[k], file, k))}
<1>6. NothingSorted \in State /\ Knows(NothingSorted, file, 0)
  <2> DEFINE b == importing.known  s == NothingSorted
  <2>1. /\ s.known = b /\ s.last = made /\ s.placed = <<>> /\ s.at = 0
        /\ s = [known |-> b, last |-> made, at |-> 0, placed |-> <<>>]
    BY DEF NothingSorted
  <2>2. DOMAIN b \in SUBSET Nat /\ b \in [DOMAIN b -> Shelf]
    BY <1>1 DEF BookUpTo
  <2>3. b \in Books
    BY <2>2 DEF Books
  <2>4. (made + 1)..made = {} /\ Extends(b, b)
    BY <1>1 DEF Extends
  <2> HIDE DEF b, s
  <2>5. s \in State
    BY <1>1, <2>1, <2>3, EmptySeq DEF State
  <2>6. Knows(s, file, 0)
    BY <1>1, <2>1, <2>4, EmptySeq DEF Knows, b
  <2> QED BY <2>5, <2>6 DEF s
<1>7. ASSUME NEW k \in 1..n, run[k - 1] \in State, Knows(run[k - 1], file, k - 1)
      PROVE  run[k] \in State /\ Knows(run[k], file, k)
  <2> DEFINE s == run[k - 1]  r == run[k]
  <2>1. r = Sorted(file[k], s) /\ file[k] \in Imported /\ k \in Nat
    BY <1>1, <1>4, <1>5
  <2>2. /\ s \in State /\ s.last \in Nat /\ s.last >= made /\ s.placed \in Seq(Nat)
        /\ Len(s.placed) = k - 1
        /\ DOMAIN s.known = DOMAIN importing.known \cup ((made + 1)..s.last)
        /\ BookUpTo(s.known, s.last) /\ Extends(s.known, importing.known)
        /\ \A j \in 1..(k - 1) : Lands(s.known, s.placed[j], file[j])
    BY <1>7 DEF Knows
  <2> HIDE DEF s, r
  <2>3. /\ r \in State /\ r.last \in Nat /\ r.last >= s.last
        /\ DOMAIN r.known = DOMAIN s.known \cup ((s.last + 1)..r.last)
        /\ BookUpTo(r.known, r.last) /\ Extends(r.known, s.known)
        /\ \E at \in Nat : r.placed = Append(s.placed, at) /\ Lands(r.known, at, file[k])
    BY <2>1, <2>2, SortedIs
  <2>4. PICK at \in Nat : r.placed = Append(s.placed, at) /\ Lands(r.known, at, file[k])
    BY <2>3
  <2>5. /\ r.placed \in Seq(Nat) /\ Len(r.placed) = k /\ r.placed[k] = at
        /\ \A j \in 1..(k - 1) : r.placed[j] = s.placed[j]
    BY <2>1, <2>2, <2>4, AppendProperties
  <2>6. ASSUME NEW j \in 1..k PROVE Lands(r.known, r.placed[j], file[j])
    <3>1. CASE j = k
      BY <2>4, <2>5, <3>1
    <3>2. CASE j \in 1..(k - 1)
      BY <2>2, <2>3, <2>5, <3>2, LandsStill
    <3>3. j = k \/ j \in 1..(k - 1)
      BY <2>1
    <3> QED BY <3>1, <3>2, <3>3
  <2>7. Extends(r.known, importing.known)
    BY <2>2, <2>3, ExtendsOn
  <2>8. (made + 1)..r.last = ((made + 1)..s.last) \cup ((s.last + 1)..r.last)
    BY <1>1, <2>2, <2>3
  <2>9. DOMAIN r.known = DOMAIN importing.known \cup ((made + 1)..r.last)
    BY <2>2, <2>3, <2>8
  <2>10. r.last >= made
    BY <1>1, <2>2, <2>3
  <2>11. Knows(r, file, k)
    BY <2>3, <2>5, <2>6, <2>7, <2>9, <2>10 DEF Knows
  <2> QED BY <2>3, <2>11 DEF r
<1>8. ASSUME T # {} PROVE FALSE
  <2>1. T \in SUBSET Nat
    BY <1>1
  <2>2. PICK k \in T : \A l \in T : k <= l
    BY <1>8, <2>1, LeastNumber
  <2>3. k \in 0..n /\ k \in Nat /\ ~(run[k] \in State /\ Knows(run[k], file, k))
    BY <1>1
  <2>4. CASE k = 0
    BY <1>4, <1>6, <2>3, <2>4
  <2>5. CASE k # 0
    <3>1. k \in 1..n /\ k - 1 \in 0..n /\ k - 1 < k
      BY <1>1, <2>3, <2>5
    <3>2. k - 1 \notin T
      BY <2>1, <2>2, <2>3, <3>1
    <3>3. run[k - 1] \in State /\ Knows(run[k - 1], file, k - 1)
      BY <3>1, <3>2
    <3> QED BY <1>7, <2>3, <3>1, <3>3
  <2> QED BY <2>4, <2>5
<1>9. n \in 0..n
  BY <1>1
<1>10. Knows(run[n], file, n)
  BY <1>8, <1>9
<1> QED BY <1>2, <1>10 DEF file, n

-----------------------------------------------------------------------------
(* Every request. *)

\* A function that is written out is a book when its values are headings.
LEMMA IsBook ==
  ASSUME NEW b, NEW D, b = [i \in D |-> b[i]], NEW n \in Nat, D \subseteq 1..n,
         \A i \in D : b[i] \in Shelf
  PROVE  BookUpTo(b, n)
<1>1. DOMAIN b = D
  BY Zenon
<1>2. b \in [D -> Shelf]
  BY Zenon
<1> QED BY <1>1, <1>2 DEF BookUpTo

LEMMA LandsKeeps ==
  ASSUME ContactsInv, ImportLands
  PROVE  /\ ContactsInv'
         /\ entries' = entries \o Outcome.placed
         /\ \A i \in DOMAIN Outcome.known :
              i \in DOMAIN importing.known \/ (i \in DOMAIN book' /\ book'[i] = Outcome.known[i])
         /\ \A k \in DOMAIN Outcome.placed : Outcome.placed[k] \in {0} \cup DOMAIN book'
<1> DEFINE new == DOMAIN Outcome.known \ DOMAIN importing.known
<1>1. /\ importing.reading /\ importing' = NoImport
      /\ book' = [i \in DOMAIN book \cup new |-> IF i \in new THEN Outcome.known[i] ELSE book[i]]
      /\ made' = Outcome.last /\ entries' = entries \o Outcome.placed
      /\ \A k \in DOMAIN Outcome.placed : Outcome.placed[k] \in {0} \cup DOMAIN book \cup new
  BY DEF ImportLands
<1>2. Knows(Outcome, importing.file, Len(importing.file))
  BY <1>1, OutcomeKnows
<1>3. /\ Outcome.last \in Nat /\ Outcome.last >= made /\ Outcome.placed \in Seq(Nat)
      /\ BookUpTo(Outcome.known, Outcome.last)
  BY <1>2 DEF Knows
<1>4. BookUpTo(book, made) /\ made \in Nat /\ entries \in Seq(Nat)
  BY DEF ContactsInv
<1>5. /\ DOMAIN book' = DOMAIN book \cup new
      /\ \A i \in DOMAIN book' : book'[i] = IF i \in new THEN Outcome.known[i] ELSE book[i]
      /\ book' = [i \in DOMAIN book \cup new |-> book'[i]]
  BY <1>1
<1>6. BookUpTo(book', made')
  <2>1. DOMAIN book \cup new \subseteq 1..made'
    BY <1>1, <1>3, <1>4 DEF BookUpTo
  <2>2. \A i \in DOMAIN book \cup new : book'[i] \in Shelf
    BY <1>3, <1>4, <1>5 DEF BookUpTo
  <2>3. made' \in Nat
    BY <1>1, <1>3
  <2> HIDE DEF new
  <2> QED BY <1>5, <2>1, <2>2, <2>3, IsBook
<1>7. entries' \in Seq(Nat)
  BY <1>1, <1>3, <1>4, ConcatProperties
<1>8. ContactsInv'
  BY <1>1, <1>3, <1>6, <1>7 DEF ContactsInv, NoImport
<1> QED BY <1>1, <1>5, <1>8

LEMMA ContactsStep == ContactsInv /\ [ContactsNext]_contactVars => ContactsInv'
<1> SUFFICES ASSUME ContactsInv, [ContactsNext]_contactVars PROVE ContactsInv'
  OBVIOUS
<1>0. /\ made \in Nat /\ BookUpTo(book, made) /\ entries \in Seq(Nat)
      /\ DOMAIN book \subseteq Nat /\ \A i \in DOMAIN book : book[i] \in Shelf
  BY DEF ContactsInv, BookUpTo
<1>1. ASSUME NEW name \in Titles, NEW parent \in {0} \cup HeadingIds, CreateHeading(name, parent)
      PROVE  ContactsInv'
  <2> DEFINE h == [parent |-> parent, name |-> name]
  <2>1. /\ made' = made + 1 /\ UNCHANGED <<entries, importing>>
        /\ book' = [j \in DOMAIN book \cup {made + 1} |-> IF j = made + 1 THEN h ELSE book[j]]
    BY <1>1 DEF CreateHeading, Shelved
  <2>2. h \in Shelf
    BY DEF Shelf, HeadingIds
  <2>3. /\ book' = [j \in DOMAIN book \cup {made + 1} |-> book'[j]]
        /\ \A j \in DOMAIN book \cup {made + 1} : book'[j] = IF j = made + 1 THEN h ELSE book[j]
    BY <2>1
  <2> HIDE DEF h
  <2>4. DOMAIN book \cup {made + 1} \subseteq 1..(made + 1) /\ made + 1 \in Nat
    BY <1>0 DEF BookUpTo
  <2>5. BookUpTo(book', made')
    BY <1>0, <2>1, <2>2, <2>3, <2>4, IsBook
  <2>6. made' \in Nat /\ made' >= made /\ entries' \in Seq(Nat)
    BY <1>0, <2>1
  <2> QED BY <2>1, <2>5, <2>6, HeadingsKeep
<1>2. ASSUME NEW name \in Titles, NEW parent \in {0} \cup HeadingIds, NEW i \in HeadingIds,
             UpdateHeading(i, name, parent)
      PROVE  ContactsInv'
  <2> DEFINE h == [parent |-> parent, name |-> name]
  <2>1. UNCHANGED <<made, entries, importing>> /\ book' = [book EXCEPT ![i] = h]
    BY <1>2 DEF UpdateHeading
  <2>2. h \in Shelf
    BY DEF Shelf, HeadingIds
  <2> HIDE DEF h
  <2>3. BookUpTo(book', made')
    BY <1>0, <2>1, <2>2 DEF BookUpTo
  <2> QED BY <1>0, <2>1, <2>3, HeadingsKeep
<1>3. ASSUME NEW i \in HeadingIds, DeleteHeading(i) PROVE ContactsInv'
  <2> DEFINE D == DOMAIN Unshelved(book, i)
  <2>1. /\ UNCHANGED <<made, importing>>
        /\ entries' = [c \in DOMAIN entries |-> IF entries[c] = i THEN 0 ELSE entries[c]]
        /\ book' = [j \in D |-> IF book[j].parent = i THEN [book[j] EXCEPT !.parent = 0] ELSE book[j]]
    BY <1>3 DEF DeleteHeading
  <2>2. D = DOMAIN book \ {i}
    BY DEF Unshelved
  <2> HIDE DEF D
  <2>3. ASSUME NEW h \in Shelf PROVE [h EXCEPT !.parent = 0] \in Shelf
    BY DEF Shelf
  <2>4. /\ book' = [j \in D |-> book'[j]]
        /\ \A j \in D : book'[j] = IF book[j].parent = i THEN [book[j] EXCEPT !.parent = 0] ELSE book[j]
    BY <2>1
  <2>5. \A j \in D : book'[j] \in Shelf
    BY <1>0, <2>2, <2>3, <2>4
  <2>6. BookUpTo(book', made')
    BY <1>0, <2>1, <2>2, <2>4, <2>5, IsBook DEF BookUpTo
  <2>7. DOMAIN entries = 1..Len(entries) /\ Len(entries) \in Nat
    BY <1>0, LenProperties
  <2>8. \A c \in 1..Len(entries) : (IF entries[c] = i THEN 0 ELSE entries[c]) \in Nat
    BY <1>0, ElementOfSeq
  <2>9. entries' \in Seq(Nat)
    BY <2>1, <2>7, <2>8
  <2> QED BY <1>0, <2>1, <2>6, <2>9, HeadingsKeep
<1>4. ASSUME NEW into \in {0} \cup HeadingIds, CreateContact(into) PROVE ContactsInv'
  <2>1. into \in Nat /\ UNCHANGED <<book, made, importing>> /\ entries' = Append(entries, into)
    BY <1>4 DEF CreateContact, HeadingIds
  <2>2. entries' \in Seq(Nat)
    BY <1>0, <2>1, AppendProperties
  <2> QED BY <1>0, <2>1, <2>2, HeadingsKeep
<1>5. ASSUME NEW into \in {0} \cup HeadingIds, NEW c \in 1..MaxContacts,
             UpdateContact(c, into)
      PROVE  ContactsInv'
  <2>1. /\ into \in Nat /\ UNCHANGED <<book, made, importing>> /\ c \in DOMAIN entries
        /\ entries' = [entries EXCEPT ![c] = into]
    BY <1>5 DEF UpdateContact, HeadingIds
  <2>2. DOMAIN entries = 1..Len(entries)
    BY <1>0, LenProperties
  <2>3. entries' \in Seq(Nat)
    BY <1>0, <2>1, <2>2, ExceptSeq
  <2> QED BY <1>0, <2>1, <2>3, HeadingsKeep
<1>6. ASSUME NEW c \in 1..MaxContacts, DeleteContact(c) PROVE ContactsInv'
  <2> DEFINE n == Len(entries) - 1
  <2>1. /\ UNCHANGED <<book, made, importing>> /\ c \in DOMAIN entries
        /\ entries' = [k \in 1..n |-> entries[IF k < c THEN k ELSE k + 1]]
    BY <1>6 DEF DeleteContact
  <2>2. DOMAIN entries = 1..Len(entries) /\ Len(entries) \in Nat
    BY <1>0, LenProperties
  <2>3. n \in Nat /\ \A k \in 1..n : (IF k < c THEN k ELSE k + 1) \in 1..Len(entries)
    BY <2>1, <2>2
  <2> HIDE DEF n
  <2>4. \A k \in 1..n : entries[IF k < c THEN k ELSE k + 1] \in Nat
    BY <1>0, <2>3, ElementOfSeq
  <2>5. entries' \in Seq(Nat)
    BY <2>1, <2>3, <2>4
  <2> QED BY <1>0, <2>1, <2>5, HeadingsKeep
<1>7. ASSUME NEW file \in UNION {[1..n -> Imported] : n \in 1..MaxImported}, ImportReads(file)
      PROVE  ContactsInv'
  <2>1. UNCHANGED <<book, made, entries>> /\ importing' = [reading |-> TRUE, known |-> book, file |-> file]
    BY <1>7 DEF ImportReads
  <2>2. file \in Seq(Imported)
    BY ContactsAssumption
  <2> QED BY <1>0, <2>1, <2>2 DEF ContactsInv
<1>8. ASSUME ImportFails PROVE ContactsInv'
  BY <1>0, <1>8 DEF ImportFails, ContactsInv, NoImport
<1>9. CASE UNCHANGED contactVars
  BY <1>9 DEF ContactsInv, contactVars
<1> QED BY <1>1, <1>2, <1>3, <1>4, <1>5, <1>6, <1>7, <1>8, <1>9, LandsKeeps DEF ContactsNext

\* The ids of contact categories are used ones, in the book and in what an import has read
\* of it, so that a new one is in neither: the inductive invariant of the address book.
THEOREM ContactsInvariant == ContactsSpec => []ContactsInv
BY ContactsInitInv, ContactsStep, PTL DEF ContactsSpec

\* What the tables hold is bounded, and nothing in them refers to what is gone.
Bounded ==
  /\ made <= MaxCategoryIds /\ Len(entries) <= MaxContacts
  /\ importing = NoImport \/ importing.reading
BookInv == Bounded /\ NoneDangling

LEMMA BookInitInv == ContactsInit => BookInv
BY ContactsAssumption DEF ContactsInit, BookInv, Bounded, NoneDangling

LEMMA BookStep == ContactsInv /\ BookInv /\ [ContactsNext]_contactVars => BookInv'
<1> SUFFICES ASSUME ContactsInv, BookInv, [ContactsNext]_contactVars PROVE BookInv'
  OBVIOUS
<1>0. /\ made \in Nat /\ made <= MaxCategoryIds /\ MaxCategoryIds \in Nat
      /\ entries \in Seq(Nat) /\ Len(entries) \in Nat /\ DOMAIN entries = 1..Len(entries)
      /\ Len(entries) <= MaxContacts /\ MaxContacts \in Nat
      /\ importing = NoImport \/ importing.reading
      /\ \A i \in DOMAIN book : book[i] \in Shelf
  BY ContactsAssumption, LenProperties DEF BookInv, Bounded, ContactsInv, BookUpTo
<1>n. /\ \A c \in DOMAIN entries : entries[c] \in {0} \cup DOMAIN book
      /\ \A i \in DOMAIN book : book[i].parent \in {0} \cup DOMAIN book
  BY DEF BookInv, NoneDangling
<1>1. ASSUME NEW name \in Titles, NEW parent \in {0} \cup HeadingIds, CreateHeading(name, parent)
      PROVE  BookInv'
  <2> DEFINE h == [parent |-> parent, name |-> name]
  <2>1. /\ made < MaxCategoryIds /\ made' = made + 1 /\ UNCHANGED <<entries, importing>>
        /\ parent \in {0} \cup DOMAIN book
        /\ DOMAIN book' = DOMAIN book \cup {made + 1}
        /\ \A j \in DOMAIN book' : book'[j] = IF j = made + 1 THEN h ELSE book[j]
    BY <1>1 DEF CreateHeading, Shelved
  <2>2. h.parent \in {0} \cup DOMAIN book
    BY <2>1
  <2> HIDE DEF h
  <2>3. NoneDangling'
    BY <1>n, <2>1, <2>2 DEF NoneDangling
  <2>4. Bounded'
    BY <1>0, <2>1 DEF Bounded
  <2> QED BY <2>3, <2>4 DEF BookInv
<1>2. ASSUME NEW name \in Titles, NEW parent \in {0} \cup HeadingIds, NEW i \in HeadingIds,
             UpdateHeading(i, name, parent)
      PROVE  BookInv'
  <2> DEFINE h == [parent |-> parent, name |-> name]
  <2>1. /\ UNCHANGED <<made, entries, importing>> /\ i \in DOMAIN book
        /\ parent \in {book[i].parent} \cup DOMAIN book
        /\ DOMAIN book' = DOMAIN book
        /\ \A j \in DOMAIN book : book'[j] = IF j = i THEN h ELSE book[j]
    BY <1>2 DEF UpdateHeading
  <2>2. h.parent \in {0} \cup DOMAIN book
    BY <1>n, <2>1
  <2> HIDE DEF h
  <2>3. NoneDangling'
    BY <1>n, <2>1, <2>2 DEF NoneDangling
  <2>4. Bounded'
    BY <1>0, <2>1 DEF Bounded
  <2> QED BY <2>3, <2>4 DEF BookInv
<1>3. ASSUME NEW i \in HeadingIds, DeleteHeading(i) PROVE BookInv'
  <2>1. /\ UNCHANGED <<made, importing>>
        /\ entries' = [c \in DOMAIN entries |-> IF entries[c] = i THEN 0 ELSE entries[c]]
        /\ book' = [j \in DOMAIN Unshelved(book, i) |->
             IF book[j].parent = i THEN [book[j] EXCEPT !.parent = 0] ELSE book[j]]
    BY <1>3 DEF DeleteHeading
  <2>2. DOMAIN book' = DOMAIN book \ {i}
    BY <2>1 DEF Unshelved
  <2>3. /\ DOMAIN entries' = DOMAIN entries
        /\ \A c \in DOMAIN entries : entries'[c] = IF entries[c] = i THEN 0 ELSE entries[c]
    BY <2>1
  <2>4. \A c \in DOMAIN entries' : entries'[c] \in {0} \cup DOMAIN book'
    BY <1>n, <2>2, <2>3
  <2>5. ASSUME NEW j \in DOMAIN book' PROVE book'[j].parent \in {0} \cup DOMAIN book'
    <3>1. book'[j] = IF book[j].parent = i THEN [book[j] EXCEPT !.parent = 0] ELSE book[j]
      BY <2>1
    <3>2. j \in DOMAIN book /\ book[j] \in Shelf
      BY <1>0, <2>2
    <3>3. [book[j] EXCEPT !.parent = 0].parent = 0
      BY <3>2 DEF Shelf
    <3> QED BY <1>n, <2>2, <3>1, <3>2, <3>3
  <2>6. Len(entries') = Len(entries)
    BY <1>0, <2>1
  <2>7. Bounded'
    BY <1>0, <2>1, <2>6 DEF Bounded
  <2> QED BY <2>4, <2>5, <2>7 DEF BookInv, NoneDangling
<1>4. ASSUME NEW into \in {0} \cup HeadingIds, CreateContact(into) PROVE BookInv'
  <2>1. /\ UNCHANGED <<book, made, importing>> /\ entries' = Append(entries, into)
        /\ into \in {0} \cup DOMAIN book /\ into \in Nat /\ Len(entries) < MaxContacts
    BY <1>4 DEF CreateContact, HeadingIds
  <2>2. /\ Len(entries') = Len(entries) + 1 /\ entries' \in Seq(Nat)
        /\ entries'[Len(entries) + 1] = into
        /\ \A c \in 1..Len(entries) : entries'[c] = entries[c]
    BY <1>0, <2>1, AppendProperties
  <2>3. DOMAIN entries' = 1..(Len(entries) + 1)
    BY <2>2, LenProperties
  <2>4. \A c \in DOMAIN entries' : entries'[c] \in {0} \cup DOMAIN book
    BY <1>0, <1>n, <2>1, <2>2, <2>3
  <2>5. Bounded'
    BY <1>0, <2>1, <2>2 DEF Bounded
  <2> QED BY <1>n, <2>1, <2>4, <2>5 DEF BookInv, NoneDangling
<1>5. ASSUME NEW into \in {0} \cup HeadingIds, NEW c \in 1..MaxContacts, UpdateContact(c, into)
      PROVE  BookInv'
  <2>1. /\ UNCHANGED <<book, made, importing>> /\ c \in DOMAIN entries
        /\ into \in {0} \cup DOMAIN book /\ entries' = [entries EXCEPT ![c] = into]
    BY <1>5 DEF UpdateContact
  <2>2. Len(entries') = Len(entries) /\ DOMAIN entries' = DOMAIN entries
    BY <1>0, <2>1
  <2>3. \A k \in DOMAIN entries : entries'[k] \in {0} \cup DOMAIN book
    BY <1>n, <2>1
  <2>4. Bounded'
    BY <1>0, <2>1, <2>2 DEF Bounded
  <2> QED BY <1>n, <2>1, <2>2, <2>3, <2>4 DEF BookInv, NoneDangling
<1>6. ASSUME NEW c \in 1..MaxContacts, DeleteContact(c) PROVE BookInv'
  <2> DEFINE n == Len(entries) - 1
  <2>1. /\ UNCHANGED <<book, made, importing>> /\ c \in DOMAIN entries
        /\ entries' = [k \in 1..n |-> entries[IF k < c THEN k ELSE k + 1]]
    BY <1>6 DEF DeleteContact
  <2>2. n \in Nat /\ \A k \in 1..n : (IF k < c THEN k ELSE k + 1) \in DOMAIN entries
    BY <1>0, <2>1
  <2>3. n <= MaxContacts
    BY <1>0
  <2> HIDE DEF n
  <2>4. DOMAIN entries' = 1..n /\ Len(entries') = n
    BY <2>1, <2>2
  <2>5. \A k \in DOMAIN entries' : entries'[k] \in {0} \cup DOMAIN book
    BY <1>n, <2>1, <2>2, <2>4
  <2>6. Bounded'
    BY <1>0, <2>1, <2>3, <2>4 DEF Bounded
  <2> QED BY <1>n, <2>1, <2>5, <2>6 DEF BookInv, NoneDangling
<1>7. ASSUME NEW file \in UNION {[1..n -> Imported] : n \in 1..MaxImported}, ImportReads(file)
      PROVE  BookInv'
  BY <1>7 DEF ImportReads, BookInv, Bounded, NoneDangling
<1>8. ASSUME ImportLands PROVE BookInv'
  <2> DEFINE new == DOMAIN Outcome.known \ DOMAIN importing.known  p == Outcome.placed
  <2>1. /\ importing.reading /\ importing' = NoImport
        /\ Outcome.last <= MaxCategoryIds /\ Len(entries) + Len(p) <= MaxContacts
        /\ \A k \in DOMAIN p : p[k] \in {0} \cup DOMAIN book \cup new
        /\ \A i \in new : Outcome.known[i].parent \in {0} \cup DOMAIN book \cup new
        /\ book' = [i \in DOMAIN book \cup new |-> IF i \in new THEN Outcome.known[i] ELSE book[i]]
        /\ made' = Outcome.last /\ entries' = entries \o p
    BY <1>8 DEF ImportLands
  <2>2. p \in Seq(Nat)
    BY <2>1, OutcomeKnows DEF Knows
  <2>3. /\ DOMAIN book' = DOMAIN book \cup new
        /\ \A i \in DOMAIN book' : book'[i] = IF i \in new THEN Outcome.known[i] ELSE book[i]
    BY <2>1
  <2> HIDE DEF new, p
  <2>4. /\ entries' \in Seq(Nat) /\ Len(entries') = Len(entries) + Len(p)
        /\ \A k \in 1..(Len(entries) + Len(p)) :
             entries'[k] = IF k <= Len(entries) THEN entries[k] ELSE p[k - Len(entries)]
    BY <1>0, <2>1, <2>2, ConcatProperties
  <2>5. DOMAIN entries' = 1..(Len(entries) + Len(p)) /\ DOMAIN p = 1..Len(p) /\ Len(p) \in Nat
    BY <2>2, <2>4, LenProperties
  <2>6. ASSUME NEW k \in DOMAIN entries' PROVE entries'[k] \in {0} \cup DOMAIN book'
    <3>1. CASE k <= Len(entries)
      BY <1>0, <1>n, <2>3, <2>4, <2>5, <3>1
    <3>2. CASE ~(k <= Len(entries))
      <4>1. k - Len(entries) \in DOMAIN p
        BY <1>0, <2>5, <3>2
      <4> QED BY <2>1, <2>3, <2>4, <2>5, <3>2, <4>1
    <3> QED BY <3>1, <3>2
  <2>7. \A i \in DOMAIN book' : book'[i].parent \in {0} \cup DOMAIN book'
    BY <1>n, <2>1, <2>3
  <2>8. Bounded'
    BY <2>1, <2>4 DEF Bounded
  <2> QED BY <2>6, <2>7, <2>8 DEF BookInv, NoneDangling
<1>9. ASSUME ImportFails PROVE BookInv'
  BY <1>9 DEF ImportFails, BookInv, Bounded, NoneDangling
<1>10. CASE UNCHANGED contactVars
  BY <1>10 DEF BookInv, Bounded, NoneDangling, contactVars
<1> QED BY <1>1, <1>2, <1>3, <1>4, <1>5, <1>6, <1>7, <1>8, <1>9, <1>10 DEF ContactsNext

\* No contact is in a category and no category below one that is gone, for any names, files
\* and whatever is deleted beside an import (delete_contact_category, import_contacts_csv).
THEOREM NoneEverDangling == ContactsSpec => []NoneDangling
<1>1. BookInv => NoneDangling
  BY DEF BookInv
<1> QED BY <1>1, ContactsInvariant, BookInitInv, BookStep, PTL DEF ContactsSpec

\* The address book is well typed and within its bounds.
THEOREM ContactsTyped == ContactsSpec => []ContactsTypeOK
<1>1. ASSUME ContactsInv, BookInv PROVE ContactsTypeOK
  <2>1. /\ made \in Nat /\ made <= MaxCategoryIds /\ MaxCategoryIds \in Nat
        /\ DOMAIN book \subseteq 1..made /\ \A i \in DOMAIN book : book[i] \in Shelf
    BY <1>1, ContactsAssumption DEF ContactsInv, BookInv, Bounded, BookUpTo
  <2>2. DOMAIN book \subseteq HeadingIds
    BY <2>1 DEF HeadingIds
  <2>3. \A i \in DOMAIN book : book[i] \in Heading
    BY <1>1, <2>1, <2>2 DEF BookInv, NoneDangling, Shelf, Heading
  <2>4. /\ entries \in Seq(Nat) /\ DOMAIN entries = 1..Len(entries) /\ Len(entries) \in Nat
        /\ \A c \in DOMAIN entries : entries[c] \in {0} \cup HeadingIds
    BY <1>1, <2>2, LenProperties DEF ContactsInv, BookInv, NoneDangling
  <2>5. entries \in Seq({0} \cup HeadingIds)
    BY <2>4, IsASeq
  <2> QED BY <1>1, <2>1, <2>2, <2>3, <2>5 DEF ContactsTypeOK, ContactsInv, BookInv, Bounded
<1> QED BY <1>1, ContactsInvariant, BookInitInv, BookStep, PTL DEF ContactsSpec

-----------------------------------------------------------------------------
(* Where the lines are. *)

LEMMA PathIsNamed ==
  ASSUME NEW b, NEW c, NEW at, NEW line \in Imported, Lands(b, at, line), 0 \notin DOMAIN b,
         at # 0 => c[at] = b[at] /\ (b[at].parent # 0 => c[b[at].parent] = b[b[at].parent])
  PROVE  Path(c, at) = NamedIn(line)
<1>1. CASE line.main = Untitled
  BY <1>1 DEF Lands, Path, NamedIn
<1>2. CASE line.main # Untitled /\ line.sub = Untitled
  <2>1. at # 0 /\ b[at] = [parent |-> 0, name |-> line.main]
    BY <1>2 DEF Lands
  <2> QED BY <1>2, <2>1 DEF Path, NamedIn
<1>3. CASE line.main # Untitled /\ line.sub # Untitled
  <2> DEFINE top == b[at].parent
  <2>1. /\ at # 0 /\ b[at].name = line.sub /\ top # 0
        /\ b[top] = [parent |-> 0, name |-> line.main]
    BY <1>3 DEF Lands
  <2> QED BY <1>3, <2>1 DEF Path, NamedIn
<1> QED BY <1>1, <1>2, <1>3

\* A category is as the import read it, unless the import made it.
SameAs(b, i) == i = 0 \/ i \notin DOMAIN importing.known \/ importing.known[i] = b[i]

LEMMA LineLands ==
  ASSUME ContactsInv, ImportLands, NEW k \in DOMAIN importing.file, NEW b, b = book',
         NEW at, at = entries'[Len(entries) + k]
  PROVE  /\ at \in {0} \cup DOMAIN b
         /\ SameAs(b, at) /\ (at # 0 => SameAs(b, b[at].parent)) =>
              Path(b, at) = NamedIn(importing.file[k])
<1> DEFINE K == Outcome.known  D0 == DOMAIN importing.known  line == importing.file[k]
<1>1. importing.reading
  BY DEF ImportLands
<1>2. /\ importing.file \in Seq(Imported) /\ entries \in Seq(Nat)
  BY <1>1 DEF ContactsInv
<1>3. Knows(Outcome, importing.file, Len(importing.file))
  BY <1>1, OutcomeKnows
<1>4. /\ Outcome.placed \in Seq(Nat) /\ Len(Outcome.placed) = Len(importing.file)
      /\ Outcome.last \in Nat /\ BookUpTo(K, Outcome.last) /\ Extends(K, importing.known)
      /\ \A j \in 1..Len(importing.file) : Lands(K, Outcome.placed[j], importing.file[j])
  BY <1>3 DEF Knows
<1>5. DOMAIN importing.file = 1..Len(importing.file) /\ line \in Imported
  BY <1>2, LenProperties, ElementOfSeq
<1>6. /\ entries' = entries \o Outcome.placed
      /\ \A i \in DOMAIN K : i \in D0 \/ (i \in DOMAIN b /\ b[i] = K[i])
      /\ \A j \in DOMAIN Outcome.placed : Outcome.placed[j] \in {0} \cup DOMAIN b
  BY LandsKeeps
<1>7. k \in 1..Len(Outcome.placed) /\ DOMAIN Outcome.placed = 1..Len(Outcome.placed)
  BY <1>4, <1>5, LenProperties
<1>8. at = Outcome.placed[k]
  <2> DEFINE x == entries  y == Outcome.placed
  <2>1. x \in Seq(Nat) /\ y \in Seq(Nat) /\ k \in 1..Len(y) /\ at = (x \o y)[Len(x) + k]
    BY <1>2, <1>4, <1>6, <1>7
  <2> HIDE DEF x, y
  <2>2. Len(x) \in Nat /\ Len(y) \in Nat
    BY <2>1, LenProperties
  <2>3. Len(x) + k > Len(x) /\ Len(x) + k \in 1..(Len(x) + Len(y)) /\ (Len(x) + k) - Len(x) = k
    BY <2>1, <2>2
  <2>4. (x \o y)[Len(x) + k] = y[k]
    BY <2>1, <2>3, ConcatProperties
  <2> QED BY <2>1, <2>4 DEF y
<1>9. at \in {0} \cup DOMAIN b /\ Lands(K, at, line)
  BY <1>4, <1>5, <1>6, <1>7, <1>8
<1>10. 0 \notin DOMAIN K
  BY <1>4 DEF BookUpTo
<1>11. ASSUME SameAs(b, at), at # 0 => SameAs(b, b[at].parent)
       PROVE  Path(b, at) = NamedIn(line)
  <2>1. ASSUME NEW i \in DOMAIN K, i # 0, SameAs(b, i) PROVE b[i] = K[i]
    <3>1. CASE i \in D0
      BY <1>4, <2>1, <3>1 DEF SameAs, Extends
    <3>2. CASE i \notin D0
      BY <1>6, <3>2
    <3> QED BY <3>1, <3>2
  <2>2. at = 0 \/ at \in DOMAIN K
    BY <1>9 DEF Lands
  <2>3. at # 0 => b[at] = K[at]
    BY <1>11, <2>1, <2>2
  <2>4. ASSUME at # 0, K[at].parent # 0 PROVE b[K[at].parent] = K[K[at].parent]
    <3>1. K[at].parent \in DOMAIN K
      <4>1. line.main # Untitled /\ line.sub # Untitled
        BY <1>9, <2>4 DEF Lands
      <4> QED BY <1>9, <4>1 DEF Lands
    <3>2. SameAs(b, K[at].parent)
      BY <1>11, <2>3, <2>4
    <3> QED BY <2>1, <2>4, <3>1, <3>2
  <2> HIDE DEF K, line
  <2>5. line \in Imported /\ Lands(K, at, line) /\ 0 \notin DOMAIN K
    BY <1>5, <1>9, <1>10
  <2>6. at # 0 => b[at] = K[at] /\ (K[at].parent # 0 => b[K[at].parent] = K[K[at].parent])
    BY <2>3, <2>4
  <2> QED BY ONLY <2>5, <2>6, PathIsNamed, Zenon
<1> QED BY <1>9, <1>11

LEMMA LinesStep ==
  ASSUME ContactsInv, [ContactsNext]_contactVars, importing.reading, entries' # entries,
         importing' = NoImport
  PROVE  ImportLands
<1>1. importing # importing' /\ importing.reading
  BY DEF NoImport
<1>2. CASE UNCHANGED contactVars
  BY <1>1, <1>2 DEF contactVars
<1>3. ASSUME NEW name \in Titles, NEW parent \in {0} \cup HeadingIds, CreateHeading(name, parent)
      PROVE  FALSE
  BY <1>1, <1>3 DEF CreateHeading
<1>4. ASSUME NEW name, NEW parent, NEW i, UpdateHeading(i, name, parent) PROVE FALSE
  BY <1>1, <1>4 DEF UpdateHeading
<1>5. ASSUME NEW i, DeleteHeading(i) PROVE FALSE
  BY <1>1, <1>5 DEF DeleteHeading
<1>6. ASSUME NEW into, CreateContact(into) PROVE FALSE
  BY <1>1, <1>6 DEF CreateContact
<1>7. ASSUME NEW c, NEW into, UpdateContact(c, into) PROVE FALSE
  BY <1>1, <1>7 DEF UpdateContact
<1>8. ASSUME NEW c, DeleteContact(c) PROVE FALSE
  BY <1>1, <1>8 DEF DeleteContact
<1>9. ASSUME NEW file, ImportReads(file) PROVE FALSE
  BY <1>1, <1>9 DEF ImportReads
<1>10. ImportFails => FALSE
  BY DEF ImportFails
<1> QED BY <1>2, <1>3, <1>4, <1>5, <1>6, <1>7, <1>8, <1>9, <1>10 DEF ContactsNext

\* Each line of an import lands in the category or subcategory that it names, whatever was
\* made, renamed, moved or deleted since the import read the categories, except along with a
\* category that was itself renamed or moved (import_contacts_csv, delete_contact_category).
THEOREM LinesAlwaysLand == ContactsSpec => LinesLand
<1>1. ContactsInv /\ [ContactsNext]_contactVars =>
        [importing.reading /\ entries' # entries /\ importing' = NoImport =>
           \A k \in DOMAIN importing.file :
             LET at == entries'[Len(entries) + k]
                 same(i) == i = 0 \/ i \notin DOMAIN importing.known \/ importing.known[i] = book'[i]
             IN  /\ at \in {0} \cup DOMAIN book'
                 /\ same(at) /\ (at # 0 => same(book'[at].parent)) =>
                      Path(book', at) = NamedIn(importing.file[k])]_contactVars
  <2> SUFFICES ASSUME ContactsInv, [ContactsNext]_contactVars, importing.reading,
                      entries' # entries, importing' = NoImport, NEW k \in DOMAIN importing.file
               PROVE  LET at == entries'[Len(entries) + k]
                          same(i) == i = 0 \/ i \notin DOMAIN importing.known \/ importing.known[i] = book'[i]
                      IN  /\ at \in {0} \cup DOMAIN book'
                          /\ same(at) /\ (at # 0 => same(book'[at].parent)) =>
                               Path(book', at) = NamedIn(importing.file[k])
    OBVIOUS
  <2>1. ImportLands
    BY LinesStep
  <2>2. \A b, at : b = book' /\ at = entries'[Len(entries) + k] =>
          /\ at \in {0} \cup DOMAIN b
          /\ SameAs(b, at) /\ (at # 0 => SameAs(b, b[at].parent)) =>
               Path(b, at) = NamedIn(importing.file[k])
    BY <2>1, LineLands
  <2> QED BY <2>2 DEF SameAs
<1> QED BY <1>1, ContactsInvariant, PTL DEF ContactsSpec, LinesLand
=============================================================================
