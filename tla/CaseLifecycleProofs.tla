------------------------- MODULE CaseLifecycleProofs -------------------------
(* Theorems about CaseLifecycle, for every set of clients, users, MACs and call slots. *)
EXTENDS CaseLifecycle, FiniteSetTheorems, TLAPS

USE CaseAssumption DEF HasCase

\* A row is told from the absence of one by its status.
LEMMA CaseIsARow ==
  \A k \in Case : k # NoCase /\ k.status \in Status /\ k.ping \in Ping
BY DEF Case, NoCase, Status

LEMMA NewCaseType == \A c \in Clients : NewCase(c) \in Case
BY DEF NewCase, Case, Status, Ping

LEMMA PingedType ==
  ASSUME NEW k \in Case, NEW p \in Ping
  PROVE  /\ Pinged(k, p) \in Case
         /\ Pinged(k, p).ping = p
         /\ Pinged(k, p).status = k.status
         /\ Pinged(k, p).assignee = k.assignee
BY DEF Pinged, Case

LEMMA WrittenType ==
  ASSUME NEW k \in Case, NEW call \in LoadedRequest
  PROVE  Written(k, call) \in Case
BY DEF Written, Case, LoadedRequest

\* What update_case computes for a permitted call is a call in flight.
LEMMA LoadedType ==
  ASSUME NEW c \in Clients, NEW k \in Case,
         NEW st \in AskedStatus \cup {Keep}, NEW as \in Users \cup {None, Keep}
  PROVE  [at |-> "loaded", client |-> c,
          status |-> Column(k.status, NewStatus(k, st, as)),
          assignee |-> IF as = Keep THEN Keep ELSE Column(k.assignee, as)]
           \in LoadedRequest
<1>1. NewStatus(k, st, as) \in Status
  <2>1. CASE as = None
    BY <2>1 DEF NewStatus, Status
  <2>2. CASE as \in Users
    BY <2>2 DEF NewStatus, Status, Case
  <2>3. CASE as = Keep
    BY <2>3 DEF NewStatus, Status, Case
  <2> QED BY <2>1, <2>2, <2>3
<1> QED BY <1>1 DEF LoadedRequest, Column, Case

-----------------------------------------------------------------------------
\* A call that has loaded its case is told by its step.
LEMMA CallLoaded ==
  ASSUME TypeOK, NEW r \in Requests, Calls(r)
  PROVE  req[r] \in LoadedRequest /\ req[r].client \in Clients
<1>1. req[r] \in LoadedRequest
  BY DEF TypeOK, CallState, Calls, IdleRequest, LostRequest
<1> QED BY <1>1 DEF LoadedRequest

WithStatus(k, new) == [k EXCEPT !.status = new]

LEMMA WithStatusType ==
  ASSUME NEW k \in Case, NEW new \in Status
  PROVE  /\ WithStatus(k, new) \in Case
         /\ WithStatus(k, new).status = new
         /\ WithStatus(k, new).ping = k.ping
         /\ WithStatus(k, new).assignee = k.assignee
BY DEF WithStatus, Case

\* The table keeps its type under each of the ways a transaction writes it.
LEMMA DeleteType ==
  ASSUME TypeOK, NEW S, Delete(S)
  PROVE  /\ cases' \in [Clients -> Case \cup {NoCase}]
         /\ record' \in [Clients -> Ping \cup {"none"}]
         /\ req' \in [Requests -> CallState]
BY DEF TypeOK, Delete, CallState

LEMMA InsertType ==
  ASSUME TypeOK, NEW S, Insert(S)
  PROVE  cases' \in [Clients -> Case \cup {NoCase}]
BY NewCaseType DEF TypeOK, Insert

LEMMA SetStatusType ==
  ASSUME TypeOK, NEW S \in SUBSET {c \in Clients : HasCase(c)},
         NEW new \in Status, SetStatus(S, new)
  PROVE  /\ cases' \in [Clients -> Case \cup {NoCase}]
         /\ \A c \in Clients :
              /\ HasCase(c)' <=> HasCase(c)
              /\ HasCase(c) => /\ cases'[c].ping = cases[c].ping
                               /\ cases'[c].assignee = cases[c].assignee
              /\ c \in S => cases'[c].status = new
              /\ c \notin S => cases'[c] = cases[c]
<1>1. ASSUME NEW c \in S
      PROVE  cases[c] \in Case /\ cases'[c] = WithStatus(cases[c], new)
  BY DEF TypeOK, SetStatus, WithStatus
<1>2. \A c \in Clients \ S : cases'[c] = cases[c]
  BY DEF SetStatus
<1>3. \A c \in Clients : cases'[c] \in Case \cup {NoCase}
  <2> SUFFICES ASSUME NEW c \in Clients PROVE cases'[c] \in Case \cup {NoCase}
    OBVIOUS
  <2>1. CASE c \in S
    BY <1>1, <2>1, WithStatusType
  <2>2. CASE c \notin S
    BY <1>2, <2>2 DEF TypeOK
  <2> QED BY <2>1, <2>2
<1>4. cases' \in [Clients -> Case \cup {NoCase}]
  BY <1>3 DEF SetStatus
<1>5. ASSUME NEW c \in Clients
      PROVE  /\ HasCase(c)' <=> HasCase(c)
             /\ HasCase(c) => /\ cases'[c].ping = cases[c].ping
                              /\ cases'[c].assignee = cases[c].assignee
             /\ c \in S => cases'[c].status = new
             /\ c \notin S => cases'[c] = cases[c]
  <2>1. CASE c \in S
    BY <1>1, <2>1, WithStatusType, CaseIsARow
  <2>2. CASE c \notin S
    BY <1>2, <2>2
  <2> QED BY <2>1, <2>2
<1> QED BY <1>4, <1>5

LEMMA PingStepType ==
  ASSUME TypeOK, UpdatePingStatus
  PROVE  /\ cases' \in [Clients -> Case \cup {NoCase}]
         /\ \A c \in Clients :
              /\ HasCase(c)' <=> HasCase(c)
              /\ HasCase(c) => /\ cases'[c].status = cases[c].status
                               /\ cases'[c].assignee = cases[c].assignee
                               /\ record[c] # "none" => cases'[c].ping = record[c]
<1>1. ASSUME NEW c \in Clients, HasCase(c), record[c] # "none"
      PROVE  /\ cases'[c] = Pinged(cases[c], record[c])
             /\ cases[c] \in Case /\ record[c] \in Ping
  BY <1>1 DEF UpdatePingStatus, TypeOK
<1>2. ASSUME NEW c \in Clients, ~(HasCase(c) /\ record[c] # "none")
      PROVE  cases'[c] = cases[c]
  BY <1>2 DEF UpdatePingStatus
<1>3. \A c \in Clients : cases'[c] \in Case \cup {NoCase}
  BY <1>1, <1>2, PingedType DEF TypeOK
<1>4. cases' \in [Clients -> Case \cup {NoCase}]
  BY <1>3 DEF UpdatePingStatus
<1> QED BY <1>1, <1>2, <1>4, PingedType, CaseIsARow DEF TypeOK

\* A commit writes at most the row of its case.
LEMMA CommitType ==
  ASSUME TypeOK, NEW r \in Requests, UpdateCaseCommits(r)
  PROVE  /\ cases' \in [Clients -> Case \cup {NoCase}]
         /\ req' \in [Requests -> CallState]
         /\ req[r].client \in Clients
         /\ touched' = [touched EXCEPT ![req[r].client] = @ \cup Marked(req[r])]
         /\ touched' \in [Clients -> Marks]
         /\ \A c \in Clients : HasCase(c)' <=> HasCase(c)
         /\ \A c \in Clients \ {req[r].client} : cases'[c] = cases[c]
<1>1. req[r] \in LoadedRequest /\ req[r].client \in Clients
  BY CallLoaded DEF UpdateCaseCommits
<1>2. cases[req[r].client] \in Case
  BY <1>1 DEF TypeOK, UpdateCaseCommits
<1>3. Written(cases[req[r].client], req[r]) \in Case
  BY <1>1, <1>2, WrittenType
<1>4. cases' = [cases EXCEPT ![req[r].client] = Written(cases[req[r].client], req[r])]
  BY DEF UpdateCaseCommits
<1>5. touched' \in [Clients -> Marks]
  <2>1. Marked(req[r]) \in Marks
    BY DEF Marked, Marks
  <2>2. touched' = [touched EXCEPT ![req[r].client] = @ \cup Marked(req[r])]
    BY DEF UpdateCaseCommits
  <2>3. \A A \in Marks, B \in Marks : A \cup B \in Marks
    BY DEF Marks
  <2> QED BY <1>1, <2>1, <2>2, <2>3 DEF TypeOK
<1> QED BY <1>1, <1>2, <1>3, <1>4, <1>5, CaseIsARow DEF TypeOK, UpdateCaseCommits, CallState

LEMMA MissingType == Missing \in SUBSET Clients
BY DEF Missing, Listed

-----------------------------------------------------------------------------
(* Type correctness. *)

LEMMA TypeInit == Init => TypeOK
BY DEF Init, TypeOK, CallState, PassStep, Marks, Unmarked

LEMMA TypeNext == TypeOK /\ [Next]_vars => TypeOK'
<1> SUFFICES ASSUME TypeOK, [Next]_vars PROVE TypeOK'
  OBVIOUS
<1>1. ASSUME NEW c \in Clients, AddClient(c) PROVE TypeOK'
  BY <1>1 DEF TypeOK, AddClient, pass
<1>2. ASSUME NEW c \in Clients, RemoveClient(c) PROVE TypeOK'
  <2>1. Delete({d \in Clients : MacOf[d] = MacOf[c]})
    BY <1>2 DEF RemoveClient
  <2> QED BY <1>2, <2>1, DeleteType DEF TypeOK, RemoveClient, pass
<1>3. ASSUME NEW S \in SUBSET Clients, BatchDelete(S) PROVE TypeOK'
  <2>1. Delete(S)
    BY <1>3 DEF BatchDelete
  <2> QED BY <1>3, <2>1, DeleteType DEF TypeOK, BatchDelete, pass
<1>4. ASSUME NEW S \in SUBSET Clients, NEW replace \in BOOLEAN, ImportCsv(S, replace)
      PROVE TypeOK'
  <2>1. Delete(IF replace THEN Listed ELSE {})
    BY <1>4 DEF ImportCsv
  <2> QED BY <1>4, <2>1, DeleteType DEF TypeOK, ImportCsv, pass
<1>5. ASSUME NEW S \in SUBSET Clients, GnmsImport(S) PROVE TypeOK'
  BY <1>4, <1>5 DEF GnmsImport
<1>6. CASE ClearAll
  BY <1>3, <1>6 DEF ClearAll, Listed
<1>7. CASE ApiSyncRead
  BY <1>7, MissingType DEF TypeOK, ApiSyncRead, pass
<1>8. CASE ApiSyncWrite
  <2>1. cases' \in [Clients -> Case \cup {NoCase}] /\ touched' \in [Clients -> Marks]
    BY <1>8, InsertType DEF ApiSyncWrite, TypeOK, Marks
  <2> QED BY <1>8, <2>1 DEF TypeOK, ApiSyncWrite, pass
<1>9. ASSUME NEW found \in [Clients -> Ping \cup {"none"}], NEW completes \in BOOLEAN,
             Collect(found, completes)
      PROVE TypeOK'
  BY <1>9 DEF TypeOK, Collect, PassStep
<1>10. CASE SyncRead
  BY <1>10, MissingType DEF TypeOK, SyncRead, PassStep
<1>11. CASE SyncCommits
  <2>1. cases' \in [Clients -> Case \cup {NoCase}]
    BY <1>11, InsertType DEF SyncCommits
  <2> QED BY <1>11, <2>1 DEF TypeOK, SyncCommits, PassStep
<1>12. CASE SyncConflicts
  BY <1>12 DEF TypeOK, SyncConflicts, PassStep
<1>13. CASE UpdatePingStatus
  BY <1>13, PingStepType DEF TypeOK, UpdatePingStatus, PassStep, Marks, Unmarked
<1>14. CASE AutoReopenUnreachable
  <2>1. cases' \in [Clients -> Case \cup {NoCase}]
    BY <1>14, SetStatusType DEF AutoReopenUnreachable, Status
  <2> QED BY <1>14, <2>1 DEF TypeOK, AutoReopenUnreachable, PassStep
<1>15. CASE AutoResolveReachable
  <2>1. cases' \in [Clients -> Case \cup {NoCase}]
    BY <1>15, SetStatusType DEF AutoResolveReachable, Status
  <2> QED BY <1>15, <2>1 DEF TypeOK, AutoResolveReachable, PassStep
<1>16. CASE UpdateChangeFlags
  BY <1>16 DEF TypeOK, UpdateChangeFlags, PassStep, Marks, Unmarked
<1>17. CASE Deadlock
  BY <1>17 DEF TypeOK, Deadlock, PassStep, Marks, Unmarked
<1>18. CASE PassFails
  BY <1>18 DEF TypeOK, PassFails, PassStep, Marks, Unmarked
<1>19. ASSUME NEW r \in Requests, NEW u \in Users, NEW c \in Clients,
              NEW st \in AskedStatus \cup {Keep}, NEW as \in Users \cup {None, Keep},
              UpdateCaseLoads(r, u, c, st, as)
       PROVE TypeOK'
  <2>1. cases[c] \in Case
    BY <1>19 DEF TypeOK, UpdateCaseLoads
  <2>2. req' \in [Requests -> CallState]
    BY <1>19, <2>1, LoadedType DEF UpdateCaseLoads, TypeOK, CallState
  <2> QED BY <1>19, <2>2 DEF TypeOK, UpdateCaseLoads, pass
<1>20. ASSUME NEW r \in Requests, UpdateCaseCommits(r) PROVE TypeOK'
  <2>1. UNCHANGED <<life, record, pc, attempt, creating, apiCreating>>
    BY <1>20 DEF UpdateCaseCommits, pass
  <2>2. /\ cases' \in [Clients -> Case \cup {NoCase}] /\ req' \in [Requests -> CallState]
        /\ touched' \in [Clients -> Marks]
    BY <1>20, CommitType
  <2> QED BY <2>1, <2>2 DEF TypeOK
<1>21. ASSUME NEW r \in Requests, UpdateCaseFails(r) PROVE TypeOK'
  BY <1>21 DEF TypeOK, CallState, UpdateCaseFails, pass
<1>22. CASE UNCHANGED vars
  BY <1>22 DEF TypeOK, vars
<1> QED
  BY <1>1, <1>2, <1>3, <1>4, <1>5, <1>6, <1>7, <1>8, <1>9, <1>10, <1>11, <1>12, <1>13, <1>14,
     <1>15, <1>16, <1>17, <1>18, <1>19, <1>20, <1>21, <1>22
  DEF Next, ClientListChanges, Pass, UpdateCase

\* Every reachable state is one the program can be in: rows, calls in flight and the
\* attempt counter (at most max_retries) keep their types whatever commits in between.
THEOREM TypeCorrect == Spec => []TypeOK
BY TypeInit, TypeNext, PTL DEF Spec

-----------------------------------------------------------------------------
(* A finished pass leaves every case in agreement with its client. *)

\* A case that the step did not write stays as settled as it was, if the pass did not move
\* on, its record is the same and no mark was taken away.
LEMMA ProgressKept ==
  ASSUME PassProgress, pc' = pc,
         \A c \in Clients :
           HasCase(c)' => /\ cases'[c] = cases[c]
                          /\ record'[c] = record[c]
                          /\ touched[c] \subseteq touched'[c]
  PROVE  PassProgress'
BY DEF PassProgress, PingCarried, ClosedByUser, LeftWaiting

\* Outside the three steps after update_ping_status nothing is claimed.
LEMMA ProgressIdle ==
  ASSUME pc' \notin {"reopen", "resolve", "flags"}
  PROVE  PassProgress'
BY DEF PassProgress

LEMMA DeleteProgress ==
  ASSUME PassProgress, NEW S, Delete(S), UNCHANGED <<pc, touched>>
  PROVE  PassProgress'
<1>1. \A c \in Clients : HasCase(c)' => cases'[c] = cases[c] /\ record'[c] = record[c]
  BY DEF Delete
<1> QED BY <1>1, ProgressKept

LEMMA ProgressInit == Init => PassProgress
BY DEF Init, PassProgress

LEMMA ProgressNext == PassInv /\ [Next]_vars => PassProgress'
<1> SUFFICES ASSUME TypeOK, PassProgress, [Next]_vars PROVE PassProgress'
  BY DEF PassInv
<1>1. ASSUME NEW c \in Clients, AddClient(c) PROVE PassProgress'
  BY <1>1, ProgressKept DEF AddClient, pass
<1>2. ASSUME NEW c \in Clients, RemoveClient(c) PROVE PassProgress'
  <2>1. Delete({d \in Clients : MacOf[d] = MacOf[c]}) /\ UNCHANGED <<pc, touched>>
    BY <1>2 DEF RemoveClient, pass
  <2> QED BY <2>1, DeleteProgress
<1>3. ASSUME NEW S \in SUBSET Clients, BatchDelete(S) PROVE PassProgress'
  <2>1. Delete(S) /\ UNCHANGED <<pc, touched>>
    BY <1>3 DEF BatchDelete, pass
  <2> QED BY <2>1, DeleteProgress
<1>4. ASSUME NEW S \in SUBSET Clients, NEW replace \in BOOLEAN, ImportCsv(S, replace)
      PROVE PassProgress'
  <2>1. Delete(IF replace THEN Listed ELSE {}) /\ UNCHANGED <<pc, touched>>
    BY <1>4 DEF ImportCsv, pass
  <2> QED BY <2>1, DeleteProgress
<1>5. ASSUME NEW S \in SUBSET Clients, GnmsImport(S) PROVE PassProgress'
  BY <1>4, <1>5 DEF GnmsImport
<1>6. CASE ClearAll
  BY <1>3, <1>6 DEF ClearAll, Listed
<1>7. CASE ApiSyncRead
  BY <1>7, ProgressKept DEF ApiSyncRead, pass
<1>8. CASE ApiSyncWrite
  <2>1. CASE Insertable(apiCreating)
    <3>1. pc' = pc /\ UNCHANGED record
      BY <1>8 DEF ApiSyncWrite, pass
    <3>2. ASSUME NEW c \in Clients \ apiCreating
          PROVE  cases'[c] = cases[c] /\ touched'[c] = touched[c]
      BY <1>8, <2>1, <3>2 DEF ApiSyncWrite, Insert
    <3>3. ASSUME NEW c \in apiCreating, c \in Clients
          PROVE  /\ cases'[c].status \in {"UNASSIGNED", "ASSIGNED"}
                 /\ cases'[c].ping = "unknown"
                 /\ pc \in AfterPings => "made" \in touched'[c]
      BY <1>8, <2>1, <3>3 DEF ApiSyncWrite, Insert, NewCase
    <3> QED BY <3>1, <3>2, <3>3 DEF PassProgress, PingCarried, ClosedByUser, LeftWaiting, AfterPings
  <2>2. CASE ~Insertable(apiCreating)
    BY <1>8, <2>2, ProgressKept DEF ApiSyncWrite, pass
  <2> QED BY <2>1, <2>2
<1>9. ASSUME NEW found \in [Clients -> Ping \cup {"none"}], NEW completes \in BOOLEAN,
             Collect(found, completes)
      PROVE PassProgress'
  BY <1>9, ProgressIdle DEF Collect
<1>10. CASE SyncRead
  BY <1>10, ProgressIdle DEF SyncRead
<1>11. CASE SyncCommits
  BY <1>11, ProgressIdle DEF SyncCommits
<1>12. CASE SyncConflicts
  BY <1>12, ProgressIdle DEF SyncConflicts
<1>13. CASE UpdatePingStatus
  <2>1. pc' = "reopen" /\ UNCHANGED record
    BY <1>13 DEF UpdatePingStatus
  <2>2. ASSUME NEW c \in Clients, HasCase(c)', record[c] # "none"
        PROVE  cases'[c].ping = record[c]
    BY <1>13, <2>2, PingStepType
  <2> QED BY <2>1, <2>2 DEF PassProgress, PingCarried
<1>14. CASE AutoReopenUnreachable
  <2> DEFINE S == {c \in Clients : HasCase(c) /\ Reopens(cases[c])}
  <2>1. /\ pc = "reopen" /\ pc' = "resolve" /\ UNCHANGED <<record, touched>>
        /\ SetStatus(S, "ASSIGNED")
    BY <1>14 DEF AutoReopenUnreachable
  <2>2. \A c \in Clients :
          /\ HasCase(c)' <=> HasCase(c)
          /\ HasCase(c) => cases'[c].ping = cases[c].ping
          /\ c \in S => cases'[c].status = "ASSIGNED"
          /\ c \notin S => cases'[c] = cases[c]
    BY <2>1, SetStatusType DEF Status
  <2>3. ASSUME NEW c \in Clients, HasCase(c)', cases'[c].status = "RESOLVED"
        PROVE  cases'[c].ping = "up"
    BY <2>2, <2>3 DEF Reopens
  <2> QED BY <2>1, <2>2, <2>3 DEF PassProgress, PingCarried, ClosedByUser
<1>15. CASE AutoResolveReachable
  <2> DEFINE S == {c \in Clients : HasCase(c) /\ Resolves(cases[c])}
  <2>1. /\ pc = "resolve" /\ pc' = "flags" /\ UNCHANGED <<record, touched>>
        /\ SetStatus(S, "RESOLVED")
    BY <1>15 DEF AutoResolveReachable
  <2>2. \A c \in Clients :
          /\ HasCase(c)' <=> HasCase(c)
          /\ HasCase(c) => cases'[c].ping = cases[c].ping
          /\ c \in S => cases'[c].status = "RESOLVED"
          /\ c \notin S => cases'[c] = cases[c]
    BY <2>1, SetStatusType DEF Status
  <2>3. ASSUME NEW c \in Clients, HasCase(c)', cases'[c].status = "RESOLVED"
        PROVE  cases'[c].ping = "up" \/ "closed" \in touched[c]
    BY <2>1, <2>2, <2>3 DEF Resolves, PassProgress, ClosedByUser
  <2>4. ASSUME NEW c \in Clients, HasCase(c)', cases'[c].ping = "up"
        PROVE  cases'[c].status \notin {"UNASSIGNED", "ASSIGNED"}
    BY <2>2, <2>4 DEF Resolves, Working
  <2> QED BY <2>1, <2>2, <2>3, <2>4 DEF PassProgress, PingCarried, ClosedByUser, LeftWaiting
<1>16. CASE UpdateChangeFlags
  BY <1>16, ProgressIdle DEF UpdateChangeFlags
<1>17. CASE Deadlock
  BY <1>17, ProgressIdle DEF Deadlock
<1>18. CASE PassFails
  BY <1>18, ProgressIdle DEF PassFails
<1>19. ASSUME NEW r \in Requests, NEW u \in Users, NEW c \in Clients,
              NEW st \in AskedStatus \cup {Keep}, NEW as \in Users \cup {None, Keep},
              UpdateCaseLoads(r, u, c, st, as)
       PROVE PassProgress'
  BY <1>19, ProgressKept DEF UpdateCaseLoads, pass
<1>20. ASSUME NEW r \in Requests, UpdateCaseCommits(r) PROVE PassProgress'
  <2> DEFINE c == req[r].client
  <2>1. /\ UNCHANGED <<pc, record>> /\ HasCase(c)
        /\ cases' = [cases EXCEPT ![c] = Written(@, req[r])]
    BY <1>20 DEF UpdateCaseCommits, pass
  <2>2. /\ req[r] \in LoadedRequest /\ c \in Clients /\ cases[c] \in Case
        /\ touched' = [touched EXCEPT ![c] = @ \cup Marked(req[r])]
    BY <1>20, <2>1, CommitType, CallLoaded DEF UpdateCaseCommits, TypeOK
  <2>3. ASSUME NEW d \in Clients, d # c
        PROVE  cases'[d] = cases[d] /\ touched'[d] = touched[d]
    BY <1>20, <2>2, <2>3, CommitType DEF TypeOK
  <2>4. /\ touched'[c] = touched[c] \cup Marked(req[r])
        /\ cases'[c].ping = cases[c].ping
        /\ cases'[c].status = IF req[r].status = Keep THEN cases[c].status ELSE req[r].status
    BY <2>1, <2>2 DEF TypeOK, Written, Case
  <2>5. /\ pc \in {"resolve", "flags"} /\ req[r].status = "RESOLVED" => "closed" \in Marked(req[r])
        /\ pc = "flags" /\ req[r].status \in {"UNASSIGNED", "ASSIGNED"} => "waits" \in Marked(req[r])
    BY DEF Marked
  <2>6. ASSUME NEW d \in Clients, HasCase(d)'
        PROVE  /\ HasCase(d)
               /\ PingCarried(d) => PingCarried(d)'
               /\ pc \in {"resolve", "flags"} /\ ClosedByUser(d) => ClosedByUser(d)'
               /\ pc = "flags" /\ LeftWaiting(d) => LeftWaiting(d)'
    <3> HIDE DEF c
    <3>1. CASE d = c
      BY <2>1, <2>4, <2>5, <3>1 DEF PingCarried, ClosedByUser, LeftWaiting
    <3>2. CASE d # c
      BY <2>1, <2>3, <2>6, <3>2 DEF PingCarried, ClosedByUser, LeftWaiting
    <3> QED BY <3>1, <3>2
  <2> QED BY <2>1, <2>6 DEF PassProgress
<1>21. ASSUME NEW r \in Requests, UpdateCaseFails(r) PROVE PassProgress'
  BY <1>21, ProgressKept DEF UpdateCaseFails, pass
<1>22. CASE UNCHANGED vars
  BY <1>22, ProgressKept DEF vars
<1> QED
  BY <1>1, <1>2, <1>3, <1>4, <1>5, <1>6, <1>7, <1>8, <1>9, <1>10, <1>11, <1>12, <1>13, <1>14,
     <1>15, <1>16, <1>17, <1>18, <1>19, <1>20, <1>21, <1>22
  DEF Next, ClientListChanges, Pass, UpdateCase

\* What each finished step of the pass leaves true of the cases stays true until the pass is
\* over, except for what a later write of the endpoint or a user did to that very fact
\* (_run_client_collection): the inductive invariant.
THEOREM PassInvariant == Spec => []PassInv
<1>1. Init => PassInv
  BY TypeInit, ProgressInit DEF PassInv
<1>2. PassInv /\ [Next]_vars => PassInv'
  BY TypeNext, ProgressNext DEF PassInv
<1> QED BY <1>1, <1>2, PTL DEF Spec

\* At the end of a pass every case carries its newest ping unless it was made meanwhile, is
\* resolved while unreachable only by a user's answer after the reopening, and waits while
\* reachable only by an answer after the resolving, for any number of clients, users and
\* overlapping calls and whatever failed or was retried before.
THEOREM PassSettlesAlways == Spec => []PassSettles
<1>1. PassInv => PassSettles
  BY DEF PassInv, PassProgress, PassSettles
<1> QED BY <1>1, PassInvariant, PTL

-----------------------------------------------------------------------------
(* Cases and the client list. *)

LEMMA OrphanDelete ==
  ASSUME NoOrphanCase, NEW S \in SUBSET Clients, Delete(S),
         \A c \in Clients \ S : life[c] = "listed" => life'[c] = "listed"
  PROVE  NoOrphanCase'
BY DEF NoOrphanCase, Delete

LEMMA OrphanInsert ==
  ASSUME NoOrphanCase, NEW S, Insertable(S), Insert(S), UNCHANGED life
  PROVE  NoOrphanCase'
BY DEF NoOrphanCase, Insertable, Insert, Missing, Listed

\* No case outlives its client, although a sync may have read the list before the client
\* was removed: the foreign key fails its transaction.
THEOREM NoOrphanCaseAlways == Spec => []NoOrphanCase
<1>1. Init => NoOrphanCase
  BY DEF Init, NoOrphanCase
<1>2. TypeOK /\ NoOrphanCase /\ [Next]_vars => NoOrphanCase'
  <2> SUFFICES ASSUME TypeOK, NoOrphanCase, [Next]_vars PROVE NoOrphanCase'
    OBVIOUS
  <2>1. ASSUME NEW c \in Clients, AddClient(c) PROVE NoOrphanCase'
    BY <2>1 DEF AddClient, NoOrphanCase, TypeOK
  <2>2. ASSUME NEW c \in Clients, RemoveClient(c) PROVE NoOrphanCase'
    <3> DEFINE S == {d \in Clients : MacOf[d] = MacOf[c]}
    <3>1. Delete(S) /\ \A d \in Clients \ S : life'[d] = life[d]
      BY <2>2 DEF RemoveClient, TypeOK
    <3> QED BY <3>1, OrphanDelete
  <2>3. ASSUME NEW S \in SUBSET Clients, BatchDelete(S) PROVE NoOrphanCase'
    BY <2>3, OrphanDelete DEF BatchDelete
  <2>4. ASSUME NEW S \in SUBSET Clients, NEW replace \in BOOLEAN, ImportCsv(S, replace)
        PROVE NoOrphanCase'
    <3> DEFINE old == IF replace THEN Listed ELSE {}
    <3>1. Delete(old) /\ old \in SUBSET Clients
      BY <2>4 DEF ImportCsv, Listed
    <3>2. \A c \in Clients \ old : life[c] = "listed" => life'[c] = "listed"
      BY <2>4 DEF ImportCsv
    <3> QED BY <3>1, <3>2, OrphanDelete
  <2>5. ASSUME NEW S \in SUBSET Clients, GnmsImport(S) PROVE NoOrphanCase'
    BY <2>4, <2>5 DEF GnmsImport
  <2>6. CASE ClearAll
    BY <2>3, <2>6 DEF ClearAll, Listed
  <2>7. CASE ApiSyncWrite
    BY <2>7, OrphanInsert DEF ApiSyncWrite, NoOrphanCase
  <2>8. CASE SyncCommits
    BY <2>8, OrphanInsert DEF SyncCommits
  <2>9. CASE UpdatePingStatus
    BY <2>9, PingStepType DEF UpdatePingStatus, NoOrphanCase
  <2>10. CASE AutoReopenUnreachable
    <3> DEFINE S == {c \in Clients : HasCase(c) /\ Reopens(cases[c])}
    <3>1. SetStatus(S, "ASSIGNED") /\ UNCHANGED life
      BY <2>10 DEF AutoReopenUnreachable
    <3> QED BY <3>1, SetStatusType DEF Status, NoOrphanCase
  <2>11. CASE AutoResolveReachable
    <3> DEFINE S == {c \in Clients : HasCase(c) /\ Resolves(cases[c])}
    <3>1. SetStatus(S, "RESOLVED") /\ UNCHANGED life
      BY <2>11 DEF AutoResolveReachable
    <3> QED BY <3>1, SetStatusType DEF Status, NoOrphanCase
  <2>12. ASSUME NEW r \in Requests, UpdateCaseCommits(r) PROVE NoOrphanCase'
    BY <2>12, CommitType DEF UpdateCaseCommits, NoOrphanCase
  <2>13. CASE UNCHANGED <<life, cases>>
    BY <2>13 DEF NoOrphanCase
  <2>14. ASSUME NEW found, NEW completes, Collect(found, completes) PROVE NoOrphanCase'
    BY <2>14, <2>13 DEF Collect
  <2>15. CASE ApiSyncRead \/ SyncRead \/ SyncConflicts \/ UpdateChangeFlags \/ Deadlock \/ PassFails
    BY <2>15, <2>13
    DEF ApiSyncRead, SyncRead, SyncConflicts, UpdateChangeFlags, Deadlock, PassFails
  <2>16. ASSUME NEW r, NEW u, NEW c, NEW st, NEW as, UpdateCaseLoads(r, u, c, st, as)
         PROVE NoOrphanCase'
    BY <2>16, <2>13 DEF UpdateCaseLoads
  <2>17. ASSUME NEW r, UpdateCaseFails(r) PROVE NoOrphanCase'
    BY <2>17, <2>13 DEF UpdateCaseFails
  <2> QED
    BY <2>1, <2>2, <2>3, <2>4, <2>5, <2>6, <2>7, <2>8, <2>9, <2>10, <2>11, <2>12, <2>13,
       <2>14, <2>15, <2>16, <2>17
    DEF Next, ClientListChanges, Pass, UpdateCase, vars
<1> QED BY <1>1, <1>2, TypeCorrect, PTL DEF Spec

-----------------------------------------------------------------------------
(* What a step may never do to a case. *)

\* Steps that leave the table alone, or only delete rows or insert missing ones, keep the
\* status and the owner of every case that exists before and after.
Untouched(c) == HasCase(c) /\ HasCase(c)' => cases'[c] = cases[c]

LEMMA OnlyPassOrCommit ==
  ASSUME TypeOK, [Next]_vars
  PROVE  \/ \A c \in Clients : Untouched(c)
         \/ UpdatePingStatus \/ AutoReopenUnreachable \/ AutoResolveReachable
         \/ \E r \in Requests : UpdateCaseCommits(r)
<1>1. ASSUME NEW S, Delete(S) PROVE \A c \in Clients : Untouched(c)
  BY <1>1 DEF Delete, Untouched
<1>2. ASSUME NEW S, Insertable(S), Insert(S) PROVE \A c \in Clients : Untouched(c)
  BY <1>2 DEF Insertable, Insert, Missing, Untouched
<1>3. ASSUME UNCHANGED cases PROVE \A c \in Clients : Untouched(c)
  BY <1>3 DEF Untouched
<1>4. CASE ClientListChanges
  <2>1. ASSUME NEW c \in Clients, AddClient(c) \/ RemoveClient(c)
        PROVE UNCHANGED cases \/ \E S : Delete(S)
    BY <2>1 DEF AddClient, RemoveClient
  <2>2. ASSUME NEW S, BatchDelete(S) PROVE \E T : Delete(T)
    BY <2>2 DEF BatchDelete
  <2>3. ASSUME NEW S, NEW replace, ImportCsv(S, replace) PROVE \E T : Delete(T)
    <3>1. Delete(IF replace THEN Listed ELSE {})
      BY <2>3 DEF ImportCsv
    <3> QED BY <3>1
  <2>4. UNCHANGED cases \/ \E S : Delete(S)
    BY <1>4, <2>1, <2>2, <2>3 DEF ClientListChanges, GnmsImport, ClearAll
  <2> QED BY <1>1, <1>3, <2>4
<1>5. CASE ApiSyncWrite \/ SyncCommits
  <2>1. UNCHANGED cases \/ \E S : Insertable(S) /\ Insert(S)
    BY <1>5 DEF ApiSyncWrite, SyncCommits
  <2> QED BY <1>2, <1>3, <2>1
<1>6. CASE ApiSyncRead \/ SyncRead \/ SyncConflicts \/ UpdateChangeFlags \/ Deadlock \/ PassFails
  BY <1>3, <1>6 DEF ApiSyncRead, SyncRead, SyncConflicts, UpdateChangeFlags, Deadlock, PassFails
<1>7. ASSUME NEW found, NEW completes, Collect(found, completes)
      PROVE \A c \in Clients : Untouched(c)
  BY <1>3, <1>7 DEF Collect
<1>8. ASSUME NEW r, NEW u, NEW c, NEW st, NEW as, UpdateCaseLoads(r, u, c, st, as)
      PROVE \A d \in Clients : Untouched(d)
  BY <1>3, <1>8 DEF UpdateCaseLoads
<1>9. ASSUME NEW r, UpdateCaseFails(r) PROVE \A c \in Clients : Untouched(c)
  BY <1>3, <1>9 DEF UpdateCaseFails
<1> QED BY <1>3, <1>4, <1>5, <1>6, <1>7, <1>8, <1>9 DEF Next, Pass, UpdateCase, vars

LEMMA CommitsOne ==
  ASSUME TypeOK, NEW r \in Requests, UpdateCaseCommits(r), NEW c \in Clients,
         HasCase(c), cases'[c] # cases[c]
  PROVE  Commits(r, c)
BY CommitType DEF Commits, UpdateCaseCommits, TypeOK

\* A case that somebody works on, discusses or ignores is taken out of that state by a
\* user's call only: the scheduler's pass never does, wherever it stands.
THEOREM WorkUndisturbedAlways == Spec => WorkUndisturbed
<1>1. TypeOK /\ [Next]_vars => [\A c \in Clients : WorkKept(c)]_vars
  <2> SUFFICES ASSUME TypeOK, [Next]_vars, NEW c \in Clients PROVE WorkKept(c)
    OBVIOUS
  <2>1. CASE \A d \in Clients : Untouched(d)
    BY <2>1 DEF WorkKept, Untouched
  <2>2. CASE UpdatePingStatus
    BY <2>2, PingStepType DEF WorkKept
  <2>3. CASE AutoReopenUnreachable
    <3> DEFINE S == {d \in Clients : HasCase(d) /\ Reopens(cases[d])}
    <3>1. SetStatus(S, "ASSIGNED")
      BY <2>3 DEF AutoReopenUnreachable
    <3>2. cases[c].status \in Working => c \notin S
      BY DEF Reopens, Working
    <3> QED BY <3>1, <3>2, SetStatusType DEF Status, WorkKept
  <2>4. CASE AutoResolveReachable
    <3> DEFINE S == {d \in Clients : HasCase(d) /\ Resolves(cases[d])}
    <3>1. SetStatus(S, "RESOLVED")
      BY <2>4 DEF AutoResolveReachable
    <3>2. cases[c].status \in Working => c \notin S
      BY DEF Resolves, Working
    <3> QED BY <3>1, <3>2, SetStatusType DEF Status, WorkKept
  <2>5. ASSUME NEW r \in Requests, UpdateCaseCommits(r) PROVE WorkKept(c)
    BY <2>5, CommitsOne DEF WorkKept
  <2> QED BY <2>1, <2>2, <2>3, <2>4, <2>5, OnlyPassOrCommit
<1> QED BY <1>1, TypeCorrect, PTL DEF Spec, WorkUndisturbed

\* The owner of a case changes by a user's call only: of two syncs that both found the case
\* missing, the second never replaces what the first inserted and users wrote since.
THEOREM CaseNeverRecreatedAlways == Spec => CaseNeverRecreated
<1>1. TypeOK /\ [Next]_vars => [\A c \in Clients : OwnerKept(c)]_vars
  <2> SUFFICES ASSUME TypeOK, [Next]_vars, NEW c \in Clients PROVE OwnerKept(c)
    OBVIOUS
  <2>1. CASE \A d \in Clients : Untouched(d)
    BY <2>1 DEF OwnerKept, Untouched
  <2>2. CASE UpdatePingStatus
    BY <2>2, PingStepType DEF OwnerKept
  <2>3. CASE AutoReopenUnreachable
    <3> DEFINE S == {d \in Clients : HasCase(d) /\ Reopens(cases[d])}
    <3>1. SetStatus(S, "ASSIGNED")
      BY <2>3 DEF AutoReopenUnreachable
    <3> QED BY <3>1, SetStatusType DEF Status, OwnerKept
  <2>4. CASE AutoResolveReachable
    <3> DEFINE S == {d \in Clients : HasCase(d) /\ Resolves(cases[d])}
    <3>1. SetStatus(S, "RESOLVED")
      BY <2>4 DEF AutoResolveReachable
    <3> QED BY <3>1, SetStatusType DEF Status, OwnerKept
  <2>5. ASSUME NEW r \in Requests, UpdateCaseCommits(r) PROVE OwnerKept(c)
    BY <2>5, CommitsOne DEF OwnerKept
  <2> QED BY <2>1, <2>2, <2>3, <2>4, <2>5, OnlyPassOrCommit
<1> QED BY <1>1, TypeCorrect, PTL DEF Spec, CaseNeverRecreated

-----------------------------------------------------------------------------
(* Who works on a case owns it. *)

LEMMA WrittenFields ==
  ASSUME NEW k \in Case, NEW call \in LoadedRequest
  PROVE  /\ Written(k, call).status = IF call.status = Keep THEN k.status ELSE call.status
         /\ Written(k, call).assignee = IF call.assignee = Keep THEN k.assignee ELSE call.assignee
BY DEF Written, Case, LoadedRequest

\* What a permitted call computes has an owner when it is worked on, if what it read had.
LEMMA LoadKeepsOwner ==
  ASSUME NEW c \in Clients, NEW k \in Case, NEW u \in Users,
         NEW st \in AskedStatus \cup {Keep}, NEW as \in Users \cup {None, Keep},
         OwnedIfWorked(k), Permitted(u, k, st, as),
         NEW call, call = [at |-> "loaded", client |-> c,
                           status |-> Column(k.status, NewStatus(k, st, as)),
                           assignee |-> IF as = Keep THEN Keep ELSE Column(k.assignee, as)]
  PROVE  OwnedIfWorked(Written(k, call))
<1>1. call \in LoadedRequest
  BY LoadedType
<1>2. /\ call.status = Column(k.status, NewStatus(k, st, as))
      /\ call.assignee = IF as = Keep THEN Keep ELSE Column(k.assignee, as)
  OBVIOUS
<1>3. k.status \in Status /\ st \in Status \cup {Keep}
  BY DEF Case
<1>4. CASE as = None
  <2>1. NewStatus(k, st, as) = "UNASSIGNED"
    BY <1>4 DEF NewStatus
  <2>2. Written(k, call).status = "UNASSIGNED"
    BY <1>1, <1>2, <1>3, <2>1, WrittenFields DEF Column, Status
  <2> QED BY <2>2 DEF OwnedIfWorked, Working
<1>5. CASE as \in Users
  <2>1. Written(k, call).assignee = as
    BY <1>1, <1>2, <1>5, WrittenFields DEF Column
  <2> QED BY <1>5, <2>1 DEF OwnedIfWorked
<1>6. CASE as = Keep
  <2>1. Written(k, call).assignee = k.assignee
    BY <1>1, <1>2, <1>6, WrittenFields
  <2>2. NewStatus(k, st, as) = IF st = Keep THEN k.status ELSE st
    BY <1>6 DEF NewStatus
  <2>3. Written(k, call).status = IF st = Keep THEN k.status ELSE st
    BY <1>1, <1>2, <1>3, <2>2, WrittenFields DEF Column
  <2>4. st # Keep => k.assignee = u
    BY DEF Permitted
  <2> QED BY <2>1, <2>3, <2>4 DEF OwnedIfWorked
<1> QED BY <1>4, <1>5, <1>6

\* A case that keeps its owner and is taken out of work at most.
NotMoreWork(c) ==
  /\ HasCase(c) /\ cases'[c].assignee = cases[c].assignee
  /\ cases'[c].status = cases[c].status \/ cases'[c].status \notin Working

LEMMA NewCaseOwned == \A c \in Clients : OwnedIfWorked(NewCase(c))
BY DEF NewCase, OwnedIfWorked, Working

\* Steps of anyone but a user's call.
LEMMA OwnersStay ==
  ASSUME TypeOK, TypeOK', OwnerInv,
         \A c \in Clients : HasCase(c)' => NotMoreWork(c) \/ (~HasCase(c) /\ cases'[c] = NewCase(c)),
         \A r \in Requests : Calls(r)' =>
           Calls(r) /\ req'[r] = req[r] /\ HasCase(req[r].client)'
  PROVE  OwnerInv'
<1>1. ASSUME NEW r \in Requests, Calls(r)'
      PROVE  /\ Calls(r) /\ req'[r] = req[r] /\ req[r] \in LoadedRequest /\ req[r].client \in Clients
             /\ HasCase(req[r].client)' /\ NotMoreWork(req[r].client)
  BY <1>1, CallLoaded DEF OwnerInv
<1>2. \A r \in Requests : Calls(r)' => HasCase(req[r].client)' /\ req'[r] = req[r]
  BY <1>1
<1>3. ASSUME Cardinality(Requests) = 1, NEW c \in Clients, HasCase(c)'
      PROVE  OwnedIfWorked(cases'[c])
  BY <1>3, NewCaseOwned DEF OwnerInv, NotMoreWork, OwnedIfWorked
<1>4. ASSUME Cardinality(Requests) = 1, NEW r \in Requests, Calls(r)'
      PROVE  OwnedIfWorked(Written(cases'[req[r].client], req[r]))
  <2> DEFINE c == req[r].client
  <2>1. cases[c] \in Case /\ cases'[c] \in Case
    BY <1>1, <1>4 DEF TypeOK, NotMoreWork
  <2>2. OwnedIfWorked(Written(cases[c], req[r]))
    BY <1>1, <1>4 DEF OwnerInv
  <2>3. NotMoreWork(c) /\ req[r] \in LoadedRequest
    BY <1>1, <1>4
  <2> DEFINE call == req[r]  old == cases[c]  new == cases'[c]
  <2>4. /\ Written(old, call).status = IF call.status = Keep THEN old.status ELSE call.status
        /\ Written(new, call).status = IF call.status = Keep THEN new.status ELSE call.status
        /\ Written(old, call).assignee = IF call.assignee = Keep THEN old.assignee ELSE call.assignee
        /\ Written(new, call).assignee = IF call.assignee = Keep THEN new.assignee ELSE call.assignee
    BY <2>1, <2>3, WrittenFields
  <2>5. /\ new.assignee = old.assignee
        /\ new.status = old.status \/ new.status \notin Working
    BY <2>3 DEF NotMoreWork
  <2>6. old = cases[c] /\ new = cases'[c] /\ call = req[r]
    OBVIOUS
  <2> HIDE DEF c, call, old, new
  <2>7. OwnedIfWorked(Written(old, call))
    BY <2>2, <2>6
  <2>8. OwnedIfWorked(Written(new, call))
    <3>1. CASE new.status = old.status
      BY <2>4, <2>5, <2>7, <3>1 DEF OwnedIfWorked
    <3>2. CASE new.status \notin Working
      BY <2>4, <2>5, <2>7, <3>2 DEF OwnedIfWorked
    <3> QED BY <2>5, <3>1, <3>2
  <2> QED BY <2>6, <2>8 DEF c
<1> QED BY <1>2, <1>3, <1>4 DEF OwnerInv

LEMMA OneSlot ==
  ASSUME Cardinality(Requests) = 1, NEW r \in Requests, NEW s \in Requests
  PROVE  r = s
BY FS_Singleton

\* Deleting rows takes the calls along that have loaded them.
LEMMA DeleteOwners ==
  ASSUME TypeOK, TypeOK', OwnerInv, NEW S, Delete(S)
  PROVE  OwnerInv'
<1>1. \A c \in Clients : HasCase(c)' => NotMoreWork(c)
  BY DEF Delete, NotMoreWork
<1>2. ASSUME NEW r \in Requests, Calls(r)'
      PROVE  Calls(r) /\ req'[r] = req[r] /\ HasCase(req[r].client)'
  <2>1. req'[r] = IF Calls(r) /\ req[r].client \in S THEN LostRequest ELSE req[r]
    BY DEF Delete
  <2>2. req'[r] # LostRequest
    BY <1>2 DEF Calls, LostRequest
  <2>3. req'[r] = req[r] /\ Calls(r) /\ req[r].client \notin S
    BY <1>2, <2>1, <2>2 DEF Calls
  <2>4. HasCase(req[r].client) /\ req[r].client \in Clients
    BY <2>3, CallLoaded DEF OwnerInv
  <2> QED BY <2>3, <2>4 DEF Delete
<1> QED BY <1>1, <1>2, OwnersStay

\* Steps that leave the calls alone and take no row away.
LEMMA RowsStay ==
  ASSUME TypeOK, TypeOK', OwnerInv, UNCHANGED req,
         \A c \in Clients : HasCase(c) => NotMoreWork(c) /\ HasCase(c)',
         \A c \in Clients : HasCase(c)' => HasCase(c) \/ cases'[c] = NewCase(c)
  PROVE  OwnerInv'
<1>1. \A r \in Requests : Calls(r)' => Calls(r) /\ req'[r] = req[r] /\ HasCase(req[r].client)'
  BY CallLoaded DEF Calls, OwnerInv
<1> QED BY <1>1, OwnersStay

LEMMA InsertOwners ==
  ASSUME TypeOK, TypeOK', OwnerInv, UNCHANGED req, NEW S, Insertable(S), Insert(S)
  PROVE  OwnerInv'
<1>1. \A c \in Clients : HasCase(c) => cases'[c] = cases[c]
  BY DEF Insertable, Insert, Missing
<1>2. \A c \in Clients : ~HasCase(c) => cases'[c] = cases[c] \/ cases'[c] = NewCase(c)
  BY DEF Insert
<1> QED BY <1>1, <1>2, RowsStay DEF NotMoreWork

LEMMA SetStatusOwners ==
  ASSUME TypeOK, TypeOK', OwnerInv, UNCHANGED req, NEW S \in SUBSET {c \in Clients : HasCase(c)},
         NEW new \in Status \ Working, SetStatus(S, new)
  PROVE  OwnerInv'
<1>1. \A c \in Clients :
        /\ HasCase(c)' <=> HasCase(c)
        /\ HasCase(c) => cases'[c].assignee = cases[c].assignee
        /\ c \in S => cases'[c].status = new
        /\ c \notin S => cases'[c] = cases[c]
  BY SetStatusType
<1>2. \A c \in Clients : HasCase(c) => NotMoreWork(c) /\ HasCase(c)'
  BY <1>1 DEF NotMoreWork
<1>3. \A c \in Clients : HasCase(c)' => HasCase(c)
  BY <1>1
<1> QED BY <1>2, <1>3, RowsStay

LEMMA LoadOwners ==
  ASSUME TypeOK, TypeOK', OwnerInv,
         NEW r \in Requests, NEW u \in Users, NEW c \in Clients,
         NEW st \in AskedStatus \cup {Keep}, NEW as \in Users \cup {None, Keep},
         UpdateCaseLoads(r, u, c, st, as)
  PROVE  OwnerInv'
<1> DEFINE call == [at |-> "loaded", client |-> c,
                    status |-> Column(cases[c].status, NewStatus(cases[c], st, as)),
                    assignee |-> IF as = Keep THEN Keep ELSE Column(cases[c].assignee, as)]
<1>1. /\ HasCase(c) /\ Permitted(u, cases[c], st, as) /\ cases[c] \in Case
      /\ req' = [req EXCEPT ![r] = call] /\ UNCHANGED cases
  BY DEF UpdateCaseLoads, TypeOK
<1>2. call.client = c
  OBVIOUS
<1>3. OwnedIfWorked(cases[c]) => OwnedIfWorked(Written(cases[c], call))
  BY <1>1, LoadKeepsOwner
<1>4. req'[r] = call /\ \A s \in Requests \ {r} : req'[s] = req[s]
  BY <1>1 DEF TypeOK
<1> HIDE DEF call
<1>5. \A s \in Requests : Calls(s)' => cases'[req'[s].client] # NoCase
  BY <1>1, <1>2, <1>4 DEF Calls, OwnerInv
<1>6. ASSUME Cardinality(Requests) = 1
      PROVE  /\ \A d \in Clients : HasCase(d)' => OwnedIfWorked(cases'[d])
             /\ \A s \in Requests : Calls(s)' => OwnedIfWorked(Written(cases'[req'[s].client], req'[s]))
  <2>1. \A s \in Requests : s = r
    BY <1>6, OneSlot
  <2> QED BY <1>1, <1>2, <1>3, <1>4, <1>6, <2>1 DEF OwnerInv
<1> QED BY <1>5, <1>6 DEF OwnerInv

LEMMA CommitOwners ==
  ASSUME TypeOK, TypeOK', OwnerInv, NEW r \in Requests, UpdateCaseCommits(r)
  PROVE  OwnerInv'
<1> DEFINE c == req[r].client
<1>1. /\ c \in Clients /\ Calls(r)
      /\ cases'[c] = Written(cases[c], req[r])
      /\ \A d \in Clients \ {c} : cases'[d] = cases[d]
      /\ \A d \in Clients : HasCase(d)' <=> HasCase(d)
      /\ req'[r] = IdleRequest /\ \A s \in Requests \ {r} : req'[s] = req[s]
  <2>1. c \in Clients /\ (\A d \in Clients \ {c} : cases'[d] = cases[d])
        /\ (\A d \in Clients : HasCase(d)' <=> HasCase(d))
    BY CommitType
  <2>2. Calls(r) /\ cases' = [cases EXCEPT ![c] = Written(@, req[r])]
        /\ req' = [req EXCEPT ![r] = IdleRequest]
    BY DEF UpdateCaseCommits
  <2> HIDE DEF c
  <2>3. cases'[c] = Written(cases[c], req[r])
    BY <2>1, <2>2 DEF TypeOK
  <2>4. req'[r] = IdleRequest /\ \A s \in Requests \ {r} : req'[s] = req[s]
    BY <2>2 DEF TypeOK
  <2> QED BY <2>1, <2>2, <2>3, <2>4
<1>2. \A s \in Requests : Calls(s)' => s # r /\ Calls(s) /\ req'[s] = req[s] /\ req[s].client \in Clients
  BY <1>1, CallLoaded DEF Calls, IdleRequest
<1>3. \A s \in Requests : Calls(s)' => cases'[req'[s].client] # NoCase
  BY <1>1, <1>2 DEF OwnerInv
<1>4. ASSUME Cardinality(Requests) = 1
      PROVE  /\ \A d \in Clients : HasCase(d)' => OwnedIfWorked(cases'[d])
             /\ \A s \in Requests : ~Calls(s)'
  <2>1. \A s \in Requests : s = r
    BY <1>4, OneSlot
  <2>2. OwnedIfWorked(cases'[c])
    BY <1>1, <1>4 DEF OwnerInv
  <2> HIDE DEF c
  <2> QED BY <1>1, <1>2, <1>4, <2>1, <2>2 DEF OwnerInv
<1> QED BY <1>3, <1>4 DEF OwnerInv

LEMMA OwnerInit == Init => OwnerInv
BY DEF Init, OwnerInv, Calls, IdleRequest

LEMMA OwnerNext == TypeOK /\ TypeOK' /\ OwnerInv /\ [Next]_vars => OwnerInv'
<1> SUFFICES ASSUME TypeOK, TypeOK', OwnerInv, [Next]_vars PROVE OwnerInv'
  OBVIOUS
<1>0. ASSUME UNCHANGED <<cases, req>> PROVE OwnerInv'
  BY <1>0, RowsStay DEF NotMoreWork
<1>1. ASSUME NEW c \in Clients, AddClient(c) PROVE OwnerInv'
  BY <1>0, <1>1 DEF AddClient
<1>2. ASSUME NEW c \in Clients, RemoveClient(c) PROVE OwnerInv'
  BY <1>2, DeleteOwners DEF RemoveClient
<1>3. ASSUME NEW S \in SUBSET Clients, BatchDelete(S) PROVE OwnerInv'
  BY <1>3, DeleteOwners DEF BatchDelete
<1>4. ASSUME NEW S \in SUBSET Clients, NEW replace \in BOOLEAN, ImportCsv(S, replace)
      PROVE OwnerInv'
  <2>1. Delete(IF replace THEN Listed ELSE {})
    BY <1>4 DEF ImportCsv
  <2> QED BY <2>1, DeleteOwners
<1>5. ASSUME NEW S \in SUBSET Clients, GnmsImport(S) PROVE OwnerInv'
  BY <1>4, <1>5 DEF GnmsImport
<1>6. CASE ClearAll
  BY <1>3, <1>6 DEF ClearAll, Listed
<1>7. CASE ApiSyncWrite
  <2>1. UNCHANGED req
    BY <1>7 DEF ApiSyncWrite
  <2> QED BY <1>0, <1>7, <2>1, InsertOwners DEF ApiSyncWrite
<1>8. CASE SyncCommits
  BY <1>8, InsertOwners DEF SyncCommits
<1>9. CASE UpdatePingStatus
  <2>1. UNCHANGED req
    BY <1>9 DEF UpdatePingStatus
  <2> QED BY <1>9, <2>1, PingStepType, RowsStay DEF NotMoreWork
<1>10. CASE AutoReopenUnreachable
  BY <1>10, SetStatusOwners DEF AutoReopenUnreachable, Status, Working
<1>11. CASE AutoResolveReachable
  BY <1>11, SetStatusOwners DEF AutoResolveReachable, Status, Working
<1>12. CASE ApiSyncRead \/ SyncRead \/ SyncConflicts \/ UpdateChangeFlags \/ Deadlock \/ PassFails
  BY <1>0, <1>12 DEF ApiSyncRead, SyncRead, SyncConflicts, UpdateChangeFlags, Deadlock, PassFails
<1>13. ASSUME NEW found, NEW completes, Collect(found, completes) PROVE OwnerInv'
  BY <1>0, <1>13 DEF Collect
<1>14. ASSUME NEW r \in Requests, NEW u \in Users, NEW c \in Clients,
              NEW st \in AskedStatus \cup {Keep}, NEW as \in Users \cup {None, Keep},
              UpdateCaseLoads(r, u, c, st, as)
       PROVE OwnerInv'
  BY <1>14, LoadOwners
<1>15. ASSUME NEW r \in Requests, UpdateCaseCommits(r) PROVE OwnerInv'
  BY <1>15, CommitOwners
<1>16. ASSUME NEW r \in Requests, UpdateCaseFails(r) PROVE OwnerInv'
  <2>1. UNCHANGED cases /\ \A s \in Requests : Calls(s)' => req'[s] = req[s]
    BY <1>16 DEF UpdateCaseFails, TypeOK, Calls, IdleRequest
  <2>2. \A s \in Requests : Calls(s)' => Calls(s) /\ req'[s] = req[s] /\ HasCase(req[s].client)'
    BY <2>1 DEF Calls, OwnerInv
  <2> QED BY <2>1, <2>2, OwnersStay DEF NotMoreWork
<1>17. CASE UNCHANGED vars
  BY <1>0, <1>17 DEF vars
<1> QED
  BY <1>1, <1>2, <1>3, <1>4, <1>5, <1>6, <1>7, <1>8, <1>9, <1>10, <1>11, <1>12, <1>13, <1>14,
     <1>15, <1>16, <1>17
  DEF Next, ClientListChanges, Pass, UpdateCase

\* A call in flight always finds its row, and what it is about to write has an owner
\* (update_case reads, awaits the user lookup and commits): the inductive invariant.
THEOREM OwnerInvariant == Spec => []OwnerInv
BY OwnerInit, OwnerNext, TypeCorrect, PTL DEF Spec

\* With one call at a time a case that is worked on has an owner, for any number of clients,
\* whatever MACs they share and whatever pass, syncs and list edits do between its read and
\* its write (update_case).
THEOREM WorkAlwaysHasOwner == Spec => []WorkHasOwner
<1>1. OwnerInv => WorkHasOwner
  BY DEF OwnerInv, WorkHasOwner
<1> QED BY <1>1, OwnerInvariant, PTL

-----------------------------------------------------------------------------
(* The refinement: what people at the desk see, row by row and step by step. *)

ShownCase(k) == [state |-> Kind(k.status), owner |-> k.assignee, ping |-> k.ping]

ShownCall(q) == [client |-> q.client, state |-> IF q.status = Keep THEN Keep ELSE Kind(q.status),
             owner |-> q.assignee]

\* Each status has one state on the desk.
LEMMA KindCases ==
  /\ \A st \in Working : Kind(st) = "working"
  /\ Kind("RESOLVED") = "closed"
  /\ \A st \in {"UNASSIGNED", "ASSIGNED"} : Kind(st) = "waiting"
BY Zenon DEF Kind, Working

LEMMA KindType ==
  ASSUME NEW st \in Status
  PROVE  /\ Kind(st) \in {"waiting", "working", "closed"} /\ Kind(st) # Keep
         /\ Kind(st) = "working" <=> st \in Working
         /\ Kind(st) = "closed" <=> st = "RESOLVED"
         /\ Kind(st) = "waiting" <=> st \in {"UNASSIGNED", "ASSIGNED"}
<1>1. CASE st \in Working
  BY <1>1, KindCases DEF Working
<1>2. CASE st = "RESOLVED"
  BY <1>2, KindCases DEF Working
<1>3. CASE st \in {"UNASSIGNED", "ASSIGNED"}
  BY <1>3, KindCases DEF Working
<1> QED BY <1>1, <1>2, <1>3 DEF Status, Working

\* A case on the desk is a case of the table, with its owner and its ping.
LEMMA CaseShown ==
  ASSUME NEW k \in Case
  PROVE  /\ DeskCase(k) = ShownCase(k) /\ DeskCase(k) # Nothing
         /\ DeskCase(k).state = Kind(k.status)
         /\ DeskCase(k).owner = k.assignee /\ DeskCase(k).ping = k.ping
<1>1. DeskCase(k) = ShownCase(k)
  BY CaseIsARow DEF DeskCase, ShownCase
<1>2. ShownCase(k).state \in {"waiting", "working", "closed"}
  BY KindType DEF ShownCase, Case
<1> QED BY <1>1, <1>2 DEF ShownCase, Nothing

LEMMA NoCaseShown == DeskCase(NoCase) = Nothing
BY DEF DeskCase

\* A call in flight is a call on the desk, a lost one is none.
LEMMA CallShown ==
  ASSUME NEW q \in CallState
  PROVE  /\ q \in LoadedRequest =>
              /\ DeskCall(q) = ShownCall(q) /\ DeskCall(q) # Nothing /\ DeskCall(q).client = q.client
              /\ DeskCall(q).state = (IF q.status = Keep THEN Keep ELSE Kind(q.status))
              /\ DeskCall(q).owner = q.assignee
              /\ DeskCall(q) \in Desk!Call
         /\ q \notin LoadedRequest => DeskCall(q) = Nothing
         /\ q \in LoadedRequest <=> q.at = "loaded"
<1>1. CASE q \in LoadedRequest
  <2>1. q.at = "loaded" /\ DeskCall(q) = ShownCall(q)
    BY <1>1 DEF LoadedRequest, DeskCall, ShownCall
  <2>2. /\ q.client \in Clients /\ q.status \in Status \cup {Keep} /\ q.assignee \in Users \cup {None, Keep}
    BY <1>1 DEF LoadedRequest
  <2> DEFINE s == IF q.status = Keep THEN Keep ELSE Kind(q.status)
  <2>3. s \in {"waiting", "working", "closed"} \cup {Keep}
    BY <2>2, KindType
  <2>4. ShownCall(q) = [client |-> q.client, state |-> s, owner |-> q.assignee]
    BY DEF ShownCall
  <2> HIDE DEF s
  <2>5. ShownCall(q) \in Desk!Call /\ ShownCall(q).state = s /\ ShownCall(q).client = q.client /\ ShownCall(q).owner = q.assignee
    BY <2>2, <2>3, <2>4 DEF Desk!Call, Desk!States
  <2>6. ShownCall(q) # Nothing
    BY <2>4 DEF Nothing
  <2> QED BY <1>1, <2>1, <2>5, <2>6 DEF s
<1>2. CASE q \in {IdleRequest, LostRequest}
  BY <1>2 DEF IdleRequest, LostRequest, LoadedRequest, DeskCall
<1> QED BY <1>1, <1>2 DEF CallState

\* A row or its absence, and what is shown of it.
LEMMA RowShown ==
  ASSUME TypeOK, NEW c \in Clients
  PROVE  /\ CasesShown[c] = DeskCase(cases[c])
         /\ HasCase(c) <=> CasesShown[c] # Nothing
         /\ HasCase(c) => /\ cases[c] \in Case
                          /\ CasesShown[c] = ShownCase(cases[c])
                          /\ CasesShown[c].state = Kind(cases[c].status)
                          /\ CasesShown[c].owner = cases[c].assignee
                          /\ CasesShown[c].ping = cases[c].ping
BY CaseShown, NoCaseShown DEF CasesShown, TypeOK

\* Each way to write the tables is a step of the desk.
LEMMA DeletedVanish ==
  ASSUME TypeOK, TypeOK', NEW S, Delete(S)
  PROVE  Desk!Vanishes(S)
<1>1. ASSUME NEW c \in Clients
      PROVE  DeskCase(cases'[c]) = IF c \in S THEN Nothing ELSE CasesShown[c]
  BY NoCaseShown DEF Delete, CasesShown
<1>2. ASSUME NEW r \in Requests
      PROVE  DeskCall(req'[r]) = IF CallsShown[r] # Nothing /\ CallsShown[r].client \in S
                                  THEN Nothing ELSE CallsShown[r]
  <2>1. CallsShown[r] = DeskCall(req[r]) /\ req[r] \in CallState
    BY DEF CallsShown, TypeOK
  <2>2. DeskCall(LostRequest) = Nothing
    BY DEF DeskCall, LostRequest
  <2>3. req'[r] = IF Calls(r) /\ req[r].client \in S THEN LostRequest ELSE req[r]
    BY DEF Delete
  <2>4. Calls(r) <=> req[r] \in LoadedRequest
    BY <2>1, CallShown DEF Calls
  <2> QED BY <2>1, <2>2, <2>3, <2>4, CallShown
<1>3. CasesShown' = [c \in Clients |-> IF c \in S THEN Nothing ELSE CasesShown[c]]
  BY <1>1 DEF CasesShown
<1>4. CallsShown' = [r \in Requests |-> IF CallsShown[r] # Nothing /\ CallsShown[r].client \in S
                                          THEN Nothing ELSE CallsShown[r]]
  BY <1>2 DEF CallsShown
<1> QED BY <1>3, <1>4 DEF Desk!Vanishes, Desk!Nothing, Nothing

LEMMA InsertedOpen ==
  ASSUME TypeOK, TypeOK', NEW S, Insertable(S), Insert(S), UNCHANGED req
  PROVE  Desk!Opens(S)
<1> DEFINE Fresh(c) == [state |-> "waiting", owner |-> DefaultAssignee[c], ping |-> "unknown"]
<1>1. ASSUME NEW c \in Clients PROVE ShownCase(NewCase(c)) = Fresh(c)
  <2>1. NewCase(c).status \in {"UNASSIGNED", "ASSIGNED"} /\ NewCase(c).ping = "unknown"
        /\ NewCase(c).assignee = DefaultAssignee[c]
    BY DEF NewCase
  <2> QED BY <2>1, KindCases DEF ShownCase
<1>2. ASSUME NEW c \in Clients
      PROVE  DeskCase(cases'[c]) = IF c \in S THEN Fresh(c) ELSE CasesShown[c]
  <2>1. cases'[c] = IF c \in S THEN NewCase(c) ELSE cases[c]
    BY DEF Insert
  <2> QED BY <1>1, <2>1, NewCaseType, CaseShown DEF CasesShown
<1>3. CasesShown' = [c \in Clients |-> IF c \in S THEN Fresh(c) ELSE CasesShown[c]]
  BY <1>2 DEF CasesShown
<1>4. \A c \in S : CasesShown[c] = Nothing
  BY RowShown DEF Insertable, Missing, Listed
<1>5. UNCHANGED CallsShown
  BY DEF CallsShown
<1> QED BY <1>3, <1>4, <1>5 DEF Desk!Opens, Desk!Nothing, Nothing

LEMMA PingsHeard ==
  ASSUME TypeOK, TypeOK', UpdatePingStatus
  PROVE  \E pings \in [Clients -> {"up", "down", "unknown"}] : Desk!HearsPings(pings)
<1> DEFINE pings == [c \in Clients |-> IF HasCase(c) THEN cases'[c].ping ELSE "unknown"]
<1>1. \A c \in Clients :
        /\ HasCase(c)' <=> HasCase(c)
        /\ HasCase(c) => cases'[c].status = cases[c].status /\ cases'[c].assignee = cases[c].assignee
        /\ HasCase(c) => cases[c] \in Case /\ cases'[c] \in Case
  BY PingStepType DEF TypeOK
<1>2. pings \in [Clients -> {"up", "down", "unknown"}]
  BY <1>1, CaseIsARow DEF Ping
<1>3. ASSUME NEW c \in Clients
      PROVE  DeskCase(cases'[c]) = IF CasesShown[c] = Nothing THEN Nothing
                                   ELSE [state |-> CasesShown[c].state, owner |-> CasesShown[c].owner,
                                         ping |-> pings[c]]
  <2>1. CASE HasCase(c)
    <3>1. DeskCase(cases'[c]) = ShownCase(cases'[c]) /\ pings[c] = cases'[c].ping
      BY <1>1, <2>1, CaseShown
    <3> HIDE DEF pings
    <3> QED BY <1>1, <2>1, <3>1, RowShown DEF ShownCase
  <2>2. CASE ~HasCase(c)
    BY <1>1, <2>2, RowShown, NoCaseShown
  <2> QED BY <2>1, <2>2
<1> HIDE DEF pings
<1>4. CasesShown' = [c \in Clients |->
                       IF CasesShown[c] = Nothing THEN Nothing
                       ELSE [state |-> CasesShown[c].state, owner |-> CasesShown[c].owner,
                             ping |-> pings[c]]]
  BY <1>3 DEF CasesShown
<1>5. UNCHANGED CallsShown
  BY DEF UpdatePingStatus, CallsShown
<1> QED BY <1>2, <1>4, <1>5 DEF Desk!HearsPings, Desk!Nothing, Nothing

\* A statement over the cases is a sweep of the desk.
LEMMA StatusSwept ==
  ASSUME TypeOK, TypeOK', UNCHANGED req, NEW S \in SUBSET {c \in Clients : HasCase(c)},
         NEW new \in Status, SetStatus(S, new)
  PROVE  Desk!MovesAll(S, Kind(new))
<1>1. ASSUME NEW c \in Clients
      PROVE  DeskCase(cases'[c]) =
               IF c \in S THEN [state |-> Kind(new), owner |-> CasesShown[c].owner,
                                ping |-> CasesShown[c].ping]
               ELSE CasesShown[c]
  <2>1. CASE c \in S
    <3>1. /\ cases'[c].status = new /\ cases'[c].ping = cases[c].ping
          /\ cases'[c].assignee = cases[c].assignee /\ HasCase(c)'
      BY <2>1, SetStatusType
    <3>2. cases'[c] \in Case
      BY <3>1 DEF TypeOK
    <3>3. ShownCase(cases'[c]) = [state |-> Kind(new), owner |-> cases[c].assignee,
                              ping |-> cases[c].ping]
      BY <3>1 DEF ShownCase
    <3> QED BY <2>1, <3>2, <3>3, RowShown, CaseShown
  <2>2. CASE c \notin S
    BY <2>2 DEF SetStatus, CasesShown
  <2> QED BY <2>1, <2>2
<1>2. CasesShown' = [c \in Clients |->
                       IF c \in S THEN [state |-> Kind(new), owner |-> CasesShown[c].owner,
                                        ping |-> CasesShown[c].ping]
                       ELSE CasesShown[c]]
  BY <1>1 DEF CasesShown
<1>3. UNCHANGED CallsShown
  BY DEF CallsShown
<1> QED BY <1>2, <1>3 DEF Desk!MovesAll

LEMMA ReopenSwept ==
  ASSUME TypeOK, TypeOK', AutoReopenUnreachable
  PROVE  Desk!ReopensUnreachable
<1> DEFINE S == {c \in Clients : HasCase(c) /\ Reopens(cases[c])}
<1>1. SetStatus(S, "ASSIGNED") /\ UNCHANGED req
  BY DEF AutoReopenUnreachable
<1>2. S = {c \in Desk!Shown : CasesShown[c].state = "closed" /\ CasesShown[c].ping # "up"}
  BY RowShown, KindType DEF Desk!Shown, Desk!Nothing, Nothing, Reopens, Case
<1>3. Desk!MovesAll(S, "waiting")
  BY <1>1, StatusSwept, KindCases DEF Status
<1> QED BY <1>2, <1>3 DEF Desk!ReopensUnreachable

LEMMA ResolveSwept ==
  ASSUME TypeOK, TypeOK', AutoResolveReachable
  PROVE  Desk!ClosesReachable
<1> DEFINE S == {c \in Clients : HasCase(c) /\ Resolves(cases[c])}
<1>1. SetStatus(S, "RESOLVED") /\ UNCHANGED req
  BY DEF AutoResolveReachable
<1>2. S = {c \in Desk!Shown : CasesShown[c].state = "waiting" /\ CasesShown[c].ping = "up"}
  <2>1. ASSUME NEW c \in Clients, HasCase(c)
        PROVE  Resolves(cases[c]) <=> CasesShown[c].state = "waiting" /\ CasesShown[c].ping = "up"
    BY <2>1, RowShown, KindType DEF Resolves, Case, Status, Working
  <2> QED BY <2>1, RowShown DEF Desk!Shown, Desk!Nothing, Nothing
<1>3. Desk!MovesAll(S, "closed")
  BY <1>1, StatusSwept, KindCases DEF Status
<1> QED BY <1>2, <1>3 DEF Desk!ClosesReachable

\* What update_case computes for a permitted request, the desk allows.
LEMMA PermittedAllowed ==
  ASSUME NEW c \in Clients, NEW k \in Case, NEW u \in Users,
         NEW st \in AskedStatus \cup {Keep}, NEW as \in Users \cup {None, Keep},
         Permitted(u, k, st, as),
         NEW call, call = [at |-> "loaded", client |-> c,
                           status |-> Column(k.status, NewStatus(k, st, as)),
                           assignee |-> IF as = Keep THEN Keep ELSE Column(k.assignee, as)]
  PROVE  Desk!Allowed(DeskCase(k), DeskCall(call))
<1> DEFINE new == NewStatus(k, st, as)  shown == DeskCase(k)  asked == DeskCall(call)
<1>1. call \in LoadedRequest
  BY LoadedType
<1>2. /\ call.status = Column(k.status, new)
      /\ call.assignee = IF as = Keep THEN Keep ELSE Column(k.assignee, as)
  OBVIOUS
<1>3. /\ shown.state = Kind(k.status) /\ shown.owner = k.assignee /\ shown.ping = k.ping
      /\ asked.state = (IF call.status = Keep THEN Keep ELSE Kind(call.status))
      /\ asked.owner = call.assignee
  BY <1>1, CaseShown, CallShown DEF CallState
<1>4. k.status \in Status /\ st \in Status \cup {Keep} /\ k.assignee \in Users \cup {None}
  BY DEF Case
<1>5. /\ as = None => new = "UNASSIGNED"
      /\ new \in Status
      /\ new \notin {"UNASSIGNED", "ASSIGNED"} => new = (IF st = Keep THEN k.status ELSE st)
  <2>1. CASE as = None
    BY <2>1 DEF NewStatus, Status
  <2>2. CASE as \in Users
    BY <1>4, <2>2 DEF NewStatus, Status
  <2>3. CASE as = Keep
    BY <1>4, <2>3 DEF NewStatus, Status
  <2> QED BY <2>1, <2>2, <2>3
<1>6. /\ st # Keep => k.assignee = u
      /\ as # Keep /\ k.assignee # None => k.status # "RESOLVED"
      /\ st = "RESOLVED" => k.ping = "up"
  BY DEF Permitted
<1> HIDE DEF new, shown, asked
<1>7. ASSUME asked.state \in {"working", "closed"}
      PROVE  st # Keep /\ asked.state = Kind(st)
  <2>1. call.status = new /\ new # k.status /\ asked.state = Kind(new)
    BY <1>2, <1>3, <1>7 DEF Column
  <2>2. new \notin {"UNASSIGNED", "ASSIGNED"}
    BY <1>7, <2>1, KindCases
  <2> QED BY <1>5, <2>1, <2>2
<1>8. asked.state = "closed" => shown.ping = "up"
  BY <1>3, <1>4, <1>6, <1>7, KindType
<1>9. asked.state \in {"working", "closed"} => shown.owner # None
  BY <1>3, <1>6, <1>7
<1>10. asked.owner # Keep => shown.owner = None \/ shown.state # "closed"
  BY <1>2, <1>3, <1>4, <1>6, KindType
<1>11. asked.owner = None => asked.state = "waiting" \/ (asked.state = Keep /\ shown.state = "waiting")
  <2> SUFFICES ASSUME asked.owner = None
               PROVE  asked.state = "waiting" \/ (asked.state = Keep /\ shown.state = "waiting")
    OBVIOUS
  <2>1. new = "UNASSIGNED"
    BY <1>2, <1>3, <1>5 DEF Column
  <2>2. call.status = Keep => k.status = "UNASSIGNED"
    BY <1>2, <1>5, <2>1 DEF Column
  <2>3. call.status # Keep => call.status = "UNASSIGNED"
    BY <1>2, <2>1 DEF Column
  <2> QED BY <1>3, <2>2, <2>3, KindCases
<1> QED BY <1>8, <1>9, <1>10, <1>11 DEF Desk!Allowed, shown, asked

LEMMA LoadedAsks ==
  ASSUME TypeOK, TypeOK', NEW r \in Requests, NEW u \in Users, NEW c \in Clients,
         NEW st \in AskedStatus \cup {Keep}, NEW as \in Users \cup {None, Keep},
         UpdateCaseLoads(r, u, c, st, as)
  PROVE  \E call \in Desk!Call : Desk!Asks(r, call)
<1> DEFINE call == [at |-> "loaded", client |-> c,
                    status |-> Column(cases[c].status, NewStatus(cases[c], st, as)),
                    assignee |-> IF as = Keep THEN Keep ELSE Column(cases[c].assignee, as)]
<1>1. /\ HasCase(c) /\ Permitted(u, cases[c], st, as) /\ req[r] = IdleRequest
      /\ req' = [req EXCEPT ![r] = call] /\ UNCHANGED cases
  BY DEF UpdateCaseLoads
<1>2. cases[c] \in Case /\ CasesShown[c] = DeskCase(cases[c]) /\ CasesShown[c] # Nothing
  BY <1>1, RowShown
<1>3. Desk!Allowed(DeskCase(cases[c]), DeskCall(call))
  BY <1>1, <1>2, PermittedAllowed
<1>4. call \in LoadedRequest /\ call.client = c
  BY <1>2, LoadedType
<1> HIDE DEF call
<1>5. DeskCall(call) \in Desk!Call /\ DeskCall(call).client = c
  BY <1>4, CallShown DEF CallState
<1>6. CallsShown[r] = Nothing
  BY <1>1, CallShown DEF CallsShown, CallState, IdleRequest, LoadedRequest, DeskCall
<1>7. CallsShown' = [CallsShown EXCEPT ![r] = DeskCall(call)]
  BY <1>1 DEF CallsShown, TypeOK
<1>8. UNCHANGED CasesShown
  BY <1>1 DEF CasesShown
<1>9. Desk!Asks(r, DeskCall(call))
  BY <1>2, <1>3, <1>5, <1>6, <1>7, <1>8 DEF Desk!Asks, Desk!Nothing, Nothing
<1> QED BY <1>5, <1>9

LEMMA CommittedLands ==
  ASSUME TypeOK, TypeOK', NEW r \in Requests, UpdateCaseCommits(r)
  PROVE  Desk!Lands(r)
<1> DEFINE c == req[r].client
<1>1. /\ req[r] \in LoadedRequest /\ c \in Clients /\ HasCase(c)
      /\ cases' = [cases EXCEPT ![c] = Written(@, req[r])]
      /\ req' = [req EXCEPT ![r] = IdleRequest]
  BY CallLoaded DEF UpdateCaseCommits
<1>2. cases[c] \in Case
  BY <1>1 DEF TypeOK
<1>3. /\ CallsShown[r] # Nothing /\ CallsShown[r].client = c
      /\ CallsShown[r].state = (IF req[r].status = Keep THEN Keep ELSE Kind(req[r].status))
      /\ CallsShown[r].owner = req[r].assignee
  BY <1>1, CallShown DEF CallsShown, CallState
<1>4. CasesShown[c] # Nothing /\ CasesShown[c] = ShownCase(cases[c])
  BY <1>1, RowShown
<1>5. DeskCase(Written(cases[c], req[r])) = Desk!After(CasesShown[c], CallsShown[r])
  <2>1. Written(cases[c], req[r]) \in Case
    BY <1>1, <1>2, WrittenType
  <2>2. /\ Written(cases[c], req[r]).status = (IF req[r].status = Keep THEN cases[c].status ELSE req[r].status)
        /\ Written(cases[c], req[r]).assignee = (IF req[r].assignee = Keep THEN cases[c].assignee ELSE req[r].assignee)
        /\ Written(cases[c], req[r]).ping = cases[c].ping
    BY <1>1, <1>2, WrittenFields DEF Written, Case, LoadedRequest
  <2>3. /\ CasesShown[c].state = Kind(cases[c].status) /\ CasesShown[c].owner = cases[c].assignee
        /\ CasesShown[c].ping = cases[c].ping
    BY <1>4 DEF ShownCase
  <2>4. req[r].status # Keep => Kind(req[r].status) # Keep
    BY <1>1, KindType DEF LoadedRequest
  <2> DEFINE w == Written(cases[c], req[r])
  <2>5. DeskCase(w) = [state |-> Kind(w.status), owner |-> w.assignee, ping |-> w.ping]
    BY <2>1, CaseShown DEF ShownCase
  <2>6. /\ Kind(w.status) = (IF CallsShown[r].state = Keep THEN CasesShown[c].state ELSE CallsShown[r].state)
        /\ w.assignee = (IF CallsShown[r].owner = Keep THEN CasesShown[c].owner ELSE CallsShown[r].owner)
        /\ w.ping = CasesShown[c].ping
    BY <1>3, <2>2, <2>3, <2>4
  <2> HIDE DEF w
  <2> QED BY <2>5, <2>6 DEF Desk!After, w
<1> HIDE DEF c
<1>6. CasesShown' = [CasesShown EXCEPT ![c] = Desk!After(CasesShown[c], CallsShown[r])]
  BY <1>1, <1>5 DEF CasesShown, TypeOK
<1>7. CallsShown' = [CallsShown EXCEPT ![r] = Nothing]
  <2>1. DeskCall(IdleRequest) = Nothing
    BY DEF DeskCall, IdleRequest
  <2> QED BY <1>1, <2>1 DEF CallsShown, TypeOK
<1> QED BY <1>3, <1>4, <1>6, <1>7 DEF Desk!Lands, Desk!Nothing, Nothing

LEMMA DeskStep ==
  TypeOK /\ TypeOK' /\ [Next]_vars => Desk!DeskNext \/ UNCHANGED <<CasesShown, CallsShown>>
<1> SUFFICES ASSUME TypeOK, TypeOK', [Next]_vars
             PROVE  Desk!DeskNext \/ UNCHANGED <<CasesShown, CallsShown>>
  OBVIOUS
<1>0. ASSUME UNCHANGED <<cases, req>> PROVE UNCHANGED <<CasesShown, CallsShown>>
  BY <1>0 DEF CasesShown, CallsShown
<1>1. ASSUME NEW S \in SUBSET Clients, Delete(S) PROVE Desk!DeskNext
  BY <1>1, DeletedVanish DEF Desk!DeskNext
<1>2. ASSUME NEW S \in SUBSET Clients, Insertable(S), Insert(S), UNCHANGED req PROVE Desk!DeskNext
  BY <1>2, InsertedOpen DEF Desk!DeskNext
<1>3. ASSUME NEW c \in Clients, AddClient(c) PROVE UNCHANGED <<CasesShown, CallsShown>>
  BY <1>0, <1>3 DEF AddClient
<1>4. ASSUME NEW c \in Clients, RemoveClient(c) PROVE Desk!DeskNext
  BY <1>1, <1>4 DEF RemoveClient
<1>5. ASSUME NEW S \in SUBSET Clients, BatchDelete(S) PROVE Desk!DeskNext
  BY <1>1, <1>5 DEF BatchDelete
<1>6. ASSUME NEW S \in SUBSET Clients, NEW replace \in BOOLEAN, ImportCsv(S, replace)
      PROVE  Desk!DeskNext
  <2> DEFINE old == IF replace THEN Listed ELSE {}
  <2>1. Delete(old) /\ old \in SUBSET Clients
    BY <1>6 DEF ImportCsv, Listed
  <2> QED BY <1>1, <2>1
<1>7. ASSUME NEW S \in SUBSET Clients, GnmsImport(S) PROVE Desk!DeskNext
  BY <1>6, <1>7 DEF GnmsImport
<1>8. CASE ClearAll
  BY <1>5, <1>8 DEF ClearAll, Listed
<1>9. CASE ApiSyncWrite
  BY <1>0, <1>2, <1>9 DEF ApiSyncWrite, TypeOK
<1>10. CASE SyncCommits
  BY <1>2, <1>10 DEF SyncCommits, TypeOK
<1>11. CASE UpdatePingStatus
  BY <1>11, PingsHeard DEF Desk!DeskNext
<1>12. CASE AutoReopenUnreachable
  BY <1>12, ReopenSwept DEF Desk!DeskNext
<1>13. CASE AutoResolveReachable
  BY <1>13, ResolveSwept DEF Desk!DeskNext
<1>14. CASE ApiSyncRead \/ SyncRead \/ SyncConflicts \/ UpdateChangeFlags \/ Deadlock \/ PassFails
  BY <1>0, <1>14 DEF ApiSyncRead, SyncRead, SyncConflicts, UpdateChangeFlags, Deadlock, PassFails
<1>15. ASSUME NEW found, NEW completes, Collect(found, completes)
       PROVE  UNCHANGED <<CasesShown, CallsShown>>
  BY <1>0, <1>15 DEF Collect
<1>16. ASSUME NEW r \in Requests, NEW u \in Users, NEW c \in Clients,
              NEW st \in AskedStatus \cup {Keep}, NEW as \in Users \cup {None, Keep},
              UpdateCaseLoads(r, u, c, st, as)
       PROVE  Desk!DeskNext
  BY <1>16, LoadedAsks DEF Desk!DeskNext
<1>17. ASSUME NEW r \in Requests, UpdateCaseCommits(r) PROVE Desk!DeskNext
  BY <1>17, CommittedLands DEF Desk!DeskNext
<1>18. ASSUME NEW r \in Requests, UpdateCaseFails(r)
       PROVE  UNCHANGED <<CasesShown, CallsShown>>
  <2>1. DeskCall(IdleRequest) = Nothing /\ DeskCall(LostRequest) = Nothing
    BY DEF DeskCall, IdleRequest, LostRequest
  <2>2. \A s \in Requests : DeskCall(req'[s]) = DeskCall(req[s])
    BY <1>18, <2>1 DEF UpdateCaseFails, TypeOK
  <2>3. UNCHANGED cases
    BY <1>18 DEF UpdateCaseFails
  <2> QED BY <2>2, <2>3 DEF CasesShown, CallsShown
<1>19. CASE UNCHANGED vars
  BY <1>0, <1>19 DEF vars
<1> QED
  BY <1>3, <1>4, <1>5, <1>6, <1>7, <1>8, <1>9, <1>10, <1>11, <1>12, <1>13, <1>14, <1>15,
     <1>16, <1>17, <1>18, <1>19
  DEF Next, ClientListChanges, Pass, UpdateCase

\* Passes, syncs, list edits and overlapping calls are no more than CaseDesk allows: the
\* cases of any clients move by calls that were allowed when they read, and by two sweeps
\* that leave alone what is worked on (CaseLifecycle implements CaseDesk).
THEOREM ImplementsDesk == Spec => ShowsDesk
<1>1. Init => Desk!DeskInit
  <2>1. DeskCall(IdleRequest) = Nothing
    BY DEF DeskCall, IdleRequest
  <2> QED BY <2>1, NoCaseShown
          DEF Init, Desk!DeskInit, CasesShown, CallsShown, Desk!Nothing, Nothing
<1>2. TypeOK /\ TypeOK' /\ [Next]_vars => [Desk!DeskNext]_<<CasesShown, CallsShown>>
  BY DeskStep
<1> QED BY <1>1, <1>2, TypeCorrect, PTL DEF Spec, ShowsDesk, Desk!DeskSpec
=============================================================================
