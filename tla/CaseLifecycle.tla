---------------------------- MODULE CaseLifecycle ----------------------------
(***************************************************************************)
(* The case of each client of one maintenance: created by sync_cases,      *)
(* resolved and reopened by the scheduler's pass over the cases, worked on *)
(* by users through update_case, and deleted with its client.              *)
(*                                                                         *)
(* The actors share nothing but the database.  Every action below is one   *)
(* committed transaction, or the read that such a transaction starts from  *)
(* when the code decides on what it read: sync_cases and update_case read  *)
(* without a lock and write later, so their read and their write are       *)
(* separate steps and anything may commit in between.                      *)
(*                                                                         *)
(* Abstracted: the text of summaries and notes, change_flags, and the     *)
(* value of ping_reachable_since (CaseAges has it).  A client id is never  *)
(* reused (AUTO_INCREMENT).                                                *)
(***************************************************************************)
EXTENDS Naturals, FiniteSets

CONSTANTS
  Clients,          \* ids of maintenance_mac_list
  Users,            \* display names of active users
  Managers,         \* the users whose role is ROOT or PM
  None,             \* SQL NULL in Case.assignee, "" in a request
  Keep,             \* a column, or a request field, that is left alone
  MacOf,            \* the MAC of each client; clients may share one
  DefaultAssignee,  \* client.default_assignee, or the first active ROOT
  Requests,         \* slots for the update_case calls in flight: the bound on them
  AskedStatus,      \* the statuses that callers ask for: the bound on those
  MaxTries          \* max_retries of the scheduler's pass

Status == {"UNASSIGNED", "ASSIGNED", "IN_PROGRESS", "DISCUSSING", "RESOLVED", "IGNORED"}

ASSUME CaseAssumption ==
  /\ Managers \subseteq Users
  /\ None \notin Users /\ None # Keep
  /\ Keep \notin Users \cup Status \cup {"waiting", "working", "closed"}
  /\ IsFiniteSet(Requests)
  /\ DefaultAssignee \in [Clients -> Users \cup {None}]
  /\ AskedStatus \subseteq Status
  /\ MaxTries \in Nat \ {0}

Working  == {"IN_PROGRESS", "DISCUSSING", "IGNORED"}   \* auto_resolve leaves these alone
Ping     == {"up", "down", "unknown"}                  \* True, False, NULL
PassStep == {"idle", "syncRead", "syncWrite", "ping", "reopen", "resolve", "flags"}

Case == [status : Status, assignee : Users \cup {None}, ping : Ping, timed : BOOLEAN]
NoCase == [status |-> "none"]

VARIABLES
  life,      \* of a client: "new", "listed", "gone"
  record,    \* ping_reachable of a client's newest ClientRecord, "none" without one
  cases,     \* the row of table cases of each client, or NoCase
  pc,        \* where the scheduler's pass stands
  attempt,   \* its attempt counter
  creating,  \* the clients its sync_cases found without a case
  apiCreating, \* the same for the POST .../sync endpoint; {} is "no call in flight"
  req,       \* update_case calls between their SELECT and their COMMIT
  touched    \* history: of a case, what others wrote that the pass has no step left to see

vars == <<life, record, cases, pc, attempt, creating, apiCreating, req, touched>>
pass == <<pc, attempt, creating>>

HasCase(c) == cases[c] # NoCase
Calls(r) == req[r].at = "loaded"
Listed == {c \in Clients : life[c] = "listed"}

\* Mutant: only clients that were seen on the network get a case.
MissingSeen == {c \in Listed : ~HasCase(c) /\ record[c] # "none"}
Missing == {c \in Listed : ~HasCase(c)}

IdleRequest == [at |-> "idle"]
LostRequest == [at |-> "lost"]   \* the row it loaded is gone
LoadedRequest == [at : {"loaded"}, client : Clients,
                  status : Status \cup {Keep}, assignee : Users \cup {None, Keep}]
CallState == LoadedRequest \cup {IdleRequest, LostRequest}

\* made: by the endpoint, since the pass updated the pings; closed: by a user, since it
\* reopened; waits: a user left it waiting, since the pass resolved.
Marks == SUBSET {"made", "closed", "waits"}
Unmarked == [c \in Clients |-> {}]
AfterPings == {"reopen", "resolve", "flags"}

TypeOK ==
  /\ life \in [Clients -> {"new", "listed", "gone"}]
  /\ record \in [Clients -> Ping \cup {"none"}]
  /\ cases \in [Clients -> Case \cup {NoCase}]
  /\ pc \in PassStep
  /\ attempt \in 1..MaxTries
  /\ creating \in SUBSET Clients
  /\ apiCreating \in SUBSET Clients
  /\ req \in [Requests -> CallState]
  /\ touched \in [Clients -> Marks]

Init ==
  /\ life = [c \in Clients |-> "new"]
  /\ record = [c \in Clients |-> "none"]
  /\ cases = [c \in Clients |-> NoCase]
  /\ pc = "idle" /\ attempt = 1 /\ creating = {}
  /\ apiCreating = {}
  /\ req = [r \in Requests |-> IdleRequest]
  /\ touched = Unmarked

-----------------------------------------------------------------------------
(* The client list.  An import is followed by sync_cases: the actions below it. *)

AddClient(c) ==
  /\ life[c] = "new"
  /\ life' = [life EXCEPT ![c] = "listed"]
  /\ UNCHANGED <<record, cases, pass, apiCreating, req, touched>>

\* The rows of the clients of S are deleted.  A case made later has another id.
Delete(S) ==
  /\ cases' = [d \in Clients |-> IF d \in S THEN NoCase ELSE cases[d]]
  /\ record' = [d \in Clients |-> IF d \in S THEN "none" ELSE record[d]]
  /\ req' = [r \in Requests |-> IF Calls(r) /\ req[r].client \in S THEN LostRequest ELSE req[r]]

\* By id or by MAC: the other clients of the same MAC stay listed but lose their rows.
RemoveClient(c) ==
  /\ life[c] = "listed"
  /\ life' = [life EXCEPT ![c] = "gone"]
  /\ Delete({d \in Clients : MacOf[d] = MacOf[c]})
  /\ UNCHANGED <<pass, apiCreating, touched>>

BatchDelete(S) ==
  /\ S \subseteq Listed /\ S # {}
  /\ life' = [c \in Clients |-> IF c \in S THEN "gone" ELSE life[c]]
  /\ Delete(S)
  /\ UNCHANGED <<pass, apiCreating, touched>>

ClearAll == Listed # {} /\ BatchDelete(Listed)

\* With replace, the whole list goes first, in the same transaction.
ImportCsv(S, replace) ==
  LET old == IF replace THEN Listed ELSE {}
  IN  /\ S # {} /\ \A c \in S : life[c] = "new"
      /\ life' = [c \in Clients |-> IF c \in S THEN "listed"
                                    ELSE IF c \in old THEN "gone" ELSE life[c]]
      /\ Delete(old)
      /\ UNCHANGED <<pass, apiCreating, touched>>

\* This import alone skips a MAC that is on the list already.
GnmsImport(S) ==
  /\ \A c \in S, d \in S \cup Listed : c # d => MacOf[c] # MacOf[d]
  /\ ImportCsv(S, FALSE)

-----------------------------------------------------------------------------
(* sync_cases, which the scheduler's pass and the endpoint both run. *)

NewCase(c) ==
  [status   |-> IF DefaultAssignee[c] = None THEN "UNASSIGNED" ELSE "ASSIGNED",
   assignee |-> DefaultAssignee[c], ping |-> "unknown", timed |-> FALSE]

\* The INSERTs of one session commit together.  A row that exists by now breaks the
\* unique key, a client that is gone breaks the foreign key.
\* Mutant: no unique key over (maintenance_id, client_id).
InsertableTwice(S) == S \subseteq Listed
\* Mutant: no foreign key to maintenance_mac_list.
InsertableOrphan(S) == \A c \in S : ~HasCase(c)
Insertable(S) == \A c \in S : c \in Missing
Insert(S) == cases' = [c \in Clients |-> IF c \in S THEN NewCase(c) ELSE cases[c]]

ApiSyncRead ==
  /\ apiCreating = {} /\ apiCreating' = Missing
  /\ UNCHANGED <<life, record, cases, pass, req, touched>>

ApiSyncWrite ==
  /\ apiCreating # {}
  /\ IF Insertable(apiCreating)
       THEN /\ Insert(apiCreating)
            /\ touched' = [c \in Clients |-> IF c \in apiCreating /\ pc \in AfterPings
                                                THEN touched[c] \cup {"made"} ELSE touched[c]]
       ELSE UNCHANGED <<cases, touched>>            \* IntegrityError: HTTP 500
  /\ apiCreating' = {}
  /\ UNCHANGED <<life, record, pass, req>>

-----------------------------------------------------------------------------
(* The scheduler: collect_client_data, then one pass over the cases. *)

\* New ClientRecords for the clients listed now; "none" is a client whose records
\* aged out.  A failure after the records were committed skips the pass.
Collect(found, completes) ==
  /\ pc = "idle"
  /\ record' = [c \in Clients |-> IF c \in Listed THEN found[c] ELSE record[c]]
  /\ pc' = IF completes THEN "syncRead" ELSE "idle"
  /\ UNCHANGED <<life, cases, attempt, creating, apiCreating, req, touched>>

SyncRead ==
  /\ pc = "syncRead"
  /\ pc' = "syncWrite" /\ creating' = Missing
  /\ UNCHANGED <<life, record, cases, attempt, apiCreating, req, touched>>

SyncCommits ==
  /\ pc = "syncWrite" /\ Insertable(creating)
  /\ Insert(creating)
  /\ pc' = "ping" /\ creating' = {}
  /\ UNCHANGED <<life, record, attempt, apiCreating, req, touched>>

\* IntegrityError is not retried: the pass of this round is over.
SyncConflicts ==
  /\ pc = "syncWrite" /\ ~Insertable(creating)
  /\ pc' = "idle" /\ attempt' = 1 /\ creating' = {}
  /\ UNCHANGED <<life, record, cases, apiCreating, req, touched>>

\* timed: ping_reachable_since is set.
Pinged(k, ping) == [k EXCEPT !.ping = ping, !.timed = (ping = "up")]

UpdatePingStatus ==
  /\ pc = "ping"
  /\ cases' = [c \in Clients |-> IF HasCase(c) /\ record[c] # "none"
                                   THEN Pinged(cases[c], record[c]) ELSE cases[c]]
  /\ pc' = "reopen" /\ touched' = Unmarked
  /\ UNCHANGED <<life, record, attempt, creating, apiCreating, req>>

\* UPDATE cases SET status = new WHERE ...: one statement, atomic.
SetStatus(S, new) ==
  cases' = [c \in Clients |-> IF c \in S THEN [cases[c] EXCEPT !.status = new]
                                          ELSE cases[c]]

\* Mutant: NULL is not False, and the statement forgets it.
ReopensOnlyFalse(k) == k.status = "RESOLVED" /\ k.ping = "down"
Reopens(k) == k.status = "RESOLVED" /\ k.ping # "up"

\* Mutant: a case without an owner is left for somebody to take.
ResolvesOwned(k) == k.ping = "up" /\ k.status \notin Working \cup {"RESOLVED", "UNASSIGNED"}
\* Mutant: a case under discussion is resolved too.
ResolvesDiscussed(k) == k.ping = "up" /\ k.status \notin {"IN_PROGRESS", "IGNORED", "RESOLVED"}
Resolves(k) == k.ping = "up" /\ k.status \notin Working \cup {"RESOLVED"}

AutoReopenUnreachable ==
  /\ pc = "reopen"
  /\ SetStatus({c \in Clients : HasCase(c) /\ Reopens(cases[c])}, "ASSIGNED")
  /\ pc' = "resolve"
  /\ UNCHANGED <<life, record, attempt, creating, apiCreating, req, touched>>

AutoResolveReachable ==
  /\ pc = "resolve"
  /\ SetStatus({c \in Clients : HasCase(c) /\ Resolves(cases[c])}, "RESOLVED")
  /\ pc' = "flags"
  /\ UNCHANGED <<life, record, attempt, creating, apiCreating, req, touched>>

UpdateChangeFlags ==
  /\ pc = "flags"
  /\ pc' = "idle" /\ attempt' = 1 /\ touched' = Unmarked
  /\ UNCHANGED <<life, record, cases, creating, apiCreating, req>>

\* Error 1213 rolls back the open transaction and repeats the whole pass.
Deadlock ==
  /\ pc \in PassStep \ {"idle", "syncRead"}
  /\ IF attempt < MaxTries
       THEN pc' = "syncRead" /\ attempt' = attempt + 1
       ELSE pc' = "idle" /\ attempt' = 1
  /\ creating' = {} /\ touched' = Unmarked
  /\ UNCHANGED <<life, record, cases, apiCreating, req>>

\* Any other exception, a cancelled task or a restart of the process.
PassFails ==
  /\ pc # "idle"
  /\ pc' = "idle" /\ attempt' = 1 /\ creating' = {} /\ touched' = Unmarked
  /\ UNCHANGED <<life, record, cases, apiCreating, req>>

-----------------------------------------------------------------------------
(* update_case: user u asks for status st and assignee as of the case of c. *)

\* Mutant: the ping check of a manual resolve is gone.
PermittedBlind(u, k, st, as) ==
  /\ st # Keep => k.assignee = u
  /\ as # Keep => IF k.assignee # None
                    THEN k.assignee = u /\ k.status # "RESOLVED"
                    ELSE u \in Managers

Permitted(u, k, st, as) ==
  /\ st # Keep => k.assignee = u
  /\ as # Keep => IF k.assignee # None
                    THEN k.assignee = u /\ k.status # "RESOLVED"
                    ELSE u \in Managers
  /\ st = "RESOLVED" => k.ping = "up"

\* Mutant: taking the owner away leaves the status alone.
NewStatusKept(k, st, as) ==
  LET asked == IF st = Keep THEN k.status ELSE st
  IN  IF as \in Users /\ asked = "UNASSIGNED" THEN "ASSIGNED" ELSE asked

NewStatus(k, st, as) ==
  LET asked == IF st = Keep THEN k.status ELSE st
  IN  CASE as = None -> "UNASSIGNED"
        [] as \in Users /\ asked = "UNASSIGNED" -> "ASSIGNED"
        [] OTHER -> asked

\* The ORM writes only the columns that differ from what the session loaded.
Column(loaded, new) == IF new = loaded THEN Keep ELSE new

UpdateCaseLoads(r, u, c, st, as) ==
  /\ req[r] = IdleRequest
  /\ HasCase(c)
  /\ Permitted(u, cases[c], st, as)
  /\ LET k == cases[c]
         call == [at |-> "loaded", client |-> c,
                  status |-> Column(k.status, NewStatus(k, st, as)),
                  assignee |-> IF as = Keep THEN Keep ELSE Column(k.assignee, as)]
     IN  /\ call.status # Keep \/ call.assignee # Keep
         /\ req' = [req EXCEPT ![r] = call]
  /\ UNCHANGED <<life, record, cases, pass, apiCreating, touched>>

Written(k, call) ==
  [k EXCEPT !.status = IF call.status = Keep THEN @ ELSE call.status,
            !.assignee = IF call.assignee = Keep THEN @ ELSE call.assignee]

\* What an answer leaves that the pass now sees in its next round only.
Marked(call) ==
  {w \in {"closed"} : pc \in {"resolve", "flags"} /\ call.status = "RESOLVED"}
    \cup {w \in {"waits"} : pc = "flags" /\ call.status \in {"UNASSIGNED", "ASSIGNED"}}

\* UPDATE cases ... WHERE id = ?
UpdateCaseCommits(r) ==
  /\ Calls(r) /\ HasCase(req[r].client)
  /\ LET c == req[r].client
     IN  /\ cases' = [cases EXCEPT ![c] = Written(@, req[r])]
         /\ touched' = [touched EXCEPT ![c] = @ \cup Marked(req[r])]
  /\ req' = [req EXCEPT ![r] = IdleRequest]
  /\ UNCHANGED <<life, record, pass, apiCreating>>

\* No such row (StaleDataError).
UpdateCaseFails(r) ==
  /\ req[r] = LostRequest
  /\ req' = [req EXCEPT ![r] = IdleRequest]
  /\ UNCHANGED <<life, record, cases, pass, apiCreating, touched>>

-----------------------------------------------------------------------------
UpdateCase ==
  \/ \E r \in Requests, u \in Users, c \in Clients,
        st \in AskedStatus \cup {Keep}, as \in Users \cup {None, Keep} :
       UpdateCaseLoads(r, u, c, st, as)
  \/ \E r \in Requests : UpdateCaseCommits(r) \/ UpdateCaseFails(r)

ClientListChanges ==
  \/ \E c \in Clients : AddClient(c) \/ RemoveClient(c)
  \/ \E S \in SUBSET Clients :
       \/ BatchDelete(S)
       \/ \E replace \in BOOLEAN : ImportCsv(S, replace)
       \/ GnmsImport(S)
  \/ ClearAll

Pass ==
  \/ SyncRead \/ SyncCommits \/ SyncConflicts
  \/ UpdatePingStatus \/ AutoReopenUnreachable \/ AutoResolveReachable
  \/ UpdateChangeFlags \/ Deadlock \/ PassFails

Next ==
  \/ ClientListChanges
  \/ ApiSyncRead \/ ApiSyncWrite
  \/ \E found \in [Clients -> Ping \cup {"none"}], completes \in BOOLEAN :
       Collect(found, completes)
  \/ Pass
  \/ UpdateCase

Spec == Init /\ [][Next]_vars

\* The collection loop never stops running rounds, and no step fails every time it is
\* tried.  Users and the endpoint owe nothing.
Fairness ==
  /\ WF_vars(SyncConflicts)
  /\ SF_vars(\E found \in [Clients -> Ping \cup {"none"}] : Collect(found, TRUE))
  /\ SF_vars(SyncRead) /\ SF_vars(SyncCommits)
  /\ SF_vars(UpdatePingStatus) /\ SF_vars(AutoReopenUnreachable)
  /\ SF_vars(AutoResolveReachable) /\ SF_vars(UpdateChangeFlags)

FairSpec == Spec /\ Fairness

-----------------------------------------------------------------------------
(* Properties. *)

\* When the pass has reopened and resolved, each case agrees with its client, whoever else
\* wrote meanwhile: it carries the ping of the newest record, unless the endpoint made it
\* after the pings were updated; it is resolved while unreachable only if a user's answer
\* closed it after the statement that reopens; it waits for someone while reachable only if
\* an answer left it so after the statement that resolves (_run_client_collection).  A
\* commit between the reads and writes of the pass changes nothing else.  That a reachable
\* case is resolved by the next pass, not after ten minutes, is auto_resolve_reachable's own
\* docstring; models.py says otherwise (see CaseAges).
PingCarried(c) == record[c] # "none" => cases[c].ping = record[c] \/ "made" \in touched[c]
ClosedByUser(c) == cases[c].status = "RESOLVED" => cases[c].ping = "up" \/ "closed" \in touched[c]
LeftWaiting(c) ==
  cases[c].status \in {"UNASSIGNED", "ASSIGNED"} => cases[c].ping # "up" \/ "waits" \in touched[c]

PassSettles ==
  pc = "flags" => \A c \in Clients : HasCase(c) => PingCarried(c) /\ ClosedByUser(c) /\ LeftWaiting(c)

\* Why it does: what each finished statement of the pass leaves true is still true when the
\* last one is done.
PassProgress ==
  \A c \in Clients : HasCase(c) =>
    /\ pc \in {"reopen", "resolve", "flags"} => PingCarried(c)
    /\ pc \in {"resolve", "flags"} => ClosedByUser(c)
    /\ pc = "flags" => LeftWaiting(c)

PassInv == TypeOK /\ PassProgress

Commits(r, c) == Calls(r) /\ req[r].client = c /\ req'[r] = IdleRequest

\* A case in progress, under discussion or ignored leaves that state only by a user's
\* update_case: neither pings, syncs nor retried passes take it from its owner.
WorkKept(c) ==
  HasCase(c) /\ HasCase(c)' /\ cases[c].status \in Working /\ cases'[c].status # cases[c].status
    => \E r \in Requests : Commits(r, c)

WorkUndisturbed == [][\A c \in Clients : WorkKept(c)]_vars

\* Creating the missing cases never replaces a case that exists: what a user wrote
\* survives two syncs that both saw the case missing.
OwnerKept(c) ==
  HasCase(c) /\ HasCase(c)' /\ cases'[c].assignee # cases[c].assignee
    => \E r \in Requests : Commits(r, c)

CaseNeverRecreated == [][\A c \in Clients : OwnerKept(c)]_vars

\* A sync that read the list before a client was removed leaves no case behind.
NoOrphanCase == \A c \in Clients : HasCase(c) => life[c] = "listed"

OwnedIfWorked(k) == k.status \in Working => k.assignee # None

\* While users' calls do not overlap (one slot), a case that is worked on has an owner,
\* whatever the pass does between a call's read and its write.
WorkHasOwner ==
  Cardinality(Requests) = 1 =>
    \A c \in Clients : HasCase(c) => OwnedIfWorked(cases[c])

\* Why it does: a call in flight has its row, and what it is about to write leaves a case
\* that is worked on an owner, too.
OwnerInv ==
  /\ \A r \in Requests : Calls(r) => HasCase(req[r].client)
  /\ Cardinality(Requests) = 1 =>
       /\ \A c \in Clients : HasCase(c) => OwnedIfWorked(cases[c])
       /\ \A r \in Requests :
            Calls(r) => OwnedIfWorked(Written(cases[req[r].client], req[r]))

\* Every client on the list gets its case, although failed passes, conflicting syncs and
\* removals of clients with the same MAC undo one another's work.
ListedClientGetsCase ==
  \A c \in Clients : life[c] = "listed" ~> (HasCase(c) \/ life[c] = "gone")

\* A client that stays unreachable ends up, for good, with a case that is not resolved,
\* although a user's stale answer may still resolve it once.
UnreachableStaysOpen ==
  \A c \in Clients :
    <>[](record[c] = "down") => <>[](HasCase(c) => cases[c].status # "RESOLVED")

\* A client that stays reachable does not keep its case waiting for an owner.
ReachableIsTaken ==
  \A c \in Clients :
    <>[](record[c] = "up")
      => []<>(HasCase(c) => cases[c].status \notin {"UNASSIGNED", "ASSIGNED"})

Nothing == [state |-> "none"]

\* The states of a case that people tell apart, as CaseDesk names them.
Kind(status) ==
  CASE status \in Working    -> "working"
    [] status = "RESOLVED"   -> "closed"
    [] OTHER                 -> "waiting"

DeskCase(k) ==
  IF k = NoCase THEN Nothing
  ELSE [state |-> Kind(k.status), owner |-> k.assignee, ping |-> k.ping]

DeskCall(q) ==
  IF q.at # "loaded" THEN Nothing
  ELSE [client |-> q.client, state |-> IF q.status = Keep THEN Keep ELSE Kind(q.status),
        owner |-> q.assignee]

CasesShown == [c \in Clients |-> DeskCase(cases[c])]
CallsShown == [r \in Requests |-> DeskCall(req[r])]

Desk == INSTANCE CaseDesk WITH desk <- CasesShown, calls <- CallsShown

\* Passes, syncs, list edits and overlapping calls together are no more than CaseDesk says:
\* a call that was allowed when it read its case and lands later, two sweeps, and cases
\* that appear once and vanish with their calls (sync_cases, update_case and the pass).
ShowsDesk == Desk!DeskSpec

\* Claimed by the code, and refuted (see README): a case disappears only with its own client.
CaseGoesWithItsClient ==
  [][\A c \in Clients : HasCase(c) /\ ~HasCase(c)' => life'[c] = "gone"]_vars
=============================================================================
