------------------------------ MODULE CaseAges ------------------------------
(***************************************************************************)
(* CaseLifecycle with the value of ping_reachable_since, which it leaves   *)
(* out: update_ping_status keeps it while a client stays reachable.        *)
(* Abstracted: the time stamp, to whether ten minutes have passed since.   *)
(***************************************************************************)
EXTENDS CaseLifecycle

VARIABLE since   \* of a client's case: NULL, less than ten minutes ago, or longer

Age == {"null", "recent", "old"}

AgedInit == Init /\ since = [c \in Clients |-> "null"]

\* The column of c after a step of the cases: gone with the row, cleared with `timed`, kept
\* while the client stays reachable, the current time otherwise.
NewSince(c) ==
  IF ~HasCase(c)' \/ ~cases'[c].timed THEN "null"
  ELSE IF HasCase(c) /\ cases[c].timed THEN since[c] ELSE "recent"

TenMinutesPass(c) ==
  /\ since[c] = "recent"
  /\ since' = [since EXCEPT ![c] = "old"]
  /\ UNCHANGED vars

AgedNext ==
  \/ Next /\ since' = [c \in Clients |-> NewSince(c)]
  \/ \E c \in Clients : TenMinutesPass(c)

AgedSpec == AgedInit /\ [][AgedNext]_<<vars, since>>

\* Claimed by models.py, by the migration that adds the column and by a test, and refuted
\* (see README): the pass resolves a case only when its client has been reachable for ten
\* minutes.  No statement reads ping_reachable_since but the one that writes it.
ResolvedWhenStable ==
  [][AutoResolveReachable =>
       \A c \in Clients :
         HasCase(c) /\ cases'[c].status # cases[c].status => since[c] = "old"]_vars
=============================================================================
