------------------------------ MODULE CaseDesk ------------------------------
(***************************************************************************)
(* What the table of cases promises to the people at the desk.  A case     *)
(* waits for somebody, is worked on or is closed.  It is opened waiting    *)
(* for the default owner, and vanishes with the calls about it.  Two       *)
(* sweeps move cases by themselves: closed ones that do not answer go back *)
(* to waiting, waiting ones that answer are closed.  Everything else is a  *)
(* call: asked for a case in a state that allows it, and written later,    *)
(* whatever the case has become by then.                                   *)
(***************************************************************************)
CONSTANTS
  Clients, Users,
  None,             \* no owner
  Keep,             \* a field that a call leaves alone
  DefaultAssignee,  \* who owns a new case of each client
  Requests          \* the calls that may be open at a time

VARIABLES desk, calls

States == {"waiting", "working", "closed"}
Nothing == [state |-> "none"]   \* no case, or no call
Call == [client : Clients, state : States \cup {Keep}, owner : Users \cup {None, Keep}]

DeskInit ==
  /\ desk = [c \in Clients |-> Nothing]
  /\ calls = [r \in Requests |-> Nothing]

Opens(S) ==
  /\ \A c \in S : desk[c] = Nothing
  /\ desk' = [c \in Clients |->
                IF c \in S
                  THEN [state |-> "waiting", owner |-> DefaultAssignee[c], ping |-> "unknown"]
                  ELSE desk[c]]
  /\ UNCHANGED calls

Vanishes(S) ==
  /\ desk' = [c \in Clients |-> IF c \in S THEN Nothing ELSE desk[c]]
  /\ calls' = [r \in Requests |->
                 IF calls[r] # Nothing /\ calls[r].client \in S THEN Nothing ELSE calls[r]]

HearsPings(pings) ==
  /\ desk' = [c \in Clients |->
                IF desk[c] = Nothing THEN Nothing
                ELSE [state |-> desk[c].state, owner |-> desk[c].owner, ping |-> pings[c]]]
  /\ UNCHANGED calls

MovesAll(S, state) ==
  /\ desk' = [c \in Clients |->
                IF c \in S THEN [state |-> state, owner |-> desk[c].owner, ping |-> desk[c].ping]
                ELSE desk[c]]
  /\ UNCHANGED calls

Shown == {c \in Clients : desk[c] # Nothing}

ReopensUnreachable == MovesAll({c \in Shown : desk[c].state = "closed" /\ desk[c].ping # "up"}, "waiting")
ClosesReachable    == MovesAll({c \in Shown : desk[c].state = "waiting" /\ desk[c].ping = "up"}, "closed")

\* A closed case is for a device that answers; nobody works on or closes a case without an
\* owner, or hands over a closed one; who gives a case away leaves it waiting.
Allowed(k, call) ==
  /\ call.state = "closed" => k.ping = "up"
  /\ call.state \in {"working", "closed"} => k.owner # None
  /\ call.owner # Keep => k.owner = None \/ k.state # "closed"
  /\ call.owner = None => call.state = "waiting" \/ (call.state = Keep /\ k.state = "waiting")

Asks(r, call) ==
  /\ calls[r] = Nothing
  /\ desk[call.client] # Nothing /\ Allowed(desk[call.client], call)
  /\ calls' = [calls EXCEPT ![r] = call]
  /\ UNCHANGED desk

After(k, call) ==
  [state |-> IF call.state = Keep THEN k.state ELSE call.state,
   owner |-> IF call.owner = Keep THEN k.owner ELSE call.owner,
   ping  |-> k.ping]

Lands(r) ==
  /\ calls[r] # Nothing /\ desk[calls[r].client] # Nothing
  /\ desk' = [desk EXCEPT ![calls[r].client] = After(@, calls[r])]
  /\ calls' = [calls EXCEPT ![r] = Nothing]

DeskNext ==
  \/ \E S \in SUBSET Clients : Opens(S) \/ Vanishes(S)
  \/ \E pings \in [Clients -> {"up", "down", "unknown"}] : HearsPings(pings)
  \/ ReopensUnreachable \/ ClosesReachable
  \/ \E r \in Requests : Lands(r) \/ \E call \in Call : Asks(r, call)

DeskSpec == DeskInit /\ [][DeskNext]_<<desk, calls>>
=============================================================================
