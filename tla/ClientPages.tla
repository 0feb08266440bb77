----------------------------- MODULE ClientPages -----------------------------
(***************************************************************************)
(* The client list as users read it: in pages, as a file, and as figures.  *)
(* Each is a query of its own over the list, the members of the categories *)
(* and the answers of the last pings, and no query sees another's result.  *)
(*                                                                         *)
(* A page is cut from the rows of the list joined with the answers to      *)
(* their addresses, so that an address answered in two tenants makes two   *)
(* rows, and in the order of the answers and MACs; rows that tie in both   *)
(* come in any order, each time the list is read.  A member of a category  *)
(* may be a MAC without a client (NULL), which makes NOT IN true of none.  *)
(***************************************************************************)
EXTENDS Naturals, FiniteSets

CONSTANTS
  ListedIds, ListMacs, ListIps, ListTenants,  \* MACs are numbers, in their order
  Groups,    \* client categories
  PageLength,
  NoClient   \* NULL

ASSUME PageAssumption ==
  /\ ListMacs \subseteq Nat /\ PageLength \in Nat \ {0} /\ NoClient \notin ListedIds
  /\ IsFiniteSet(ListedIds) /\ IsFiniteSet(ListTenants)
  /\ {"all", "uncategorized"} \cap Groups = {}

VARIABLES
  listEntry, \* maintenance_mac_list: the rows, by their id
  inForce,   \* the categories with is_active
  joined,    \* client_category_members
  replied    \* the latest gnms_ping batch of each tenant

pageVars == <<listEntry, inForce, joined, replied>>

Detections == {"not_checked", "detected", "not_detected"}
Entry == [mac : ListMacs, ip : ListIps, tenant : ListTenants, status : Detections]
Joining == [group : Groups, client : ListedIds \cup {NoClient}, mac : ListMacs]

Enrolled == DOMAIN listEntry

PagesTypeOK ==
  /\ Enrolled \subseteq ListedIds /\ listEntry \in [Enrolled -> Entry]
  /\ inForce \subseteq Groups
  /\ joined \subseteq Joining
  /\ replied \in [ListTenants -> [ListIps -> {"none", "no", "yes"}]]

Unpinged == \A t \in ListTenants, i \in ListIps : replied[t][i] = "none"

\* No request of today sets is_active: the categories in force are rows of earlier versions.
PagesInit ==
  /\ listEntry = <<>> /\ joined = {}
  /\ inForce \in SUBSET Groups
  /\ replied = [t \in ListTenants |-> [i \in ListIps |-> "none"]]

-----------------------------------------------------------------------------
(* What changes the list, the members and the answers. *)

PutEntry(c, row) == listEntry' = [d \in Enrolled \cup {c} |-> IF d = c THEN row ELSE listEntry[d]]

\* A file imports a row without categories.
EnterClient(c, m, i, t, gs) ==
  /\ c \notin Enrolled /\ gs \subseteq inForce
  /\ PutEntry(c, [mac |-> m, ip |-> i, tenant |-> t, status |-> "not_checked"])
  /\ joined' = joined \cup {[group |-> g, client |-> c, mac |-> m] : g \in gs}
  /\ UNCHANGED <<inForce, replied>>

EditClient(c, m, i, t) ==
  /\ c \in Enrolled
  /\ PutEntry(c, [listEntry[c] EXCEPT !.mac = m, !.ip = i, !.tenant = t])
  /\ UNCHANGED <<inForce, joined, replied>>

RemoveEntries(cs) ==
  /\ cs # {} /\ cs \subseteq Enrolled
  /\ listEntry' = [d \in Enrolled \ cs |-> listEntry[d]]
  /\ joined' = {j \in joined : j.client \notin cs}
  /\ UNCHANGED <<inForce, replied>>

Joinings(g, m) == {j \in joined : j.group = g /\ j.mac = m}

\* Categories that are deleted take members as well.
JoinGroup(g, m) ==
  /\ Joinings(g, m) = {}
  /\ joined' = joined \cup {[group |-> g, client |-> NoClient, mac |-> m]}
  /\ UNCHANGED <<listEntry, inForce, replied>>

LeaveGroup(g, m) ==
  /\ Cardinality(Joinings(g, m)) = 1
  /\ joined' = joined \ Joinings(g, m)
  /\ UNCHANGED <<listEntry, inForce, replied>>

GroupGoes(g) ==
  /\ inForce' = inForce \ {g}
  /\ UNCHANGED <<listEntry, joined, replied>>

\* The addresses of a tenant's clients; those of failed chunks have no answer, and an
\* address that is not asked any more keeps its row.
PingTenant(t, got) ==
  /\ DOMAIN got # {}
  /\ DOMAIN got \subseteq {listEntry[c].ip : c \in {d \in Enrolled : listEntry[d].tenant = t}}
  /\ replied' = [replied EXCEPT ![t] =
       [i \in ListIps |-> IF i \in DOMAIN got THEN got[i] ELSE @[i]]]
  /\ UNCHANGED <<listEntry, inForce, joined>>

RepliesOf(i) == {replied[t][i] : t \in ListTenants} \ {"none"}

\* One answer of each address decides, whichever tenant's is read last.
DetectClients(onSwitch) ==
  /\ \E heard \in [ListIps -> {"none", "no", "yes"}] :
       /\ \A i \in ListIps :
            heard[i] \in IF RepliesOf(i) = {} THEN {"none"} ELSE RepliesOf(i)
       /\ listEntry' = [c \in Enrolled |-> [listEntry[c] EXCEPT !.status =
            IF listEntry[c].mac \in onSwitch /\ heard[listEntry[c].ip] = "yes"
            THEN "detected" ELSE "not_detected"]]
  /\ UNCHANGED <<inForce, joined, replied>>

PagesNext ==
  \/ \E c \in ListedIds, m \in ListMacs, i \in ListIps, t \in ListTenants :
       \/ \E gs \in SUBSET Groups : EnterClient(c, m, i, t, gs)
       \/ EditClient(c, m, i, t)
  \/ \E cs \in SUBSET ListedIds : RemoveEntries(cs)
  \/ \E g \in Groups : GroupGoes(g) \/ \E m \in ListMacs : JoinGroup(g, m) \/ LeaveGroup(g, m)
  \/ \E t \in ListTenants, is \in SUBSET ListIps :
       \E got \in [is -> {"no", "yes"}] : PingTenant(t, got)
  \/ \E onSwitch \in SUBSET ListMacs : DetectClients(onSwitch)

PagesSpec == PagesInit /\ [][PagesNext]_pageVars

-----------------------------------------------------------------------------
(* Selections: by detection, and by category ("uncategorized", or its id). *)

Selections == [status : Detections \cup {"all"}, group : Groups \cup {"all", "uncategorized"}]

Detected(st) == {c \in Enrolled : st \in {"all", listEntry[c].status}}
MembersOf(gs) == {j.client : j \in {k \in joined : k.group \in gs}}

\* x NOT IN ids: unknown when one of them is NULL and x is none of the others.
NotIn(ids) == IF NoClient \in ids THEN {} ELSE Enrolled \ ids

\* Mutant: members of categories that are deleted are not uncategorized.
GroupedEver == MembersOf(Groups)
Grouped == MembersOf(inForce)

\* list_clients_detailed; without categories in force nothing is left out.
Selected(sel) ==
  Detected(sel.status) \cap
    CASE sel.group = "all" -> Enrolled
      [] sel.group = "uncategorized" -> IF inForce = {} THEN Enrolled ELSE NotIn(Grouped)
      [] OTHER -> MembersOf({sel.group})

\* export_csv
ExportSelected(sel) ==
  LET ofGroup == IF sel.group \in Groups THEN MembersOf({sel.group}) ELSE Enrolled
      left == IF sel.group = "uncategorized" /\ inForce # {}
              THEN NotIn(MembersOf(inForce)) ELSE Enrolled
  IN  {c \in ofGroup \cap left : sel.status = "all" \/ listEntry[c].status = sel.status}

-----------------------------------------------------------------------------
(* Rows and pages. *)

\* The outer join of clients with the answers to their addresses.
JoinedRows(cs) ==
  LET rows == [client : cs, tenant : ListTenants, reply : {"no", "yes"}]
      answered == {r \in rows : replied[r.tenant][listEntry[r.client].ip] = r.reply}
  IN  answered \cup {[client |-> c, tenant |-> "none", reply |-> "none"] :
                      c \in {d \in cs : RepliesOf(listEntry[d].ip) = {}}}

ReplyRank(r) == CASE r.reply = "none" -> 0 [] r.reply = "no" -> 1 [] OTHER -> 2
MacAt(r) == listEntry[r.client].mac
AheadOf(r, s) ==
  \/ ReplyRank(r) < ReplyRank(s)
  \/ ReplyRank(r) = ReplyRank(s) /\ MacAt(r) < MacAt(s)

\* The places a row may have among the rows: those it ties with come in any order.
Places(r, rs) ==
  LET before == Cardinality({s \in rs : AheadOf(s, r)})
      after == Cardinality({s \in rs : AheadOf(r, s)})
  IN  (before + 1)..(Cardinality(rs) - after)

\* The pages, from 0, that may have a client of a list.
PagesAmong(c, cs) ==
  LET rows == JoinedRows(cs)
  IN  {(k - 1) \div PageLength : k \in UNION {Places(r, rows) : r \in {s \in rows : s.client = c}}}

PagesOf(sel, c) == PagesAmong(c, Selected(sel))  \* list_clients_detailed
ListedOn(c) == PagesAmong(c, Enrolled)           \* list_clients

\* A page takes the answers of its addresses by address and shows them by MAC: among clients
\* ds of one page, those with the MAC of c overwrite each other.
ShownReplies(c, ds) ==
  LET same == {d \in ds : listEntry[d].mac = listEntry[c].mac}
      said == UNION {RepliesOf(listEntry[d].ip) : d \in same}
  IN  IF said = {} THEN {"none"} ELSE said

\* The file has each row's own answer.
ExportedReplies(c) == {r.reply : r \in JoinedRows({c})}

\* The categories shown with a client of a page.
CategoriesShown(c) == {g \in inForce : c \in MembersOf({g})}

-----------------------------------------------------------------------------
(* Figures. *)

\* get_stats
Uncategorized == Cardinality(Enrolled) - Cardinality(MembersOf(inForce) \cap Enrolled)

\* list_categories: members with and without a client.
MemberCount(g) == Cardinality({j \in joined : j.group = g})

-----------------------------------------------------------------------------
(* Properties. *)

\* Clients that have their MAC to themselves, and whose address answers in one tenant only.
PlainClients == {c \in Enrolled :
  /\ \A d \in Enrolled \ {c} : listEntry[d].mac # listEntry[c].mac
  /\ Cardinality({t \in ListTenants : replied[t][listEntry[c].ip] # "none"}) < 2}

\* The pages of a selection, its file and the figures agree.  The file has the clients of the
\* pages; a plain client is on one page of each selection it belongs to, with the answer it
\* has in the file, however ties are broken.  As many clients are shown as uncategorized,
\* and in a category, as the figures say, unless a member has no client.
PagesAgree ==
  /\ Enrolled # {} => \A sel \in Selections :
       /\ ExportSelected(sel) = Selected(sel)
       /\ \A c \in PlainClients \cap Selected(sel) : Cardinality(PagesOf(sel, c)) = 1
  /\ \A c \in PlainClients :
       /\ Cardinality(ListedOn(c)) = 1
       /\ ShownReplies(c, Enrolled) = ExportedReplies(c)
  /\ NoClient \notin MembersOf(inForce) =>
       Cardinality(Selected([status |-> "all", group |-> "uncategorized"])) = Uncategorized
  /\ \A g \in inForce :
       NoClient \notin MembersOf({g}) =>
         /\ Cardinality(Selected([status |-> "all", group |-> g])) = MemberCount(g)
         /\ Selected([status |-> "all", group |-> g]) = {c \in Enrolled : g \in CategoriesShown(c)}
=============================================================================
