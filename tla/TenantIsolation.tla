--------------------------- MODULE TenantIsolation ---------------------------
(***************************************************************************)
(* Credentials made for one test class (class IsolatedCreds of             *)
(* automation/common/isolated_creds.py): for every set a project, a user   *)
(* with roles and, when asked for, a network, a subnet and a router are    *)
(* created as administrator, and clear_isolated_creds deletes them when    *)
(* the class ends.  Any call to the cloud may fail.                        *)
(*                                                                         *)
(* External, as the code uses it: identity and network keep what was       *)
(* created until it is deleted; a router with an interface cannot be       *)
(* deleted (the code removes the interface first); a project with a router *)
(* has an "HA network tenant", a project with a network a default security *)
(* group; a host is in one availability zone.  A process sets up one class *)
(* and nothing else deletes its resources; names, passwords and addresses  *)
(* are left out.                                                           *)
(***************************************************************************)
EXTENDS Naturals, Sequences, FiniteSets
LOCAL INSTANCE Functions

CONSTANTS
  IsoProcs,      \* test processes
  IsoClasses,    \* [IsoProcs -> set of [list, settings]]: the classes each may get,
                 \* with their `credentials' and `network_resources'
  MaxFailed      \* bound: failing calls, over all processes

Items == {"project", "user", "network", "subnet", "router", "interface", "ha", "secgroup"}

VARIABLES
  cloud,      \* external: <<tenant, item>>; a tenant is <<process, number>>
  zones,      \* external: availability zones, named by the process that made them
  hostZone,   \* external: the zone all hosts are in, "default" or a process
  zoneOf,     \* external: [tenant -> zone], by az-tenant-bind
  iso,        \* isolated_creds of each process: set of [key, tenant, net]
  ipc,        \* where setUpClass, get_credentials and tearDownClass are
  itodo,      \* requests left
  settings,   \* network_resources of the class
  made,       \* number of tenants the process has begun
  seenZones,  \* current_existing_az of _create_creds
  clearing,   \* entries the current loop of clear_isolated_creds has not reached
  nfailed,    \* history: calls of this process that failed
  lost,       \* history: a network call failed that had done its work
  vanished,   \* history: an HA network was gone between list and delete
  raced       \* history: a zone was made by a process that had seen none, after another

isoVars == <<cloud, zones, hostZone, zoneOf, iso, ipc, itodo, settings, made, seenZones,
             clearing, nfailed, lost, vanished, raced>>

worldVars   == <<cloud, zones, hostZone, zoneOf>>
historyVars == <<nfailed, lost, vanished, raced>>

AllFailed  == FoldFunction(+, 0, nfailed)
CanFail(n) == AllFailed + n <= MaxFailed
Fails(p)   == nfailed' = [nfailed EXCEPT ![p] = @ + 1]

Tenant(p)    == <<p, made[p]>>
Of(t, items) == {t} \X items

(***************************************************************************)
(* The resources _create_network_resources goes for, and the combinations  *)
(* it refuses.  Without network_resources it makes all of them.            *)
(***************************************************************************)
Wanted(s) == {k \in {"network", "subnet", "router"} : s.given => k \in s.kinds}
Invalid(s) ==
  /\ s.given
  /\ \/ "router" \in s.kinds /\ ~({"subnet", "network"} \subseteq s.kinds)
     \/ "router" \notin s.kinds /\ "subnet" \in s.kinds /\ "network" \notin s.kinds
     \/ s.kinds \cap {"router", "subnet"} = {} /\ "dhcp" \in s.kinds

Rank == [network |-> 1, subnet |-> 2, router |-> 3, interface |-> 4]
UpTo(kinds, n) == {k \in kinds : Rank[k] <= n}

(***************************************************************************)
(* What stays of a network when making `at' fails: the call had its effect *)
(* (late), or the clean-up fails as well, at `stuck'.                      *)
(***************************************************************************)
Stays(before, at, late, stuck) ==
  IF at = "interface" /\ late THEN before \cup {at}
  ELSE IF late THEN {at}
  ELSE IF stuck = "none" THEN {} ELSE UpTo(before, Rank[stuck])

(***************************************************************************)
(* What _clear_isolated_net_resources deletes of the network of a set.     *)
(***************************************************************************)
Cleared(s, net) ==
  IF net = {} THEN {}
  ELSE (IF ~s.given \/ ("router" \in s.kinds /\ "subnet" \in net)
        THEN {"interface", "router"} ELSE {})
       \cup (Wanted(s) \cap {"subnet", "network"})

IsoInit ==
  /\ cloud = {} /\ zones = <<>> /\ hostZone = "default" /\ zoneOf = [t \in {} |-> "default"]
  /\ iso = [p \in IsoProcs |-> {}]
  /\ ipc = [p \in IsoProcs |-> "new"]
  /\ itodo = [p \in IsoProcs |-> <<>>]
  /\ settings = [p \in IsoProcs |-> [given |-> FALSE, kinds |-> {}]]
  /\ made = [p \in IsoProcs |-> 0]
  /\ seenZones = [p \in IsoProcs |-> <<>>]
  /\ clearing = [p \in IsoProcs |-> {}]
  /\ nfailed = [p \in IsoProcs |-> 0]
  /\ lost = [p \in IsoProcs |-> FALSE]
  /\ vanished = [p \in IsoProcs |-> FALSE]
  /\ raced = FALSE

Goto(p, from, to) == ipc[p] = from /\ ipc' = [ipc EXCEPT ![p] = to]

IsoSetUpClass(p) ==
  /\ Goto(p, "new", "setup")
  /\ \E class \in IsoClasses[p] : /\ itodo' = [itodo EXCEPT ![p] = class.list]
                                  /\ settings' = [settings EXCEPT ![p] = class.settings]
  /\ UNCHANGED <<worldVars, iso, made, seenZones, clearing, historyVars>>

(***************************************************************************)
(* clear_isolated_creds begins; with an empty dictionary it returns.       *)
(***************************************************************************)
StartClearing(p, from, dict) ==
  /\ Goto(p, from, IF dict = {} THEN "ended" ELSE "clear_net")
  /\ clearing' = [clearing EXCEPT ![p] = dict]

IsoKey(r, n) == [type |-> r.type, roles |-> r.roles, n |-> n]
IsoHas(p, r) == {e \in iso[p] : e.key = IsoKey(r, 0)}

(***************************************************************************)
(* get_creds_by_roles with force_new gives the old entry another key; the  *)
(* old key is deleted.                                                     *)
(***************************************************************************)
IsoMoved(p, r) ==
  {e \in iso[p] : e.key # IsoKey(r, 0)} \cup
  {[e EXCEPT !.key = IsoKey(r, Cardinality(iso[p]))] : e \in IsoHas(p, r)}

get_credentials(p) ==
  /\ itodo[p] # <<>>
  /\ LET r == Head(itodo[p])
     IN IF ~r.force /\ IsoHas(p, r) # {}
        THEN /\ Goto(p, "setup", "setup")
             /\ itodo' = [itodo EXCEPT ![p] = Tail(@)]
             /\ UNCHANGED <<iso, made>>
        ELSE /\ Goto(p, "setup", "project")
             /\ iso' = [iso EXCEPT ![p] = IF r.force THEN IsoMoved(p, r) ELSE @]
             /\ made' = [made EXCEPT ![p] = @ + 1]
             /\ UNCHANGED itodo
  /\ UNCHANGED <<worldVars, settings, seenZones, clearing, historyVars>>

(***************************************************************************)
(* _create_creds, up to the list of zones.  A failure leaves by the        *)
(* exception of setUpClass; the dictionary knows nothing of this tenant.   *)
(***************************************************************************)
create_project(p) ==
  /\ \/ /\ Goto(p, "project", "zone")
        /\ cloud' = cloud \cup Of(Tenant(p), {"project"})
        /\ seenZones' = [seenZones EXCEPT ![p] = zones]
        /\ UNCHANGED <<clearing, nfailed>>
     \/ /\ CanFail(1) /\ Fails(p)
        /\ \E done \in {{}, {"project"}} : cloud' = cloud \cup Of(Tenant(p), done)
        /\ StartClearing(p, "project", iso[p])
        /\ UNCHANGED seenZones
  /\ UNCHANGED <<zones, hostZone, zoneOf, iso, itodo, settings, made, lost, vanished, raced>>

\* bound to the new zone: the hosts of the default zone
add_hosts_none(p) == hostZone
add_hosts(p) == IF hostZone = "default" THEN p ELSE hostZone

\* az-tenant-bind
bind(t, zone) == [u \in DOMAIN zoneOf \cup {t} |-> IF u = t THEN zone ELSE zoneOf[u]]

(***************************************************************************)
(* The first zone of the list is taken; when there was none, one is made   *)
(* and all hosts of the default zone are bound to it.                      *)
(***************************************************************************)
associate_az_tenant(p) ==
  /\ \/ /\ Goto(p, "zone", "user")
        /\ IF seenZones[p] # <<>>
           THEN /\ zoneOf' = bind(Tenant(p), Head(seenZones[p]))
                /\ UNCHANGED <<zones, hostZone, raced>>
           ELSE /\ zones' = Append(zones, p)
                /\ hostZone' = add_hosts(p)
                /\ zoneOf' = bind(Tenant(p), p)
                /\ raced' = (raced \/ zones # <<>>)
        /\ UNCHANGED <<clearing, nfailed>>
     \/ /\ CanFail(1) /\ Fails(p)
        /\ StartClearing(p, "zone", iso[p])
        /\ UNCHANGED <<zones, hostZone, zoneOf, raced>>
  /\ UNCHANGED <<cloud, iso, itodo, settings, made, seenZones, lost, vanished>>

(***************************************************************************)
(* The user and its roles; then the set enters the dictionary.             *)
(***************************************************************************)
create_user(p) ==
  /\ \/ /\ Goto(p, "user", "network")
        /\ cloud' = cloud \cup Of(Tenant(p), {"user"})
        /\ iso' = [iso EXCEPT ![p] = @ \cup {[key |-> IsoKey(Head(itodo[p]), 0),
                                              tenant |-> Tenant(p), net |-> {}]}]
        /\ UNCHANGED <<clearing, nfailed>>
     \/ /\ CanFail(1) /\ Fails(p)
        /\ \E done \in {{}, {"user"}} : cloud' = cloud \cup Of(Tenant(p), done)
        /\ StartClearing(p, "user", iso[p])
        /\ UNCHANGED iso
  /\ UNCHANGED <<zones, hostZone, zoneOf, itodo, settings, made, seenZones,
                 lost, vanished, raced>>

(***************************************************************************)
(* Router, subnet and network are deleted in this order; the clean-up may  *)
(* fail as well, and then leaves what it has not reached.                  *)
(***************************************************************************)
Implied(kinds) == (IF "router" \in kinds THEN {"ha"} ELSE {})
                  \cup (IF "network" \in kinds THEN {"secgroup"} ELSE {})

_create_network_resources(p) ==
  LET want  == Wanted(settings[p])
      calls == want \cup (IF "router" \in want THEN {"interface"} ELSE {})
  IN /\ \/ /\ ~Invalid(settings[p])
           /\ Goto(p, "network", "setup")
           /\ cloud' = cloud \cup Of(Tenant(p), calls \cup Implied(want))
           /\ iso' = [iso EXCEPT ![p] =
                {IF e.tenant = Tenant(p) THEN [e EXCEPT !.net = want] ELSE e : e \in @}]
           /\ itodo' = [itodo EXCEPT ![p] = Tail(@)]
           /\ UNCHANGED <<clearing, nfailed, lost>>
        \/ /\ Invalid(settings[p])
           /\ StartClearing(p, "network", iso[p])
           /\ UNCHANGED <<cloud, iso, itodo, nfailed, lost>>
        \/ /\ ~Invalid(settings[p]) /\ CanFail(1)
           /\ \E at \in calls, late \in BOOLEAN, stuck \in want \cup {"none"} :
                LET before == {k \in want : Rank[k] < Rank[at]}
                    left   == Stays(before, at, late, stuck)
                IN /\ late => at # "subnet" /\ stuck = "none"
                   /\ stuck # "none" => stuck \in before /\ CanFail(2)
                   /\ cloud' = cloud \cup Of(Tenant(p), left \cup Implied(before))
                   /\ nfailed' = [nfailed EXCEPT ![p] = @ + (IF stuck = "none" THEN 1 ELSE 2)]
                   /\ lost' = [lost EXCEPT ![p] = @ \/ late]
           /\ StartClearing(p, "network", iso[p])
           /\ UNCHANGED <<iso, itodo>>
     /\ UNCHANGED <<zones, hostZone, zoneOf, settings, made, seenZones, vanished, raced>>

(***************************************************************************)
(* All sets are there; the tests run; tearDownClass.                       *)
(***************************************************************************)
IsoTearDownClass(p) ==
  /\ itodo[p] = <<>>
  /\ StartClearing(p, "setup", iso[p])
  /\ UNCHANGED <<worldVars, iso, itodo, settings, made, seenZones, historyVars>>

(***************************************************************************)
(* _clear_isolated_net_resources for one set: interface, router, subnet,   *)
(* network.  A failing call ends clear_isolated_creds with an exception.   *)
(***************************************************************************)
_clear_isolated_net_resources(p) ==
  /\ ipc[p] = "clear_net"
  /\ \E e \in clearing[p] :
       LET gone  == Cleared(settings[p], e.net)
           rest  == clearing[p] \ {e}
       IN \/ /\ cloud' = cloud \ Of(e.tenant, gone)
             /\ clearing' = [clearing EXCEPT ![p] = IF rest = {} THEN iso[p] ELSE rest]
             /\ ipc' = [ipc EXCEPT ![p] = IF rest = {} THEN "clear_tenant" ELSE @]
             /\ UNCHANGED nfailed
          \/ /\ CanFail(1) /\ Fails(p)
             /\ \E at \in gone :
                  cloud' = cloud \ Of(e.tenant, {k \in gone : Rank[k] > Rank[at]})
             /\ ipc' = [ipc EXCEPT ![p] = "ended"]
             /\ clearing' = [clearing EXCEPT ![p] = {}]
  /\ UNCHANGED <<zones, hostZone, zoneOf, iso, itodo, settings, made, seenZones,
                 lost, vanished, raced>>

(***************************************************************************)
(* The second loop: the user, then the default security group, the HA      *)
(* network and the project.  These share one try block: when the HA        *)
(* network is gone by the time it is deleted, NotFound skips the project.  *)
(***************************************************************************)
NextTenant_stops(p, rest) ==
  /\ clearing' = [clearing EXCEPT ![p] = {}]
  /\ ipc' = [ipc EXCEPT ![p] = "ended"]
  /\ iso' = [iso EXCEPT ![p] = {}]
NextTenant(p, rest) ==
  /\ clearing' = [clearing EXCEPT ![p] = rest]
  /\ ipc' = [ipc EXCEPT ![p] = IF rest = {} THEN "ended" ELSE @]
  /\ iso' = [iso EXCEPT ![p] = IF rest = {} THEN {} ELSE @]

ClearTenant(p) ==
  /\ ipc[p] = "clear_tenant"
  /\ \E e \in clearing[p] :
       LET t      == e.tenant
           rest   == clearing[p] \ {e}
           end(S) == cloud' = cloud \ Of(t, S)
       IN \/ /\ end({"user", "secgroup", "ha", "project"})
             /\ UNCHANGED <<nfailed, vanished>>
             /\ NextTenant(p, rest)
          \/ /\ <<t, "ha">> \in cloud
             /\ end({"user", "secgroup", "ha"})
             /\ vanished' = [vanished EXCEPT ![p] = TRUE]
             /\ NextTenant(p, rest)
             /\ UNCHANGED nfailed
          \/ /\ CanFail(1) /\ Fails(p)
             /\ \E S \in {{}, {"user"}, {"user", "secgroup"}, {"user", "secgroup", "ha"}} : end(S)
             /\ clearing' = [clearing EXCEPT ![p] = {}]
             /\ ipc' = [ipc EXCEPT ![p] = "ended"]
             /\ UNCHANGED <<iso, vanished>>
  /\ UNCHANGED <<zones, hostZone, zoneOf, itodo, settings, made, seenZones, lost, raced>>

IsoWork(p) ==
  \/ IsoSetUpClass(p) \/ get_credentials(p) \/ create_project(p) \/ associate_az_tenant(p)
  \/ create_user(p) \/ _create_network_resources(p) \/ IsoTearDownClass(p)
  \/ _clear_isolated_net_resources(p) \/ ClearTenant(p)

IsoNext == \E p \in IsoProcs : IsoWork(p)

-----------------------------------------------------------------------------
Left(p) == {x \in cloud : x[1][1] = p}

(***************************************************************************)
(* A class whose calls all worked leaves nothing behind, whatever sets and *)
(* resources it asked for and also when its settings were refused; only an *)
(* HA network that goes away by itself makes clear_isolated_creds skip a   *)
(* project ("tenant ... not found for delete").                            *)
(***************************************************************************)
NothingLeft ==
  \A p \in IsoProcs :
    ipc[p] = "ended" /\ nfailed[p] = 0 => \A x \in Left(p) : vanished[p] /\ x[2] = "project"

(***************************************************************************)
(* One failed call may leave resources, but never network resources of a   *)
(* project that is deleted and that nobody can find by its tenant again --  *)
(* unless the failed call had done its work.  If it was the interface, the *)
(* clean-up of _create_network_resources stops at the router, and          *)
(* clear_isolated_creds knows of none of it and deletes the project.       *)
(***************************************************************************)
Orphans(p) == {x \in Left(p) : /\ x[2] \in {"network", "subnet", "router", "interface"}
                               /\ <<x[1], "project">> \notin cloud}

NoOrphan == \A p \in IsoProcs : Orphans(p) # {} => nfailed[p] >= 2 \/ lost[p]

(***************************************************************************)
(* What get_isolated_creds has made, clear_isolated_creds takes down: all  *)
(* of it when nothing failed, and no network out of reach after a failure. *)
(***************************************************************************)
CleanExit == NothingLeft /\ NoOrphan

(***************************************************************************)
(* A tenant is bound to a zone that has the hosts, unless two processes    *)
(* both found no zone and made one each.                                   *)
(***************************************************************************)
ZoneHasHosts == raced \/ \A t \in DOMAIN zoneOf : zoneOf[t] = hostZone
=============================================================================
