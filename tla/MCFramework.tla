---------------------------- MODULE MCFramework -----------------------------
(***************************************************************************)
(* Two processes: on a pool of three accounts, one of them administrator,  *)
(* and with tenants of their own.  A client of region r1 whose catalog may *)
(* be empty, or have the region once or twice, with another interface.  Two *)
(* domains that have a user and a project of the same name each, and the   *)
(* dictionaries of credentials that the code and an accounts file make, in *)
(* every order of their keys.                                              *)
(***************************************************************************)
EXTENDS Framework

CONSTANTS p1, p2, a1, a2, a3

Type(t)         == [type |-> t, roles |-> {}, force |-> FALSE]
WithRoles(S, f) == [type |-> "roles", roles |-> S, force |-> f]
Admin           == WithRoles({"admin"}, FALSE)

SmallFile == [a \in {a1, a2, a3} |->
                IF a = a3 THEN [roles |-> {}, types |-> {"admin"}]
                          ELSE [roles |-> {"member"}, types |-> {}]]

SmallTypes == [t \in {"admin"} |-> "admin"]

(***************************************************************************)
(* `x' is a role no account has.                                           *)
(***************************************************************************)
SmallLists ==
  { <<Type("primary"), Type("alt")>>,
    <<Type("primary"), Admin, Type("primary")>>,
    <<WithRoles({"member"}, TRUE)>>,
    <<WithRoles({"member"}, TRUE), WithRoles({"member"}, TRUE)>>,
    <<WithRoles({"x"}, TRUE)>> }

Net(S) == [given |-> TRUE, kinds |-> S]

SmallClasses ==
  [p \in {p1, p2} |->
     IF p = p1
     THEN [list : { <<Type("primary"), Type("primary")>>,
                    <<WithRoles({"member"}, TRUE), WithRoles({"member"}, TRUE)>> },
           settings : { [given |-> FALSE, kinds |-> {}], Net({}),
                        Net({"network", "subnet", "dhcp"}), Net({"network", "router"}),
                        Net({"network", "subnet", "router"}) }]
     ELSE [list : {<<Admin>>}, settings : {Net({"network"})}]]

Endpoint(i, r) == [interface |-> i, region |-> r]

SmallCatalogs == {<<>>, <<Endpoint("admin", "r1"), Endpoint("public", "r1")>>,
                  <<Endpoint("admin", "r2"), Endpoint("public", "r1")>>}

user1 == <<"d1", "n">>
user2 == <<"d2", "n">>
scope1 == <<"d1", "p">>
scope2 == <<"d2", "p">>

CloudPeople    == {user1, user2}
CloudScopes == {scope1, scope2}

\* the four options may be set or not; the domain of the administrator has no default
OsOptions(user, word, scope, domain) ==
  [username |-> user, password |-> word, tenant_name |-> scope, domain_name |-> domain]
SetOptions == {OsOptions("n", "s", "p", "d1"), OsOptions("n", "s", "p", "d2"), OsOptions("n", "s", Unknown, "d2"),
                 OsOptions("n", "s", "p", Unknown), OsOptions("n", Unknown, "p", "d1")}

Pass(version_, attr) == [version |-> version_, attr |-> attr]

Dictionaries == {
  \* V2CredsClient and V3CredsClient
  Pass("v2", [username |-> "n", user_id |-> user1, tenant_name |-> "p", tenant_id |-> scope1, password |-> "s"]),
  Pass("v3", [username |-> "n", user_id |-> user2, project_name |-> "p", project_id |-> scope2,
              password |-> "s", project_domain_name |-> "d2"]),
  \* an accounts file, for version 2 and 3
  Pass("v2", [username |-> "n", tenant_name |-> "p", password |-> "s"]),
  Pass("v2", [username |-> "n", password |-> "s"]),
  Pass("v2", [username |-> "n", project_name |-> "p", password |-> "s"]),
  Pass("v3", [username |-> "n", tenant_name |-> "p", password |-> "s"]),
  Pass("v3", [username |-> "n", tenant_name |-> "p"]),
  Pass("v3", [user_id |-> user2, project_id |-> scope2, password |-> "s"]),
  Pass("v3", [user_id |-> user2, project_name |-> "p", project_domain_id |-> "d1", password |-> "s"]),
  Pass("v3", [username |-> "n", user_domain_name |-> "d1", project_name |-> "p",
              project_domain_name |-> "d2", password |-> "s"]),
  Pass("v3", [username |-> "n", user_domain_id |-> "d2", project_name |-> "p",
              project_domain_name |-> "d1", password |-> "s"]),
  \* a token for a domain, and one for nothing
  Pass("v3", [username |-> "n", user_domain_name |-> "d1", domain_id |-> "d2", password |-> "s"]),
  Pass("v3", [username |-> "n", user_domain_name |-> "d1", domain_name |-> "d2", password |-> "s"]),
  Pass("v3", [username |-> "n", domain_id |-> "d2", password |-> "s"]),
  Pass("v3", [username |-> "n", user_domain_id |-> "d2", password |-> "s"])}
=============================================================================
