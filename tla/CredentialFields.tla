-------------------------- MODULE CredentialFields --------------------------
(***************************************************************************)
(* The fields of a credentials object: where they come from, which of them *)
(* are set together, what a token fills in, and what is left when the      *)
(* token is thrown away (automation/auth.py, common/cred_provider.py and   *)
(* manager.py).  Several managers may be made from one object, each with   *)
(* a provider and a token of its own.                                      *)
(*                                                                         *)
(* A dictionary is the sequence of its pairs in the order in which keys()  *)
(* gives them, whatever that is.  A user or a project is the pair of its   *)
(* domain and its name; the pair stands for its id too, and a domain for   *)
(* its own id and name.  External: the identity service, which may refuse. *)
(***************************************************************************)
EXTENDS Integers, Sequences, FiniteSets, SequencesExt

CONSTANTS
  Managers,      \* managers made from the credentials
  CloudUsers,    \* external: users and projects of the cloud, <<domain, name>>
  CloudProjects,
  Default,       \* CONF.auth.default_credentials_domain_name
  Configured,    \* what the options may say: functions from conf_attributes
  PassedFields,  \* what callers pass: [version, attr], attr a function
  Unknown        \* None

ASSUME FieldsAssumption == Unknown \notin Managers \cup CloudUsers \cup CloudProjects

VARIABLES
  keystone,       \* identity version: "v2" or "v3"
  configured,     \* whether the fields come from the options
  initial,        \* _initial: sequence of pairs of a field and a value
  credentials,    \* the object: function from ATTRIBUTES, or Unknown
  managers,       \* the managers there are
  tokenOf,        \* per manager: its token, or Unknown
  raised,         \* exception that ended the making of the credentials, or Unknown
  defaultProject, \* external: default project of the user, or Unknown
  lastRequest,    \* history: last request for a token, or Unknown
  issued,         \* history: what the tokens issued were for
  undone          \* history: managers whose fields another one has reset

source     == <<keystone, configured, initial, defaultProject>>
fieldsVars == <<source, credentials, managers, tokenOf, raised, lastRequest, issued, undone>>

ATTRIBUTES ==
  IF keystone = "v2" THEN {"username", "password", "tenant_name", "user_id", "tenant_id"}
  ELSE {"domain_id", "domain_name", "password", "username", "project_domain_id",
        "project_domain_name", "project_id", "project_name", "tenant_id", "tenant_name",
        "user_domain_id", "user_domain_name", "user_id"}

conf_attributes == {"username", "password", "tenant_name"}
                     \cup (IF keystone = "v3" THEN {"domain_name"} ELSE {})

(***************************************************************************)
(* __setattr__ of version 3: a tenant is a project, a domain of one is the *)
(* domain of the other unless that one has a domain, and domain_name is    *)
(* the domain of both, even if they have one.                              *)
(***************************************************************************)
SameAs == [tenant_id |-> "project_id", project_id |-> "tenant_id",
           tenant_name |-> "project_name", project_name |-> "tenant_name"]
OtherDomain == [user_domain_id |-> "project_domain_id", project_domain_id |-> "user_domain_id",
                user_domain_name |-> "project_domain_name", project_domain_name |-> "user_domain_name"]

SetWith(f, key) ==
  {key} \cup {SameAs[k] : k \in {key} \cap DOMAIN SameAs}
        \cup {OtherDomain[k] : k \in {l \in {key} \cap DOMAIN OtherDomain :
                                       f[OtherDomain[l]] = Unknown}}
        \cup (IF key = "domain_name" THEN {"user_domain_name", "project_domain_name"} ELSE {})

__setattr__(f, pair) ==
  LET keys == IF keystone = "v2" THEN {pair[1]} ELSE SetWith(f, pair[1])
  IN  [k \in DOMAIN f |-> IF k \in keys THEN pair[2] ELSE f[k]]

Unset == [k \in ATTRIBUTES |-> Unknown]
_apply_credentials(f, attr) == FoldLeft(__setattr__, f, attr)
Constructed == _apply_credentials(Unset, initial)

Keys == {initial[i][1] : i \in DOMAIN initial}

(***************************************************************************)
(* is_valid: version 2 wants a name and a password; version 3 also wants   *)
(* a domain for what is only named.                                        *)
(***************************************************************************)
EitherOf(a, b)   == IF a # Unknown THEN a ELSE b
UserDomain(f)    == EitherOf(f["user_domain_id"], f["user_domain_name"])
ProjectDomain(f) == EitherOf(f["project_domain_id"], f["project_domain_name"])

is_valid(f) ==
  /\ f["password"] # Unknown
  /\ keystone = "v2" => f["username"] # Unknown
  /\ keystone = "v3" =>
       /\ f["user_id"] # Unknown \/ (f["username"] # Unknown /\ UserDomain(f) # Unknown)
       /\ f["project_name"] = Unknown \/ f["project_id"] # Unknown \/ ProjectDomain(f) # Unknown

-----------------------------------------------------------------------------
(***************************************************************************)
(* The request for a token: _auth_params and the auth of both clients.     *)
(* Version 2 names user and tenant and leaves their ids out; version 3     *)
(* takes the id before the name, the id of a domain before its name, and   *)
(* a project before a domain.                                              *)
(***************************************************************************)
Ref(id, name, domain) == [id |-> id, name |-> name, domain |-> domain]

auth_by_name(f) ==
  IF keystone = "v2"
  THEN [user    |-> Ref(Unknown, f["username"], Default),
        project |-> Ref(Unknown, f["tenant_name"], Default), domain |-> Unknown]
  ELSE [user    |-> IF f["username"] # Unknown THEN Ref(Unknown, f["username"], UserDomain(f))
                    ELSE Ref(f["user_id"], Unknown, Unknown),
        project |-> Ref(f["project_id"], f["project_name"], ProjectDomain(f)),
        domain  |-> EitherOf(f["domain_id"], f["domain_name"])]
auth_params(f) ==
  IF keystone = "v2"
  THEN [user    |-> Ref(Unknown, f["username"], Default),
        project |-> Ref(Unknown, f["tenant_name"], Default), domain |-> Unknown]
  ELSE [user    |-> Ref(f["user_id"], f["username"], UserDomain(f)),
        project |-> Ref(f["project_id"], f["project_name"], ProjectDomain(f)),
        domain  |-> EitherOf(f["domain_id"], f["domain_name"])]

\* external: whom the identity service takes a reference for
Meant(ref, things) == {t \in things : IF ref.id # Unknown THEN t = ref.id ELSE t = <<ref.domain, ref.name>>}
Named(ref)         == ref.id # Unknown \/ ref.name # Unknown

\* external: the tokens it may issue, for a project, for a domain or for the default project
TokensFor(request) ==
  LET users == Meant(request.user, CloudUsers)
  IN  IF Named(request.project)
      THEN {[user |-> u, project |-> p, domain |-> Unknown] :
              u \in users, p \in Meant(request.project, CloudProjects)}
      ELSE IF request.domain # Unknown
           THEN {[user |-> u, project |-> Unknown, domain |-> request.domain] : u \in users}
           ELSE {[user |-> u, project |-> defaultProject, domain |-> Unknown] : u \in users}

(***************************************************************************)
(* _fill_credentials: one field after the other, each only if it is not    *)
(* set yet.  A version 2 token without a tenant is a KeyError.             *)
(***************************************************************************)
Fill(f, pair) == IF f[pair[1]] = Unknown THEN __setattr__(f, pair) ELSE f

OfProject(t) == <<<<"project_name", t.project[2]>>, <<"project_id", t.project>>,
                  <<"project_domain_id", t.project[1]>>, <<"project_domain_name", t.project[1]>>>>
OfDomain(t)  == <<<<"domain_id", t.domain>>, <<"domain_name", t.domain>>>>
OfUser(t)    == <<<<"username", t.user[2]>>, <<"user_id", t.user>>,
                  <<"user_domain_id", t.user[1]>>, <<"user_domain_name", t.user[1]>>>>

Says(t) ==
  IF keystone = "v2"
  THEN <<<<"tenant_name", t.project[2]>>, <<"tenant_id", t.project>>,
         <<"username", t.user[2]>>, <<"user_id", t.user>>>>
  ELSE (IF t.project # Unknown THEN OfProject(t) ELSE <<>>)
         \o (IF t.domain # Unknown THEN OfDomain(t) ELSE <<>>) \o OfUser(t)

Tenantless(t)    == keystone = "v2" /\ t.project = Unknown
FilledWith(f, t) == FoldLeft(Fill, f, Says(t))

-----------------------------------------------------------------------------
(***************************************************************************)
(* The dictionary.  get_configured_credentials takes what the options say, *)
(* None included; get_credentials of cred_provider adds the default domain *)
(* of users when version 3 gets no field of a domain.                      *)
(***************************************************************************)
DomainFields == {"domain_id", "domain_name", "project_domain_id", "project_domain_name",
                 "user_domain_id", "user_domain_name"}

get_configured_params == {[k \in conf_attributes |-> c[k]] : c \in Configured}
get_credentials_params(attr) ==
  IF keystone = "v3" /\ DomainFields \cap DOMAIN attr = {}
  THEN [k \in DOMAIN attr \cup {"user_domain_name"} |->
          IF k = "user_domain_name" THEN Default ELSE attr[k]]
  ELSE attr

\* password sets nothing else and nothing else sets it: where it stands makes no difference
KeyOrders(attr) ==
  {[i \in DOMAIN keys |-> <<keys[i], attr[keys[i]]>>] :
     keys \in {front \o SetToSeq({"password"} \cap DOMAIN attr) :
                front \in SetToSeqs(DOMAIN attr \ {"password"})}}

NothingMade ==
  /\ credentials = Unknown /\ raised = Unknown /\ lastRequest = Unknown
  /\ managers = {} /\ tokenOf = [m \in Managers |-> Unknown]
  /\ issued = {} /\ undone = {}

FieldsInit ==
  /\ keystone \in {"v2", "v3"} /\ configured \in BOOLEAN
  /\ defaultProject \in {p \in CloudProjects : p[1] = Default} \cup {Unknown}
  /\ \E attr \in IF configured THEN get_configured_params
                 ELSE {get_credentials_params(p.attr) : p \in {q \in PassedFields : q.version = keystone}} :
       initial \in KeyOrders(attr)
  /\ NothingMade

Constructing == credentials = Unknown /\ raised = Unknown

\* a key that is no field, or a provider that is given credentials it finds invalid
get_credentials_rejects ==
  /\ Constructing
  /\ \/ ~(Keys \subseteq ATTRIBUTES)
     \/ Keys \subseteq ATTRIBUTES /\ ~is_valid(Constructed)
  /\ raised' = "InvalidCredentials"
  /\ UNCHANGED <<source, credentials, managers, tokenOf, lastRequest, issued, undone>>

\* fill_in=False: only configured credentials are looked at
get_credentials_unfilled ==
  /\ Constructing /\ Keys \subseteq ATTRIBUTES
  /\ IF configured /\ ~is_valid(Constructed)
     THEN raised' = "InvalidConfiguration" /\ UNCHANGED credentials
     ELSE credentials' = Constructed /\ UNCHANGED raised
  /\ UNCHANGED <<source, managers, tokenOf, lastRequest, issued, undone>>

\* fill_in=True: with the token of a provider that nobody keeps
get_credentials_filled ==
  /\ Constructing /\ Keys \subseteq ATTRIBUTES /\ is_valid(Constructed)
  /\ lastRequest' = auth_params(Constructed)
  /\ \E t \in TokensFor(lastRequest') :
       /\ issued' = issued \cup {t}
       /\ IF Tenantless(t) THEN raised' = "KeyError" /\ UNCHANGED credentials
          ELSE credentials' = FilledWith(Constructed, t) /\ UNCHANGED raised
  /\ UNCHANGED <<source, managers, tokenOf, undone>>
get_credentials_refused ==
  /\ Constructing /\ Keys \subseteq ATTRIBUTES /\ is_valid(Constructed)
  /\ raised' = "Unauthorized" /\ lastRequest' = auth_params(Constructed)
  /\ UNCHANGED <<source, credentials, managers, tokenOf, issued, undone>>

\* Manager: without credentials that it finds valid there is none
Manager(m) ==
  /\ credentials # Unknown /\ is_valid(credentials)
  /\ managers' = managers \cup {m}
  /\ UNCHANGED <<source, credentials, tokenOf, raised, lastRequest, issued, undone>>

HasToken(m) == tokenOf[m] # Unknown
Due(m)      == m \in managers /\ (IF HasToken(m) THEN tokenOf[m].expired ELSE TRUE)

\* get_auth: the token is kept before the fields are filled
get_auth(m) ==
  /\ Due(m) /\ lastRequest' = auth_params(credentials)
  /\ \E t \in TokensFor(lastRequest') :
       /\ issued' = issued \cup {t}
       /\ tokenOf' = [tokenOf EXCEPT ![m] = [of |-> t, expired |-> FALSE]]
       /\ credentials' = IF Tenantless(t) THEN credentials ELSE FilledWith(credentials, t)
  /\ undone' = {}
  /\ UNCHANGED <<source, managers, raised>>

get_auth_refused(m) ==
  /\ Due(m) /\ lastRequest' = auth_params(credentials)
  /\ UNCHANGED <<source, credentials, managers, tokenOf, raised, issued, undone>>

\* external: time passes
Expire(m) == /\ HasToken(m)
             /\ tokenOf' = [tokenOf EXCEPT ![m].expired = TRUE]
             /\ UNCHANGED <<source, credentials, managers, raised, lastRequest, issued, undone>>

reset == Constructed

clear_auth_of(m) ==
  /\ m \in managers /\ credentials' = reset
  /\ tokenOf' = [tokenOf EXCEPT ![m] = Unknown]
  /\ undone' = {n \in Managers \ {m} : HasToken(n)}
  /\ UNCHANGED <<source, managers, raised, lastRequest, issued>>

FieldsNext ==
  \/ get_credentials_filled \/ get_credentials_rejects \/ get_credentials_unfilled \/ get_credentials_refused
  \/ \E m \in Managers : Manager(m) \/ get_auth(m) \/ get_auth_refused(m) \/ Expire(m) \/ clear_auth_of(m)

-----------------------------------------------------------------------------
(***************************************************************************)
(* All tokens, before and after an expiry, a reset or a refill and by      *)
(* whichever manager, are for one user and one scope.                      *)
(***************************************************************************)
SameIdentity == Cardinality(issued) <= 1

(***************************************************************************)
(* What is_valid lets through is enough for a request: nothing is asked    *)
(* for by a name without a domain.                                         *)
(***************************************************************************)
RequestIsComplete ==
  lastRequest # Unknown =>
    /\ Named(lastRequest.user) /\ (lastRequest.user.id = Unknown => lastRequest.user.domain # Unknown)
    /\ lastRequest.project.name # Unknown /\ lastRequest.project.id = Unknown =>
         lastRequest.project.domain # Unknown

(***************************************************************************)
(* A manager with a token finds the ids of its user and its scope in the   *)
(* credentials, unless another manager of the same object has reset them   *)
(* or the token, of version 2, has no tenant.                              *)
(***************************************************************************)
FilledWithToken ==
  \A m \in Managers \ undone : HasToken(m) /\ ~Tenantless(tokenOf[m].of) =>
    LET t == tokenOf[m].of
    IN  /\ credentials["user_id"] = t.user
        /\ t.project # Unknown => credentials["tenant_id"] = t.project
        /\ t.domain # Unknown  => credentials["domain_id"] = t.domain

(***************************************************************************)
(* What a caller gives for a field stays in it, unless it gives the same   *)
(* thing by another name too: a tenant and a project, or a domain beside   *)
(* the domain of user or project.                                          *)
(***************************************************************************)
Overruled(k) ==
  \/ k \in DOMAIN SameAs /\ SameAs[k] \in Keys
  \/ k \in {"user_domain_name", "project_domain_name"} /\ {"domain_id", "domain_name"} \cap Keys # {}

GivenIsKept ==
  credentials # Unknown => \A i \in DOMAIN initial :
    initial[i][2] # Unknown /\ ~Overruled(initial[i][1]) => credentials[initial[i][1]] = initial[i][2]

(***************************************************************************)
(* All of them: who uses a credentials object goes on as who, and where,   *)
(* it was made for.                                                        *)
(***************************************************************************)
FieldsHold == SameIdentity /\ RequestIsComplete /\ FilledWithToken /\ GivenIsKept
=============================================================================
