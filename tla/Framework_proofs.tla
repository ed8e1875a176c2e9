-------------------------- MODULE Framework_proofs --------------------------
(***************************************************************************)
(* Proofs about the framework.  First the REST client: for every catalog,  *)
(* set of projects, life of a token and latency within the assumption,     *)
(* requests are addressed well, tokens keep their project, a call in       *)
(* somebody else's name is not done in the own one unless it was repeated, *)
(* and what a service has done is reported, whichever method asked for it. *)
(* Then the parts put together, which are still what they are alone: every *)
(* behaviour of the framework is one of the account pool, one of a REST    *)
(* client and one of a waiting loop, so that what is proved of the parts   *)
(* holds of the whole.  Last the waiting loops (Timeouts) and the          *)
(* credentials made per test class (CleanExit, ZoneHasHosts).              *)
(***************************************************************************)
EXTENDS Framework, AccountPool_proofs, WellFoundedInduction

(***************************************************************************)
(* A token, when there is one; and the fields every step relies on.        *)
(***************************************************************************)
Tokens == [left : Int, scope : Projects \cup {Nil}]

RestTypes ==
  /\ catalog \in Catalogs
  /\ {tenant0, tenant, default} \subseteq Projects \cup {Nil}
  /\ cache # Nil => cache \in Tokens
  /\ phase \in {"idle", "auth", "decorate", "wire", "sleep"}
  /\ DOMAIN rq = {"retry", "altered", "done", "odd", "outcome"}
  /\ rq.retry \in Nat /\ rq.done \in Nat /\ rq.altered \in BOOLEAN

(***************************************************************************)
(* The parts of the inductive invariant: the credentials name the project  *)
(* of the token; a token about to be used is good for the way; and an      *)
(* altered call that was not repeated keeps its alternative until it is    *)
(* part of the request.                                                    *)
(***************************************************************************)
Filled == cache # Nil /\ tenant # cache.scope => cache.scope = Nil

Fresh == phase = "decorate" => cache \in Tokens /\ cache.left > Latency

Altered ==
  rq.altered /\ rq.retry = 0 =>
    /\ rq.done = 0
    /\ phase \in {"auth", "decorate"} => alt # Nil
    /\ phase = "wire" => wire.token = "other"

RestInv == RestTypes /\ Filled /\ Fresh /\ Altered /\ WellAddressed

-----------------------------------------------------------------------------
(***************************************************************************)
(* Where a catalog has an endpoint, one is the first and one the last.     *)
(***************************************************************************)
LEMMA FirstExists ==
  ASSUME NEW S, S \subseteq Nat, S # {}
  PROVE  \E i \in S : \A j \in S : i <= j
<1> DEFINE R == OpToRel(<, Nat)
<1>1. IsWellFoundedOn(R, Nat)
  BY NatLessThanWellFounded
<1>2. \E i \in S : \A j \in S : <<j, i>> \notin R
  <2> HIDE DEF R
  <2> QED
    BY <1>1, WFMin
<1>3. \A i, j \in Nat : j < i => <<j, i>> \in R
  BY DEF OpToRel
<1>4. \A i, j \in S : ~(j < i) => i <= j
  OBVIOUS
<1> HIDE DEF R
<1> QED
  BY <1>2, <1>3, <1>4

LEMMA LastExists ==
  ASSUME NEW n \in Nat, NEW S, S \subseteq 1..n, S # {}
  PROVE  \E i \in S : \A j \in S : j <= i
<1> DEFINE D == {n - j : j \in S}
<1>1. D \subseteq Nat /\ D # {}
  <2>1. \A j \in S : n - j \in Nat
    OBVIOUS
  <2> QED
    BY <2>1
<1>2. PICK d \in D : \A e \in D : d <= e
  <2> HIDE DEF D
  <2> QED
    BY <1>1, FirstExists
<1>3. PICK i \in S : d = n - i
  OBVIOUS
<1>4. \A j \in S : n - i <= n - j
  BY <1>2, <1>3
<1>5. i \in Int /\ \A j \in S : j \in Int
  OBVIOUS
<1> QED
  BY <1>4, <1>5

(***************************************************************************)
(* base_url: with an endpoint of the interface in the region, the request  *)
(* goes to the region, in both versions.                                   *)
(***************************************************************************)
LEMMA RightRegion ==
  ASSUME catalog \in Catalogs,
         NEW e \in DOMAIN catalog,
         catalog[e] = [interface |-> endpoint_type, region |-> region]
  PROVE  base_url.region = region
<1>1. PICK n \in Nat : DOMAIN catalog = 1..n
  <2>1. catalog \in Seq([interface : STRING, region : STRING])
    BY RestAssumption
  <2> QED
    BY <2>1
<1>2. e \in OfRegion /\ e \in OfType
  BY DEF OfRegion, OfType
<1>3. OfRegion \subseteq 1..n /\ OfRegion \cap OfType \subseteq Nat
  BY <1>1 DEF OfRegion, OfType
<1>4. base_url_v2.region = region
  <2>1. \E i \in OfRegion : \A j \in OfRegion : j <= i
    BY <1>2, <1>3, LastExists
  <2>2. (CHOOSE i \in OfRegion : \A j \in OfRegion : j <= i) \in OfRegion
    BY <2>1
  <2> QED
    BY <1>2, <2>2 DEF base_url_v2, OfRegion
<1>5. base_url_v3.region = region
  <2> DEFINE match == OfType \cap OfRegion
  <2>1. \E i \in match : \A j \in match : i <= j
    BY <1>2, <1>3, FirstExists
  <2>2. (CHOOSE i \in match : \A j \in match : i <= j) \in match
    <3> HIDE DEF match
    <3> QED
      BY <2>1
  <2> QED
    BY <1>2, <2>2 DEF base_url_v3, OfRegion
<1> QED
  BY <1>4, <1>5 DEF base_url

-----------------------------------------------------------------------------
(***************************************************************************)
(* Time takes nothing from a token but its life.                           *)
(***************************************************************************)
LEMMA AgeKeeps ==
  ASSUME cache # Nil => cache \in Tokens, NEW d \in Nat, Age(cache, d) # Nil
  PROVE  cache # Nil /\ Age(cache, d) \in Tokens /\ Age(cache, d).scope = cache.scope
<1>1. cache # Nil /\ cache \in Tokens
  BY DEF Age
<1>2. (IF cache.left > d THEN cache.left - d ELSE 0) \in Int
  BY <1>1 DEF Tokens
<1> QED
  BY <1>1, <1>2 DEF Age, Tokens

-----------------------------------------------------------------------------
LEMMA InitRestInv == RestInit => RestInv
BY RestAssumption DEF RestInit, RestInv, RestTypes, Filled, Fresh, Altered, WellAddressed, NoRequest

LEMMA requestKeeps == ASSUME RestInv, request PROVE RestInv'
<1>1. PICK d \in 0..MaxIdle : cache' = Age(cache, d)
  BY DEF request
<1>2. cache' # Nil => cache # Nil /\ cache' \in Tokens /\ cache'.scope = cache.scope
  BY <1>1, AgeKeeps, RestAssumption DEF RestInv, RestTypes
<1> USE DEF RestInv, request, fixed
<1>3. RestTypes'
  BY <1>2 DEF RestTypes, NoRequest
<1>4. Filled'
  BY <1>2 DEF Filled
<1>5. Altered'
  BY DEF Altered, NoRequest
<1> QED
  BY <1>3, <1>4, <1>5 DEF Fresh, WellAddressed

(***************************************************************************)
(* A new token: what it lives is more than two answers take.               *)
(***************************************************************************)
LEMMA set_authKeeps == ASSUME RestInv, set_auth PROVE RestInv'
<1> USE DEF RestInv, set_auth, fixed
<1> DEFINE scope == IF tenant # Nil THEN tenant ELSE default
<1>1. PICK life \in Lives, d \in 0..Latency :
        /\ cache' = [left |-> life - d, scope |-> scope]
        /\ IF version = "v2" /\ scope = Nil
           THEN Throw("KeyError") /\ UNCHANGED tenant
           ELSE /\ phase' = "decorate" /\ UNCHANGED <<wire, rq>>
                /\ tenant' = _fill_credentials(scope)
  OBVIOUS
<1>2. cache'.left \in Int /\ cache'.left > Latency /\ cache'.scope = scope
  BY <1>1, RestAssumption
<1>3. scope \in Projects \cup {Nil} /\ cache' \in Tokens
  <2>1. scope \in Projects \cup {Nil}
    BY DEF RestTypes
  <2> HIDE DEF scope
  <2> QED
    BY <1>1, <1>2, <2>1 DEF Tokens
<1>4. CASE version = "v2" /\ scope = Nil
  <2>1. phase' = "idle" /\ tenant' = tenant
    BY <1>1, <1>4 DEF Throw
  <2>2. /\ DOMAIN rq' = DOMAIN rq
        /\ rq'.retry = rq.retry /\ rq'.done = rq.done /\ rq'.altered = rq.altered
    BY <1>1, <1>4 DEF Throw, RestTypes
  <2>3. RestTypes' /\ Altered'
    BY <1>3, <2>1, <2>2 DEF RestTypes, Altered
  <2> QED
    BY <1>2, <1>4, <2>1, <2>3 DEF Filled, Fresh, WellAddressed
<1>5. CASE ~(version = "v2" /\ scope = Nil)
  <2>1. phase' = "decorate" /\ rq' = rq /\ wire' = wire
    BY <1>1, <1>5
  <2>2. tenant' = IF tenant = Nil THEN scope ELSE tenant
    BY <1>1, <1>5 DEF _fill_credentials
  <2>3. RestTypes' /\ Altered'
    BY <1>3, <2>1, <2>2 DEF RestTypes, Altered
  <2>4. Filled' /\ Fresh'
    BY <1>2, <1>3, <2>1, <2>2 DEF Filled, Fresh
  <2> QED
    BY <2>1, <2>3, <2>4 DEF WellAddressed
<1> QED
  BY <1>4, <1>5

LEMMA get_token_failsKeeps == ASSUME RestInv, get_token_fails PROVE RestInv'
<1> USE DEF RestInv, get_token_fails, fixed
<1>1. /\ phase' = "idle" /\ DOMAIN rq' = DOMAIN rq
      /\ rq'.retry = rq.retry /\ rq'.done = rq.done /\ rq'.altered = rq.altered
  BY DEF Throw, RestTypes
<1>2. RestTypes' /\ Altered'
  BY <1>1 DEF RestTypes, Altered
<1> QED
  BY <1>1, <1>2 DEF Filled, Fresh, WellAddressed

(***************************************************************************)
(* The alternative is used up here; without it the call was not altered.   *)
(***************************************************************************)
LEMMA auth_requestKeeps == ASSUME RestInv, auth_request PROVE RestInv'
<1> USE DEF RestInv, auth_request, fixed
<1>1. catalog' = catalog /\ cache' = cache /\ tenant' = tenant /\ version' = version
  OBVIOUS
<1>2. CASE \E what \in {"EndpointNotFound", "BadAltAuth"} : Throw(what) /\ UNCHANGED alt
  <2>1. /\ phase' = "idle" /\ DOMAIN rq' = DOMAIN rq
        /\ rq'.retry = rq.retry /\ rq'.done = rq.done /\ rq'.altered = rq.altered
    BY <1>2 DEF Throw, RestTypes
  <2>2. RestTypes' /\ Altered'
    BY <2>1 DEF RestTypes, Altered
  <2> QED
    BY <2>1, <2>2 DEF Filled, Fresh, WellAddressed
<1> DEFINE own == [token |-> "own", left |-> cache.left, endpoint |-> base_url]
<1>3. CASE phase' = "wire" /\ alt' = Nil /\ UNCHANGED rq /\ wire' = _decorate_request(own)
  <2>1. cache \in Tokens /\ cache.left > Latency
    <3>1. CASE phase = "decorate"
      BY <3>1 DEF Fresh
    <3>2. CASE phase = "auth" /\ cache # Nil /\ ~is_expired(cache)
      BY <3>2, RestAssumption DEF RestTypes, Tokens, is_expired, token_expiry_threshold
    <3> QED
      BY <3>1, <3>2
  <2>2. wire'.left = cache.left /\ wire'.endpoint = base_url /\ (alt # Nil => wire'.token = "other")
    BY <1>3 DEF _decorate_request
  <2>3. RestTypes' /\ Filled' /\ Fresh'
    BY <1>3 DEF RestTypes, Filled, Fresh
  <2>4. Altered'
    BY <1>3, <2>2 DEF Altered
  <2>5. WellAddressed'
    BY <1>1, <2>1, <2>2, RightRegion DEF WellAddressed, RestTypes
  <2> QED
    BY <2>3, <2>4, <2>5
<1> QED
  BY <1>2, <1>3

(***************************************************************************)
(* What the passing of time leaves of the cached token.                    *)
(***************************************************************************)
LEMMA AgeStep ==
  ASSUME RestTypes, NEW d \in Nat, cache' = Age(cache, d)
  PROVE  cache' # Nil => cache # Nil /\ cache' \in Tokens /\ cache'.scope = cache.scope
<1>1. CASE cache = Nil
  BY <1>1 DEF Age
<1>2. CASE cache # Nil
  BY <1>2, AgeKeeps DEF RestTypes
<1> QED
  BY <1>1, <1>2

(***************************************************************************)
(* An answer to an altered request: the service has not done it.           *)
(***************************************************************************)
LEMMA raw_requestKeeps == ASSUME RestInv, raw_request PROVE RestInv'
<1>1. PICK d \in 0..Latency, v \in Verdicts, did \in {0, 1} :
        LET again == v.again /\ rq.retry < MAX_RECURSION_DEPTH
        IN  /\ wire.left <= d => v.status = 401
            /\ wire.token = "other" => v.status \in 400..499
            /\ v.status < 400 => did = 1
            /\ v.status \in 400..499 => did = 0
            /\ cache' = Age(cache, d)
            /\ phase' = IF again THEN "sleep" ELSE "idle"
            /\ rq' = [rq EXCEPT !.done = @ + did, !.odd = v.odd,
                                !.outcome = IF again THEN "running" ELSE v.outcome]
  BY Zenon DEF raw_request
<1>2. phase = "wire" /\ wire' = NoWire /\ UNCHANGED <<fixed, tenant, default, alt>>
  BY DEF raw_request
<1>3. d \in Nat /\ cache' = Age(cache, d) /\ (wire.token = "other" => did = 0)
  BY <1>1, RestAssumption
<1>4. cache' # Nil => cache # Nil /\ cache' \in Tokens /\ cache'.scope = cache.scope
  BY <1>3, AgeStep DEF RestInv
<1>5. /\ DOMAIN rq' = DOMAIN rq
      /\ rq'.retry = rq.retry /\ rq'.done = rq.done + did /\ rq'.altered = rq.altered
  BY <1>1 DEF RestInv, RestTypes
<1>6. phase' \in {"sleep", "idle"}
  BY <1>1
<1>7. did \in {0, 1}
  OBVIOUS
<1>8. RestTypes'
  BY <1>2, <1>4, <1>5, <1>6, <1>7 DEF RestInv, RestTypes, fixed
<1>9. Altered'
  BY <1>2, <1>3, <1>5, <1>6 DEF RestInv, Altered, RestTypes, fixed
<1> QED
  BY <1>2, <1>4, <1>6, <1>8, <1>9 DEF RestInv, Filled, Fresh, WellAddressed, fixed

LEMMA retry_afterKeeps == ASSUME RestInv, retry_after PROVE RestInv'
<1> USE DEF RestInv, retry_after, fixed
<1>1. PICK delay \in RetryAfter : cache' = Age(cache, delay)
  OBVIOUS
<1>2. cache' # Nil => cache # Nil /\ cache' \in Tokens /\ cache'.scope = cache.scope
  BY <1>1, AgeStep, RestAssumption
<1>3. /\ DOMAIN rq' = DOMAIN rq
      /\ rq'.retry = rq.retry + 1 /\ rq'.done = rq.done /\ rq'.altered = rq.altered
  BY DEF RestTypes
<1>4. RestTypes'
  BY <1>2, <1>3 DEF RestTypes
<1> QED
  BY <1>2, <1>3, <1>4 DEF RestTypes, Filled, Fresh, Altered, WellAddressed

LEMMA clear_authKeeps == ASSUME RestInv, clear_auth PROVE RestInv'
BY DEF RestInv, clear_auth, fixed, RestTypes, Filled, Fresh, Altered, WellAddressed

LEMMA DefaultMovesKeeps == ASSUME RestInv, DefaultMoves PROVE RestInv'
BY DEF RestInv, DefaultMoves, fixed, RestTypes, Filled, Fresh, Altered, WellAddressed

LEMMA NextRestInv == RestInv /\ [RestNext]_restVars => RestInv'
<1> SUFFICES ASSUME RestInv, [RestNext]_restVars PROVE RestInv'
  OBVIOUS
<1>1. CASE UNCHANGED restVars
  BY <1>1 DEF restVars, RestInv, RestTypes, Filled, Fresh, Altered, WellAddressed, base_url,
              base_url_v2, base_url_v3, OfRegion, OfType
<1>2. CASE RestNext
  BY <1>2, requestKeeps, set_authKeeps, get_token_failsKeeps, auth_requestKeeps, raw_requestKeeps,
     retry_afterKeeps, clear_authKeeps, DefaultMovesKeeps DEF RestNext, InCall
<1> QED
  BY <1>1, <1>2

LEMMA RestInvIsInvariant == RestSpec => []RestInv
BY InitRestInv, NextRestInv, PTL DEF RestSpec

-----------------------------------------------------------------------------
(***************************************************************************)
(* A request leaves with a token good for the way, to the right region     *)
(* (auth_request and base_url of auth.py).                                 *)
(***************************************************************************)
THEOREM WellAddressedHolds == RestSpec => []WellAddressed
BY RestInvIsInvariant, PTL DEF RestInv

(***************************************************************************)
(* set_alt_auth_data: what was to be done in another name is done in the   *)
(* own one only after a repetition.                                        *)
(***************************************************************************)
THEOREM AlteredUnlessRetriedHolds == RestSpec => []AlteredUnlessRetried
<1>1. ASSUME RestInv PROVE AlteredUnlessRetried
  BY <1>1 DEF RestInv, RestTypes, Altered, AlteredUnlessRetried
<1> QED
  BY <1>1, RestInvIsInvariant, PTL

(***************************************************************************)
(* _fill_credentials: until clear_auth every new token is for the project  *)
(* of the first one.                                                       *)
(***************************************************************************)
LEMMA ScopeStep ==
  ASSUME RestInv, [RestNext]_restVars, cache # Nil, cache' # Nil, cache.scope # Nil
  PROVE  cache'.scope = cache.scope
<1>1. CASE set_auth
  BY <1>1 DEF set_auth, RestInv, Filled
<1>2. CASE UNCHANGED cache \/ clear_auth
  BY <1>2 DEF clear_auth
<1>3. ASSUME NEW d \in Nat, cache' = Age(cache, d) PROVE cache'.scope = cache.scope
  BY <1>3, AgeStep DEF RestInv
<1>4. CASE request \/ raw_request \/ retry_after
  <2>1. \E d \in Nat : cache' = Age(cache, d)
    <3>1. request => \E d \in 0..MaxIdle : cache' = Age(cache, d)
      BY DEF request
    <3>2. raw_request => \E d \in 0..Latency : cache' = Age(cache, d)
      BY ZenonT(40) DEF raw_request
    <3>3. retry_after => \E d \in RetryAfter : cache' = Age(cache, d)
      BY DEF retry_after
    <3> QED
      BY <1>4, <3>1, <3>2, <3>3, RestAssumption
  <2> QED
    BY <1>3, <2>1
<1>5. CASE UNCHANGED restVars \/ get_token_fails \/ auth_request \/ DefaultMoves
  BY <1>2, <1>5 DEF restVars, get_token_fails, auth_request, DefaultMoves
<1> QED
  BY <1>1, <1>2, <1>4, <1>5 DEF RestNext, InCall

(***************************************************************************)
(* set_auth and get_auth_token keep the scope of the token that is cached: *)
(* an expired token is renewed for the same project.                       *)
(***************************************************************************)
THEOREM ScopeStaysHolds == RestSpec => ScopeStays
<1>1. RestInv /\ [RestNext]_restVars
      => [cache # Nil /\ cache' # Nil /\ cache.scope # Nil => cache'.scope = cache.scope]_restVars
  BY ScopeStep
<1> QED
  BY <1>1, RestInvIsInvariant, PTL DEF RestSpec, ScopeStays

-----------------------------------------------------------------------------
(***************************************************************************)
(* The methods of the service clients, checked against what a service that *)
(* has done its work may answer.  A shape is well matched when it takes    *)
(* codes of a success, loads a body only where there is one and takes from *)
(* it only what its schema requires; a schema fits when its codes and its  *)
(* body do.                                                                *)
(***************************************************************************)
\* codes of a success, and codes whose smallest answer has a body
Successes(codes) == \A code \in codes : code \in Nat /\ code < 400
WithBody(codes)  == Successes(codes) /\ (204 \in codes => \E code \in codes : code < 204)

WellMatched(shape) ==
  /\ Successes(shape.codes)
  /\ shape.body = "json" => shape.verb # "HEAD" /\ WithBody(shape.codes)
  /\ shape.checked => shape.schema.body \/ shape.body = "none"
  /\ shape.checked => shape.takes \subseteq shape.schema.needs

Fits(schema) == Successes(schema.codes) /\ (schema.body => WithBody(schema.codes))

LEMMA CodesFit ==
  /\ WithBody({200}) /\ WithBody({201}) /\ WithBody({202}) /\ WithBody({200, 203})
  /\ WithBody(200..207 \cup 300..307)
  /\ Successes({200}) /\ Successes({201}) /\ Successes({202}) /\ Successes({204})
  BY DEF Successes, WithBody

(***************************************************************************)
(* The schemas by how they are made, and the one that is made from another.*)
(***************************************************************************)
LEMMA SchemasFit ==
  ASSUME NEW codes, WithBody(codes)
  PROVE  /\ \A keys : Fits(Open(codes, keys))
         /\ \A name, keys : /\ Fits(Object(codes, name, keys)) /\ Fits(List(codes, name, keys))
                            /\ name \in Object(codes, name, keys).needs
                            /\ name \in List(codes, name, keys).needs
         /\ \A names : Fits(Values(codes, names)) /\ Values(codes, names).needs = names
  BY DEF Open, Object, List, Values, Schema, Fits, WithBody

LEMMA ClosedFits ==
  ASSUME NEW codes, WithBody(codes), NEW keys
  PROVE  Fits([Open(codes, keys) EXCEPT !.closed = TRUE])
<1> DEFINE open == Open(codes, keys)
<1>1. /\ open.codes = codes
      /\ DOMAIN open = {"codes", "body", "holds", "needs", "keys", "closed"}
  BY DEF Open, Schema
<1> HIDE DEF open
<1>2. [open EXCEPT !.closed = TRUE].codes = codes
  BY <1>1
<1>3. Fits([open EXCEPT !.closed = TRUE])
  BY <1>2 DEF Fits, WithBody
<1> QED
  BY <1>3 DEF open

LEMMA CheckedFits ==
  ASSUME NEW verb, verb # "HEAD", NEW schema, Fits(schema)
  PROVE  /\ WellMatched(Checked(verb, schema))
         /\ \A name \in schema.needs :
              /\ WellMatched(AsDict(verb, schema, name)) /\ WellMatched(AsList(verb, schema, name))
              /\ WellMatched(AsData(verb, schema, name)) /\ WellMatched(AsFirst(verb, schema, name))
  BY DEF Fits, WellMatched, AsDict, AsList, AsData, AsFirst, Checked

(***************************************************************************)
(* The shapes by what they do with the body and the schema they check it   *)
(* with; then those without a schema.                                      *)
(***************************************************************************)
LEMMA AsListList200 ==
  \A verb, name, keys : verb # "HEAD" =>
    WellMatched(AsList(verb, List({200}, name, keys), name))
  BY CodesFit, SchemasFit, CheckedFits

LEMMA AsDictObject200 ==
  \A verb, name, keys : verb # "HEAD" =>
    WellMatched(AsDict(verb, Object({200}, name, keys), name))
  BY CodesFit, SchemasFit, CheckedFits

LEMMA CheckedOpen202 ==
  \A verb, keys : verb # "HEAD" =>
    WellMatched(Checked(verb, Open({202}, keys)))
  BY CodesFit, SchemasFit, CheckedFits

LEMMA CheckedOpen200 ==
  \A verb, keys : verb # "HEAD" =>
    WellMatched(Checked(verb, Open({200}, keys)))
  BY CodesFit, SchemasFit, CheckedFits

LEMMA AsDictList200 ==
  \A verb, name, keys : verb # "HEAD" =>
    WellMatched(AsDict(verb, List({200}, name, keys), name))
  BY CodesFit, SchemasFit, CheckedFits

LEMMA AsDataValues ==
  \A verb, name : verb # "HEAD" =>
    WellMatched(AsData(verb, Values({200}, {name}), name))
  BY CodesFit, SchemasFit, CheckedFits

LEMMA CheckedValues ==
  \A verb, names : verb # "HEAD" =>
    WellMatched(Checked(verb, Values({200}, names)))
  BY CodesFit, SchemasFit, CheckedFits

LEMMA AsDictObject202 ==
  \A verb, name, keys : verb # "HEAD" =>
    WellMatched(AsDict(verb, Object({202}, name, keys), name))
  BY CodesFit, SchemasFit, CheckedFits

LEMMA CheckedList200 ==
  \A verb, name, keys : verb # "HEAD" =>
    WellMatched(Checked(verb, List({200}, name, keys)))
  BY CodesFit, SchemasFit, CheckedFits

LEMMA AsDictValues ==
  \A verb, names : verb # "HEAD" =>
    \A name \in names : WellMatched(AsDict(verb, Values({200}, names), name))
  BY CodesFit, SchemasFit, CheckedFits

LEMMA CheckedBare ==
  \A verb : /\ WellMatched(Checked(verb, Bare({200}))) /\ WellMatched(Checked(verb, Bare({202})))
            /\ WellMatched(Checked(verb, Bare({204})))
  BY CodesFit DEF WellMatched, Checked, Bare, Schema

LEMMA PlainFits ==
  \A verb : /\ WellMatched(Plain(verb, {200})) /\ WellMatched(Plain(verb, {201}))
            /\ WellMatched(Plain(verb, {202})) /\ WellMatched(Plain(verb, {204}))
  BY CodesFit DEF WellMatched, Plain, Loads

LEMMA LoadsFits ==
  \A verb : verb # "HEAD" =>
    /\ WellMatched(Loads(verb, {200})) /\ WellMatched(Loads(verb, {201}))
    /\ WellMatched(Loads(verb, {202})) /\ WellMatched(Loads(verb, {200, 203}))
  BY CodesFit DEF WellMatched, Loads, WithBody

LEMMA UncheckedFits ==
  \A verb : /\ verb # "HEAD" => WellMatched(Unchecked(verb, "json"))
            /\ WellMatched(Unchecked(verb, "any"))
  BY CodesFit DEF WellMatched, Unchecked, Loads, WithBody

(***************************************************************************)
(* One lemma for each client: its methods, with the schemas they name.     *)
(***************************************************************************)
LEMMA agents_client_matched ==
  \A call \in agents_client : WellMatched(call[2])
  BY AsListList200, AsDictObject200, CheckedBare, UncheckedFits DEF agents_client, Calls,
     agents_schema

LEMMA aggregates_client_matched ==
  \A call \in aggregates_client : WellMatched(call[2])
  BY AsListList200, AsDictObject200, CheckedBare DEF aggregates_client, Calls,
     common_aggregate_info, aggregates_schema

LEMMA nova_availability_zone_client_matched ==
  \A call \in nova_availability_zone_client : WellMatched(call[2])
  BY AsListList200 DEF nova_availability_zone_client, Calls, availability_zone_schema

LEMMA baremetal_nodes_client_matched ==
  \A call \in baremetal_nodes_client : WellMatched(call[2])
  BY AsListList200, AsDictObject200 DEF baremetal_nodes_client, Calls,
     baremetal_nodes_schema

LEMMA certificates_client_matched ==
  \A call \in certificates_client : WellMatched(call[2])
  BY AsDictObject200 DEF certificates_client, Calls, certificates_schema

LEMMA nova_extensions_client_matched ==
  \A call \in nova_extensions_client : WellMatched(call[2])
  BY AsListList200, UncheckedFits DEF nova_extensions_client, Calls, extensions_schema

LEMMA fixed_ips_client_matched ==
  \A call \in fixed_ips_client : WellMatched(call[2])
<1>1. WellMatched([Checked("POST", fixed_ips_schema.reserve_fixed_ip) EXCEPT !.body = "any"])
  <2>1. WellMatched(Checked("POST", fixed_ips_schema.reserve_fixed_ip))
    BY CheckedOpen202 DEF fixed_ips_schema
  <2>2. fixed_ips_schema.reserve_fixed_ip.body
    BY DEF fixed_ips_schema, Open, Schema
  <2> QED BY <2>1, <2>2 DEF WellMatched, Checked
<1> QED BY <1>1, AsDictObject200 DEF fixed_ips_client, Calls, fixed_ips_schema

LEMMA flavors_client_matched ==
  \A call \in flavors_client : WellMatched(call[2])
  BY AsListList200, AsDictObject200, CheckedBare, CheckedOpen200, AsDictList200 DEF
     flavors_client, Calls, flavors_access_schema, flavors_extra_specs_schema,
     flavors_schema

LEMMA floating_ip_pools_client_matched ==
  \A call \in floating_ip_pools_client : WellMatched(call[2])
  BY AsListList200 DEF floating_ip_pools_client, Calls, floating_ips_schema

LEMMA floating_ips_bulk_client_matched ==
  \A call \in floating_ips_bulk_client : WellMatched(call[2])
  BY AsDictObject200, AsListList200, AsDataValues DEF floating_ips_bulk_client, Calls,
     floating_ips_schema

LEMMA floating_ips_client_matched ==
  \A call \in floating_ips_client : WellMatched(call[2])
  BY AsListList200, AsDictObject200, CheckedBare DEF floating_ips_client, Calls,
     floating_ips_schema

LEMMA hosts_client_matched ==
  \A call \in hosts_client : WellMatched(call[2])
  BY AsListList200, CheckedValues, AsDictValues DEF hosts_client, Calls, hosts_schema

LEMMA hypervisor_client_matched ==
  \A call \in hypervisor_client : WellMatched(call[2])
  BY AsListList200, AsDictObject200 DEF hypervisor_client, Calls, hypervisors_schema,
     hypervisors_search_schema

LEMMA images_client_matched ==
  \A call \in images_client : WellMatched(call[2])
  BY CheckedBare, AsListList200, AsDictObject200 DEF images_client, Calls, images_schema

LEMMA instance_usage_audit_log_client_matched ==
  \A call \in instance_usage_audit_log_client : WellMatched(call[2])
  BY AsDictObject200 DEF instance_usage_audit_log_client, Calls,
     instance_usage_audit_logs_schema

LEMMA interfaces_client_matched ==
  \A call \in interfaces_client : WellMatched(call[2])
  BY AsListList200, AsDictObject200, CheckedBare DEF interfaces_client, Calls,
     interfaces_schema, servers_metadata_schema

LEMMA keypairs_client_matched ==
  \A call \in keypairs_client : WellMatched(call[2])
  BY AsListList200, AsDictObject200, CheckedBare DEF keypairs_client, Calls,
     keypairs_schema

LEMMA limits_client_matched ==
  \A call \in limits_client : WellMatched(call[2])
  BY AsDictObject200 DEF limits_client, Calls, limits_schema

LEMMA migrations_client_matched ==
  \A call \in migrations_client : WellMatched(call[2])
  BY AsListList200 DEF migrations_client, Calls, migrations_schema

LEMMA networks_client_matched ==
  \A call \in networks_client : WellMatched(call[2])
  BY LoadsFits DEF networks_client, Calls

LEMMA quota_classes_client_matched ==
  \A call \in quota_classes_client : WellMatched(call[2])
  BY AsDictObject200 DEF quota_classes_client, Calls, quota_classes_schema

LEMMA quotas_client_matched ==
  \A call \in quotas_client : WellMatched(call[2])
  BY AsDictObject200, CheckedBare DEF quotas_client, Calls, quotas_schema

LEMMA security_group_default_rules_client_matched ==
  \A call \in security_group_default_rules_client : WellMatched(call[2])
  BY AsDictObject200, CheckedBare, AsListList200 DEF security_group_default_rules_client,
     Calls, security_group_default_rule_schema

LEMMA security_group_rules_client_matched ==
  \A call \in security_group_rules_client : WellMatched(call[2])
  BY AsDictObject200, CheckedBare, AsListList200 DEF security_group_rules_client, Calls,
     security_groups_schema

LEMMA security_groups_client_matched ==
  \A call \in security_groups_client : WellMatched(call[2])
  BY AsListList200, AsDictObject200, CheckedBare DEF security_groups_client, Calls,
     security_groups_schema

LEMMA server_groups_client_matched ==
  \A call \in server_groups_client : WellMatched(call[2])
  BY AsDictObject200, CheckedBare, AsListList200 DEF server_groups_client, Calls,
     servers_attachment_schema

LEMMA servers_client_zones_matched ==
  \A call \in servers_client_zones : WellMatched(call[2])
  BY UncheckedFits DEF servers_client_zones, Calls

LEMMA servers_client_matched ==
  \A call \in servers_client : WellMatched(call[2])
  BY AsDictObject202, AsDictObject200, CheckedBare, CheckedList200 DEF servers_client,
     Calls, servers_detail_schema, servers_schema

LEMMA servers_client_actions_matched ==
  \A call \in servers_client_actions : WellMatched(call[2])
<1> DEFINE listed == [Open({200}, {"version", "addr"}) EXCEPT !.closed = TRUE]
<1>1. Fits(servers_attachment_schema.list_addresses_by_network)
  <2>1. servers_attachment_schema.list_addresses_by_network = listed
    BY DEF servers_attachment_schema
  <2>2. Fits(listed)
    BY CodesFit, ClosedFits
  <2> QED
    BY <2>1, <2>2
<1>2. WellMatched(Checked("GET", servers_attachment_schema.list_addresses_by_network))
  BY <1>1, CheckedFits
<1> QED
  BY <1>2, AsDictObject200, AsDictObject202, CheckedBare, CheckedValues
  DEF servers_client_actions, Calls, servers_attachment_schema, servers_metadata_schema,
      servers_action_schema, servers_detail_schema

LEMMA servers_client_metadata_matched ==
  \A call \in servers_client_metadata : WellMatched(call[2])
  BY AsDictObject200, CheckedBare, AsListList200 DEF servers_client_metadata, Calls,
     servers_attachment_schema, servers_metadata_schema

LEMMA servers_client_states_matched ==
  \A call \in servers_client_states : WellMatched(call[2])
  BY CheckedBare, AsDataValues, CheckedList200, AsListList200, AsDictObject200,
     UncheckedFits DEF servers_client_states, Calls, servers_action_schema,
     servers_detail_schema, servers_metadata_schema

LEMMA servers_client_qos_matched ==
  \A call \in servers_client_qos : WellMatched(call[2])
  BY CheckedBare, UncheckedFits DEF servers_client_qos, Calls, servers_metadata_schema

LEMMA services_client_matched ==
  \A call \in services_client : WellMatched(call[2])
  BY AsListList200, AsDictObject200, UncheckedFits DEF services_client, Calls,
     services_schema

LEMMA tenant_networks_client_matched ==
  \A call \in tenant_networks_client : WellMatched(call[2])
  BY AsListList200, AsDictObject200 DEF tenant_networks_client, Calls,
     tenant_networks_schema

LEMMA tenant_usages_client_matched ==
  \A call \in tenant_usages_client : WellMatched(call[2])
<1>1. /\ Fits(tenant_usages_schema.list_tenant_usage)
      /\ "tenant_usages" \in tenant_usages_schema.list_tenant_usage.needs
  BY CodesFit DEF tenant_usages_schema, Fits, List, Schema, WithBody
<1>2. /\ Fits(tenant_usages_schema.get_tenant_usage)
      /\ "tenant_usage" \in tenant_usages_schema.get_tenant_usage.needs
  BY CodesFit DEF tenant_usages_schema, Fits, Object, Schema, WithBody
<1> QED BY <1>1, <1>2, CheckedFits DEF tenant_usages_client, Calls

LEMMA volumes_extensions_client_matched ==
  \A call \in volumes_extensions_client : WellMatched(call[2])
  BY AsListList200, AsDictObject200, CheckedBare DEF volumes_extensions_client, Calls,
     volumes_schema

LEMMA v2_identity_client_tenants_matched ==
  \A call \in v2_identity_client_tenants : WellMatched(call[2])
  BY LoadsFits, PlainFits DEF v2_identity_client_tenants, Calls

LEMMA v2_identity_client_users_matched ==
  \A call \in v2_identity_client_users : WellMatched(call[2])
  BY LoadsFits, PlainFits DEF v2_identity_client_users, Calls

LEMMA v2_identity_client_services_matched ==
  \A call \in v2_identity_client_services : WellMatched(call[2])
  BY LoadsFits, PlainFits DEF v2_identity_client_services, Calls

LEMMA credentials_client_matched ==
  \A call \in credentials_client : WellMatched(call[2])
  BY LoadsFits, PlainFits DEF credentials_client, Calls

LEMMA endpoints_client_matched ==
  \A call \in endpoints_client : WellMatched(call[2])
  BY LoadsFits, PlainFits DEF endpoints_client, Calls

LEMMA v3_identity_client_users_matched ==
  \A call \in v3_identity_client_users : WellMatched(call[2])
  BY LoadsFits, PlainFits DEF v3_identity_client_users, Calls

LEMMA v3_identity_client_projects_matched ==
  \A call \in v3_identity_client_projects : WellMatched(call[2])
  BY LoadsFits, PlainFits DEF v3_identity_client_projects, Calls

LEMMA v3_identity_client_domains_matched ==
  \A call \in v3_identity_client_domains : WellMatched(call[2])
  BY LoadsFits, PlainFits DEF v3_identity_client_domains, Calls

LEMMA v3_identity_client_groups_matched ==
  \A call \in v3_identity_client_groups : WellMatched(call[2])
  BY LoadsFits, PlainFits DEF v3_identity_client_groups, Calls

LEMMA v3_identity_client_trusts_matched ==
  \A call \in v3_identity_client_trusts : WellMatched(call[2])
  BY LoadsFits, PlainFits DEF v3_identity_client_trusts, Calls

LEMMA policy_client_matched ==
  \A call \in policy_client : WellMatched(call[2])
  BY LoadsFits, PlainFits DEF policy_client, Calls

LEMMA region_client_matched ==
  \A call \in region_client : WellMatched(call[2])
  BY LoadsFits, PlainFits DEF region_client, Calls

LEMMA v3_service_client_matched ==
  \A call \in v3_service_client : WellMatched(call[2])
  BY LoadsFits, PlainFits DEF v3_service_client, Calls

LEMMA v1_image_client_matched ==
  \A call \in v1_image_client : WellMatched(call[2])
  BY LoadsFits, PlainFits DEF v1_image_client, Calls

LEMMA v2_image_client_matched ==
  \A call \in v2_image_client : WellMatched(call[2])
  BY LoadsFits, PlainFits DEF v2_image_client, Calls

LEMMA network_client_matched ==
  \A call \in network_client : WellMatched(call[2])
  BY LoadsFits, PlainFits DEF network_client, Calls

LEMMA network_client_firewalls_matched ==
  \A call \in network_client_firewalls : WellMatched(call[2])
  BY LoadsFits, PlainFits DEF network_client_firewalls, Calls

LEMMA network_client_bulk_matched ==
  \A call \in network_client_bulk : WellMatched(call[2])
  BY LoadsFits DEF network_client_bulk, Calls

LEMMA network_client_routers_matched ==
  \A call \in network_client_routers : WellMatched(call[2])
  BY LoadsFits, PlainFits DEF network_client_routers, Calls

LEMMA network_client_agents_matched ==
  \A call \in network_client_agents : WellMatched(call[2])
  BY LoadsFits, PlainFits DEF network_client_agents, Calls

LEMMA volume_hosts_client_matched ==
  \A call \in volume_hosts_client : WellMatched(call[2])
  BY LoadsFits DEF volume_hosts_client, Calls

LEMMA volume_quotas_client_matched ==
  \A call \in volume_quotas_client : WellMatched(call[2])
  BY LoadsFits, PlainFits DEF volume_quotas_client, Calls

LEMMA volume_services_client_matched ==
  \A call \in volume_services_client : WellMatched(call[2])
  BY LoadsFits DEF volume_services_client, Calls

LEMMA volume_types_client_matched ==
  \A call \in volume_types_client : WellMatched(call[2])
  BY LoadsFits, PlainFits DEF volume_types_client, Calls

LEMMA cinder_availability_zone_client_matched ==
  \A call \in cinder_availability_zone_client : WellMatched(call[2])
  BY LoadsFits DEF cinder_availability_zone_client, Calls

LEMMA backups_client_matched ==
  \A call \in backups_client : WellMatched(call[2])
  BY LoadsFits, PlainFits DEF backups_client, Calls

LEMMA cinder_extensions_client_matched ==
  \A call \in cinder_extensions_client : WellMatched(call[2])
  BY LoadsFits DEF cinder_extensions_client, Calls

LEMMA qos_client_matched ==
  \A call \in qos_client : WellMatched(call[2])
  BY LoadsFits, PlainFits DEF qos_client, Calls

LEMMA snapshots_client_matched ==
  \A call \in snapshots_client : WellMatched(call[2])
  BY LoadsFits, PlainFits DEF snapshots_client, Calls

LEMMA snapshots_client_actions_matched ==
  \A call \in snapshots_client_actions : WellMatched(call[2])
  BY LoadsFits, PlainFits DEF snapshots_client_actions, Calls

LEMMA volumes_client_matched ==
  \A call \in volumes_client : WellMatched(call[2])
  BY LoadsFits, PlainFits DEF volumes_client, Calls

LEMMA volumes_client_actions_matched ==
  \A call \in volumes_client_actions : WellMatched(call[2])
  BY PlainFits DEF volumes_client_actions, Calls

LEMMA volumes_client_transfers_matched ==
  \A call \in volumes_client_transfers : WellMatched(call[2])
  BY LoadsFits, PlainFits DEF volumes_client_transfers, Calls

(***************************************************************************)
(* Every method of every client takes a code its service answers with, and *)
(* loads and takes apart only what such an answer must have.               *)
(***************************************************************************)
LEMMA RequestsMatched == \A shape \in Requests : WellMatched(shape)
BY agents_client_matched, aggregates_client_matched, nova_availability_zone_client_matched,
   baremetal_nodes_client_matched, certificates_client_matched,
   nova_extensions_client_matched, fixed_ips_client_matched, flavors_client_matched,
   floating_ip_pools_client_matched, floating_ips_bulk_client_matched,
   floating_ips_client_matched, hosts_client_matched, hypervisor_client_matched,
   images_client_matched, instance_usage_audit_log_client_matched,
   interfaces_client_matched, keypairs_client_matched, limits_client_matched,
   migrations_client_matched, networks_client_matched, quota_classes_client_matched,
   quotas_client_matched, security_group_default_rules_client_matched,
   security_group_rules_client_matched, security_groups_client_matched,
   server_groups_client_matched, servers_client_zones_matched, servers_client_matched,
   servers_client_actions_matched, servers_client_metadata_matched,
   servers_client_states_matched, servers_client_qos_matched, services_client_matched,
   tenant_networks_client_matched, tenant_usages_client_matched,
   volumes_extensions_client_matched, v2_identity_client_tenants_matched,
   v2_identity_client_users_matched, v2_identity_client_services_matched,
   credentials_client_matched, endpoints_client_matched, v3_identity_client_users_matched,
   v3_identity_client_projects_matched, v3_identity_client_domains_matched,
   v3_identity_client_groups_matched, v3_identity_client_trusts_matched,
   policy_client_matched, region_client_matched, v3_service_client_matched,
   v1_image_client_matched, v2_image_client_matched, network_client_matched,
   network_client_firewalls_matched, network_client_bulk_matched,
   network_client_routers_matched, network_client_agents_matched,
   volume_hosts_client_matched, volume_quotas_client_matched,
   volume_services_client_matched, volume_types_client_matched,
   cinder_availability_zone_client_matched, backups_client_matched,
   cinder_extensions_client_matched, qos_client_matched, snapshots_client_matched,
   snapshots_client_actions_matched, volumes_client_matched, volumes_client_actions_matched,
   volumes_client_transfers_matched DEF Requests

(***************************************************************************)
(* What is left when a service did what it was asked and said so properly. *)
(***************************************************************************)
Reported == {"returned", "IndexError", "ValueError of update"}

LEMMA ProperAnswerReported ==
  ASSUME NEW shape \in Requests, NEW a \in AnswersTo(shape), ~Odd(shape, a)
  PROVE  Outcome(shape, a) \in Reported
<1>1. WellMatched(shape)
  BY RequestsMatched
<1>2. /\ a.status \in shape.codes /\ \A code \in shape.codes : ~(code < a.status)
      /\ a.body \in IF a.status = 204 \/ shape.verb = "HEAD" \/ shape.body = "none"
                    THEN {"none"} ELSE {"object", "least"}
  BY DEF Odd
<1>3. a.status \in Nat /\ a.status < 400
  BY <1>1, <1>2 DEF WellMatched, Successes
<1>4. shape.body = "json" => a.status # 204 /\ shape.verb # "HEAD"
  BY <1>1, <1>2, <1>3 DEF WellMatched, WithBody, Successes
<1>5. shape.body = "json" => a.body \notin {"none", "text"}
  BY <1>2, <1>4
<1>6. shape.checked => validate_response(shape.schema, a.body)
  BY <1>1, <1>2, <1>4 DEF WellMatched, validate_response
<1>7. ~(a.body = "least" /\ ~(shape.takes \subseteq shape.schema.needs))
  BY <1>1 DEF WellMatched, AnswersTo
<1>8. Succeeded(shape, a) \in Reported
  BY <1>2, <1>5, <1>6, <1>7 DEF Succeeded, expected_success, ResponseBody, Reported
<1> QED
  BY <1>2, <1>3, <1>8 DEF Outcome, response_checker

(***************************************************************************)
(* One request of a call is done at most, while the call runs none is; and *)
(* the verdict on a proper answer is one of those above.                   *)
(***************************************************************************)
DoneOnce ==
  /\ rq.done \in {0, 1} /\ (phase # "idle" => rq.done = 0)
  /\ rq.done > 0 /\ ~rq.odd /\ phase = "idle" => rq.outcome \in Reported

LEMMA ThrowKeepsDone ==
  ASSUME RestInv, DoneOnce, phase # "idle", NEW what, Throw(what)
  PROVE  DoneOnce'
BY DEF Throw, DoneOnce, RestInv, RestTypes

(***************************************************************************)
(* A request that is repeated was answered 413, and has not been done.     *)
(***************************************************************************)
LEMMA raw_requestKeepsDone == ASSUME RestInv, DoneOnce, raw_request PROVE DoneOnce'
<1>1. PICK d \in 0..Latency, v \in Verdicts, did \in {0, 1} :
        LET again == v.again /\ rq.retry < MAX_RECURSION_DEPTH
        IN  /\ wire.left <= d => v.status = 401
            /\ wire.token = "other" => v.status \in 400..499
            /\ v.status < 400 => did = 1
            /\ v.status \in 400..499 => did = 0
            /\ cache' = Age(cache, d)
            /\ phase' = IF again THEN "sleep" ELSE "idle"
            /\ rq' = [rq EXCEPT !.done = @ + did, !.odd = v.odd,
                                !.outcome = IF again THEN "running" ELSE v.outcome]
  BY Zenon DEF raw_request
<1>2. PICK shape \in Requests : \E a \in AnswersTo(shape) : v = Verdict(shape, a)
  BY DEF Verdicts
<1>3. v.again => v.status = 413
  <2>1. PICK a \in AnswersTo(shape) : v = Verdict(shape, a)
    BY <1>2
  <2>2. v.status = a.status /\ (v.again => a.status = 413)
    BY <2>1 DEF Verdict
  <2> QED
    BY <2>2
<1>4. ~v.odd => v.outcome \in Reported
  BY <1>2, ProperAnswerReported DEF Verdict
<1>5. rq.done = 0
  BY DEF raw_request, DoneOnce
<1>6. CASE v.again /\ rq.retry < MAX_RECURSION_DEPTH
  <2>1. did = 0
    BY <1>1, <1>3, <1>6
  <2>2. rq'.done = 0
    BY <1>1, <1>5, <2>1 DEF RestInv, RestTypes
  <2> QED
    BY <2>2 DEF DoneOnce
<1>7. CASE ~(v.again /\ rq.retry < MAX_RECURSION_DEPTH)
  <2>1. phase' = "idle" /\ rq'.outcome = v.outcome /\ rq'.odd = v.odd /\ rq'.done = did
    BY <1>1, <1>5, <1>7 DEF RestInv, RestTypes
  <2> QED
    BY <1>4, <2>1 DEF DoneOnce
<1> QED
  BY <1>6, <1>7

LEMMA NextDoneOnce == RestInv /\ DoneOnce /\ [RestNext]_restVars => DoneOnce'
<1> SUFFICES ASSUME RestInv, DoneOnce, [RestNext]_restVars PROVE DoneOnce'
  OBVIOUS
<1>1. CASE request
  BY <1>1 DEF request, NoRequest, DoneOnce
<1>2. CASE set_auth
  <2>1. phase = "auth"
    BY <1>2 DEF set_auth
  <2>2. Throw("KeyError") \/ UNCHANGED rq
    BY <1>2 DEF set_auth
  <2>3. Throw("KeyError") => DoneOnce'
    BY <2>1, ThrowKeepsDone
  <2>4. UNCHANGED rq => DoneOnce'
    BY <2>1 DEF DoneOnce
  <2> QED
    BY <2>2, <2>3, <2>4
<1>3. CASE get_token_fails
  BY <1>3, ThrowKeepsDone DEF get_token_fails
<1>4. CASE auth_request
  <2>1. phase # "idle"
    BY <1>4 DEF auth_request
  <2>2. (\E what : Throw(what)) \/ UNCHANGED rq
    BY <1>4 DEF auth_request
  <2>3. (\E what : Throw(what)) => DoneOnce'
    BY <2>1, ThrowKeepsDone
  <2>4. UNCHANGED rq => DoneOnce'
    BY <2>1 DEF DoneOnce
  <2> QED
    BY <2>2, <2>3, <2>4
<1>5. CASE raw_request
  BY <1>5, raw_requestKeepsDone
<1>6. CASE retry_after
  BY <1>6 DEF retry_after, DoneOnce, RestInv, RestTypes
<1>7. CASE clear_auth \/ DefaultMoves \/ UNCHANGED restVars
  BY <1>7 DEF clear_auth, DefaultMoves, restVars, DoneOnce
<1> QED
  BY <1>1, <1>2, <1>3, <1>4, <1>5, <1>6, <1>7 DEF RestNext, InCall

(***************************************************************************)
(* expected_success, validate_response and the methods of all clients:     *)
(* what was done and properly answered is not taken for a failure, but for *)
(* the two kinds of methods, and nothing is done twice (raw_request and    *)
(* the recursion of request in rest_client.py).                            *)
(***************************************************************************)
THEOREM DoneIsReportedHolds == RestSpec => []DoneIsReported
<1>1. RestInit => DoneOnce
  BY DEF RestInit, NoRequest, DoneOnce
<1>2. RestSpec => []DoneOnce
  BY <1>1, NextDoneOnce, RestInvIsInvariant, PTL DEF RestSpec
<1>3. DoneOnce => DoneIsReported
  <2> SUFFICES ASSUME DoneOnce PROVE DoneIsReported
    OBVIOUS
  <2>1. rq.done <= 1
    BY DEF DoneOnce
  <2>2. rq.done > 0 /\ ~rq.odd /\ phase = "idle" => rq.outcome \in Reported
    BY DEF DoneOnce
  <2> QED
    BY <2>1, <2>2, Zenon DEF DoneIsReported, Reported
<1> QED
  BY <1>2, <1>3, PTL

-----------------------------------------------------------------------------
(***************************************************************************)
(* The pool moves as PoolNext says, or not at all: the isolated tenants,   *)
(* a call and a loop leave it alone.                                       *)
(***************************************************************************)
LEMMA FramePoolStep == [FrameNext]_frameVars => [PoolNext]_poolVars
<1>1. CASE OnlyCreds(get_isolated_credentials)
  BY <1>1 DEF OnlyCreds, get_isolated_credentials
<1>2. CASE OnlyCall(RestNext) \/ OnlyWait(WaitSteps \/ Moves)
  BY <1>2 DEF OnlyCall, OnlyWait, credVars
<1>3. CASE OnlyTest(BasesSteps \/ DeletionDone) \/ OnlyFields(FieldsNext)
  BY <1>3 DEF OnlyTest, OnlyFields, credVars
<1>4. CASE UNCHANGED frameVars
  BY <1>4 DEF frameVars, credVars
<1> QED
  BY <1>1, <1>2, <1>3, <1>4 DEF FrameNext

(***************************************************************************)
(* A call moves as RestNext says; the other parts leave the client alone.  *)
(***************************************************************************)
LEMMA FrameRestStep == [FrameNext]_frameVars => [RestNext]_restVars
<1>1. CASE OnlyCreds(get_isolated_credentials) \/ OnlyWait(WaitSteps \/ Moves)
  BY <1>1 DEF OnlyCreds, OnlyWait
<1>2. CASE OnlyCall(RestNext)
  BY <1>2 DEF OnlyCall
<1>3. CASE OnlyTest(BasesSteps \/ DeletionDone) \/ OnlyFields(FieldsNext)
  BY <1>3 DEF OnlyTest, OnlyFields
<1>4. CASE UNCHANGED frameVars
  BY <1>4 DEF frameVars
<1> QED
  BY <1>1, <1>2, <1>3, <1>4 DEF FrameNext

(***************************************************************************)
(* The framework implements the account pool (cred_provider.py and         *)
(* accounts.py).                                                           *)
(***************************************************************************)
THEOREM FrameworkImplementsPool == FrameSpec => PoolSpec
<1>1. FrameInit => PoolInit
  BY DEF FrameInit, CredInit, CredIdle
<1> QED
  BY <1>1, FramePoolStep, PTL DEF FrameSpec, PoolSpec

(***************************************************************************)
(* The framework implements the REST client (rest_client.py and auth.py).  *)
(***************************************************************************)
THEOREM FrameworkImplementsRestClient == FrameSpec => RestSpec
<1>1. FrameInit => RestInit
  BY DEF FrameInit, RestIdle
<1> QED
  BY <1>1, FrameRestStep, PTL DEF FrameSpec, RestSpec
-----------------------------------------------------------------------------
(***************************************************************************)
(* The waiting loops (Waiters), for every timeout of whole seconds, every  *)
(* interval and every delay of the answers.  The invariant says for each   *)
(* step of each loop how much time may have passed since the loop began,   *)
(* and how long the state that is waited for may have been there unread.   *)
(***************************************************************************)
Waiting == {"server", "image", "volume", "backup", "bm_node", "deletion", "backup_deletion",
            "qos", "termination", "network", "snapshot", "image_v1"}

Passed  == now - start
Up      == build_timeout - 1
Rounds(i, j) == i * build_interval + j * MaxAnswer

\* the state waited for, unless it was read, came after the last answer was on its way
Behind(slack) == resource = Goal /\ read # Goal => since >= now - slack - MaxAnswer

\* the loops of waiters.py and of the backups: the clock is looked at in the last step
PollInv(sixth, last) ==
  /\ at \in 1..last
  /\ at \in 3..4 => Passed <= Up
  /\ at = 5 => Passed <= Up + Rounds(1, 0)
  /\ at > 5 => Passed <= Up + Rounds(1, 1)
  /\ at \in 2..4 \/ at > 5 => Behind(0)
  /\ at = 4 => read # Goal
  /\ at = 5 => read # Goal /\ Behind(build_interval)
  /\ at > 5 => (resource = Goal => since >= now - Rounds(1, 2))
  /\ at > 6 => IF sixth = "error" THEN read # "error" ELSE read # Goal
  /\ at > 7 => read # Goal

\* the deletions: the clock is looked at in the last step but one
DeletionInv(last) ==
  /\ at \in 1..last
  /\ at = 2 => Passed <= Up + Rounds(1, 0)
  /\ at \in 3..(last - 1) => Passed <= Up + Rounds(1, 1) /\ Behind(0)
  /\ at = last => Passed <= Up
  /\ at > 3 => read # Goal
  /\ at > 4 /\ last = 6 => read # "error"

NetworkInv ==
  /\ at \in 1..5
  /\ at = 2 => \/ Passed = 0
               \/ /\ Passed <= build_timeout + Rounds(1, 1)
                  /\ read # Goal /\ Behind(build_interval)
  /\ at = 3 => Passed <= build_timeout
  /\ at \in 4..5 => Passed <= build_timeout + Rounds(0, 1) /\ Behind(0)
  /\ at = 5 => read # Goal

\* the two that keep the elapsed time from step note to step noted
Noted(note) ==
  /\ at \in (note + 1)..(note + 4) => dtime <= build_timeout + Rounds(2, 1)
  /\ at = note + 1 => Passed = dtime
  /\ at \in (note + 2)..(note + 4) => Passed = dtime + build_interval
  /\ at \in (note + 1)..(note + 4) =>
       (resource = Goal /\ read # Goal => since - start >= dtime - MaxAnswer)

SnapshotInv ==
  /\ at \in 1..10
  /\ at = 2 => Passed = 0
  /\ at \in {3, 4, 10} => Passed <= build_timeout + Rounds(2, 1) /\ Behind(0)
  /\ at \in 4..7 => read # "error"
  /\ at \in 5..7 => Noted(4)
  /\ at = 7 => read # Goal
  /\ at = 8 => Passed <= build_timeout + Rounds(1, 0)
  /\ at = 9 => Passed <= build_timeout + Rounds(2, 0)

ImageV1Inv ==
  /\ at \in 1..9
  /\ at = 2 => Passed = 0
  /\ at = 3 => Passed <= build_timeout + Rounds(2, 1) /\ Behind(0)
  /\ at \in 4..7 => Noted(3)
  /\ at \in 6..7 => read # Goal
  /\ at = 7 => read # "error"
  /\ at = 8 => Passed <= build_timeout + Rounds(1, 0)
  /\ at = 9 => Passed <= build_timeout + Rounds(2, 0)

LoopInv ==
  /\ waiter \in {"server", "volume", "backup"} => PollInv("error", 7)
  /\ waiter = "image" => PollInv("error", 8)
  /\ waiter = "bm_node" => PollInv("target", 7)
  /\ waiter \in {"deletion", "backup_deletion", "qos"} => DeletionInv(5)
  /\ waiter = "termination" => DeletionInv(6)
  /\ waiter = "network" => NetworkInv
  /\ waiter = "snapshot" => SnapshotInv
  /\ waiter = "image_v1" => ImageV1Inv

WaitTypes ==
  /\ waiter \in Waiting \cup {"none"}
  /\ {at, since, now, start, dtime} \subseteq Nat /\ start <= now
  /\ at > 0 => waiter # "none" /\ ended = "running"
  /\ read \in {"unread", "pending", "target", "busy", "error", "gone"}
  /\ resource \in {"pending", "target", "busy", "error", "gone"}

WaitInv ==
  /\ WaitTypes
  /\ at > 0 => LoopInv
  /\ at = 0 => Timeouts

(***************************************************************************)
(* The steps of each loop, as its sequence gives them.                     *)
(***************************************************************************)
LEMMA LoopSteps ==
  /\ DOMAIN Loops = Waiting
  /\ \A w \in {"server", "volume", "backup"} :
       Loops[w] = Loop(<<"read", "clock", "target", "sleep", "read", "error", "late">>, 3)
  /\ Loops["image"] =
       Loop(<<"read", "clock", "target", "sleep", "read", "error", "target", "late">>, 3)
  /\ Loops["bm_node"] =
       Loop(<<"read", "clock", "target", "sleep", "read", "target", "late">>, 3)
  /\ \A w \in {"deletion", "backup_deletion", "qos"} :
       Loops[w] = Loop(<<"clock", "read", "target", "late", "sleep">>, 2)
  /\ Loops["termination"] =
       Loop(<<"clock", "read", "target", "error", "late", "sleep">>, 2)
  /\ Loops["network"] =
       Loop(<<"clock", "over", "read", "target", "sleep">>, 2)
  /\ Loops["snapshot"] =
       Loop(<<"clock", "read", "error", "note", "sleep", "target", "noted", "sleep", "read",
          "error">>, 4)
  /\ Loops["image_v1"] =
       Loop(<<"clock", "read", "note", "sleep", "target", "error", "noted", "sleep", "read">>, 3)
BY DEF Loops, Waiting, wait_for_server_status, wait_for_image_status, wait_for_volume_status,
       wait_for_bm_node_status, wait_for_backup_status, wait_for_resource_deletion,
       wait_for_backup_deletion, wait_for_qos_operations, wait_for_server_termination,
       wait_for_resource_status, wait_for_snapshot_status, wait_for_image_status_v1

(***************************************************************************)
(* The name of the step at hand tells what the loop does.                  *)
(***************************************************************************)
LEMMA WhichStep ==
  ASSUME WaitSteps
  PROVE  /\ Step("read") => show \/ show_raises
         /\ Step("clock") => take_time
         /\ Step("note") => take_dtime
         /\ Step("sleep") => sleep
         /\ Step("target") => look_for_target
         /\ Step("error") => look_for_error
         /\ Step("late") => look_at_clock
         /\ Step("noted") => look_at_dtime
         /\ Step("over") => look_at_time
BY DEF WaitSteps, show, show_raises, take_time, take_dtime, sleep, look_for_target,
       look_for_error, look_at_clock, look_at_dtime, look_at_time, look, Step

(***************************************************************************)
(* What a step of a loop has to lead to: the end, for a good reason, or    *)
(* another step.                                                           *)
(***************************************************************************)
Over == at' = 0 /\ Timeouts'
On   == at' > 0 /\ ended' = "running" /\ waiter' = waiter

(***************************************************************************)
(* A loop that ends otherwise than by its timeout has nothing to explain.  *)
(***************************************************************************)
LEMMA OtherEnds ==
  ASSUME at' = 0, ended' # "timeout"
  PROVE  Over
BY DEF Over, Timeouts, GivesUpInTime, NothingMissed

(***************************************************************************)
(* int() of a difference of times: up when the half seconds are, but for   *)
(* the last one.                                                           *)
(***************************************************************************)
LEMMA ClockInSeconds ==
  ASSUME NEW t \in Nat, NEW u \in Nat, u <= t
  PROVE  /\ Seconds(t) - Seconds(u) >= Seconds(build_timeout) => t - u > build_timeout - 2
         /\ ~(Seconds(t) - Seconds(u) >= Seconds(build_timeout)) => t - u <= build_timeout - 1
BY WaitAssumption DEF Seconds

(***************************************************************************)
(* The loops that know the error of the resource.                          *)
(***************************************************************************)
LEMMA FailingLoops ==
  Failing = {"server", "image", "volume", "backup", "termination", "snapshot", "image_v1"}
<1>1. \A w \in Failing : w \in {"server", "image", "volume", "backup", "termination", "snapshot",
   "image_v1"}
  <2> SUFFICES ASSUME NEW w \in Waiting, NEW i \in DOMAIN Loops[w].steps, Loops[w].steps[i] =
     "error"
               PROVE  w \in {"server", "image", "volume", "backup", "termination", "snapshot",
                  "image_v1"}
    BY LoopSteps DEF Failing
  <2>1. w = "bm_node" => FALSE
    BY LoopSteps DEF Loop
  <2>2. w \in {"deletion", "backup_deletion", "qos"} => FALSE
    BY LoopSteps DEF Loop
  <2>3. w = "network" => FALSE
    BY LoopSteps DEF Loop
  <2> QED  BY <2>1, <2>2, <2>3 DEF Waiting
<1>2. \A w \in {"server", "volume", "backup", "image"} : Loops[w].steps[6] = "error" /\ 6 \in
   DOMAIN Loops[w].steps
  BY LoopSteps DEF Loop
<1>3. Loops["termination"].steps[4] = "error" /\ 4 \in DOMAIN Loops["termination"].steps
  BY LoopSteps DEF Loop
<1>4. Loops["snapshot"].steps[3] = "error" /\ 3 \in DOMAIN Loops["snapshot"].steps
  BY LoopSteps DEF Loop
<1>5. Loops["image_v1"].steps[6] = "error" /\ 6 \in DOMAIN Loops["image_v1"].steps
  BY LoopSteps DEF Loop
<1> QED  BY <1>1, <1>2, <1>3, <1>4, <1>5, LoopSteps DEF Failing, Waiting

(***************************************************************************)
(* The loops for servers, volumes and backups.                             *)
(***************************************************************************)
LEMMA PollStep ==
  ASSUME WaitTypes, waiter \in {"server", "volume", "backup"}, at > 0, PollInv("error", 7),
         WaitSteps \/ Moves
  PROVE  Over \/ (On /\ PollInv("error", 7)')
<1>1. /\ Steps = <<"read", "clock", "target", "sleep", "read", "error", "late">>
      /\ Loops[waiter].again = 3
  BY LoopSteps DEF Steps, Loop
<1>2. /\ Len(Steps) = 7
      /\ Steps[1] = "read" /\ Steps[2] = "clock" /\ Steps[3] = "target" /\ Steps[4] = "sleep"
      /\ Steps[5] = "read" /\ Steps[6] = "error" /\ Steps[7] = "late"
  BY <1>1
<1>3. CASE Moves
  BY <1>3, WaitAssumption DEF On, WaitTypes, PollInv, Moves, MovesAt, Behind, Passed, Up, Rounds,
     Goal
<1>4. CASE at = 1 /\ WaitSteps
  <2>1. show \/ show_raises
    BY <1>4, <1>2, WhichStep DEF Step
  <2>2. CASE show_raises
    BY <2>2, OtherEnds DEF show_raises, End
  <2>3. CASE show
    BY <2>3, <1>4, <1>1, <1>2, WaitAssumption
       DEF On, WaitTypes, PollInv, Behind, Passed, Up, Rounds, Goal, Go, Next, show, MovesAt
  <2> QED  BY <2>1, <2>2, <2>3
<1>5. CASE at = 2 /\ WaitSteps
  <2>1. take_time
    BY <1>5, <1>2, WhichStep DEF Step
  <2> QED  BY <2>1, <1>5, <1>1, <1>2, OtherEnds, WaitAssumption
           DEF On, WaitTypes, PollInv, Behind, Passed, Up, Rounds, Goal, Go, Next, End, take_time
<1>6. CASE at = 3 /\ WaitSteps
  <2>1. look_for_target
    BY <1>6, <1>2, WhichStep DEF Step
  <2> QED  BY <2>1, <1>6, <1>1, <1>2, OtherEnds, WaitAssumption
           DEF On, WaitTypes, PollInv, Behind, Passed, Up, Rounds, Goal, Go, Next, End,
               look_for_target, look
<1>7. CASE at = 4 /\ WaitSteps
  <2>1. sleep
    BY <1>7, <1>2, WhichStep DEF Step
  <2> QED  BY <2>1, <1>7, <1>1, <1>2, OtherEnds, WaitAssumption
           DEF On, WaitTypes, PollInv, Behind, Passed, Up, Rounds, Goal, Go, Next, End, sleep
<1>8. CASE at = 5 /\ WaitSteps
  <2>1. show \/ show_raises
    BY <1>8, <1>2, WhichStep DEF Step
  <2>2. CASE show_raises
    BY <2>2, OtherEnds DEF show_raises, End
  <2>3. CASE show
    BY <2>3, <1>8, <1>1, <1>2, WaitAssumption
       DEF On, WaitTypes, PollInv, Behind, Passed, Up, Rounds, Goal, Go, Next, show, MovesAt
  <2> QED  BY <2>1, <2>2, <2>3
<1>9. CASE at = 6 /\ WaitSteps
  <2>1. look_for_error
    BY <1>9, <1>2, WhichStep DEF Step
  <2> QED  BY <2>1, <1>9, <1>1, <1>2, OtherEnds, WaitAssumption
           DEF On, WaitTypes, PollInv, Behind, Passed, Up, Rounds, Goal, Go, Next, End,
               look_for_error, look
<1>10. CASE at = 7 /\ WaitSteps
  <2>1. look_at_clock
    BY <1>10, <1>2, WhichStep DEF Step
  <2> QED  BY <2>1, <1>10, <1>1, <1>2, OtherEnds, WaitAssumption, ClockInSeconds, FailingLoops
           DEF On, WaitTypes, PollInv, Behind, Passed, Up, Rounds, Goal, Go, Next, End,
               look_at_clock, look, timed_out, Timeouts, GivesUpInTime, NothingMissed, Over, Gap
<1> QED  BY <1>3, <1>4, <1>5, <1>6, <1>7, <1>8, <1>9, <1>10 DEF WaitTypes, PollInv

(***************************************************************************)
(* The loop for images looks at the target once more before the clock.     *)
(***************************************************************************)
LEMMA ImageStep ==
  ASSUME WaitTypes, waiter = "image", at > 0, PollInv("error", 8),
         WaitSteps \/ Moves
  PROVE  Over \/ (On /\ PollInv("error", 8)')
<1>1. /\ Steps = <<"read", "clock", "target", "sleep", "read", "error", "target", "late">>
      /\ Loops[waiter].again = 3
  BY LoopSteps DEF Steps, Loop
<1>2. /\ Len(Steps) = 8
      /\ Steps[1] = "read" /\ Steps[2] = "clock" /\ Steps[3] = "target" /\ Steps[4] = "sleep"
      /\ Steps[5] = "read" /\ Steps[6] = "error" /\ Steps[7] = "target" /\ Steps[8] = "late"
  BY <1>1
<1>3. CASE Moves
  BY <1>3, WaitAssumption DEF On, WaitTypes, PollInv, Moves, MovesAt, Behind, Passed, Up, Rounds,
     Goal
<1>4. CASE at = 1 /\ WaitSteps
  <2>1. show \/ show_raises
    BY <1>4, <1>2, WhichStep DEF Step
  <2>2. CASE show_raises
    BY <2>2, OtherEnds DEF show_raises, End
  <2>3. CASE show
    BY <2>3, <1>4, <1>1, <1>2, WaitAssumption
       DEF On, WaitTypes, PollInv, Behind, Passed, Up, Rounds, Goal, Go, Next, show, MovesAt
  <2> QED  BY <2>1, <2>2, <2>3
<1>5. CASE at = 2 /\ WaitSteps
  <2>1. take_time
    BY <1>5, <1>2, WhichStep DEF Step
  <2> QED  BY <2>1, <1>5, <1>1, <1>2, OtherEnds, WaitAssumption
           DEF On, WaitTypes, PollInv, Behind, Passed, Up, Rounds, Goal, Go, Next, End, take_time
<1>6. CASE at = 3 /\ WaitSteps
  <2>1. look_for_target
    BY <1>6, <1>2, WhichStep DEF Step
  <2> QED  BY <2>1, <1>6, <1>1, <1>2, OtherEnds, WaitAssumption
           DEF On, WaitTypes, PollInv, Behind, Passed, Up, Rounds, Goal, Go, Next, End,
               look_for_target, look
<1>7. CASE at = 4 /\ WaitSteps
  <2>1. sleep
    BY <1>7, <1>2, WhichStep DEF Step
  <2> QED  BY <2>1, <1>7, <1>1, <1>2, OtherEnds, WaitAssumption
           DEF On, WaitTypes, PollInv, Behind, Passed, Up, Rounds, Goal, Go, Next, End, sleep
<1>8. CASE at = 5 /\ WaitSteps
  <2>1. show \/ show_raises
    BY <1>8, <1>2, WhichStep DEF Step
  <2>2. CASE show_raises
    BY <2>2, OtherEnds DEF show_raises, End
  <2>3. CASE show
    BY <2>3, <1>8, <1>1, <1>2, WaitAssumption
       DEF On, WaitTypes, PollInv, Behind, Passed, Up, Rounds, Goal, Go, Next, show, MovesAt
  <2> QED  BY <2>1, <2>2, <2>3
<1>9. CASE at = 6 /\ WaitSteps
  <2>1. look_for_error
    BY <1>9, <1>2, WhichStep DEF Step
  <2> QED  BY <2>1, <1>9, <1>1, <1>2, OtherEnds, WaitAssumption
           DEF On, WaitTypes, PollInv, Behind, Passed, Up, Rounds, Goal, Go, Next, End,
               look_for_error, look
<1>10. CASE at = 7 /\ WaitSteps
  <2>1. look_for_target
    BY <1>10, <1>2, WhichStep DEF Step
  <2> QED  BY <2>1, <1>10, <1>1, <1>2, OtherEnds, WaitAssumption
           DEF On, WaitTypes, PollInv, Behind, Passed, Up, Rounds, Goal, Go, Next, End,
               look_for_target, look
<1>11. CASE at = 8 /\ WaitSteps
  <2>1. look_at_clock
    BY <1>11, <1>2, WhichStep DEF Step
  <2> QED  BY <2>1, <1>11, <1>1, <1>2, OtherEnds, WaitAssumption, ClockInSeconds, FailingLoops
           DEF On, WaitTypes, PollInv, Behind, Passed, Up, Rounds, Goal, Go, Next, End,
               look_at_clock, look, timed_out, Timeouts, GivesUpInTime, NothingMissed, Over, Gap
<1> QED  BY <1>3, <1>4, <1>5, <1>6, <1>7, <1>8, <1>9, <1>10, <1>11 DEF WaitTypes, PollInv

(***************************************************************************)
(* The loop for bare metal nodes knows no error.                           *)
(***************************************************************************)
LEMMA NodeStep ==
  ASSUME WaitTypes, waiter = "bm_node", at > 0, PollInv("target", 7),
         WaitSteps \/ Moves
  PROVE  Over \/ (On /\ PollInv("target", 7)')
<1>1. /\ Steps = <<"read", "clock", "target", "sleep", "read", "target", "late">>
      /\ Loops[waiter].again = 3
  BY LoopSteps DEF Steps, Loop
<1>2. /\ Len(Steps) = 7
      /\ Steps[1] = "read" /\ Steps[2] = "clock" /\ Steps[3] = "target" /\ Steps[4] = "sleep"
      /\ Steps[5] = "read" /\ Steps[6] = "target" /\ Steps[7] = "late"
  BY <1>1
<1>3. CASE Moves
  BY <1>3, WaitAssumption DEF On, WaitTypes, PollInv, Moves, MovesAt, Behind, Passed, Up, Rounds,
     Goal
<1>4. CASE at = 1 /\ WaitSteps
  <2>1. show \/ show_raises
    BY <1>4, <1>2, WhichStep DEF Step
  <2>2. CASE show_raises
    BY <2>2, OtherEnds DEF show_raises, End
  <2>3. CASE show
    BY <2>3, <1>4, <1>1, <1>2, WaitAssumption
       DEF On, WaitTypes, PollInv, Behind, Passed, Up, Rounds, Goal, Go, Next, show, MovesAt
  <2> QED  BY <2>1, <2>2, <2>3
<1>5. CASE at = 2 /\ WaitSteps
  <2>1. take_time
    BY <1>5, <1>2, WhichStep DEF Step
  <2> QED  BY <2>1, <1>5, <1>1, <1>2, OtherEnds, WaitAssumption
           DEF On, WaitTypes, PollInv, Behind, Passed, Up, Rounds, Goal, Go, Next, End, take_time
<1>6. CASE at = 3 /\ WaitSteps
  <2>1. look_for_target
    BY <1>6, <1>2, WhichStep DEF Step
  <2> QED  BY <2>1, <1>6, <1>1, <1>2, OtherEnds, WaitAssumption
           DEF On, WaitTypes, PollInv, Behind, Passed, Up, Rounds, Goal, Go, Next, End,
               look_for_target, look
<1>7. CASE at = 4 /\ WaitSteps
  <2>1. sleep
    BY <1>7, <1>2, WhichStep DEF Step
  <2> QED  BY <2>1, <1>7, <1>1, <1>2, OtherEnds, WaitAssumption
           DEF On, WaitTypes, PollInv, Behind, Passed, Up, Rounds, Goal, Go, Next, End, sleep
<1>8. CASE at = 5 /\ WaitSteps
  <2>1. show \/ show_raises
    BY <1>8, <1>2, WhichStep DEF Step
  <2>2. CASE show_raises
    BY <2>2, OtherEnds DEF show_raises, End
  <2>3. CASE show
    BY <2>3, <1>8, <1>1, <1>2, WaitAssumption
       DEF On, WaitTypes, PollInv, Behind, Passed, Up, Rounds, Goal, Go, Next, show, MovesAt
  <2> QED  BY <2>1, <2>2, <2>3
<1>9. CASE at = 6 /\ WaitSteps
  <2>1. look_for_target
    BY <1>9, <1>2, WhichStep DEF Step
  <2> QED  BY <2>1, <1>9, <1>1, <1>2, OtherEnds, WaitAssumption
           DEF On, WaitTypes, PollInv, Behind, Passed, Up, Rounds, Goal, Go, Next, End,
               look_for_target, look
<1>10. CASE at = 7 /\ WaitSteps
  <2>1. look_at_clock
    BY <1>10, <1>2, WhichStep DEF Step
  <2> QED  BY <2>1, <1>10, <1>1, <1>2, OtherEnds, WaitAssumption, ClockInSeconds, FailingLoops
           DEF On, WaitTypes, PollInv, Behind, Passed, Up, Rounds, Goal, Go, Next, End,
               look_at_clock, look, timed_out, Timeouts, GivesUpInTime, NothingMissed, Over, Gap
<1> QED  BY <1>3, <1>4, <1>5, <1>6, <1>7, <1>8, <1>9, <1>10 DEF WaitTypes, PollInv

(***************************************************************************)
(* The loops that wait for a deletion, and the one for QoS operations.     *)
(***************************************************************************)
LEMMA DeletionStep ==
  ASSUME WaitTypes, waiter \in {"deletion", "backup_deletion", "qos"}, at > 0, DeletionInv(5),
         WaitSteps \/ Moves
  PROVE  Over \/ (On /\ DeletionInv(5)')
<1>1. /\ Steps = <<"clock", "read", "target", "late", "sleep">>
      /\ Loops[waiter].again = 2
  BY LoopSteps DEF Steps, Loop
<1>2. /\ Len(Steps) = 5
      /\ Steps[1] = "clock" /\ Steps[2] = "read" /\ Steps[3] = "target" /\ Steps[4] = "late"
      /\ Steps[5] = "sleep"
  BY <1>1
<1>3. CASE Moves
  BY <1>3, WaitAssumption DEF On, WaitTypes, DeletionInv, Moves, MovesAt, Behind, Passed, Up,
     Rounds, Goal
<1>4. CASE at = 1 /\ WaitSteps
  <2>1. take_time
    BY <1>4, <1>2, WhichStep DEF Step
  <2> QED  BY <2>1, <1>4, <1>1, <1>2, OtherEnds, WaitAssumption
           DEF On, WaitTypes, DeletionInv, Behind, Passed, Up, Rounds, Goal, Go, Next, End,
               take_time
<1>5. CASE at = 2 /\ WaitSteps
  <2>1. show \/ show_raises
    BY <1>5, <1>2, WhichStep DEF Step
  <2>2. CASE show_raises
    BY <2>2, OtherEnds DEF show_raises, End
  <2>3. CASE show
    BY <2>3, <1>5, <1>1, <1>2, WaitAssumption
       DEF On, WaitTypes, DeletionInv, Behind, Passed, Up, Rounds, Goal, Go, Next, show, MovesAt
  <2> QED  BY <2>1, <2>2, <2>3
<1>6. CASE at = 3 /\ WaitSteps
  <2>1. look_for_target
    BY <1>6, <1>2, WhichStep DEF Step
  <2> QED  BY <2>1, <1>6, <1>1, <1>2, OtherEnds, WaitAssumption
           DEF On, WaitTypes, DeletionInv, Behind, Passed, Up, Rounds, Goal, Go, Next, End,
               look_for_target, look
<1>7. CASE at = 4 /\ WaitSteps
  <2>1. look_at_clock
    BY <1>7, <1>2, WhichStep DEF Step
  <2> QED  BY <2>1, <1>7, <1>1, <1>2, OtherEnds, WaitAssumption, ClockInSeconds, FailingLoops
           DEF On, WaitTypes, DeletionInv, Behind, Passed, Up, Rounds, Goal, Go, Next, End,
               look_at_clock, look, timed_out, Timeouts, GivesUpInTime, NothingMissed, Over, Gap
<1>8. CASE at = 5 /\ WaitSteps
  <2>1. sleep
    BY <1>8, <1>2, WhichStep DEF Step
  <2> QED  BY <2>1, <1>8, <1>1, <1>2, OtherEnds, WaitAssumption
           DEF On, WaitTypes, DeletionInv, Behind, Passed, Up, Rounds, Goal, Go, Next, End, sleep
<1> QED  BY <1>3, <1>4, <1>5, <1>6, <1>7, <1>8 DEF WaitTypes, DeletionInv

(***************************************************************************)
(* The loop that waits until a server is gone.                             *)
(***************************************************************************)
LEMMA TerminationStep ==
  ASSUME WaitTypes, waiter = "termination", at > 0, DeletionInv(6),
         WaitSteps \/ Moves
  PROVE  Over \/ (On /\ DeletionInv(6)')
<1>1. /\ Steps = <<"clock", "read", "target", "error", "late", "sleep">>
      /\ Loops[waiter].again = 2
  BY LoopSteps DEF Steps, Loop
<1>2. /\ Len(Steps) = 6
      /\ Steps[1] = "clock" /\ Steps[2] = "read" /\ Steps[3] = "target" /\ Steps[4] = "error"
      /\ Steps[5] = "late" /\ Steps[6] = "sleep"
  BY <1>1
<1>3. CASE Moves
  BY <1>3, WaitAssumption DEF On, WaitTypes, DeletionInv, Moves, MovesAt, Behind, Passed, Up,
     Rounds, Goal
<1>4. CASE at = 1 /\ WaitSteps
  <2>1. take_time
    BY <1>4, <1>2, WhichStep DEF Step
  <2> QED  BY <2>1, <1>4, <1>1, <1>2, OtherEnds, WaitAssumption
           DEF On, WaitTypes, DeletionInv, Behind, Passed, Up, Rounds, Goal, Go, Next, End,
               take_time
<1>5. CASE at = 2 /\ WaitSteps
  <2>1. show \/ show_raises
    BY <1>5, <1>2, WhichStep DEF Step
  <2>2. CASE show_raises
    BY <2>2, OtherEnds DEF show_raises, End
  <2>3. CASE show
    BY <2>3, <1>5, <1>1, <1>2, WaitAssumption
       DEF On, WaitTypes, DeletionInv, Behind, Passed, Up, Rounds, Goal, Go, Next, show, MovesAt
  <2> QED  BY <2>1, <2>2, <2>3
<1>6. CASE at = 3 /\ WaitSteps
  <2>1. look_for_target
    BY <1>6, <1>2, WhichStep DEF Step
  <2> QED  BY <2>1, <1>6, <1>1, <1>2, OtherEnds, WaitAssumption
           DEF On, WaitTypes, DeletionInv, Behind, Passed, Up, Rounds, Goal, Go, Next, End,
               look_for_target, look
<1>7. CASE at = 4 /\ WaitSteps
  <2>1. look_for_error
    BY <1>7, <1>2, WhichStep DEF Step
  <2> QED  BY <2>1, <1>7, <1>1, <1>2, OtherEnds, WaitAssumption
           DEF On, WaitTypes, DeletionInv, Behind, Passed, Up, Rounds, Goal, Go, Next, End,
               look_for_error, look
<1>8. CASE at = 5 /\ WaitSteps
  <2>1. look_at_clock
    BY <1>8, <1>2, WhichStep DEF Step
  <2> QED  BY <2>1, <1>8, <1>1, <1>2, OtherEnds, WaitAssumption, ClockInSeconds, FailingLoops
           DEF On, WaitTypes, DeletionInv, Behind, Passed, Up, Rounds, Goal, Go, Next, End,
               look_at_clock, look, timed_out, Timeouts, GivesUpInTime, NothingMissed, Over, Gap
<1>9. CASE at = 6 /\ WaitSteps
  <2>1. sleep
    BY <1>9, <1>2, WhichStep DEF Step
  <2> QED  BY <2>1, <1>9, <1>1, <1>2, OtherEnds, WaitAssumption
           DEF On, WaitTypes, DeletionInv, Behind, Passed, Up, Rounds, Goal, Go, Next, End, sleep
<1> QED  BY <1>3, <1>4, <1>5, <1>6, <1>7, <1>8, <1>9 DEF WaitTypes, DeletionInv

(***************************************************************************)
(* The loop of the network client looks at the clock before it reads.      *)
(***************************************************************************)
LEMMA NetworkStep ==
  ASSUME WaitTypes, waiter = "network", at > 0, NetworkInv,
         WaitSteps \/ Moves
  PROVE  Over \/ (On /\ NetworkInv')
<1>1. /\ Steps = <<"clock", "over", "read", "target", "sleep">>
      /\ Loops[waiter].again = 2
  BY LoopSteps DEF Steps, Loop
<1>2. /\ Len(Steps) = 5
      /\ Steps[1] = "clock" /\ Steps[2] = "over" /\ Steps[3] = "read" /\ Steps[4] = "target"
      /\ Steps[5] = "sleep"
  BY <1>1
<1>3. CASE Moves
  BY <1>3, WaitAssumption DEF On, WaitTypes, NetworkInv, Moves, MovesAt, Behind, Passed, Up,
     Rounds, Goal
<1>4. CASE at = 1 /\ WaitSteps
  <2>1. take_time
    BY <1>4, <1>2, WhichStep DEF Step
  <2> QED  BY <2>1, <1>4, <1>1, <1>2, OtherEnds, WaitAssumption
           DEF On, WaitTypes, NetworkInv, Behind, Passed, Up, Rounds, Goal, Go, Next, End, take_time
<1>5. CASE at = 2 /\ WaitSteps
  <2>1. look_at_time
    BY <1>5, <1>2, WhichStep DEF Step
  <2> QED  BY <2>1, <1>5, <1>1, <1>2, OtherEnds, WaitAssumption, FailingLoops
           DEF On, WaitTypes, NetworkInv, Behind, Passed, Up, Rounds, Goal, Go, Next, End,
               look_at_time, look, Timeouts, GivesUpInTime, NothingMissed, Over, Gap
<1>6. CASE at = 3 /\ WaitSteps
  <2>1. show \/ show_raises
    BY <1>6, <1>2, WhichStep DEF Step
  <2>2. CASE show_raises
    BY <2>2, OtherEnds DEF show_raises, End
  <2>3. CASE show
    BY <2>3, <1>6, <1>1, <1>2, WaitAssumption
       DEF On, WaitTypes, NetworkInv, Behind, Passed, Up, Rounds, Goal, Go, Next, show, MovesAt
  <2> QED  BY <2>1, <2>2, <2>3
<1>7. CASE at = 4 /\ WaitSteps
  <2>1. look_for_target
    BY <1>7, <1>2, WhichStep DEF Step
  <2> QED  BY <2>1, <1>7, <1>1, <1>2, OtherEnds, WaitAssumption
           DEF On, WaitTypes, NetworkInv, Behind, Passed, Up, Rounds, Goal, Go, Next, End,
               look_for_target, look
<1>8. CASE at = 5 /\ WaitSteps
  <2>1. sleep
    BY <1>8, <1>2, WhichStep DEF Step
  <2> QED  BY <2>1, <1>8, <1>1, <1>2, OtherEnds, WaitAssumption
           DEF On, WaitTypes, NetworkInv, Behind, Passed, Up, Rounds, Goal, Go, Next, End, sleep
<1> QED  BY <1>3, <1>4, <1>5, <1>6, <1>7, <1>8 DEF WaitTypes, NetworkInv

(***************************************************************************)
(* The loop for snapshots, with the time it noted before its sleep.        *)
(***************************************************************************)
LEMMA SnapshotStep ==
  ASSUME WaitTypes, waiter = "snapshot", at > 0, SnapshotInv,
         WaitSteps \/ Moves
  PROVE  Over \/ (On /\ SnapshotInv')
<1>1. /\ Steps =
           <<"clock", "read", "error", "note", "sleep", "target", "noted", "sleep", "read",
              "error">>
      /\ Loops[waiter].again = 4
  BY LoopSteps DEF Steps, Loop
<1>2. /\ Len(Steps) = 10
      /\ Steps[1] = "clock" /\ Steps[2] = "read" /\ Steps[3] = "error" /\ Steps[4] = "note"
      /\ Steps[5] = "sleep" /\ Steps[6] = "target" /\ Steps[7] = "noted" /\ Steps[8] = "sleep"
      /\ Steps[9] = "read" /\ Steps[10] = "error"
  BY <1>1
<1>3. CASE Moves
  BY <1>3, WaitAssumption DEF On, WaitTypes, SnapshotInv, Noted, Moves, MovesAt, Behind, Passed,
     Up, Rounds, Goal
<1>4. CASE at = 1 /\ WaitSteps
  <2>1. take_time
    BY <1>4, <1>2, WhichStep DEF Step
  <2> QED  BY <2>1, <1>4, <1>1, <1>2, OtherEnds, WaitAssumption
           DEF On, WaitTypes, SnapshotInv, Noted, Behind, Passed, Up, Rounds, Goal, Go, Next, End,
               take_time
<1>5. CASE at = 2 /\ WaitSteps
  <2>1. show \/ show_raises
    BY <1>5, <1>2, WhichStep DEF Step
  <2>2. CASE show_raises
    BY <2>2, OtherEnds DEF show_raises, End
  <2>3. CASE show
    BY <2>3, <1>5, <1>1, <1>2, WaitAssumption
       DEF On, WaitTypes, SnapshotInv, Noted, Behind, Passed, Up, Rounds, Goal, Go, Next, show,
           MovesAt
  <2> QED  BY <2>1, <2>2, <2>3
<1>6. CASE at = 3 /\ WaitSteps
  <2>1. look_for_error
    BY <1>6, <1>2, WhichStep DEF Step
  <2> QED  BY <2>1, <1>6, <1>1, <1>2, OtherEnds, WaitAssumption
           DEF On, WaitTypes, SnapshotInv, Noted, Behind, Passed, Up, Rounds, Goal, Go, Next, End,
               look_for_error, look
<1>7. CASE at = 4 /\ WaitSteps
  <2>1. take_dtime
    BY <1>7, <1>2, WhichStep DEF Step
  <2> QED  BY <2>1, <1>7, <1>1, <1>2, OtherEnds, WaitAssumption
           DEF On, WaitTypes, SnapshotInv, Noted, Behind, Passed, Up, Rounds, Goal, Go, Next, End,
               take_dtime
<1>8. CASE at = 5 /\ WaitSteps
  <2>1. sleep
    BY <1>8, <1>2, WhichStep DEF Step
  <2> QED  BY <2>1, <1>8, <1>1, <1>2, OtherEnds, WaitAssumption
           DEF On, WaitTypes, SnapshotInv, Noted, Behind, Passed, Up, Rounds, Goal, Go, Next, End,
               sleep
<1>9. CASE at = 6 /\ WaitSteps
  <2>1. look_for_target
    BY <1>9, <1>2, WhichStep DEF Step
  <2> QED  BY <2>1, <1>9, <1>1, <1>2, OtherEnds, WaitAssumption
           DEF On, WaitTypes, SnapshotInv, Noted, Behind, Passed, Up, Rounds, Goal, Go, Next, End,
               look_for_target, look
<1>10. CASE at = 7 /\ WaitSteps
  <2>1. look_at_dtime
    BY <1>10, <1>2, WhichStep DEF Step
  <2> QED  BY <2>1, <1>10, <1>1, <1>2, OtherEnds, WaitAssumption, FailingLoops
           DEF On, WaitTypes, SnapshotInv, Noted, Behind, Passed, Up, Rounds, Goal, Go, Next, End,
               look_at_dtime, look, Timeouts, GivesUpInTime, NothingMissed, Over, Gap
<1>11. CASE at = 8 /\ WaitSteps
  <2>1. sleep
    BY <1>11, <1>2, WhichStep DEF Step
  <2> QED  BY <2>1, <1>11, <1>1, <1>2, OtherEnds, WaitAssumption
           DEF On, WaitTypes, SnapshotInv, Noted, Behind, Passed, Up, Rounds, Goal, Go, Next, End,
               sleep
<1>12. CASE at = 9 /\ WaitSteps
  <2>1. show \/ show_raises
    BY <1>12, <1>2, WhichStep DEF Step
  <2>2. CASE show_raises
    BY <2>2, OtherEnds DEF show_raises, End
  <2>3. CASE show
    BY <2>3, <1>12, <1>1, <1>2, WaitAssumption
       DEF On, WaitTypes, SnapshotInv, Noted, Behind, Passed, Up, Rounds, Goal, Go, Next, show,
           MovesAt
  <2> QED  BY <2>1, <2>2, <2>3
<1>13. CASE at = 10 /\ WaitSteps
  <2>1. look_for_error
    BY <1>13, <1>2, WhichStep DEF Step
  <2> QED  BY <2>1, <1>13, <1>1, <1>2, OtherEnds, WaitAssumption
           DEF On, WaitTypes, SnapshotInv, Noted, Behind, Passed, Up, Rounds, Goal, Go, Next, End,
               look_for_error, look
<1> QED  BY <1>3, <1>4, <1>5, <1>6, <1>7, <1>8, <1>9, <1>10, <1>11, <1>12, <1>13 DEF WaitTypes,
            SnapshotInv, Noted

(***************************************************************************)
(* The loop for images of version 1.                                       *)
(***************************************************************************)
LEMMA ImageV1Step ==
  ASSUME WaitTypes, waiter = "image_v1", at > 0, ImageV1Inv,
         WaitSteps \/ Moves
  PROVE  Over \/ (On /\ ImageV1Inv')
<1>1. /\ Steps =
           <<"clock", "read", "note", "sleep", "target", "error", "noted", "sleep", "read">>
      /\ Loops[waiter].again = 3
  BY LoopSteps DEF Steps, Loop
<1>2. /\ Len(Steps) = 9
      /\ Steps[1] = "clock" /\ Steps[2] = "read" /\ Steps[3] = "note" /\ Steps[4] = "sleep"
      /\ Steps[5] = "target" /\ Steps[6] = "error" /\ Steps[7] = "noted" /\ Steps[8] = "sleep"
      /\ Steps[9] = "read"
  BY <1>1
<1>3. CASE Moves
  BY <1>3, WaitAssumption DEF On, WaitTypes, ImageV1Inv, Noted, Moves, MovesAt, Behind, Passed, Up,
     Rounds, Goal
<1>4. CASE at = 1 /\ WaitSteps
  <2>1. take_time
    BY <1>4, <1>2, WhichStep DEF Step
  <2> QED  BY <2>1, <1>4, <1>1, <1>2, OtherEnds, WaitAssumption
           DEF On, WaitTypes, ImageV1Inv, Noted, Behind, Passed, Up, Rounds, Goal, Go, Next, End,
               take_time
<1>5. CASE at = 2 /\ WaitSteps
  <2>1. show \/ show_raises
    BY <1>5, <1>2, WhichStep DEF Step
  <2>2. CASE show_raises
    BY <2>2, OtherEnds DEF show_raises, End
  <2>3. CASE show
    BY <2>3, <1>5, <1>1, <1>2, WaitAssumption
       DEF On, WaitTypes, ImageV1Inv, Noted, Behind, Passed, Up, Rounds, Goal, Go, Next, show,
           MovesAt
  <2> QED  BY <2>1, <2>2, <2>3
<1>6. CASE at = 3 /\ WaitSteps
  <2>1. take_dtime
    BY <1>6, <1>2, WhichStep DEF Step
  <2> QED  BY <2>1, <1>6, <1>1, <1>2, OtherEnds, WaitAssumption
           DEF On, WaitTypes, ImageV1Inv, Noted, Behind, Passed, Up, Rounds, Goal, Go, Next, End,
               take_dtime
<1>7. CASE at = 4 /\ WaitSteps
  <2>1. sleep
    BY <1>7, <1>2, WhichStep DEF Step
  <2> QED  BY <2>1, <1>7, <1>1, <1>2, OtherEnds, WaitAssumption
           DEF On, WaitTypes, ImageV1Inv, Noted, Behind, Passed, Up, Rounds, Goal, Go, Next, End,
               sleep
<1>8. CASE at = 5 /\ WaitSteps
  <2>1. look_for_target
    BY <1>8, <1>2, WhichStep DEF Step
  <2> QED  BY <2>1, <1>8, <1>1, <1>2, OtherEnds, WaitAssumption
           DEF On, WaitTypes, ImageV1Inv, Noted, Behind, Passed, Up, Rounds, Goal, Go, Next, End,
               look_for_target, look
<1>9. CASE at = 6 /\ WaitSteps
  <2>1. look_for_error
    BY <1>9, <1>2, WhichStep DEF Step
  <2> QED  BY <2>1, <1>9, <1>1, <1>2, OtherEnds, WaitAssumption
           DEF On, WaitTypes, ImageV1Inv, Noted, Behind, Passed, Up, Rounds, Goal, Go, Next, End,
               look_for_error, look
<1>10. CASE at = 7 /\ WaitSteps
  <2>1. look_at_dtime
    BY <1>10, <1>2, WhichStep DEF Step
  <2> QED  BY <2>1, <1>10, <1>1, <1>2, OtherEnds, WaitAssumption, FailingLoops
           DEF On, WaitTypes, ImageV1Inv, Noted, Behind, Passed, Up, Rounds, Goal, Go, Next, End,
               look_at_dtime, look, Timeouts, GivesUpInTime, NothingMissed, Over, Gap
<1>11. CASE at = 8 /\ WaitSteps
  <2>1. sleep
    BY <1>11, <1>2, WhichStep DEF Step
  <2> QED  BY <2>1, <1>11, <1>1, <1>2, OtherEnds, WaitAssumption
           DEF On, WaitTypes, ImageV1Inv, Noted, Behind, Passed, Up, Rounds, Goal, Go, Next, End,
               sleep
<1>12. CASE at = 9 /\ WaitSteps
  <2>1. show \/ show_raises
    BY <1>12, <1>2, WhichStep DEF Step
  <2>2. CASE show_raises
    BY <2>2, OtherEnds DEF show_raises, End
  <2>3. CASE show
    BY <2>3, <1>12, <1>1, <1>2, WaitAssumption
       DEF On, WaitTypes, ImageV1Inv, Noted, Behind, Passed, Up, Rounds, Goal, Go, Next, show,
           MovesAt
  <2> QED  BY <2>1, <2>2, <2>3
<1> QED  BY <1>3, <1>4, <1>5, <1>6, <1>7, <1>8, <1>9, <1>10, <1>11, <1>12 DEF WaitTypes,
            ImageV1Inv, Noted

(***************************************************************************)
(* The types of the variables are kept; the step at hand is in the loop    *)
(* because its invariant says so.                                          *)
(***************************************************************************)
LEMMA WaitTypesKept ==
  ASSUME WaitTypes, at > 0, WaitSteps \/ Moves, Over \/ (On /\ at' \in Nat)
  PROVE  WaitTypes'
<1>1. waiter' = waiter /\ at' \in Nat /\ (at' > 0 => ended' = "running")
  BY DEF Over, On, WaitSteps, Moves, show, show_raises, take_time, take_dtime, sleep,
         look_for_target, look_for_error, look_at_clock, look_at_dtime, look_at_time, look
<1>2. CASE Moves
  BY <1>1, <1>2 DEF WaitTypes, Moves, MovesAt
<1>3. CASE show \/ show_raises
  BY <1>1, <1>3, WaitAssumption DEF WaitTypes, show, show_raises, MovesAt
<1>4. CASE take_time \/ take_dtime \/ sleep
  BY <1>1, <1>4, WaitAssumption DEF WaitTypes, take_time, take_dtime, sleep
<1>5. CASE look_for_target \/ look_for_error \/ look_at_clock \/ look_at_dtime \/ look_at_time
  BY <1>1, <1>5 DEF WaitTypes, look_for_target, look_for_error, look_at_clock, look_at_dtime,
                    look_at_time, look
<1> QED  BY <1>2, <1>3, <1>4, <1>5 DEF WaitSteps

(***************************************************************************)
(* Every loop keeps its invariant, and ends for a good reason.             *)
(***************************************************************************)
LEMMA WaitStep ==
  ASSUME WaitInv, WaitSteps \/ Moves
  PROVE  WaitInv'
<1>1. at > 0 /\ WaitTypes /\ LoopInv
  BY DEF WaitInv, WaitTypes, WaitSteps, Moves, show, show_raises, take_time, take_dtime, sleep,
         look_for_target, look_for_error, look_at_clock, look_at_dtime, look_at_time, look, Step
<1>2. ASSUME On /\ (at' \in Nat /\ LoopInv')
      PROVE  WaitInv'
  BY <1>1, <1>2, WaitTypesKept DEF WaitInv, On
<1>3. ASSUME Over
      PROVE  WaitInv'
  BY <1>1, <1>3, WaitTypesKept DEF WaitInv, Over
<1>4. CASE waiter \in {"server", "volume", "backup"}
  <2>1. Over \/ (On /\ PollInv("error", 7)')
    BY <1>1, <1>4, PollStep DEF LoopInv
  <2>2. On /\ PollInv("error", 7)' => at' \in Nat /\ LoopInv'
    BY <1>4 DEF On, LoopInv, PollInv
  <2> QED  BY <2>1, <2>2, <1>2, <1>3
<1>5. CASE waiter = "image"
  <2>1. Over \/ (On /\ PollInv("error", 8)')
    BY <1>1, <1>5, ImageStep DEF LoopInv
  <2>2. On /\ PollInv("error", 8)' => at' \in Nat /\ LoopInv'
    BY <1>5 DEF On, LoopInv, PollInv
  <2> QED  BY <2>1, <2>2, <1>2, <1>3
<1>6. CASE waiter = "bm_node"
  <2>1. Over \/ (On /\ PollInv("target", 7)')
    BY <1>1, <1>6, NodeStep DEF LoopInv
  <2>2. On /\ PollInv("target", 7)' => at' \in Nat /\ LoopInv'
    BY <1>6 DEF On, LoopInv, PollInv
  <2> QED  BY <2>1, <2>2, <1>2, <1>3
<1>7. CASE waiter \in {"deletion", "backup_deletion", "qos"}
  <2>1. Over \/ (On /\ DeletionInv(5)')
    BY <1>1, <1>7, DeletionStep DEF LoopInv
  <2>2. On /\ DeletionInv(5)' => at' \in Nat /\ LoopInv'
    BY <1>7 DEF On, LoopInv, DeletionInv
  <2> QED  BY <2>1, <2>2, <1>2, <1>3
<1>8. CASE waiter = "termination"
  <2>1. Over \/ (On /\ DeletionInv(6)')
    BY <1>1, <1>8, TerminationStep DEF LoopInv
  <2>2. On /\ DeletionInv(6)' => at' \in Nat /\ LoopInv'
    BY <1>8 DEF On, LoopInv, DeletionInv
  <2> QED  BY <2>1, <2>2, <1>2, <1>3
<1>9. CASE waiter = "network"
  <2>1. Over \/ (On /\ NetworkInv')
    BY <1>1, <1>9, NetworkStep DEF LoopInv
  <2>2. On /\ NetworkInv' => at' \in Nat /\ LoopInv'
    BY <1>9 DEF On, LoopInv, NetworkInv
  <2> QED  BY <2>1, <2>2, <1>2, <1>3
<1>10. CASE waiter = "snapshot"
  <2>1. Over \/ (On /\ SnapshotInv')
    BY <1>1, <1>10, SnapshotStep DEF LoopInv
  <2>2. On /\ SnapshotInv' => at' \in Nat /\ LoopInv'
    BY <1>10 DEF On, LoopInv, SnapshotInv
  <2> QED  BY <2>1, <2>2, <1>2, <1>3
<1>11. CASE waiter = "image_v1"
  <2>1. Over \/ (On /\ ImageV1Inv')
    BY <1>1, <1>11, ImageV1Step DEF LoopInv
  <2>2. On /\ ImageV1Inv' => at' \in Nat /\ LoopInv'
    BY <1>11 DEF On, LoopInv, ImageV1Inv
  <2> QED  BY <2>1, <2>2, <1>2, <1>3
<1> QED  BY <1>1, <1>4, <1>5, <1>6, <1>7, <1>8, <1>9, <1>10, <1>11 DEF WaitTypes, Waiting

(***************************************************************************)
(* What is waited for when the loop begins satisfies its invariant.        *)
(***************************************************************************)
LEMMA WaitBegins ==
  ASSUME NEW w \in Waiting \cup {"none"}, WaitInit(w)
  PROVE  WaitInv
<1>1. WaitTypes
  BY DEF WaitTypes, WaitInit
<1>2. at > 0 => at = 1 /\ LoopInv
  BY DEF WaitInit, LoopInv, PollInv, DeletionInv, NetworkInv, SnapshotInv, ImageV1Inv
<1>3. Timeouts
  BY DEF WaitInit, Timeouts, GivesUpInTime, NothingMissed
<1> QED  BY <1>1, <1>2, <1>3 DEF WaitInv

(***************************************************************************)
(* A loop moves as WaitSteps and Moves say; the other parts leave it       *)
(* alone.                                                                  *)
(***************************************************************************)
LEMMA FrameWaitStep == [FrameNext]_frameVars => [WaitSteps \/ Moves]_waitVars
<1>1. CASE OnlyCreds(get_isolated_credentials) \/ OnlyCall(RestNext)
  BY <1>1 DEF OnlyCreds, OnlyCall
<1>2. CASE OnlyWait(WaitSteps \/ Moves)
  BY <1>2 DEF OnlyWait
<1>3. CASE OnlyTest(BasesSteps \/ DeletionDone) \/ OnlyFields(FieldsNext)
  BY <1>3 DEF OnlyTest, OnlyFields
<1>4. CASE UNCHANGED frameVars
  BY <1>4 DEF frameVars
<1> QED
  BY <1>1, <1>2, <1>3, <1>4 DEF FrameNext

(***************************************************************************)
(* Every TimeoutException of the framework is justified: the loop gave up  *)
(* when its time was up and at most a round later, not on a resource in    *)
(* error that it knows as one, and not on a state that had been there for  *)
(* a round.                                                                *)
(***************************************************************************)
THEOREM TimeoutsHold == FrameSpec => []Timeouts
<1>1. FrameInit => WaitInv
  BY WaitBegins, LoopSteps DEF FrameInit, WaitIdle
<1>2. WaitInv /\ [WaitSteps \/ Moves]_waitVars => WaitInv'
  <2>1. WaitInv /\ UNCHANGED waitVars => WaitInv'
    BY DEF WaitInv, WaitTypes, LoopInv, waitVars, PollInv, DeletionInv, NetworkInv, SnapshotInv,
           ImageV1Inv, Noted, Behind, Passed, Goal, Timeouts, GivesUpInTime, NothingMissed
  <2> QED  BY <2>1, WaitStep
<1>3. WaitInv => Timeouts
  <2>1. WaitInv /\ at > 0 => Timeouts
    BY DEF WaitInv, WaitTypes, Timeouts, GivesUpInTime, NothingMissed
  <2> QED  BY <2>1 DEF WaitInv, WaitTypes
<1> QED
  BY <1>1, <1>2, <1>3, FrameWaitStep, PTL DEF FrameSpec
-----------------------------------------------------------------------------
(***************************************************************************)
(* The credentials made per test class (TenantIsolation), for any number   *)
(* of processes, any classes and any number of failing calls.  A process   *)
(* works on its own tenants only, so the invariant is one of each process  *)
(* alone; There looks for an item of its n-th tenant.                      *)
(***************************************************************************)
LEMMA FrameIsoStep == [FrameNext]_frameVars => [IsoNext]_isoVars
<1>1. CASE OnlyCreds(get_isolated_credentials)
  BY <1>1 DEF OnlyCreds, get_isolated_credentials
<1>2. CASE OnlyCall(RestNext) \/ OnlyWait(WaitSteps \/ Moves)
  BY <1>2 DEF OnlyCall, OnlyWait, credVars
<1>3. CASE OnlyTest(BasesSteps \/ DeletionDone) \/ OnlyFields(FieldsNext)
  BY <1>3 DEF OnlyTest, OnlyFields, credVars
<1>4. CASE UNCHANGED frameVars
  BY <1>4 DEF frameVars, credVars
<1> QED
  BY <1>1, <1>2, <1>3, <1>4 DEF FrameNext

NetItems       == {"network", "subnet", "router", "interface"}
There(p, n, k) == <<<<p, n>>, k>> \in cloud
InDict(p, n)   == \E e \in iso[p] : e.tenant = <<p, n>>

IsoTypes ==
  /\ cloud \subseteq (IsoProcs \X Nat) \X Items
  /\ DOMAIN iso = IsoProcs /\ DOMAIN clearing = IsoProcs /\ DOMAIN settings = IsoProcs
  /\ ipc \in [IsoProcs -> {"new", "setup", "project", "zone", "user", "network",
                           "clear_net", "clear_tenant", "ended"}]
  /\ made \in [IsoProcs -> Nat] /\ nfailed \in [IsoProcs -> Nat]
  /\ lost \in [IsoProcs -> BOOLEAN] /\ vanished \in [IsoProcs -> BOOLEAN]

(***************************************************************************)
(* The dictionary knows its tenants, each with the network the class wants *)
(* or none; clear_isolated_creds works on entries of it.                   *)
(***************************************************************************)
Dictionary(p) ==
  /\ \A e \in iso[p] : \E n \in Nat, net \in {{}, Wanted(settings[p])} :
        e = [key |-> e.key, tenant |-> <<p, n>>, net |-> net]
  /\ ipc[p] = "new" => iso[p] = {}
  /\ ipc[p] \in {"clear_net", "clear_tenant"} => clearing[p] \subseteq iso[p]

\* the tenant at hand has its project, and before its network it is in the dictionary
AtHand(p) ==
  /\ ipc[p] \in {"zone", "user", "network"} => There(p, made[p], "project")
  /\ ipc[p] = "network" => InDict(p, made[p])

(***************************************************************************)
(* What the network requests made has its project still, and as long as    *)
(* the class goes on an entry, not yet passed, by which it is deleted.     *)
(***************************************************************************)
Reachable(p) ==
  \A n \in Nat, k \in NetItems : There(p, n, k) =>
    /\ There(p, n, "project")
    /\ ipc[p] # "clear_tenant"
    /\ ipc[p] # "ended" =>
         \E e \in iso[p] : /\ e.tenant = <<p, n>> /\ k \in Cleared(settings[p], e.net)
                           /\ ipc[p] = "clear_net" => e \in clearing[p]

(***************************************************************************)
(* Everything there is of a tenant in the dictionary or of the one at      *)
(* hand; at the end it is a project whose HA network had gone by itself.   *)
(***************************************************************************)
Skipped(p, k) == vanished[p] /\ k = "project"
KnownTenants(p) ==
  \A n \in Nat, k \in Items : There(p, n, k) =>
    /\ ipc[p] = "ended" => Skipped(p, k)
    /\ ipc[p] = "clear_tenant" => Skipped(p, k) \/ \E e \in clearing[p] : e.tenant = <<p, n>>
    /\ ipc[p] \notin {"ended", "clear_tenant"} =>
         InDict(p, n) \/ (ipc[p] \in {"zone", "user"} /\ n = made[p])

OwnInv(p) ==
  /\ Dictionary(p) /\ AtHand(p)
  /\ lost[p] => nfailed[p] > 0
  /\ nfailed[p] <= 1 /\ ~lost[p] => Reachable(p)
  /\ nfailed[p] = 0 => KnownTenants(p)

CleanInv == IsoTypes /\ \A p \in IsoProcs : OwnInv(p)

\* nothing of process p moves
Same(p) ==
  /\ iso'[p] = iso[p] /\ ipc'[p] = ipc[p] /\ settings'[p] = settings[p] /\ made'[p] = made[p]
  /\ clearing'[p] = clearing[p] /\ nfailed'[p] = nfailed[p]
  /\ lost'[p] = lost[p] /\ vanished'[p] = vanished[p]
  /\ \A n \in Nat, k \in Items : There(p, n, k)' <=> There(p, n, k)

(***************************************************************************)
(* A process keeps its part of the invariant when nothing of its own       *)
(* moves.                                                                  *)
(***************************************************************************)
LEMMA SameKeeps ==
  ASSUME NEW p \in IsoProcs, OwnInv(p), Same(p), IsoTypes
  PROVE  OwnInv(p)'
<1>1. Dictionary(p)'
  BY DEF OwnInv, Dictionary, Same
<1>2. AtHand(p)'
  BY DEF OwnInv, AtHand, Same, InDict, IsoTypes, Items
<1>3. Reachable(p) => Reachable(p)'
  BY DEF Reachable, Same, NetItems, Items
<1>4. KnownTenants(p) => KnownTenants(p)'
  BY DEF KnownTenants, Same, InDict, Skipped
<1> QED
  BY <1>1, <1>2, <1>3, <1>4 DEF OwnInv, Same

\* a set being taken down is one of a tenant of the process
LEMMA OwnTenants ==
  ASSUME NEW p \in IsoProcs, Dictionary(p), NEW e \in clearing[p],
         ipc[p] \in {"clear_net", "clear_tenant"}
  PROVE  /\ e \in iso[p]
         /\ \E n \in Nat : e.tenant = <<p, n>>
         /\ e.net \in {{}, Wanted(settings[p])}
  BY DEF Dictionary

(***************************************************************************)
(* The steps of one process leave another as it is.                        *)
(***************************************************************************)
LEMMA OtherWork ==
  ASSUME CleanInv, NEW p \in IsoProcs, NEW q \in IsoProcs, p # q, IsoWork(q)
  PROVE  Same(p)
<1> USE DEF CleanInv, IsoTypes, Same, There, Goto, Of, Tenant, StartClearing, historyVars,
            worldVars, Fails
<1>1. CASE IsoSetUpClass(q)
  BY <1>1 DEF IsoSetUpClass
<1>2. CASE get_credentials(q)
  BY <1>2 DEF get_credentials
<1>3. CASE create_project(q)
  BY <1>3 DEF create_project
<1>4. CASE associate_az_tenant(q)
  BY <1>4 DEF associate_az_tenant
<1>5. CASE create_user(q)
  BY <1>5 DEF create_user
<1>6. CASE _create_network_resources(q)
  <2>1. \E S : cloud' = cloud \cup ({<<q, made[q]>>} \X S)
    BY <1>6, cloud = cloud \cup ({<<q, made[q]>>} \X {}) DEF _create_network_resources
  <2>2. \A n \in Nat, k \in Items : There(p, n, k)' <=> There(p, n, k)
    BY <2>1
  <2>3. /\ iso'[p] = iso[p] /\ ipc'[p] = ipc[p] /\ clearing'[p] = clearing[p]
        /\ nfailed'[p] = nfailed[p] /\ lost'[p] = lost[p]
    BY <1>6 DEF _create_network_resources
  <2> QED
    BY <1>6, <2>2, <2>3 DEF _create_network_resources
<1>7. CASE IsoTearDownClass(q)
  BY <1>7 DEF IsoTearDownClass
<1>8. CASE _clear_isolated_net_resources(q)
  <2>1. Dictionary(q)
    BY DEF OwnInv
  <2>2. PICK e \in clearing[q] : \E S : cloud' = cloud \ ({e.tenant} \X S)
    BY <1>8 DEF _clear_isolated_net_resources
  <2>3. \E n \in Nat : e.tenant = <<q, n>>
    BY <1>8, <2>1, OwnTenants DEF _clear_isolated_net_resources
  <2>4. \A n \in Nat, k \in Items : There(p, n, k)' <=> There(p, n, k)
    BY <2>2, <2>3
  <2> QED
    BY <1>8, <2>4 DEF _clear_isolated_net_resources
<1>9. CASE ClearTenant(q)
  <2>1. Dictionary(q)
    BY DEF OwnInv
  <2>2. PICK e \in clearing[q] : \E S : cloud' = cloud \ ({e.tenant} \X S)
    BY <1>9 DEF ClearTenant
  <2>3. \E n \in Nat : e.tenant = <<q, n>>
    BY <1>9, <2>1, OwnTenants DEF ClearTenant
  <2>4. \A n \in Nat, k \in Items : There(p, n, k)' <=> There(p, n, k)
    BY <2>2, <2>3
  <2> QED
    BY <1>9, <2>4 DEF ClearTenant, NextTenant
<1> QED
  BY <1>1, <1>2, <1>3, <1>4, <1>5, <1>6, <1>7, <1>8, <1>9 DEF IsoWork

(***************************************************************************)
(* What _create_network_resources does to the cloud: everything that was   *)
(* asked for is made; or the settings are refused; or a call fails, and    *)
(* with one failure that had no effect no network is left.                 *)
(***************************************************************************)
Resources(p) == LET want == Wanted(settings[p])
            IN want \cup (IF "router" \in want THEN {"interface"} ELSE {})

NetMade(p)    == cloud' = cloud \cup Of(Tenant(p), Resources(p) \cup Implied(Wanted(settings[p])))
NetFails(p)   == \E S \in SUBSET Items :
                   /\ cloud' = cloud \cup Of(Tenant(p), S)
                   /\ nfailed'[p] <= 1 /\ ~lost'[p] => S \cap NetItems = {}

(***************************************************************************)
(* What the calls that make a network leave in the dictionary and on the   *)
(* cloud.                                                                  *)
(***************************************************************************)
LEMMA NetCalls ==
  ASSUME IsoTypes, NEW p \in IsoProcs, _create_network_resources(p)
  PROVE  \/ /\ ~Invalid(settings[p]) /\ NetMade(p) /\ Goto(p, "network", "setup")
            /\ iso' = [iso EXCEPT ![p] =
                 {IF e.tenant = Tenant(p) THEN [e EXCEPT !.net = Wanted(settings[p])] ELSE e : e \in @}]
            /\ nfailed' = nfailed /\ lost' = lost
         \/ /\ Invalid(settings[p]) /\ StartClearing(p, "network", iso[p]) /\ iso' = iso
            /\ cloud' = cloud /\ nfailed' = nfailed /\ lost' = lost
         \/ /\ NetFails(p) /\ nfailed'[p] > nfailed[p]
            /\ StartClearing(p, "network", iso[p]) /\ iso' = iso
<1> DEFINE want == Wanted(settings[p])
<1>1. ASSUME NEW stop \in Resources(p), NEW late \in BOOLEAN, NEW stuck \in want \cup {"none"},
             LET before == {k \in want : Rank[k] < Rank[stop]}
             IN /\ cloud' = cloud \cup Of(Tenant(p), Stays(before, stop, late, stuck) \cup Implied(before))
                /\ stuck # "none" => stuck \in before
                /\ nfailed' = [nfailed EXCEPT ![p] = @ + (IF stuck = "none" THEN 1 ELSE 2)]
                /\ lost' = [lost EXCEPT ![p] = @ \/ late]
      PROVE  NetFails(p) /\ nfailed'[p] > nfailed[p]
  <2> DEFINE before == {k \in want : Rank[k] < Rank[stop]}
             S      == Stays(before, stop, late, stuck) \cup Implied(before)
  <2>1. Implied(before) \subseteq {"ha", "secgroup"}
    BY DEF Implied
  <2>2. before \subseteq {"network", "subnet", "router"} /\ stop \in NetItems
    BY DEF Wanted, Resources, NetItems
  <2>3. Stays(before, stop, late, stuck) \subseteq NetItems
    BY <2>2 DEF Stays, UpTo, NetItems
  <2>4. S \in SUBSET Items
    BY <2>1, <2>3 DEF NetItems, Items
  <2>5. /\ nfailed'[p] = nfailed[p] + (IF stuck = "none" THEN 1 ELSE 2)
        /\ nfailed[p] \in Nat
        /\ lost'[p] = (lost[p] \/ late)
    BY <1>1 DEF IsoTypes
  <2>6. ASSUME nfailed'[p] <= 1, ~lost'[p]
        PROVE  S \cap NetItems = {}
    <3>1. stuck = "none" /\ ~late
      BY <2>5, <2>6
    <3>2. Stays(before, stop, late, stuck) = {}
      BY <3>1 DEF Stays
    <3> QED
      BY <3>2, <2>1 DEF NetItems
  <2>7. cloud' = cloud \cup Of(Tenant(p), S)
    BY <1>1
  <2>8. nfailed'[p] > nfailed[p]
    BY <2>5
  <2> HIDE DEF S
  <2> QED
    BY <2>4, <2>6, <2>7, <2>8 DEF NetFails
<1> DEFINE AllMade == /\ ~Invalid(settings[p]) /\ Goto(p, "network", "setup")
                      /\ cloud' = cloud \cup Of(Tenant(p), Resources(p) \cup Implied(want))
                      /\ iso' = [iso EXCEPT ![p] =
                           {IF e.tenant = Tenant(p) THEN [e EXCEPT !.net = want] ELSE e : e \in @}]
                      /\ nfailed' = nfailed /\ lost' = lost
           Refused == /\ Invalid(settings[p]) /\ StartClearing(p, "network", iso[p])
                      /\ cloud' = cloud /\ iso' = iso /\ nfailed' = nfailed /\ lost' = lost
           Broken  == \E stop \in Resources(p), late \in BOOLEAN, stuck \in want \cup {"none"} :
                        LET before == {k \in want : Rank[k] < Rank[stop]}
                        IN /\ late => stop # "subnet" /\ stuck = "none"
                           /\ stuck # "none" => stuck \in before /\ CanFail(2)
                           /\ cloud' = cloud \cup Of(Tenant(p), Stays(before, stop, late, stuck) \cup Implied(before))
                           /\ nfailed' = [nfailed EXCEPT ![p] = @ + (IF stuck = "none" THEN 1 ELSE 2)]
                           /\ lost' = [lost EXCEPT ![p] = @ \/ late]
<1>2. Broken => NetFails(p) /\ nfailed'[p] > nfailed[p]
  BY <1>1
<1>3. AllMade \/ Refused \/ (Broken /\ StartClearing(p, "network", iso[p]) /\ iso' = iso)
  <2> DEFINE Others == itodo' = [itodo EXCEPT ![p] = Tail(@)] /\ UNCHANGED <<clearing, nfailed, lost>>
             Fewest == UNCHANGED <<cloud, iso, itodo, nfailed, lost>>
             Owns   == UNCHANGED <<iso, itodo>>
  <2>1. \/ /\ ~Invalid(settings[p]) /\ Goto(p, "network", "setup")
           /\ cloud' = cloud \cup Of(Tenant(p), Resources(p) \cup Implied(want))
           /\ iso' = [iso EXCEPT ![p] =
                {IF e.tenant = Tenant(p) THEN [e EXCEPT !.net = want] ELSE e : e \in @}]
           /\ Others
        \/ Invalid(settings[p]) /\ StartClearing(p, "network", iso[p]) /\ Fewest
        \/ Broken /\ StartClearing(p, "network", iso[p]) /\ Owns
    BY Zenon DEF _create_network_resources, Resources
  <2>2. /\ Others => nfailed' = nfailed /\ lost' = lost
        /\ Fewest => cloud' = cloud /\ iso' = iso /\ nfailed' = nfailed /\ lost' = lost
        /\ Owns => iso' = iso
    OBVIOUS
  <2> HIDE DEF Broken, Others, Fewest, Owns
  <2> QED
    BY <2>1, <2>2, Zenon
<1> HIDE DEF Broken
<1> QED
  BY <1>2, <1>3 DEF NetMade

(***************************************************************************)
(* The types, one step of one process.                                     *)
(***************************************************************************)
LEMMA IsoTypesKept ==
  ASSUME CleanInv, NEW p \in IsoProcs, IsoWork(p)
  PROVE  IsoTypes'
<1> USE DEF CleanInv, IsoTypes, Goto, StartClearing, historyVars, worldVars, Fails
<1>1. CASE IsoSetUpClass(p)
  BY <1>1 DEF IsoSetUpClass
<1>2. CASE get_credentials(p)
  <2>1. UNCHANGED <<worldVars, settings, seenZones, clearing, historyVars>>
    BY <1>2 DEF get_credentials
  <2>2. \/ Goto(p, "setup", "setup") /\ UNCHANGED <<iso, made>>
        \/ /\ Goto(p, "setup", "project") /\ made' = [made EXCEPT ![p] = @ + 1]
           /\ \E d : iso' = [iso EXCEPT ![p] = d]
    BY <1>2 DEF get_credentials
  <2>3. CASE Goto(p, "setup", "setup") /\ UNCHANGED <<iso, made>>
    BY <2>1, <2>3
  <2>4. CASE /\ Goto(p, "setup", "project") /\ made' = [made EXCEPT ![p] = @ + 1]
             /\ \E d : iso' = [iso EXCEPT ![p] = d]
    <3>1. made' \in [IsoProcs -> Nat]
      BY <2>4
    <3>2. DOMAIN iso' = IsoProcs
      BY <2>4
    <3>3. ipc' = [ipc EXCEPT ![p] = "project"]
      BY <2>4
    <3> QED
      BY <2>1, <3>1, <3>2, <3>3
  <2> QED
    BY <2>2, <2>3, <2>4
<1>3. CASE create_project(p)
  BY <1>3 DEF create_project, Of, Tenant, Items
<1>4. CASE associate_az_tenant(p)
  <2>1. \E l \in {"user", "clear_net", "ended"} : ipc' = [ipc EXCEPT ![p] = l]
    BY <1>4 DEF associate_az_tenant
  <2>2. nfailed' = nfailed \/ nfailed' = [nfailed EXCEPT ![p] = @ + 1]
    BY <1>4 DEF associate_az_tenant
  <2>3. nfailed' \in [IsoProcs -> Nat]
    BY <2>2
  <2>4. DOMAIN clearing' = IsoProcs
    BY <1>4 DEF associate_az_tenant
  <2>5. UNCHANGED <<cloud, iso, settings, made, lost, vanished>>
    BY <1>4 DEF associate_az_tenant
  <2> QED
    BY <2>1, <2>3, <2>4, <2>5
<1>5. CASE create_user(p)
  <2>1. \E S \in SUBSET Items : cloud' = cloud \cup ({<<p, made[p]>>} \X S)
    BY <1>5, {"user"} \in SUBSET Items DEF create_user, Of, Tenant, Items
  <2>2. cloud' \subseteq (IsoProcs \X Nat) \X Items
    BY <2>1
  <2>3. \E l \in {"network", "clear_net", "ended"} : ipc' = [ipc EXCEPT ![p] = l]
    BY <1>5 DEF create_user
  <2>4. nfailed' = nfailed \/ nfailed' = [nfailed EXCEPT ![p] = @ + 1]
    BY <1>5 DEF create_user
  <2>5. nfailed' \in [IsoProcs -> Nat]
    BY <2>4
  <2>6. DOMAIN iso' = IsoProcs /\ DOMAIN clearing' = IsoProcs
    BY <1>5 DEF create_user
  <2>7. UNCHANGED <<settings, made, lost, vanished>>
    BY <1>5 DEF create_user
  <2> QED
    BY <2>2, <2>3, <2>5, <2>6, <2>7
<1>6. CASE _create_network_resources(p)
  <2>1. cloud' \subseteq (IsoProcs \X Nat) \X Items
    <3>1. Resources(p) \cup Implied(Wanted(settings[p])) \in SUBSET Items
      BY DEF Resources, Implied, Wanted, Items
    <3>2. cloud' = cloud \/ \E S \in SUBSET Items : cloud' = cloud \cup Of(Tenant(p), S)
      BY <1>6, <3>1, NetCalls DEF NetMade, NetFails
    <3> QED
      BY <3>2 DEF Of, Tenant
  <2>2. nfailed' \in [IsoProcs -> Nat] /\ lost' \in [IsoProcs -> BOOLEAN]
    BY <1>6 DEF _create_network_resources
  <2>3. DOMAIN iso' = IsoProcs /\ DOMAIN clearing' = IsoProcs
    BY <1>6 DEF _create_network_resources
  <2>4. \E l \in {"setup", "clear_net", "ended"} : ipc' = [ipc EXCEPT ![p] = l]
    BY <1>6 DEF _create_network_resources
  <2>5. settings' = settings /\ made' = made /\ vanished' = vanished
    BY <1>6 DEF _create_network_resources
  <2> QED
    BY <2>1, <2>2, <2>3, <2>4, <2>5
<1>7. CASE IsoTearDownClass(p)
  BY <1>7 DEF IsoTearDownClass
<1>8. CASE _clear_isolated_net_resources(p)
  <2>1. cloud' \subseteq cloud
    BY <1>8 DEF _clear_isolated_net_resources
  <2>2. \E l \in {"clear_net", "clear_tenant", "ended"} : ipc' = [ipc EXCEPT ![p] = l]
    <3>1. ipc = [ipc EXCEPT ![p] = ipc[p]]
      OBVIOUS
    <3> QED
      BY <1>8, <3>1 DEF _clear_isolated_net_resources
  <2>3. nfailed' = nfailed \/ nfailed' = [nfailed EXCEPT ![p] = @ + 1]
    BY <1>8 DEF _clear_isolated_net_resources
  <2>4. nfailed' \in [IsoProcs -> Nat]
    BY <2>3
  <2>5. DOMAIN clearing' = IsoProcs
    BY <1>8 DEF _clear_isolated_net_resources
  <2>6. UNCHANGED <<iso, settings, made, lost, vanished>>
    BY <1>8 DEF _clear_isolated_net_resources
  <2> QED
    BY <2>1, <2>2, <2>4, <2>5, <2>6
<1>9. CASE ClearTenant(p)
  <2>1. cloud' \subseteq cloud
    BY <1>9 DEF ClearTenant
  <2>2. \E l \in {"clear_tenant", "ended"} : ipc' = [ipc EXCEPT ![p] = l]
    <3>1. ipc = [ipc EXCEPT ![p] = ipc[p]]
      OBVIOUS
    <3> QED
      BY <1>9, <3>1 DEF ClearTenant, NextTenant
  <2>3. /\ nfailed' = nfailed \/ nfailed' = [nfailed EXCEPT ![p] = @ + 1]
        /\ vanished' = vanished \/ vanished' = [vanished EXCEPT ![p] = TRUE]
    BY <1>9 DEF ClearTenant
  <2>6. nfailed' \in [IsoProcs -> Nat]
    BY <2>3
  <2>7. vanished' \in [IsoProcs -> BOOLEAN]
    BY <2>3
  <2>4. DOMAIN iso' = IsoProcs /\ DOMAIN clearing' = IsoProcs
    BY <1>9 DEF ClearTenant, NextTenant
  <2>5. settings' = settings /\ made' = made /\ lost' = lost
    BY <1>9 DEF ClearTenant
  <2> QED
    BY <2>1, <2>2, <2>6, <2>7, <2>4, <2>5
<1> QED
  BY <1>1, <1>2, <1>3, <1>4, <1>5, <1>6, <1>7, <1>8, <1>9 DEF IsoWork

(***************************************************************************)
(* clear_isolated_creds begins, at the end of the class or by an           *)
(* exception of one of its steps, which may have left something but no     *)
(* network, unless it counts as two failures or as one that had effect.    *)
(***************************************************************************)
LEMMA BeginsClearing ==
  ASSUME IsoTypes, NEW p \in IsoProcs, OwnInv(p), NEW from, StartClearing(p, from, iso[p]),
         from \notin {"new", "ended", "clear_net", "clear_tenant"},
         iso'[p] = iso[p], settings'[p] = settings[p],
         nfailed'[p] \in Nat, nfailed'[p] >= nfailed[p], lost[p] => lost'[p],
         lost'[p] => lost[p] \/ nfailed'[p] > nfailed[p],
         \A n \in Nat, k \in Items : There(p, n, k) => There(p, n, k)',
         \A n \in Nat, k \in Items :
            There(p, n, k)' /\ nfailed'[p] <= 1 /\ ~lost'[p] /\ k \in NetItems => There(p, n, k),
         nfailed'[p] = 0 => /\ from \in {"setup", "network"}
                            /\ \A n \in Nat, k \in Items : There(p, n, k)' => There(p, n, k)
  PROVE  OwnInv(p)'
<1>1. /\ ipc[p] = from
      /\ ipc'[p] = IF iso[p] = {} THEN "ended" ELSE "clear_net"
      /\ clearing'[p] = iso[p]
      /\ nfailed[p] \in Nat
  BY DEF IsoTypes, StartClearing, Goto
<1>2. Dictionary(p)'
  BY <1>1 DEF OwnInv, Dictionary
<1>3. AtHand(p)'
  BY <1>1 DEF AtHand
<1>4. lost'[p] => nfailed'[p] > 0
  BY <1>1 DEF OwnInv
<1>5. ASSUME nfailed'[p] <= 1, ~lost'[p]
      PROVE  Reachable(p)'
  <2>1. Reachable(p)
    BY <1>1, <1>5 DEF OwnInv
  <2>2. \A k \in NetItems : k \in Items
    BY DEF NetItems, Items
  <2>3. "project" \in Items
    BY DEF Items
  <2>4. ASSUME NEW n \in Nat, NEW k \in NetItems, There(p, n, k)'
        PROVE  /\ There(p, n, "project")'
               /\ ipc'[p] # "clear_tenant"
               /\ ipc'[p] # "ended" =>
                    \E e \in iso'[p] : /\ e.tenant = <<p, n>> /\ k \in Cleared(settings'[p], e.net)
                                       /\ ipc'[p] = "clear_net" => e \in clearing'[p]
    <3>1. There(p, n, k)
      BY <1>5, <2>2, <2>4
    <3>2. There(p, n, "project") /\ \E e \in iso[p] : e.tenant = <<p, n>> /\ k \in Cleared(settings[p], e.net)
      BY <1>1, <2>1, <3>1 DEF Reachable
    <3> QED
      BY <1>1, <2>3, <3>2
  <2> QED
    BY <2>4 DEF Reachable, Cleared, Wanted
<1>6. ASSUME nfailed'[p] = 0
      PROVE  KnownTenants(p)'
  <2>1. KnownTenants(p)
    BY <1>1, <1>6 DEF OwnInv
  <2>2. \A n \in Nat, k \in Items : There(p, n, k)' => InDict(p, n)
    BY <1>1, <1>6, <2>1 DEF KnownTenants
  <2> QED
    BY <1>1, <2>2 DEF KnownTenants, InDict
<1> QED
  BY <1>2, <1>3, <1>4, <1>5, <1>6 DEF OwnInv

(***************************************************************************)
(* The class begins: nothing of the process is there.                      *)
(***************************************************************************)
LEMMA SetUpKeeps ==
  ASSUME IsoTypes, NEW p \in IsoProcs, OwnInv(p), IsoSetUpClass(p)
  PROVE  OwnInv(p)'
<1>1. /\ ipc[p] = "new" /\ ipc'[p] = "setup" /\ iso'[p] = {} /\ iso[p] = {}
      /\ cloud' = cloud /\ nfailed' = nfailed /\ lost' = lost
  BY DEF IsoTypes, IsoSetUpClass, Goto, OwnInv, Dictionary, worldVars, historyVars
<1>2. Dictionary(p)' /\ AtHand(p)'
  BY <1>1 DEF Dictionary, AtHand
<1>3. Reachable(p) => Reachable(p)'
  BY <1>1 DEF Reachable, There
<1>4. KnownTenants(p) => KnownTenants(p)'
  BY <1>1 DEF KnownTenants, There, InDict
<1> QED
  BY <1>1, <1>2, <1>3, <1>4 DEF OwnInv

(***************************************************************************)
(* A request of the class: a set the dictionary has may move to another    *)
(* key, with its tenant and network.                                       *)
(***************************************************************************)
LEMMA RequestKeeps ==
  ASSUME IsoTypes, NEW p \in IsoProcs, OwnInv(p), get_credentials(p)
  PROVE  OwnInv(p)'
<1>1. /\ ipc[p] = "setup" /\ ipc'[p] \in {"setup", "project"} /\ settings' = settings
      /\ cloud' = cloud /\ nfailed' = nfailed /\ lost' = lost
  BY DEF IsoTypes, get_credentials, Goto, worldVars, historyVars
<1>2. iso'[p] = iso[p] \/ iso'[p] = IsoMoved(p, Head(itodo[p]))
  BY DEF IsoTypes, get_credentials
<1>3. Dictionary(p)
  BY DEF OwnInv
<1>4. /\ \A e \in iso'[p] : \E f \in iso[p] :
            e = [key |-> e.key, tenant |-> f.tenant, net |-> f.net]
      /\ \A f \in iso[p] : \E e \in iso'[p] : e.tenant = f.tenant /\ e.net = f.net
  <2>1. CASE iso'[p] = iso[p]
    BY <2>1, <1>3 DEF Dictionary
  <2>2. CASE iso'[p] = IsoMoved(p, Head(itodo[p]))
    <3> DEFINE r == Head(itodo[p])
               new == IsoKey(r, Cardinality(iso[p]))
               mv(e) == [e EXCEPT !.key = new]
    <3>1. \A f \in iso[p] : mv(f) = [key |-> new, tenant |-> f.tenant, net |-> f.net]
      BY <1>3 DEF Dictionary
    <3>2. \A f \in iso[p] : f = [key |-> f.key, tenant |-> f.tenant, net |-> f.net]
      BY <1>3 DEF Dictionary
    <3>3. iso'[p] = {e \in iso[p] : e.key # IsoKey(r, 0)} \cup {mv(e) : e \in {f \in iso[p] : f.key = IsoKey(r, 0)}}
      BY <2>2 DEF IsoMoved, IsoHas
    <3> HIDE DEF mv
    <3> QED
      BY <3>1, <3>2, <3>3
  <2> QED
    BY <1>2, <2>1, <2>2
<1>5. Dictionary(p)'
  <2>1. ASSUME NEW e \in iso'[p]
        PROVE  \E n \in Nat, net \in {{}, Wanted(settings'[p])} :
                  e = [key |-> e.key, tenant |-> <<p, n>>, net |-> net]
    <3>1. PICK f \in iso[p] : e = [key |-> e.key, tenant |-> f.tenant, net |-> f.net]
      BY <1>4
    <3>2. PICK n \in Nat, net \in {{}, Wanted(settings[p])} : 
             f = [key |-> f.key, tenant |-> <<p, n>>, net |-> net]
      BY <1>3 DEF Dictionary
    <3> QED
      BY <1>1, <3>1, <3>2
  <2> QED
    BY <1>1, <2>1 DEF Dictionary, Wanted
<1>6. AtHand(p)'
  BY <1>1 DEF AtHand
<1>7. ASSUME Reachable(p)
      PROVE  Reachable(p)'
  <2>1. ASSUME NEW n \in Nat, NEW k \in NetItems, There(p, n, k)
        PROVE  /\ There(p, n, "project")
               /\ \E e \in iso'[p] : e.tenant = <<p, n>> /\ k \in Cleared(settings[p], e.net)
    <3>1. There(p, n, "project") /\ \E f \in iso[p] : f.tenant = <<p, n>> /\ k \in Cleared(settings[p], f.net)
      BY <1>1, <1>7, <2>1 DEF Reachable
    <3> QED
      BY <1>4, <3>1
  <2> QED
    BY <1>1, <2>1 DEF Reachable, There, Cleared, Wanted
<1>8. KnownTenants(p) => KnownTenants(p)'
  BY <1>1, <1>4 DEF KnownTenants, There, InDict
<1> QED
  BY <1>1, <1>5, <1>6, <1>7, <1>8 DEF OwnInv

(***************************************************************************)
(* _create_creds: the project.                                             *)
(***************************************************************************)
LEMMA ProjectKeeps ==
  ASSUME IsoTypes, NEW p \in IsoProcs, OwnInv(p), create_project(p)
  PROVE  OwnInv(p)'
<1>1. /\ ipc[p] = "project" /\ iso' = iso /\ settings' = settings /\ made' = made
      /\ lost' = lost /\ made[p] \in Nat /\ nfailed[p] \in Nat
  BY DEF IsoTypes, create_project, Goto, StartClearing
<1>2. CASE /\ Goto(p, "project", "zone") /\ nfailed' = nfailed
           /\ cloud' = cloud \cup Of(Tenant(p), {"project"})
  <2>1. ipc'[p] = "zone"
    BY <1>2 DEF Goto, IsoTypes
  <2>2. \A n \in Nat, k \in Items : There(p, n, k)' <=> There(p, n, k) \/ (n = made[p] /\ k = "project")
    BY <1>2 DEF There, Of, Tenant
  <2>3. Dictionary(p)' /\ AtHand(p)'
    BY <1>1, <2>1, <2>2 DEF OwnInv, Dictionary, AtHand, Items
  <2>4. ASSUME Reachable(p)
        PROVE  Reachable(p)'
    <3>1. \A n \in Nat, k \in NetItems : There(p, n, k)' => There(p, n, k)
      BY <2>2 DEF NetItems, Items
    <3>2. \A n \in Nat : There(p, n, "project") => There(p, n, "project")'
      BY <2>2 DEF Items
    <3> QED
      BY <1>1, <2>1, <2>4, <3>1, <3>2 DEF Reachable, Cleared, Wanted
  <2>5. ASSUME KnownTenants(p)
        PROVE  KnownTenants(p)'
    BY <1>1, <2>1, <2>2, <2>5 DEF KnownTenants, InDict
  <2> QED
    BY <1>1, <1>2, <2>3, <2>4, <2>5 DEF OwnInv
<1>3. CASE /\ Fails(p) /\ StartClearing(p, "project", iso[p])
           /\ \E done \in {{}, {"project"}} : cloud' = cloud \cup Of(Tenant(p), done)
  <2>1. nfailed'[p] = nfailed[p] + 1
    BY <1>3 DEF Fails, IsoTypes
  <2>2. \A n \in Nat, k \in Items : There(p, n, k)' => There(p, n, k) \/ k = "project"
    BY <1>3 DEF There, Of
  <2>3. \A n \in Nat, k \in Items : There(p, n, k) => There(p, n, k)'
    BY <1>3 DEF There
  <2>4. \A n \in Nat, k \in Items : There(p, n, k)' /\ k \in NetItems => There(p, n, k)
    BY <2>2 DEF NetItems
  <2>5. StartClearing(p, "project", iso[p])
    BY <1>3
  <2> QED
    BY <1>1, <2>1, <2>3, <2>4, <2>5, BeginsClearing
<1> QED
  BY <1>2, <1>3 DEF create_project

(***************************************************************************)
(* The zone of the tenant (ZoneInv below is about it).                     *)
(***************************************************************************)
LEMMA ZoneKeeps ==
  ASSUME IsoTypes, NEW p \in IsoProcs, OwnInv(p), associate_az_tenant(p)
  PROVE  OwnInv(p)'
<1>1. /\ ipc[p] = "zone" /\ iso' = iso /\ settings' = settings /\ made' = made
      /\ lost' = lost /\ cloud' = cloud /\ nfailed[p] \in Nat
  BY DEF IsoTypes, associate_az_tenant, Goto, StartClearing
<1>2. CASE Goto(p, "zone", "user") /\ nfailed' = nfailed
  <2>1. ipc'[p] = "user"
    BY <1>2 DEF Goto, IsoTypes
  <2>2. Dictionary(p)' /\ AtHand(p)'
    BY <1>1, <2>1 DEF OwnInv, Dictionary, AtHand, There
  <2>3. Reachable(p) => Reachable(p)'
    BY <1>1, <2>1 DEF Reachable, There, Cleared, Wanted
  <2>4. KnownTenants(p) => KnownTenants(p)'
    BY <1>1, <2>1 DEF KnownTenants, There, InDict
  <2> QED
    BY <1>1, <1>2, <2>2, <2>3, <2>4 DEF OwnInv
<1>3. CASE Fails(p) /\ StartClearing(p, "zone", iso[p])
  <2>1. nfailed'[p] = nfailed[p] + 1
    BY <1>3 DEF Fails, IsoTypes
  <2>2. nfailed'[p] \in Nat /\ nfailed'[p] >= nfailed[p] /\ nfailed'[p] # 0
    BY <1>1, <2>1
  <2>3. iso'[p] = iso[p] /\ settings'[p] = settings[p] /\ lost'[p] = lost[p]
    BY <1>1
  <2>4. \A n \in Nat, k \in Items : There(p, n, k)' <=> There(p, n, k)
    BY <1>1 DEF There
  <2>5. StartClearing(p, "zone", iso[p])
    BY <1>3
  <2> QED
    BY <2>2, <2>3, <2>4, <2>5, BeginsClearing
<1> QED
  BY <1>2, <1>3 DEF associate_az_tenant

(***************************************************************************)
(* The user, with whom the set enters the dictionary.                      *)
(***************************************************************************)
LEMMA UserKeeps ==
  ASSUME IsoTypes, NEW p \in IsoProcs, OwnInv(p), create_user(p)
  PROVE  OwnInv(p)'
<1>1. /\ ipc[p] = "user" /\ settings' = settings /\ made' = made
      /\ lost' = lost /\ made[p] \in Nat /\ nfailed[p] \in Nat
  BY DEF IsoTypes, create_user, Goto, StartClearing
<1>2. CASE /\ Goto(p, "user", "network") /\ nfailed' = nfailed
           /\ cloud' = cloud \cup Of(Tenant(p), {"user"})
           /\ iso' = [iso EXCEPT ![p] = @ \cup {[key |-> IsoKey(Head(itodo[p]), 0),
                                                tenant |-> Tenant(p), net |-> {}]}]
  <2>1. ipc'[p] = "network"
    BY <1>2 DEF Goto, IsoTypes
  <2>2. \A n \in Nat, k \in Items : There(p, n, k)' <=> There(p, n, k) \/ (n = made[p] /\ k = "user")
    BY <1>2 DEF There, Of, Tenant
  <2> DEFINE new == [key |-> IsoKey(Head(itodo[p]), 0), tenant |-> <<p, made[p]>>, net |-> {}]
  <2>3. iso'[p] = iso[p] \cup {new}
    BY <1>2 DEF IsoTypes, Tenant
  <2>4. Dictionary(p)'
    BY <1>1, <2>1, <2>3 DEF OwnInv, Dictionary, Wanted
  <2>5. InDict(p, made[p])'
    <3>1. new \in iso'[p] /\ new.tenant = <<p, made[p]>>
      BY <2>3
    <3> QED
      BY <1>1, <3>1 DEF InDict
  <2>6. AtHand(p)'
    <3>1. There(p, made[p], "project")
      BY <1>1 DEF OwnInv, AtHand
    <3> QED
      BY <1>1, <2>1, <2>2, <2>5, <3>1 DEF AtHand, Items, InDict, There
  <2>7. ASSUME Reachable(p)
        PROVE  Reachable(p)'
    <3>1. \A n \in Nat, k \in NetItems : There(p, n, k)' => There(p, n, k)
      BY <2>2 DEF NetItems, Items
    <3>2. \A n \in Nat : There(p, n, "project") => There(p, n, "project")'
      BY <2>2 DEF Items
    <3>3. iso[p] \subseteq iso'[p]
      BY <2>3
    <3> QED
      BY <1>1, <2>1, <2>7, <3>1, <3>2, <3>3 DEF Reachable, Cleared, Wanted
  <2>8. ASSUME KnownTenants(p)
        PROVE  KnownTenants(p)'
    <3>1. \A n \in Nat : InDict(p, n) => InDict(p, n)'
      BY <2>3 DEF InDict
    <3>2. \A n \in Nat, k \in Items : There(p, n, k) => InDict(p, n) \/ n = made[p]
      BY <1>1, <2>8 DEF KnownTenants
    <3>3. \A n \in Nat, k \in Items : There(p, n, k)' => InDict(p, n)'
      BY <1>1, <2>2, <2>5, <3>1, <3>2 DEF InDict
    <3> QED
      BY <2>1, <3>3 DEF KnownTenants
  <2> QED
    BY <1>1, <1>2, <2>4, <2>6, <2>7, <2>8 DEF OwnInv
<1>3. CASE /\ Fails(p) /\ StartClearing(p, "user", iso[p]) /\ iso' = iso
           /\ \E done \in {{}, {"user"}} : cloud' = cloud \cup Of(Tenant(p), done)
  <2>1. nfailed'[p] = nfailed[p] + 1
    BY <1>3 DEF Fails, IsoTypes
  <2>2. \A n \in Nat, k \in Items : There(p, n, k)' => There(p, n, k) \/ k = "user"
    BY <1>3 DEF There, Of
  <2>3. \A n \in Nat, k \in Items : There(p, n, k) => There(p, n, k)'
    BY <1>3 DEF There
  <2>4. \A n \in Nat, k \in Items : There(p, n, k)' /\ k \in NetItems => There(p, n, k)
    BY <2>2 DEF NetItems
  <2>5. StartClearing(p, "user", iso[p])
    BY <1>3
  <2> QED
    BY <1>1, <1>3, <2>1, <2>3, <2>4, <2>5, BeginsClearing
<1> QED
  BY <1>2, <1>3 DEF create_user

(***************************************************************************)
(* The network; after it the dictionary knows what clear_isolated_creds    *)
(* has to delete.                                                          *)
(***************************************************************************)
LEMMA ClearedWhatWasMade ==
  ASSUME NEW p, ~Invalid(settings[p])
  PROVE  /\ Resources(p) \subseteq Cleared(settings[p], Wanted(settings[p]))
         /\ Resources(p) \subseteq NetItems
         /\ Implied(Wanted(settings[p])) \cap NetItems = {}
<1> DEFINE s == settings[p]
<1>1. "router" \in Wanted(s) => ~s.given \/ ("router" \in s.kinds /\ "subnet" \in Wanted(s))
  BY DEF Invalid, Wanted
<1>2. Wanted(s) \subseteq {"network", "subnet", "router"}
  BY DEF Wanted
<1>3. Wanted(s) = {} => Resources(p) = {}
  BY DEF Resources
<1>4. "router" \in Wanted(s) => {"interface", "router"} \subseteq Cleared(s, Wanted(s))
  BY <1>1 DEF Cleared
<1>5. Wanted(s) \cap {"subnet", "network"} \subseteq Cleared(s, Wanted(s))
  BY DEF Cleared
<1>6. Resources(p) \subseteq Cleared(s, Wanted(s))
  BY <1>2, <1>4, <1>5 DEF Resources
<1>7. Resources(p) \subseteq NetItems
  BY <1>2 DEF Resources, NetItems
<1> QED
  BY <1>6, <1>7 DEF Implied, NetItems

(***************************************************************************)
(* _create_network_resources, in each of its outcomes: made, refused or    *)
(* without a network.                                                      *)
(***************************************************************************)
LEMMA NetworkKeeps ==
  ASSUME IsoTypes, NEW p \in IsoProcs, OwnInv(p), _create_network_resources(p)
  PROVE  OwnInv(p)'
<1>1. /\ ipc[p] = "network" /\ settings' = settings /\ made' = made
      /\ made[p] \in Nat /\ nfailed[p] \in Nat
  BY DEF IsoTypes, _create_network_resources, Goto, StartClearing
<1>2. CASE /\ ~Invalid(settings[p]) /\ Goto(p, "network", "setup")
           /\ cloud' = cloud \cup Of(Tenant(p), Resources(p) \cup Implied(Wanted(settings[p])))
           /\ iso' = [iso EXCEPT ![p] =
                {IF e.tenant = Tenant(p) THEN [e EXCEPT !.net = Wanted(settings[p])] ELSE e : e \in @}]
           /\ nfailed' = nfailed /\ lost' = lost
  <2> DEFINE want == Wanted(settings[p])
             t    == <<p, made[p]>>
             S    == Resources(p) \cup Implied(want)
  <2>1. ipc'[p] = "setup"
    BY <1>2 DEF Goto, IsoTypes
  <2>2. \A n \in Nat, k \in Items : There(p, n, k)' <=> There(p, n, k) \/ (n = made[p] /\ k \in S)
    BY <1>2 DEF There, Of, Tenant
  <2>3. iso'[p] = {IF e.tenant = t THEN [e EXCEPT !.net = want] ELSE e : e \in iso[p]}
    BY <1>2 DEF IsoTypes, Tenant
  <2>4. ASSUME NEW f \in iso[p]
        PROVE  \E e \in iso'[p] : /\ e.tenant = f.tenant
                                  /\ e.net = IF f.tenant = t THEN want ELSE f.net
    <3>1. PICK n \in Nat, net \in {{}, want} : f = [key |-> f.key, tenant |-> <<p, n>>, net |-> net]
      BY DEF OwnInv, Dictionary
    <3> DEFINE e == IF f.tenant = t THEN [f EXCEPT !.net = want] ELSE f
    <3>2. e \in iso'[p]
      BY <2>3
    <3>3. e.tenant = f.tenant /\ e.net = IF f.tenant = t THEN want ELSE f.net
      BY <3>1
    <3> HIDE DEF e
    <3> QED
      BY <3>2, <3>3
  <2>5. Dictionary(p)'
    <3>1. ASSUME NEW e \in iso'[p]
          PROVE  \E n \in Nat, net \in {{}, want} : e = [key |-> e.key, tenant |-> <<p, n>>, net |-> net]
      <4>1. PICK f \in iso[p] : e = IF f.tenant = t THEN [f EXCEPT !.net = want] ELSE f
        BY <2>3
      <4>2. PICK n \in Nat, net \in {{}, want} : f = [key |-> f.key, tenant |-> <<p, n>>, net |-> net]
        BY DEF OwnInv, Dictionary
      <4>3. [f EXCEPT !.net = want] = [key |-> f.key, tenant |-> <<p, n>>, net |-> want]
        BY <4>2
      <4> QED
        BY <4>1, <4>2, <4>3
    <3> QED
      BY <1>1, <2>1, <3>1 DEF Dictionary, Wanted
  <2>6. AtHand(p)'
    BY <2>1 DEF AtHand
  <2>7. ASSUME Reachable(p)
        PROVE  Reachable(p)'
    <3>1. There(p, made[p], "project") /\ InDict(p, made[p])
      BY <1>1 DEF OwnInv, AtHand
    <3>2. \A n \in Nat : There(p, n, "project") => There(p, n, "project")'
      BY <2>2 DEF Items
    <3>3. ASSUME NEW n \in Nat, NEW k \in NetItems, There(p, n, k)'
          PROVE  /\ There(p, n, "project")
                 /\ \E e \in iso'[p] : e.tenant = <<p, n>> /\ k \in Cleared(settings[p], e.net)
      <4>1. k \in Items
        BY DEF NetItems, Items
      <4>2. CASE There(p, n, k)
        <5>1. There(p, n, "project")
          BY <2>7, <4>2 DEF Reachable
        <5>2. PICK f \in iso[p] : f.tenant = <<p, n>> /\ k \in Cleared(settings[p], f.net)
          BY <1>1, <2>7, <4>2 DEF Reachable
        <5>3. PICK e \in iso'[p] : e.tenant = f.tenant /\ e.net = IF f.tenant = t THEN want ELSE f.net
          BY <2>4
        <5>4. f.net \in {{}, want}
          BY DEF OwnInv, Dictionary
        <5>5. f.net # {}
          BY <5>2 DEF Cleared
        <5> QED
          BY <5>1, <5>2, <5>3, <5>4, <5>5
      <4>3. CASE n = made[p] /\ k \in S
        <5>1. k \in Cleared(settings[p], want)
          BY <1>2, <4>3, ClearedWhatWasMade
        <5>2. PICK f \in iso[p] : f.tenant = t
          BY <3>1 DEF InDict
        <5>3. PICK e \in iso'[p] : e.tenant = t /\ e.net = want
          BY <2>4, <5>2
        <5> QED
          BY <3>1, <4>3, <5>1, <5>3
      <4> QED
        BY <2>2, <3>3, <4>1, <4>2, <4>3
    <3> QED
      BY <1>1, <2>1, <3>2, <3>3 DEF Reachable, Cleared, Wanted
  <2>8. ASSUME KnownTenants(p)
        PROVE  KnownTenants(p)'
    <3>1. \A n \in Nat : InDict(p, n) => InDict(p, n)'
      BY <2>4 DEF InDict
    <3>2. \A n \in Nat, k \in Items : There(p, n, k) => InDict(p, n)
      BY <1>1, <2>8 DEF KnownTenants
    <3>3. InDict(p, made[p])
      BY <1>1 DEF OwnInv, AtHand
    <3>4. \A n \in Nat, k \in Items : There(p, n, k)' => InDict(p, n)'
      BY <1>1, <2>2, <3>1, <3>2, <3>3 DEF InDict
    <3> QED
      BY <2>1, <3>4 DEF KnownTenants
  <2> QED
    BY <1>2, <2>5, <2>6, <2>7, <2>8 DEF OwnInv
<1>3. CASE /\ StartClearing(p, "network", iso[p]) /\ iso' = iso /\ cloud' = cloud
           /\ nfailed' = nfailed /\ lost' = lost
  <2>1. \A n \in Nat, k \in Items : There(p, n, k)' <=> There(p, n, k)
    BY <1>3 DEF There
  <2>2. /\ iso'[p] = iso[p] /\ settings'[p] = settings[p] /\ lost'[p] = lost[p]
        /\ nfailed'[p] = nfailed[p]
    BY <1>1, <1>3
  <2>3. StartClearing(p, "network", iso[p])
    BY <1>3
  <2>4. nfailed'[p] \in Nat /\ nfailed'[p] >= nfailed[p]
    BY <1>1, <2>2
  <2>5. \A n \in Nat, k \in Items : There(p, n, k) => There(p, n, k)'
    BY <2>1
  <2>6. \A n \in Nat, k \in Items : There(p, n, k)' => There(p, n, k)
    BY <2>1
  <2> QED
    BY <2>2, <2>3, <2>4, <2>5, <2>6, BeginsClearing
<1>4. CASE StartClearing(p, "network", iso[p]) /\ iso' = iso /\ NetFails(p) /\ nfailed'[p] > nfailed[p]
  <2>1. PICK S \in SUBSET Items : /\ cloud' = cloud \cup Of(Tenant(p), S)
                                  /\ nfailed'[p] <= 1 /\ ~lost'[p] => S \cap NetItems = {}
    BY <1>4 DEF NetFails
  <2>2. \A n \in Nat, k \in Items : There(p, n, k)' => There(p, n, k) \/ k \in S
    BY <2>1 DEF There, Of
  <2>3. \A n \in Nat, k \in Items : There(p, n, k) => There(p, n, k)'
    BY <2>1 DEF There
  <2>4. \A n \in Nat, k \in Items :
           There(p, n, k)' /\ nfailed'[p] <= 1 /\ ~lost'[p] /\ k \in NetItems => There(p, n, k)
    BY <2>1, <2>2
  <2>5. nfailed'[p] \in Nat /\ (lost[p] => lost'[p])
    BY DEF _create_network_resources, IsoTypes
  <2>6. nfailed'[p] # 0
    BY <1>1, <1>4, <2>5
  <2>7. nfailed'[p] >= nfailed[p] 
    BY <1>1, <1>4, <2>5
  <2> QED
    <3>1. iso'[p] = iso[p] /\ settings'[p] = settings[p] /\ StartClearing(p, "network", iso[p])
      BY <1>1, <1>4
    <3>2. lost'[p] => lost[p] \/ nfailed'[p] > nfailed[p]
      BY <1>4
    <3> QED
      BY <2>3, <2>4, <2>5, <2>6, <2>7, <3>1, <3>2, BeginsClearing
<1> QED
  BY <1>2, <1>3, <1>4, NetCalls DEF NetMade

(***************************************************************************)
(* tearDownClass begins to clear.                                          *)
(***************************************************************************)
LEMMA TearDownKeeps ==
  ASSUME IsoTypes, NEW p \in IsoProcs, OwnInv(p), IsoTearDownClass(p)
  PROVE  OwnInv(p)'
<1>1. /\ StartClearing(p, "setup", iso[p]) /\ iso' = iso /\ settings' = settings
      /\ cloud' = cloud /\ nfailed' = nfailed /\ lost' = lost
  BY DEF IsoTearDownClass, worldVars, historyVars
<1>2. \A n \in Nat, k \in Items : There(p, n, k)' <=> There(p, n, k)
  BY <1>1 DEF There
<1>3. nfailed[p] \in Nat
  BY DEF IsoTypes
<1> QED
  BY <1>1, <1>2, <1>3, BeginsClearing

(***************************************************************************)
(* The first loop of clear_isolated_creds takes the network of one set     *)
(* away: all of it, or what comes before the call that fails.              *)
(***************************************************************************)
LEMMA ClearNetKeeps ==
  ASSUME IsoTypes, NEW p \in IsoProcs, OwnInv(p), _clear_isolated_net_resources(p)
  PROVE  OwnInv(p)'
<1>1. /\ ipc[p] = "clear_net" /\ iso' = iso /\ settings' = settings /\ made' = made
      /\ lost' = lost /\ vanished' = vanished /\ nfailed[p] \in Nat
  BY DEF IsoTypes, _clear_isolated_net_resources
<1>2. Dictionary(p) /\ clearing[p] \subseteq iso[p]
  BY <1>1 DEF OwnInv, Dictionary
<1>3. PICK e \in clearing[p] :
        \/ /\ cloud' = cloud \ Of(e.tenant, Cleared(settings[p], e.net))
           /\ clearing' = [clearing EXCEPT ![p] = IF clearing[p] \ {e} = {} THEN iso[p]
                                                                    ELSE clearing[p] \ {e}]
           /\ ipc' = [ipc EXCEPT ![p] = IF clearing[p] \ {e} = {} THEN "clear_tenant" ELSE @]
           /\ nfailed' = nfailed
        \/ /\ Fails(p)
           /\ \E stop \in Cleared(settings[p], e.net) :
                cloud' = cloud \ Of(e.tenant, {k \in Cleared(settings[p], e.net) : Rank[k] > Rank[stop]})
           /\ ipc' = [ipc EXCEPT ![p] = "ended"]
           /\ clearing' = [clearing EXCEPT ![p] = {}]
  BY DEF _clear_isolated_net_resources
<1>4. PICK m \in Nat : e.tenant = <<p, m>>
  BY <1>1, <1>2, OwnTenants
<1>5. Cleared(settings[p], e.net) \subseteq NetItems
  BY DEF Cleared, Wanted, NetItems
<1>6. /\ \A n \in Nat, k \in Items : There(p, n, k)' => There(p, n, k)
      /\ \A n \in Nat : There(p, n, "project") => There(p, n, "project")'
  BY <1>3, <1>5 DEF There, Of, NetItems
<1>7. CASE /\ cloud' = cloud \ Of(e.tenant, Cleared(settings[p], e.net))
           /\ clearing' = [clearing EXCEPT ![p] = IF clearing[p] \ {e} = {} THEN iso[p]
                                                                    ELSE clearing[p] \ {e}]
           /\ ipc' = [ipc EXCEPT ![p] = IF clearing[p] \ {e} = {} THEN "clear_tenant" ELSE @]
           /\ nfailed' = nfailed
  <2> DEFINE rest == clearing[p] \ {e}
  <2>1. /\ clearing'[p] = IF rest = {} THEN iso[p] ELSE rest
        /\ ipc'[p] = IF rest = {} THEN "clear_tenant" ELSE "clear_net"
    BY <1>1, <1>7 DEF IsoTypes
  <2>2. Dictionary(p)' /\ AtHand(p)'
    BY <1>1, <1>2, <2>1 DEF Dictionary, AtHand, Wanted
  <2>3. ASSUME Reachable(p)
        PROVE  Reachable(p)'
    <3>1. ASSUME NEW n \in Nat, NEW k \in NetItems, There(p, n, k)'
          PROVE  /\ There(p, n, "project")
                 /\ \E f \in rest : f.tenant = <<p, n>> /\ k \in Cleared(settings[p], f.net)
      <4>1. There(p, n, k)
        BY <1>6, <3>1 DEF NetItems, Items
      <4>2. There(p, n, "project") /\ \E f \in clearing[p] : f.tenant = <<p, n>> /\ k \in Cleared(settings[p], f.net)
        BY <1>1, <2>3, <4>1 DEF Reachable
      <4>3. ~(e.tenant = <<p, n>> /\ k \in Cleared(settings[p], e.net))
        BY <1>7, <3>1 DEF There, Of
      <4> QED
        BY <4>2, <4>3
    <3>2. ASSUME NEW n \in Nat, NEW k \in NetItems, There(p, n, k)'
          PROVE  /\ There(p, n, "project")'
                 /\ ipc'[p] = "clear_net"
                 /\ \E f \in iso'[p] : /\ f.tenant = <<p, n>> /\ k \in Cleared(settings'[p], f.net)
                                       /\ f \in clearing'[p]
      <4>1. PICK f \in rest : f.tenant = <<p, n>> /\ k \in Cleared(settings[p], f.net)
        BY <3>1, <3>2
      <4>2. There(p, n, "project")'
        BY <1>6, <3>1, <3>2
      <4> QED
        BY <1>1, <1>2, <2>1, <4>1, <4>2
    <3> QED
      BY <3>2 DEF Reachable, Cleared, Wanted
  <2>4. ASSUME KnownTenants(p)
        PROVE  KnownTenants(p)'
    <3>1. \A n \in Nat, k \in Items : There(p, n, k)' => InDict(p, n)
      BY <1>1, <1>6, <2>4 DEF KnownTenants
    <3> QED
      BY <1>1, <2>1, <3>1 DEF KnownTenants, InDict
  <2> QED
    BY <1>1, <1>7, <2>2, <2>3, <2>4 DEF OwnInv
<1>8. CASE /\ Fails(p)
           /\ ipc' = [ipc EXCEPT ![p] = "ended"]
  <2>1. ipc'[p] = "ended" /\ nfailed'[p] = nfailed[p] + 1
    BY <1>8 DEF IsoTypes, Fails
  <2>2. Dictionary(p)' /\ AtHand(p)'
    BY <1>1, <1>2, <2>1 DEF Dictionary, AtHand, Wanted
  <2>3. ASSUME Reachable(p)
        PROVE  Reachable(p)'
    <3>1. \A n \in Nat, k \in NetItems : There(p, n, k)' => There(p, n, "project")'
      BY <1>6, <2>3 DEF Reachable, NetItems, Items
    <3> QED
      BY <2>1, <3>1 DEF Reachable
  <2> QED
    BY <1>1, <2>1, <2>2, <2>3 DEF OwnInv
<1> QED
  BY <1>3, <1>7, <1>8

(***************************************************************************)
(* The second loop takes the user, the security group, the HA network and  *)
(* the project of one set away; no network is left by then.                *)
(***************************************************************************)
LEMMA ClearTenantKeeps ==
  ASSUME IsoTypes, NEW p \in IsoProcs, OwnInv(p), ClearTenant(p)
  PROVE  OwnInv(p)'
<1>1. /\ ipc[p] = "clear_tenant" /\ settings' = settings /\ made' = made
      /\ lost' = lost /\ nfailed[p] \in Nat
  BY DEF IsoTypes, ClearTenant
<1>2. Dictionary(p) /\ clearing[p] \subseteq iso[p]
  BY <1>1 DEF OwnInv, Dictionary
<1>3. PICK e \in clearing[p] :
        LET rest   == clearing[p] \ {e}
            end(S) == cloud' = cloud \ Of(e.tenant, S)
        IN \/ /\ end({"user", "secgroup", "ha", "project"})
              /\ UNCHANGED <<nfailed, vanished>>
              /\ NextTenant(p, rest)
           \/ /\ end({"user", "secgroup", "ha"})
              /\ vanished' = [vanished EXCEPT ![p] = TRUE]
              /\ NextTenant(p, rest)
              /\ UNCHANGED nfailed
           \/ /\ Fails(p)
              /\ \E S \in {{}, {"user"}, {"user", "secgroup"}, {"user", "secgroup", "ha"}} : end(S)
              /\ clearing' = [clearing EXCEPT ![p] = {}]
              /\ ipc' = [ipc EXCEPT ![p] = "ended"]
              /\ UNCHANGED <<iso, vanished>>
  BY DEF ClearTenant
<1> DEFINE rest == clearing[p] \ {e}
<1>4. PICK m \in Nat : e.tenant = <<p, m>>
  BY <1>1, <1>2, OwnTenants
<1>5. \A n \in Nat, k \in Items : There(p, n, k)' => There(p, n, k)
  BY <1>3 DEF There
<1>6. /\ ipc'[p] \in {"clear_tenant", "ended"}
      /\ iso'[p] = iso[p] \/ iso'[p] = {}
      /\ ipc'[p] = "clear_tenant" => iso'[p] = iso[p] /\ clearing'[p] = rest
  BY <1>1, <1>3 DEF NextTenant, IsoTypes
<1>7. Dictionary(p)' /\ AtHand(p)'
  BY <1>1, <1>2, <1>6 DEF Dictionary, AtHand, Wanted
<1>8. nfailed'[p] = nfailed[p] \/ nfailed'[p] = nfailed[p] + 1
  BY <1>3 DEF Fails, IsoTypes
<1>9. ASSUME Reachable(p)
      PROVE  Reachable(p)'
  <2>1. \A n \in Nat, k \in NetItems : ~There(p, n, k)
    BY <1>1, <1>9 DEF Reachable
  <2>2. \A n \in Nat, k \in NetItems : ~There(p, n, k)'
    BY <1>5, <2>1 DEF NetItems, Items
  <2> QED
    BY <2>2 DEF Reachable
<1>10. ASSUME Reachable(p), KnownTenants(p), nfailed'[p] = 0
       PROVE  KnownTenants(p)'
  <2>1. \A n \in Nat, k \in NetItems : ~There(p, n, k)
    BY <1>1, <1>10 DEF Reachable
  <2>2. /\ \/ /\ cloud' = cloud \ Of(e.tenant, {"user", "secgroup", "ha", "project"})
              /\ vanished' = vanished
           \/ /\ cloud' = cloud \ Of(e.tenant, {"user", "secgroup", "ha"})
              /\ vanished'[p] = TRUE
        /\ NextTenant(p, rest)
    BY <1>1, <1>3, <1>10 DEF Fails, IsoTypes
  <2>3. ASSUME NEW n \in Nat, NEW k \in Items, There(p, n, k)'
        PROVE  Skipped(p, k)' \/ \E f \in rest : f.tenant = <<p, n>>
    <3>1. There(p, n, k)
      BY <1>5, <2>3
    <3>2. vanished[p] => vanished'[p]
      BY <2>2
    <3>3. CASE n = m
      <4>1. k \notin {"user", "secgroup", "ha"}
        BY <1>4, <2>2, <2>3, <3>3 DEF There, Of
      <4>2. k = "project"
        BY <2>1, <3>1, <4>1 DEF Items, NetItems
      <4>3. vanished'[p]
        BY <1>4, <2>2, <2>3, <3>3, <4>2 DEF There, Of
      <4> QED
        BY <4>2, <4>3 DEF Skipped
    <3>4. CASE n # m
      <4>1. Skipped(p, k) \/ \E f \in clearing[p] : f.tenant = <<p, n>>
        BY <1>1, <1>10, <3>1 DEF KnownTenants
      <4>2. e.tenant # <<p, n>>
        BY <1>4, <3>4
      <4> QED
        BY <3>2, <4>1, <4>2 DEF Skipped
    <3> QED
      BY <3>3, <3>4
  <2>4. /\ ipc'[p] = IF rest = {} THEN "ended" ELSE "clear_tenant"
        /\ clearing'[p] = rest
    BY <1>1, <2>2 DEF NextTenant, IsoTypes
  <2>5. CASE rest = {}
    BY <2>3, <2>4, <2>5 DEF KnownTenants, Skipped
  <2>6. CASE rest # {}
    BY <2>3, <2>4, <2>6 DEF KnownTenants, Skipped
  <2> QED
    BY <2>5, <2>6
<1> QED
  BY <1>1, <1>7, <1>8, <1>9, <1>10 DEF OwnInv

(***************************************************************************)
(* Every step keeps it: the work of a process by the lemma of its action,  *)
(* and the parts of the others by OtherWork.                               *)
(***************************************************************************)
LEMMA CleanInvHolds == FrameSpec => []CleanInv
<1>1. FrameInit => CleanInv
  <2> SUFFICES ASSUME IsoInit
               PROVE  CleanInv
    BY DEF FrameInit, CredInit, CredIdle
  <2> USE DEF IsoInit
  <2>1. IsoTypes
    BY DEF IsoTypes
  <2>2. ASSUME NEW p \in IsoProcs
        PROVE  OwnInv(p)
    <3>1. ipc[p] = "new" /\ iso[p] = {} /\ ~lost[p] /\ \A n, k : ~There(p, n, k)
      BY DEF There
    <3>2. Dictionary(p) /\ AtHand(p)
      BY <3>1 DEF Dictionary, AtHand
    <3> QED
      BY <3>1, <3>2 DEF OwnInv, Reachable, KnownTenants
  <2> QED
    BY <2>1, <2>2 DEF CleanInv
<1>2. CleanInv /\ [IsoNext]_isoVars => CleanInv'
  <2>1. ASSUME CleanInv, NEW p \in IsoProcs, IsoWork(p)
        PROVE  CleanInv'
    <3>1. OwnInv(p)'
      BY <2>1, SetUpKeeps, RequestKeeps, ProjectKeeps, ZoneKeeps, UserKeeps, NetworkKeeps,
         TearDownKeeps, ClearNetKeeps, ClearTenantKeeps DEF CleanInv, IsoWork
    <3>2. ASSUME NEW q \in IsoProcs, q # p
          PROVE  OwnInv(q)'
      BY <2>1, <3>2, OtherWork, SameKeeps DEF CleanInv
    <3>3. IsoTypes'
      BY <2>1, IsoTypesKept
    <3> QED
      BY <3>1, <3>2, <3>3 DEF CleanInv
  <2>2. CASE UNCHANGED isoVars
    BY <2>2 DEF isoVars, CleanInv, OwnInv, IsoTypes, Dictionary, AtHand, Reachable, KnownTenants,
                There, InDict, Cleared, Wanted, Skipped
  <2> QED
    BY <2>1, <2>2 DEF IsoNext
<1> QED
  BY <1>1, <1>2, FrameIsoStep, PTL DEF FrameSpec

(***************************************************************************)
(* Whatever sets the classes ask for, however many calls of other classes  *)
(* fail: what get_isolated_creds has made for a class, clear_isolated_creds *)
(* takes down, all of it when none of its own calls failed, and no network *)
(* out of reach after one failure (isolated_creds.py).                     *)
(***************************************************************************)
THEOREM CleanExitHolds == FrameSpec => []CleanExit
<1>1. CleanInv => CleanExit
  <2> SUFFICES ASSUME CleanInv, NEW p \in IsoProcs
               PROVE  /\ ipc[p] = "ended" /\ nfailed[p] = 0 =>
                           \A x \in Left(p) : vanished[p] /\ x[2] = "project"
                      /\ Orphans(p) # {} => nfailed[p] >= 2 \/ lost[p]
    BY DEF CleanExit, NothingLeft, NoOrphan
  <2>1. IsoTypes /\ OwnInv(p) /\ nfailed[p] \in Nat
    BY DEF CleanInv, IsoTypes
  <2>2. ASSUME NEW x \in Left(p)
        PROVE  \E n \in Nat, k \in Items : x = <<<<p, n>>, k>> /\ There(p, n, k)
    <3>1. x \in cloud /\ x[1][1] = p
      BY DEF Left
    <3>2. PICK t \in IsoProcs \X Nat, k \in Items : x = <<t, k>>
      BY <2>1, <3>1 DEF IsoTypes
    <3>3. PICK q \in IsoProcs, n \in Nat : t = <<q, n>>
      BY <3>2
    <3>4. q = p
      BY <3>1, <3>2, <3>3
    <3> QED
      BY <3>1, <3>2, <3>3, <3>4 DEF There
  <2>3. ASSUME ipc[p] = "ended", nfailed[p] = 0, NEW x \in Left(p)
        PROVE  vanished[p] /\ x[2] = "project"
    <3>1. PICK n \in Nat, k \in Items : x = <<<<p, n>>, k>> /\ There(p, n, k)
      BY <2>2, <2>3
    <3>2. Skipped(p, k)
      BY <2>1, <2>3, <3>1 DEF OwnInv, KnownTenants
    <3> QED
      BY <3>1, <3>2 DEF Skipped
  <2>4. ASSUME NEW x \in Orphans(p), nfailed[p] <= 1, ~lost[p]
        PROVE  FALSE
    <3>1. /\ x \in Left(p) /\ <<x[1], "project">> \notin cloud
          /\ x[2] \in {"network", "subnet", "router", "interface"}
      BY DEF Orphans
    <3>2. PICK n \in Nat, k \in Items : x = <<<<p, n>>, k>> /\ There(p, n, k)
      BY <2>2, <3>1
    <3>3. k \in NetItems
      BY <3>1, <3>2 DEF NetItems
    <3>4. There(p, n, "project")
      BY <2>1, <2>4, <3>2, <3>3 DEF OwnInv, Reachable
    <3> QED
      BY <3>1, <3>2, <3>4 DEF There
  <2> QED
    BY <2>1, <2>3, <2>4
<1> QED
  BY <1>1, CleanInvHolds, PTL

(***************************************************************************)
(* As long as nobody made a zone unseen there is at most one, it has the   *)
(* hosts, and who has looked for zones has seen none or that one.          *)
(***************************************************************************)
ZoneInv ==
  /\ raced \in BOOLEAN /\ DOMAIN seenZones = IsoProcs
  /\ ~raced => \/ /\ zones = <<>> /\ hostZone = "default" /\ DOMAIN zoneOf = {}
                  /\ \A p \in IsoProcs : seenZones[p] = <<>>
               \/ /\ zones = <<hostZone>>
                  /\ \A t \in DOMAIN zoneOf : zoneOf[t] = hostZone
                  /\ \A p \in IsoProcs : seenZones[p] \in {<<>>, zones}

(***************************************************************************)
(* A step of a process on the zones; the step that makes a zone when there *)
(* is one already is the race that the property leaves out.                *)
(***************************************************************************)
LEMMA ZoneStep ==
  ASSUME ZoneInv, NEW p \in IsoProcs, IsoWork(p)
  PROVE  ZoneInv'
<1>1. CASE UNCHANGED <<zones, hostZone, zoneOf, seenZones, raced>>
  BY <1>1 DEF ZoneInv
<1>2. CASE create_project(p)
  BY <1>2 DEF create_project, ZoneInv
<1>3. CASE associate_az_tenant(p)
  <2>1. seenZones' = seenZones
    BY <1>3 DEF associate_az_tenant
  <2>2. CASE /\ seenZones[p] # <<>>
             /\ zoneOf' = bind(Tenant(p), Head(seenZones[p]))
             /\ UNCHANGED <<zones, hostZone, raced>>
    <3>1. CASE raced
      BY <2>1, <2>2, <3>1 DEF ZoneInv
    <3>2. CASE ~raced
      <4>1. /\ zones = <<hostZone>> /\ \A t \in DOMAIN zoneOf : zoneOf[t] = hostZone
            /\ \A q \in IsoProcs : seenZones[q] \in {<<>>, zones}
        BY <2>2, <3>2 DEF ZoneInv
      <4>2. Head(seenZones[p]) = hostZone
        BY <2>2, <4>1
      <4>3. \A t \in DOMAIN zoneOf' : zoneOf'[t] = hostZone
        BY <2>2, <4>1, <4>2 DEF bind
      <4> QED
        BY <2>1, <2>2, <4>1, <4>3 DEF ZoneInv
    <3> QED
      BY <3>1, <3>2
  <2>3. CASE /\ seenZones[p] = <<>>
             /\ zones' = Append(zones, p)
             /\ hostZone' = add_hosts(p)
             /\ zoneOf' = bind(Tenant(p), p)
             /\ raced' = (raced \/ zones # <<>>)
    <3>1. CASE raced'
      BY <2>1, <2>3, <3>1 DEF ZoneInv
    <3>2. CASE ~raced'
      <4>0. ~raced /\ zones = <<>>
        BY <2>3, <3>2
      <4>1. /\ zones = <<>> /\ hostZone = "default" /\ DOMAIN zoneOf = {}
            /\ \A q \in IsoProcs : seenZones[q] = <<>>
        BY <4>0, zones # <<hostZone>> DEF ZoneInv
      <4>2. hostZone' = p /\ zones' = <<p>>
        BY <2>3, <4>1 DEF add_hosts
      <4>3. \A t \in DOMAIN zoneOf' : zoneOf'[t] = p
        BY <2>3, <4>1 DEF bind
      <4>4. /\ zones' = <<hostZone'>> /\ \A t \in DOMAIN zoneOf' : zoneOf'[t] = hostZone'
            /\ \A q \in IsoProcs : seenZones'[q] \in {<<>>, zones'}
        BY <2>1, <4>1, <4>2, <4>3
      <4>5. raced' \in BOOLEAN
        BY <2>3
      <4>6. DOMAIN seenZones' = IsoProcs
        BY <2>1 DEF ZoneInv
      <4> QED
        BY <4>4, <4>5, <4>6 DEF ZoneInv
    <3> QED
      BY <3>1, <3>2
  <2>4. CASE UNCHANGED <<zones, hostZone, zoneOf, raced>>
    BY <2>1, <2>4 DEF ZoneInv
  <2> QED
    BY <1>3, <2>2, <2>3, <2>4 DEF associate_az_tenant
<1> QED
  BY <1>1, <1>2, <1>3 DEF IsoWork, IsoSetUpClass, get_credentials, create_user,
     _create_network_resources, IsoTearDownClass, _clear_isolated_net_resources, ClearTenant,
     worldVars, historyVars

(***************************************************************************)
(* The hosts are in the zone the tenants are bound to, for any number of   *)
(* processes: only two that both saw no zone take them from each other     *)
(* (_create_creds and associate_az_tenant of isolated_creds.py).           *)
(***************************************************************************)
THEOREM ZoneHasHostsHolds == FrameSpec => []ZoneHasHosts
<1>1. FrameInit => ZoneInv
  BY DEF FrameInit, CredInit, CredIdle, IsoInit, ZoneInv
<1>2. ZoneInv /\ [IsoNext]_isoVars => ZoneInv'
  <2>1. CASE IsoNext
    BY <2>1, ZoneStep DEF IsoNext
  <2>2. CASE UNCHANGED isoVars
    BY <2>2 DEF isoVars, ZoneInv
  <2> QED
    BY <2>1, <2>2
<1>3. ZoneInv => ZoneHasHosts
  BY DEF ZoneInv, ZoneHasHosts
<1> QED
  BY <1>1, <1>2, <1>3, FrameIsoStep, PTL DEF FrameSpec
=============================================================================
