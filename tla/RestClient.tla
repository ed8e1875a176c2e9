----------------------------- MODULE RestClient -----------------------------
(***************************************************************************)
(* One client of the test framework and its Keystone provider: how a call  *)
(* becomes authenticated requests (automation/auth.py and token_client.py) *)
(* and how their answers become a result or an exception (class RestClient *)
(* of automation/common/rest_client.py).                                   *)
(*                                                                         *)
(* Time is counted in ticks of half a minute and a token carries the ticks *)
(* it has left.  External, as the code uses it: the identity service       *)
(* issues a token for the project asked for, or for the default project of *)
(* the user; a service refuses a token that has expired, does what a       *)
(* request asks when it answers with a success, may have done it when it   *)
(* answers 5xx, and has not done it when it answers 4xx.                   *)
(***************************************************************************)
EXTENDS Integers, Sequences, ServiceCalls

CONSTANTS
  Projects,     \* projects of the user
  Nil,         \* no project, no token, no alternative
  Lives,        \* ticks a new token may live
  Latency,      \* bound: ticks an answer may take
  MaxIdle,      \* bound: ticks between two calls
  RetryAfter,   \* values of the header, in ticks
  Catalogs,     \* sequences of endpoints a token may come with: [interface, region]
  region,       \* region and endpoint_type of the client
  endpoint_type

token_expiry_threshold == 2
MAX_RECURSION_DEPTH    == 2

ASSUME RestAssumption ==
  /\ Nil \notin Projects
  /\ Latency \in Nat /\ MaxIdle \in Nat /\ Lives \subseteq Nat /\ RetryAfter \subseteq Nat
  /\ Latency < token_expiry_threshold
  /\ \A life \in Lives : life > 2 * Latency
  /\ Catalogs \subseteq Seq([interface : STRING, region : STRING])

VARIABLES
  version,      \* identity version: "v2" or "v3"
  tenant0,      \* project the credentials were made with, or Nil
  tenant,       \* project in the credentials now
  default,      \* external: default project of the user, or Nil
  catalog,      \* external: endpoints of the service
  cache,        \* cached token [left, scope], or Nil
  alt,          \* alt_part and alt_auth_data, or Nil
  phase,        \* where the call is
  wire,         \* the authenticated request
  rq            \* the call: [retry, outcome]; history: altered when it began,
                \* times its request was done, last answer odd, last answer a rate limit

restVars == <<version, tenant0, tenant, default, catalog, cache, alt, phase, wire, rq>>
fixed    == <<version, tenant0, catalog>>

Statuses == {400, 401, 403, 404, 409, 413, 415, 418, 422, 500, 501}
Bodies   == {"none", "text", "array", "empty object", "wrapped", "object"}
Contents == {"json", "text", "other"}

Age(token, d) == IF token = Nil THEN Nil
                 ELSE [token EXCEPT !.left = IF @ > d THEN @ - d ELSE 0]

is_expired_without_threshold(token) == token.left = 0
is_expired(token) == token.left <= token_expiry_threshold

(***************************************************************************)
(* Endpoint picked by base_url.  Version 2 takes the last endpoint of the  *)
(* region and falls back to the first one; version 3 also looks at the     *)
(* interface, and its fallback for a missing region does not.              *)
(***************************************************************************)
OfRegion == {i \in DOMAIN catalog : catalog[i].region = region}
OfType   == {i \in DOMAIN catalog : catalog[i].interface = endpoint_type}

base_url_v2 ==
  catalog[IF OfRegion = {} THEN 1 ELSE CHOOSE i \in OfRegion : \A j \in OfRegion : j <= i]

base_url_v3 ==
  LET match == IF OfType = {} THEN OfRegion ELSE OfType \cap OfRegion
  IN  catalog[IF match = {} THEN 1 ELSE CHOOSE i \in match : \A j \in match : i <= j]

base_url == IF version = "v2" THEN base_url_v2 ELSE base_url_v3

(***************************************************************************)
(* What _parse_resp makes of a body: a single top-level key is cut off, a  *)
(* body that is not JSON comes back as it is, and neither an array nor an  *)
(* empty object is expected.                                               *)
(***************************************************************************)
_parse_resp(body) == CASE body = "array"        -> "AttributeError"
                       [] body = "empty object" -> "StopIteration"
                       [] body = "wrapped"      -> "inner"
                       [] OTHER                 -> body

Escapes(body) == _parse_resp(body) \in {"AttributeError", "StopIteration"}

\* exceeded: the message of the overLimit element says so, or there is no such element
is_absolute_limit(a) == ~a.after \/ _parse_resp(a.body) # "object" \/ a.exceeded

(***************************************************************************)
(* The exception _error_checker raises for an error.  A body in JSON is    *)
(* parsed whatever the status, so that _parse_resp may fail in it.         *)
(***************************************************************************)
_error_checker(a) ==
  IF a.content = "other" THEN "UnexpectedContentType"
  ELSE IF a.content = "json" /\ Escapes(a.body) THEN _parse_resp(a.body)
  ELSE CASE a.status = 401 -> "Unauthorized"
         [] a.status = 403 -> "Forbidden"
         [] a.status = 404 -> "NotFound"
         [] a.status = 400 -> "BadRequest"
         [] a.status = 409 -> "Conflict"
         [] a.status = 413 -> IF is_absolute_limit(a) THEN "OverLimit" ELSE "RateLimitExceeded"
         [] a.status = 415 -> "InvalidContentType"
         [] a.status = 422 -> "UnprocessableEntity"
         [] a.status = 501 -> "NotImplemented"
         [] a.status = 500 -> "ServerFault"
         [] OTHER          -> "UnexpectedResponseCode"

response_checker(shape, a) == a.status = 204 \/ shape.verb = "HEAD" => a.body = "none"

(***************************************************************************)
(* What the method of the service client makes of a success.  The bodies:  *)
(* "object" is one the method was written for; of those its schema knows,  *)
(* "least" has only what is required and empty lists, "less" lacks         *)
(* something required and "more" has something else.                       *)
(***************************************************************************)
expected_success_200(codes, status) == status = 200
expected_success(codes, status)     == status \in codes

validate_response(schema, body) ==
  CASE body = "less"  -> schema.needs \cup schema.keys = {}
    [] body = "more"  -> ~schema.closed
    [] OTHER          -> ~schema.body => body = "none"

\* dict.update fails on the text of a name; a list of pairs it takes for a mapping
ResponseBody(shape, body) ==
  IF body = "least" /\ ~(shape.takes \subseteq shape.schema.needs) THEN "KeyError"
  ELSE IF shape.wrap = "first" /\ body = "least" THEN "IndexError"
  ELSE IF shape.wrap = "dict" /\ shape.schema.holds = "text" THEN "ValueError of update"
  ELSE "returned"

\* validate_response comes after json.loads, expected_success before it
Succeeded(shape, a) ==
  LET loads == shape.body = "json" => a.body \notin {"none", "text"}
  IN  IF shape.checked /\ ~loads THEN "ValueError"
      ELSE IF ~expected_success(shape.codes, a.status) THEN "InvalidHttpSuccessCode"
      ELSE IF ~loads THEN "ValueError"
      ELSE IF shape.checked /\ ~validate_response(shape.schema, a.body) THEN "InvalidHTTPResponseBody"
      ELSE ResponseBody(shape, a.body)

Outcome(shape, a) == IF ~response_checker(shape, a) THEN "ResponseWithNonEmptyBody"
                     ELSE IF a.status >= 400 THEN _error_checker(a)
                     ELSE Succeeded(shape, a)

NoAnswer == [status |-> 0, content |-> "json", body |-> "none", after |-> FALSE, exceeded |-> FALSE]
Success  == {[NoAnswer EXCEPT !.status = s, !.body = b] :
               s \in {200, 201, 202, 204, 300}, b \in {"none", "text", "object", "least", "less", "more"}}
Failure  == {[NoAnswer EXCEPT !.status = s, !.content = c, !.body = b] :
               s \in Statuses, c \in Contents, b \in Bodies}
Limited  == {[NoAnswer EXCEPT !.status = 413, !.body = b, !.after = TRUE, !.exceeded = e] :
               b \in Bodies, e \in BOOLEAN}
Answers  == Success \cup Failure \cup Limited

\* what is enumerated for a method: no body of a HEAD, schema bodies where there is one
AnswersTo(shape) == {a \in Answers : /\ shape.verb = "HEAD" => a.body = "none"
                                     /\ a.body \in {"least", "less", "more"}
                                        => shape.checked /\ shape.schema.body}

\* not what a service answers that has done what the method asks for: the smallest code
Odd(shape, a) ==
  \/ a.status \notin shape.codes \/ \E code \in shape.codes : code < a.status
  \/ a.body \notin IF a.status = 204 \/ shape.verb = "HEAD" \/ shape.body = "none"
                  THEN {"none"} ELSE {"object", "least"}

(***************************************************************************)
(* An answer as the method that asked for it sees it.                      *)
(***************************************************************************)
Verdict(shape, a) ==
  [status  |-> a.status,
   again   |-> a.status = 413 /\ a.after /\ ~is_absolute_limit(a) /\ response_checker(shape, a),
   outcome |-> Outcome(shape, a),
   odd     |-> Odd(shape, a)]

Verdicts == UNION {{Verdict(shape, a) : a \in AnswersTo(shape)} : shape \in Requests}

NoRequest == [retry |-> 0, altered |-> FALSE, done |-> 0, odd |-> FALSE, outcome |-> "returned"]
NoWire    == [token |-> "none", left |-> 0, endpoint |-> Nil]

-----------------------------------------------------------------------------
RestInit ==
  /\ version \in {"v2", "v3"}
  /\ tenant0 \in Projects \cup {Nil} /\ tenant = tenant0
  /\ default \in Projects \cup {Nil}
  /\ catalog \in Catalogs
  /\ cache = Nil /\ alt = Nil /\ phase = "idle" /\ wire = NoWire /\ rq = NoRequest

Throw(what) == /\ phase' = "idle" /\ wire' = NoWire
               /\ rq' = [rq EXCEPT !.outcome = what, !.odd = FALSE]

(***************************************************************************)
(* A method of a service client is called, d ticks after the last one and  *)
(* perhaps after set_alt_auth_data with another token or with a part that  *)
(* authentication does not touch.  request() fixes the headers here,       *)
(* without the token.  Which method it is matters when it has its answer.  *)
(***************************************************************************)
request ==
  /\ phase = "idle" /\ phase' = "auth"
  /\ \E d \in 0..MaxIdle : cache' = Age(cache, d)
  /\ alt' \in {alt, "headers", "body"}
  /\ rq' = [NoRequest EXCEPT !.altered = alt' # Nil, !.outcome = "running"]
  /\ UNCHANGED <<fixed, tenant, default, wire>>

\* the fields that are not set are filled from the token
_fill_credentials_not(scope) == tenant
_fill_credentials(scope) == IF tenant = Nil THEN scope ELSE tenant

(***************************************************************************)
(* get_auth without a fresh token: set_auth asks the identity service,     *)
(* keeps the answer and fills the fields of the credentials that are not   *)
(* set.  A version 2 token without a project is kept before the filling    *)
(* trips over it.  The result is not looked at again.                      *)
(***************************************************************************)
set_auth ==
  /\ phase = "auth" /\ (IF cache = Nil THEN TRUE ELSE is_expired(cache))
  /\ \E life \in Lives, d \in 0..Latency :
       LET scope == IF tenant # Nil THEN tenant ELSE default
       IN  /\ cache' = [left |-> life - d, scope |-> scope]
           /\ IF version = "v2" /\ scope = Nil
              THEN Throw("KeyError") /\ UNCHANGED tenant
              ELSE /\ phase' = "decorate" /\ UNCHANGED <<wire, rq>>
                   /\ tenant' = _fill_credentials(scope)
  /\ UNCHANGED <<fixed, default, alt>>

\* request of TokenClient and V3TokenClient: no retry, whatever the answer
get_token_fails ==
  /\ phase = "auth" /\ (IF cache = Nil THEN TRUE ELSE is_expired(cache))
  /\ \E what \in {"Unauthorized by Keystone", "IdentityError", "ValueError"} : Throw(what)
  /\ UNCHANGED <<fixed, tenant, default, cache, alt>>

_decorate_request_own(own) == own
_decorate_request(own) == IF alt = Nil THEN own ELSE [own EXCEPT !.token = "other"]

(***************************************************************************)
(* auth_request: the request gets the token and the endpoint it came with, *)
(* and the alternative, once: when it makes no difference BadAltAuth       *)
(* leaves before the alternative is reset.                                 *)
(***************************************************************************)
auth_request ==
  /\ \/ phase = "decorate"
     \/ phase = "auth" /\ cache # Nil /\ ~is_expired(cache)
  /\ LET own == [token |-> "own", left |-> cache.left, endpoint |-> base_url]
     IN  \/ catalog = <<>> /\ Throw("EndpointNotFound") /\ UNCHANGED alt
         \/ catalog # <<>> /\ alt = "body" /\ Throw("BadAltAuth") /\ UNCHANGED alt
         \/ /\ catalog # <<>> /\ alt # "body"
            /\ phase' = "wire" /\ alt' = Nil /\ UNCHANGED rq
            /\ wire' = _decorate_request(own)
  /\ UNCHANGED <<fixed, tenant, default, cache>>

(***************************************************************************)
(* The service answers raw_request.  A rate limit is waited for, at most   *)
(* twice, unless _parse_resp fails on it.                                  *)
(***************************************************************************)
raw_request ==
  /\ phase = "wire"
  /\ \E d \in 0..Latency, v \in Verdicts, did \in {0, 1} :
       LET again == v.again /\ rq.retry < MAX_RECURSION_DEPTH
       IN  /\ wire.left <= d => v.status = 401
           /\ wire.token = "other" => v.status \in 400..499
           /\ v.status < 400 => did = 1
           /\ v.status \in 400..499 => did = 0
           /\ cache' = Age(cache, d)
           /\ phase' = IF again THEN "sleep" ELSE "idle"
           /\ rq' = [rq EXCEPT !.done = @ + did, !.odd = v.odd,
                               !.outcome = IF again THEN "running" ELSE v.outcome]
  /\ wire' = NoWire
  /\ UNCHANGED <<fixed, tenant, default, alt>>

retry_after_counts_to_one ==
  /\ phase = "sleep" /\ phase' = "auth"
  /\ \E delay \in RetryAfter : cache' = Age(cache, delay)
  /\ rq' = [rq EXCEPT !.retry = 1]
  /\ UNCHANGED <<fixed, tenant, default, alt, wire>>
retry_after ==
  /\ phase = "sleep" /\ phase' = "auth"
  /\ \E delay \in RetryAfter : cache' = Age(cache, delay)
  /\ rq' = [rq EXCEPT !.retry = @ + 1]
  /\ UNCHANGED <<fixed, tenant, default, alt, wire>>

-----------------------------------------------------------------------------
clear_auth == /\ phase = "idle" /\ cache' = Nil /\ tenant' = tenant0
              /\ UNCHANGED <<fixed, default, alt, phase, wire, rq>>

\* external: an administrator gives the user another default project
DefaultMoves == /\ default' \in Projects
                /\ UNCHANGED <<fixed, tenant, cache, alt, phase, wire, rq>>

InCall   == set_auth \/ get_token_fails \/ auth_request \/ raw_request \/ retry_after
RestNext == request \/ InCall \/ clear_auth \/ DefaultMoves
RestSpec == RestInit /\ [][RestNext]_restVars

(***************************************************************************)
(* Between two clear_auth every token is for the same project, although    *)
(* the credentials may name none and the default project moves.            *)
(***************************************************************************)
ScopeStays == [][cache # Nil /\ cache' # Nil /\ cache.scope # Nil
                 => cache'.scope = cache.scope]_restVars

(***************************************************************************)
(* A request leaves with a token that is still valid when it arrives,      *)
(* however long the call has waited for rate limits, and goes to the       *)
(* endpoint of the region when the catalog has one with the interface.     *)
(***************************************************************************)
WellAddressed ==
  phase = "wire" =>
    /\ wire.left > Latency
    /\ (\E i \in DOMAIN catalog : catalog[i] = [interface |-> endpoint_type, region |-> region])
       => wire.endpoint.region = region

(***************************************************************************)
(* What a service did and answered properly is reported as a success, for  *)
(* every method of every client: a code no method takes, or a body the     *)
(* method cannot load, would leave behind what the caller believes failed, *)
(* as would a schema that lets through what the method then trips over.    *)
(* Two kinds of methods do: the first of list_tenant_usages may not be     *)
(* there, and startup_host, shutdown_host and reboot_host make a dict of   *)
(* the name of the host.  And a request is repeated only when the service  *)
(* has not done it.                                                        *)
(***************************************************************************)
DoneIsReported ==
  /\ rq.done <= 1
  /\ rq.done > 0 /\ ~rq.odd /\ phase = "idle"
     => rq.outcome \in {"returned", "IndexError", "ValueError of update"}

(***************************************************************************)
(* A call made with somebody else's token is done in the client's own name *)
(* only when it was retried: the alternative is for one request only.      *)
(***************************************************************************)
AlteredUnlessRetried == rq.altered /\ rq.done > 0 => rq.retry > 0
=============================================================================
