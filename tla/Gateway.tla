------------------------------- MODULE Gateway -------------------------------
(***************************************************************************)
(* The way of a request through the server (internal/server/server.go       *)
(* Routes, middleware.go, mcp.go, mcp_auth.go) once the configuration has   *)
(* been loaded: which checks are in front of which handler, in which order, *)
(* and what reaches a database.                                             *)
(*                                                                         *)
(* A handler keeps nothing from one request to the next, so one request at  *)
(* a time is followed; each layer of the chain is a step.                   *)
(***************************************************************************)
EXTENDS Configuration

CONSTANTS
  Requests,      \* Requests[c]: what clients of the kind c may send
  MaxRequest     \* maxMCPRequestBytes

Request ==
  [method : STRING, path : STRING, db : STRING, cloudflare : BOOLEAN, host : STRING, origin : STRING,
   token : STRING, granted : SUBSET STRING, body : Seq(STRING), received : Nat]

ASSUME GatewayAssumption ==
  /\ MaxRequest \in Nat
  /\ \A e \in Environments : Requests[e.clients] \subseteq Request

VARIABLES
  request,       \* the request, or NoRequest
  layer,         \* the handler it is at, "idle" without one
  prefix,        \* bytes of the body singleMCPMessage has read
  answer,        \* how it was answered
  reached        \* the last handler it came to: "none", "tool" or "api"

gatewayVars == <<request, layer, prefix, answer, reached>>
vars == <<configVars, gatewayVars>>

NoRequest == [path |-> "none"]

Init ==
  /\ ConfigInit
  /\ request = NoRequest
  /\ layer = "idle" /\ prefix = 0 /\ answer = "none" /\ reached = "none"

-----------------------------------------------------------------------------
(* What the layers look at                                                  *)

Authorized == scopes # {}
Metadata == "/.well-known/oauth-protected-resource"
Probes == {"/healthz", "/readyz"}

(* isCloudflareAccessExemptRequest.                                         *)
Exempt ==
  \/ request.path \in Probes \cup {Metadata}
  \/ request.method = "OPTIONS" /\ request.path = "/mcp"

(* Where the mux sends a request: OPTIONS and the metadata are routes only  *)
(* with an authorization; other paths are files.                            *)
Route ==
  CASE request.path \in Probes -> IF request.method = "GET" THEN "probe" ELSE "405"
    [] request.path = "/mcp" ->
         IF request.method \in {"GET", "POST", "DELETE"} \/ (request.method = "OPTIONS" /\ Authorized)
         THEN IF Authorized THEN "cors" ELSE "crossOrigin" ELSE "405"
    [] request.path = Metadata /\ Authorized -> IF request.method \in {"GET", "OPTIONS"} THEN "metadata" ELSE "405"
    [] request.path = "/api" -> IF request.method \in {"GET", "POST"} THEN "api" ELSE "405"
    [] OTHER -> IF request.method = "GET" THEN "static" ELSE "405"

(* Mutant of FirstByte: blanks are not skipped.                             *)
FirstByteAtOnce == 1

(* firstJSONByte: up to the first byte that is no blank, or to the end.     *)
FirstByte ==
  LET b == request.body
      texts == {k \in DOMAIN b : b[k] # "ws"}
  IN  IF texts = {} THEN Len(b) + 1 ELSE CHOOSE k \in texts : \A j \in texts : k <= j

(* Reading goes no further than the limit, or than what was received.       *)
Readable == Min({request.received, MaxRequest, Len(request.body)})

-----------------------------------------------------------------------------
(* The layers                                                               *)

Arrive ==
  /\ step = "serving"
  /\ request = NoRequest
  /\ request' \in Requests[env.clients]
  /\ layer' = "cloudflare"
  /\ UNCHANGED <<prefix, answer, reached, configVars>>

(* The answer has been sent, and nothing is kept.                           *)
Finish ==
  /\ answer # "none"
  /\ request' = NoRequest
  /\ prefix' = 0 /\ answer' = "none" /\ reached' = "none"
  /\ UNCHANGED <<layer, configVars>>

Answered(status) ==
  /\ answer' = status
  /\ layer' = "idle"
  /\ UNCHANGED <<request, prefix, reached, configVars>>

To(next) ==
  /\ layer' = next
  /\ UNCHANGED <<request, prefix, answer, reached, configVars>>

Cloudflare ==
  /\ layer = "cloudflare"
  /\ IF env.cloudflare /\ ~Exempt /\ ~request.cloudflare THEN Answered("403") ELSE To("mux")

Mux ==
  /\ layer = "mux"
  /\ IF Route = "405" THEN Answered("405") ELSE To(Route)

(* How what needs no token is answered: a file may be known to the browser  *)
(* or missing, /readyz pings a database.                                    *)
PlainAnswers ==
  CASE layer = "static" -> {"200", "304", "404"}
    [] layer = "metadata" -> IF request.method = "OPTIONS" THEN {"204"} ELSE {"200"}
    [] layer = "probe" /\ request.path = "/readyz" -> IF Pool(request.db) = {} THEN {"404"} ELSE {"200", "503"}
    [] OTHER -> {"200"}

Plain ==
  /\ layer \in {"probe", "metadata", "static"}
  /\ \E status \in PlainAnswers : Answered(status)

(* http.CrossOriginProtection: a browser may not post from another site.    *)
CrossOrigin ==
  /\ layer = "crossOrigin"
  /\ IF request.method # "GET" /\ request.origin = "other" THEN Answered("403") ELSE To("message")

(* authenticatedMCPCORS: any origin may ask, the preflight needs no token.  *)
Cors ==
  /\ layer = "cors"
  /\ IF request.method = "OPTIONS" THEN Answered("204") ELSE To("host")

Host ==
  /\ layer = "host"
  /\ IF request.host \notin {"resource", "loopback"} THEN Answered("403") ELSE To("token")

Granted == scopes \subseteq request.granted

(* protect: a valid token with every scope.                                 *)
Token ==
  /\ layer = "token"
  /\ IF request.token # "valid" THEN Answered("401")
     ELSE IF ~Granted THEN Answered("403") ELSE To("message")

(* singleMCPMessage: a list of messages is refused at its first byte; what  *)
(* has been read is put in front of the rest again.                         *)
Message ==
  /\ layer = "message"
  /\ IF request.method # "POST" THEN To("transport")
     ELSE IF \/ FirstByte > Readable /\ Readable < Len(request.body)
             \/ FirstByte <= Readable /\ request.body[FirstByte] = "array"
     THEN Answered("400")
     ELSE /\ prefix' = Min({FirstByte, Readable})
          /\ layer' = "transport"
          /\ UNCHANGED <<request, answer, reached, configVars>>

(* What the transport reads: the prefix, then the rest.                     *)
Replayed == SubSeq(request.body, 1, prefix) \o SubSeq(request.body, prefix + 1, Readable)

(* The bytes begin with one of these after blanks; what follows is not      *)
(* looked at.                                                               *)
Begins(bytes, with) ==
  \E k \in DOMAIN bytes : bytes[k] \in with /\ \A j \in 1..(k - 1) : bytes[j] = "ws"

(* The transport calls tools for a message, or a list of them, that it has  *)
(* read to the end; GET and DELETE have no session to act on.               *)
Transport ==
  /\ layer = "transport"
  /\ IF request.method = "POST" /\ Readable = Len(request.body) /\ Begins(Replayed, {"object", "array"})
     THEN To("tool") ELSE Answered("4xx")

(* A tool or a handler of the API takes its database from the registry.     *)
UseDatabase ==
  /\ layer \in {"tool", "api"}
  /\ reached' = layer
  /\ answer' = IF Pool(request.db) = {} THEN "404" ELSE "200"
  /\ layer' = "idle"
  /\ UNCHANGED <<request, prefix, configVars>>

GatewayNext ==
  \/ Arrive \/ Finish \/ Cloudflare \/ Mux \/ Plain
  \/ CrossOrigin \/ Cors \/ Host \/ Token \/ Message \/ Transport \/ UseDatabase

Next == (ConfigNext /\ UNCHANGED gatewayVars) \/ GatewayNext

Spec == Init /\ [][Next]_vars

-----------------------------------------------------------------------------

FromFile == {env.file.items[k].url : k \in DOMAIN env.file.items}
FromList == ToSet(env.urls) \ {Empty}
FromNumbers == {env.numbered[n].url : n \in {m \in Numbers : \A j \in 1..m : env.numbered[j].url # Empty}}

(* What is served is what one source names, all of it, and DATABASE_URL     *)
(* only if no source names any: nothing is mixed and nothing is dropped     *)
(* short of a gap in the numbers.                                           *)
ServesOneSource ==
  step = "serving" =>
    LET served == {pair[2] : pair \in registry.ids}
        named == FromFile \cup FromList \cup FromNumbers
    IN  /\ served \in {FromFile, FromList, FromNumbers, {env.single}}
        /\ named # {} => served = named

(* An id stands for one database, the one whose DSN stands next to it; and  *)
(* a request that names none gets the default the operator asked for.       *)
IdsAreDistinct ==
  step = "serving" =>
    /\ \A k \in DOMAIN entries : Pool(entries[k].id) = {entries[k].dsn}
    /\ Cardinality(registry.ids) = Len(entries)
    /\ env.wanted # Empty => registry.default = env.wanted
    /\ \E pair \in registry.ids : Pool(Empty) = {pair[2]}

(* In lists without empty items the n-th id is that of the n-th URL.        *)
PairedWithoutGaps ==
  step = "serving" /\ Empty \notin ToSet(env.urls) \cup ToSet(env.ids) =>
    \A k \in DOMAIN env.urls : k <= Len(env.ids) => Pool(env.ids[k]) = {env.urls[k]}

(* An id leads to the database it was given to, and no id to the default.   *)
IdsNameTheirDatabase == IdsAreDistinct /\ PairedWithoutGaps

(* The server does not start from a discovery document it has not read to   *)
(* its end, or from one over the limit.                                     *)
DocumentIsWhole ==
  /\ read <= MaxBody
  /\ step \in {"connect", "register"} /\ Authorized => read = body /\ body <= MaxBody

(* A tool is reached only in the way the environment asks for: if any of    *)
(* the settings of the authorization was made, with a valid token that has  *)
(* every scope that was listed; and past Cloudflare Access, if required.    *)
ToolsAreProtected ==
  reached = "tool" =>
    /\ env.wellKnown # Empty \/ env.alias # Empty \/ env.resource # Empty \/ env.scopes # <<>> =>
         request.token = "valid" /\ ToSet(env.scopes) \subseteq request.granted
    /\ env.cloudflare => request.cloudflare
    /\ request.method = "POST"

(* A tool gets one whole message or none: no list, whatever blanks are in   *)
(* front, and nothing that is longer than the limit or was cut off.  And    *)
(* one that is sent as it should be reaches its tool, at the limit too.     *)
OneWholeMessage ==
  answer # "none" /\ request.path = "/mcp" =>
    LET whole == request.received >= Len(request.body) /\ Len(request.body) <= MaxRequest
    IN  /\ reached = "tool" => whole /\ Begins(request.body, {"object"})
        /\ answer = "4xx" \/ answer = "400" => request.method # "POST" \/ ~whole \/ ~Begins(request.body, {"object"})

(* Probes, and the metadata a client needs to get a token, are never        *)
(* refused for want of one; the preflight of a browser is answered so too.  *)
OpenPathsStayOpen ==
  answer \in {"401", "403"} =>
    /\ request.path \notin Probes \cup {Metadata}
    /\ ~(request.path = "/mcp" /\ request.method = "OPTIONS")

(* Tools are behind what was configured, and only they and the files are.   *)
AccessAsConfigured == ToolsAreProtected /\ OpenPathsStayOpen
=============================================================================
