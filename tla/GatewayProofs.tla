---------------------------- MODULE GatewayProofs ----------------------------
(***************************************************************************)
(* Gateway for every environment, every set of requests and every limit:    *)
(* what the settings of the authorization are worth from the start of the   *)
(* process to the tool that is called, what becomes of a message on its     *)
(* way, and which databases the process serves under which ids.             *)
(***************************************************************************)
EXTENDS Gateway, FiniteSetTheorems, SequenceTheorems, WellFoundedInduction, TLAPS

(* Somebody who makes any of these settings asks for tokens.                *)
AsksForTokens == env.wellKnown # Empty \/ env.alias # Empty \/ env.resource # Empty \/ env.scopes # <<>>

(* Steps after loadMCPAuth.                                                 *)
AuthLoaded == {"validate", "discover", "reading", "connect", "register", "serving"}

(* What was asked for is what is enforced, and nobody connects before the   *)
(* whole document has been read.                                            *)
ConfigInv ==
  /\ env \in Environments
  /\ read \in Nat /\ body \in Nat /\ read <= MaxBody
  /\ step \in AuthLoaded /\ AsksForTokens => Authorized /\ scopes = ToSet(env.scopes)
  /\ step \in {"connect", "register"} /\ Authorized => read = body

(* A request is somewhere, or it has its answer; only a process that serves *)
(* has one.                                                                 *)
RequestInv ==
  /\ request = NoRequest => layer = "idle" /\ answer = "none" /\ reached = "none"
  /\ request # NoRequest => request \in Request /\ step = "serving"
  /\ layer # "idle" => answer = "none" /\ reached = "none"

Guarded == {"message", "transport", "tool"}
Mcp == {"crossOrigin", "cors", "host", "token"} \cup Guarded
Passable == request.cloudflare \/ Exempt

(* What the layers passed so far have made sure of.                         *)
LayerInv ==
  /\ layer \in {"mux"} \cup Mcp => (env.cloudflare => Passable)
  /\ layer \in Mcp => request.path = "/mcp"
  /\ layer = "crossOrigin" => ~Authorized /\ request.method # "OPTIONS"
  /\ layer \in {"host", "token"} => request.method # "OPTIONS"
  /\ layer \in Guarded /\ Authorized => request.token = "valid" /\ Granted
  /\ layer = "transport" /\ request.method = "POST" =>
       /\ prefix \in 0..Readable
       /\ FirstByte <= Readable => request.body[FirstByte] # "array"
  /\ layer = "tool" => /\ request.method = "POST"
                       /\ Readable = Len(request.body)
                       /\ Begins(request.body, {"object"})

IInv == ConfigInv /\ RequestInv /\ LayerInv /\ ToolsAreProtected /\ OpenPathsStayOpen /\ OneWholeMessage

(* The databases read so far, and those that any source names.              *)
Ids == STRING \cup {"default"} \cup {DbId(k) : k \in Nat}
EntryRecord == [id : Ids, dsn : STRING, iam : BOOLEAN, region : STRING \cup {Empty}]
Dsns == {entries[k].dsn : k \in DOMAIN entries}
Named == FromFile \cup FromList \cup FromNumbers

(* The lists of ids and of URLs, both without gaps, are paired item by item.*)
PairsThere ==
  Empty \notin ToSet(env.urls) \cup ToSet(env.ids) =>
    \A k \in DOMAIN env.urls : k <= Len(env.ids) =>
      \E j \in DOMAIN entries : entries[j].id = env.ids[k] /\ entries[j].dsn = env.urls[k]

Loaded == {"default", "auth"} \cup AuthLoaded
Validated == {"discover", "reading", "connect", "register", "serving"}

(* The sources are read one after the other, and only one has something.    *)
SourcesInv ==
  /\ env \in Environments /\ env \in Environment
  /\ entries \in Seq(EntryRecord)
  /\ step \notin {"family", "failed"} => \A f, g \in Families : f = g
  /\ step \in {"family", "file"} => entries = <<>>
  /\ step = "list" => Dsns = FromFile
  /\ step = "numbered" => Dsns = FromFile \cup FromList
  /\ step = "single" => Dsns = Named
  /\ step \in Loaded => Dsns = Named \/ (Named = {} /\ Dsns = {env.single})
  /\ step \in {"numbered", "single"} \cup Loaded => PairsThere

(* The default is among the entries once they have been validated.          *)
DefaultInv ==
  /\ step \in {"auth"} \cup AuthLoaded => (env.wanted # Empty => defaultID = env.wanted)
  /\ step \in Validated =>
       /\ \A k \in DOMAIN entries : entries[k].id # Empty
       /\ \E k \in DOMAIN entries : entries[k].id = defaultID

(* The registry has every entry, each under its own id.                     *)
RegistryInv ==
  step = "serving" =>
    /\ registry.ids = {<<entries[k].id, entries[k].dsn>> : k \in DOMAIN entries}
    /\ registry.default = defaultID
    /\ \A j, k \in DOMAIN entries : entries[j].id = entries[k].id => j = k

DatabasesInv == SourcesInv /\ DefaultInv /\ RegistryInv

-----------------------------------------------------------------------------
(* The body of a request                                                    *)

(* A set of natural numbers has a smallest one.                             *)
LEMMA Smallest ==
  ASSUME NEW S \in SUBSET Nat, S # {}
  PROVE  \E k \in S : \A j \in S : k <= j
<1> DEFINE R == OpToRel(<, Nat)
<1>1. IsWellFoundedOn(R, Nat)
  BY NatLessThanWellFounded
<1>2. PICK k \in S : \A j \in S : ~(<<j, k>> \in R)
  <2> HIDE DEF R
  <2> QED
    BY <1>1, WFMin
<1>3. ASSUME NEW j \in S PROVE k <= j
  <2>1. ~(j < k)
    BY <1>2 DEF OpToRel
  <2> QED
    BY <2>1
<1> QED
  BY <1>3

(* firstJSONByte stops at the first byte that is no blank, or past the end. *)
LEMMA FirstByteIsFirst ==
  ASSUME request \in Request
  PROVE  /\ FirstByte \in 1..(Len(request.body) + 1)
         /\ \A j \in 1..Len(request.body) : j < FirstByte => request.body[j] = "ws"
         /\ FirstByte <= Len(request.body) => request.body[FirstByte] # "ws"
<1>1. PICK b \in Seq(STRING) : request.body = b
  BY DEF Request
<1>2. PICK n \in Nat : Len(b) = n
  OBVIOUS
<1>3. DOMAIN b = 1..n
  BY <1>2
<1>4. PICK texts \in SUBSET (1..n) : \A j \in 1..n : j \in texts <=> b[j] # "ws"
  <2> WITNESS {k \in 1..n : b[k] # "ws"} \in SUBSET (1..n)
  <2> QED
    OBVIOUS
<1>5. texts = {k \in DOMAIN b : b[k] # "ws"}
  BY <1>3, <1>4
<1>6. texts = {} => FirstByte = n + 1
  BY <1>1, <1>2, <1>5 DEF FirstByte
<1>7. texts # {} => FirstByte = CHOOSE k \in texts : \A j \in texts : k <= j
  BY <1>1, <1>2, <1>5 DEF FirstByte
<1>8. CASE texts = {}
  BY <1>1, <1>2, <1>4, <1>6, <1>8
<1>9. CASE texts # {}
  <2>1. texts \in SUBSET Nat
    BY <1>2, <1>4
  <2>2. \E k \in texts : \A j \in texts : k <= j
    BY <1>9, <2>1, Smallest
  <2>3. FirstByte \in texts /\ \A j \in texts : FirstByte <= j
    BY <1>7, <1>9, <2>2
  <2>4. FirstByte \in 1..n
    BY <1>4, <2>3
  <2>5. \A j \in 1..n : j < FirstByte => b[j] = "ws"
    BY <1>2, <1>4, <2>3, <2>4
  <2> QED
    BY <1>1, <1>2, <1>4, <2>3, <2>4, <2>5
<1> QED
  BY <1>8, <1>9

(* No more is read than there is, arrives, or may be sent.                  *)
LEMMA ReadableIsMin ==
  ASSUME request \in Request
  PROVE  /\ Readable \in 0..Len(request.body)
         /\ Readable = Len(request.body) <=>
              request.received >= Len(request.body) /\ Len(request.body) <= MaxRequest
<1> DEFINE n == Len(request.body)
           S == {request.received, MaxRequest, n}
<1>1. n \in Nat /\ request.received \in Nat /\ MaxRequest \in Nat
  BY GatewayAssumption DEF Request
<1>2. S \in SUBSET Nat /\ S # {}
  BY <1>1
<1>3. \E k \in S : \A j \in S : k <= j
  BY <1>2, Smallest
<1>4. Readable = CHOOSE k \in S : \A j \in S : k <= j
  BY DEF Readable, Min
<1>5. Readable \in S /\ \A j \in S : Readable <= j
  BY <1>3, <1>4
<1> QED
  BY <1>1, <1>5

-----------------------------------------------------------------------------
(* The start of the process                                                 *)

LEMMA InitIInv == Init => IInv
<1> SUFFICES ASSUME Init PROVE IInv
  OBVIOUS
<1>1. ConfigInv
  <2>1. MaxBody \in Nat
    BY ConfigurationAssumption
  <2>2. env \in Environments /\ step = "family" /\ body = 0 /\ read = 0
    BY DEF Init, ConfigInit
  <2> QED
    BY <2>1, <2>2 DEF ConfigInv, AuthLoaded
<1>2. RequestInv /\ LayerInv
  BY DEF Init, RequestInv, LayerInv, Mcp, Guarded
<1> QED
  BY <1>1, <1>2 DEF IInv, Init, ToolsAreProtected, OpenPathsStayOpen, OneWholeMessage

(* Every setting of the authorization counts once they have been loaded.    *)
LEMMA AuthIsAllOrNothing ==
  ASSUME ConfigInv, LoadAuth
  PROVE  ConfigInv'
<1>1. UNCHANGED <<env, body, read>> /\ step' \in {"failed", "validate"}
  BY DEF LoadAuth, Fail
<1>2. ASSUME step' = "validate", AsksForTokens
      PROVE  scopes' = ToSet(env.scopes) /\ scopes' # {}
  <2>1. WellKnown # Empty /\ env.scopes # <<>>
    BY <1>2 DEF LoadAuth, Fail, Partly, WellKnown, AsksForTokens
  <2>2. scopes' = ToSet(env.scopes)
    BY <1>2, <2>1 DEF LoadAuth, Fail, Scopes
  <2>3. env.scopes \in Seq(STRING)
    <3>1. env \in Environment
      BY ConfigurationAssumption DEF ConfigInv
    <3> QED
      BY <3>1, Zenon DEF Environment
  <2>4. 1 \in DOMAIN env.scopes
    <3> DEFINE s == env.scopes
    <3> HIDE DEF s
    <3>1. s \in Seq(STRING) /\ s # <<>>
      BY <2>1, <2>3 DEF s
    <3>2. Len(s) \in Nat \ {0} /\ DOMAIN s = 1..Len(s)
      BY <3>1, EmptySeq, LenProperties
    <3>3. 1 \in DOMAIN s
      BY <3>2
    <3> QED
      BY <3>3 DEF s
  <2> QED
    BY <2>2, <2>4 DEF ToSet
<1> QED
  BY <1>1, <1>2 DEF ConfigInv, AuthLoaded, AsksForTokens, Authorized

(* What is passed on of a document never exceeds the limit, and it is used  *)
(* only at its end.                                                         *)
LEMMA ConfigSteps ==
  ASSUME ConfigInv, ConfigNext
  PROVE  ConfigInv' /\ step # "serving"
<1>0. MaxBody \in Nat
  BY ConfigurationAssumption
<1> USE <1>0 DEF ConfigInv
<1>1. CASE SourceFamily
  BY <1>1 DEF SourceFamily, AuthLoaded
<1>2. CASE DatabaseFile
  BY <1>2 DEF DatabaseFile, Fail, AuthLoaded
<1>3. CASE DatabaseList
  BY <1>3 DEF DatabaseList, AuthLoaded
<1>4. CASE DatabaseNumbers
  BY <1>4 DEF DatabaseNumbers, Fail, AuthLoaded
<1>5. CASE SingleDatabase
  BY <1>5 DEF SingleDatabase, Fail, AuthLoaded
<1>6. CASE ChooseDefault
  BY <1>6 DEF ChooseDefault, AuthLoaded
<1>7. CASE LoadAuth
  BY <1>7, AuthIsAllOrNothing DEF LoadAuth
<1>8. CASE Validate
  <2>1. step' \in {"discover", "connect", "failed"} /\ (step' = "connect" => ~Authorized)
    BY <1>8 DEF Validate, Authorized
  <2> QED
    BY <1>8, <2>1 DEF Validate, AuthLoaded, AsksForTokens, Authorized
<1>9. CASE Discover
  <2>1. /\ step' \in {"failed", "reading"}
        /\ body' \in Nat /\ read' \in Nat /\ read' <= MaxBody
    BY <1>9 DEF Discover, Refused
  <2> QED
    BY <1>9, <2>1 DEF Discover, AuthLoaded, AsksForTokens, Authorized
<1>10. CASE ReadSome
  <2>1. step' \in {"failed", "reading"} /\ read' \in Nat /\ read' <= MaxBody
    BY <1>10 DEF ReadSome, Passed, Fail
  <2> QED
    BY <1>10, <2>1 DEF ReadSome, AuthLoaded, AsksForTokens, Authorized
<1>11. CASE TooLarge
  BY <1>11 DEF TooLarge, Fail, AuthLoaded
<1>12. CASE Discovered
  BY <1>12 DEF Discovered, AtEnd, AuthLoaded, AsksForTokens, Authorized
<1>13. CASE Connect
  BY <1>13 DEF Connect, AuthLoaded, AsksForTokens, Authorized
<1>14. CASE Register
  <2>1. step' \in {"failed", "serving"} /\ body' = 0 /\ read' = 0
    BY <1>14 DEF Register, Fail
  <2>2. step = "register" /\ env' = env /\ scopes' = scopes
    BY <1>14 DEF Register
  <2>3. body' \in Nat /\ read' \in Nat /\ read' <= MaxBody /\ read' = body'
    BY <2>1
  <2> QED
    BY <2>1, <2>2, <2>3 DEF AuthLoaded, AsksForTokens, Authorized
<1> QED
  BY <1>1, <1>2, <1>3, <1>4, <1>5, <1>6, <1>7, <1>8, <1>9, <1>10, <1>11, <1>12, <1>13, <1>14
  DEF ConfigNext

(* Until the process serves there is no request.                            *)
LEMMA StartKeepsIInv ==
  ASSUME IInv, ConfigNext, UNCHANGED gatewayVars
  PROVE  IInv'
<1>1. ConfigInv' /\ step # "serving"
  BY ConfigSteps DEF IInv
<1>2. /\ request = NoRequest /\ layer = "idle" /\ answer = "none" /\ reached = "none"
      /\ request' = NoRequest /\ layer' = "idle" /\ answer' = "none" /\ reached' = "none"
  BY <1>1 DEF IInv, RequestInv, gatewayVars
<1>3. RequestInv' /\ LayerInv'
  BY <1>2 DEF RequestInv, LayerInv, Mcp, Guarded
<1> QED
  BY <1>1, <1>2, <1>3 DEF IInv, ToolsAreProtected, OpenPathsStayOpen, OneWholeMessage

-----------------------------------------------------------------------------
(* The way of a request                                                     *)

(* What does not change while requests are served.                          *)
LEMMA ConfigStays ==
  ASSUME ConfigInv, UNCHANGED configVars
  PROVE  ConfigInv'
  BY DEF configVars, ConfigInv, AuthLoaded, AsksForTokens, Authorized

LEMMA NobodyIsNoRequest == NoRequest \notin Request
<1>1. DOMAIN NoRequest = {"path"}
  BY DEF NoRequest
<1>2. \A r \in Request : "body" \in DOMAIN r
  BY DEF Request
<1> QED
  BY <1>1, <1>2

(* What has been read ahead is read once more, and nothing is read twice.   *)
LEMMA ReplayedIsBody ==
  ASSUME request \in Request, Readable = Len(request.body), prefix \in 0..Readable
  PROVE  Replayed = request.body
<1>1. PICK b \in Seq(STRING) : request.body = b
  BY DEF Request
<1>2. PICK n \in Nat : Len(b) = n
  OBVIOUS
<1>3. PICK p \in 0..n : prefix = p
  BY <1>1, <1>2
<1>4. 1 \in 1..(Len(b) + 1) /\ p \in (1 - 1)..Len(b) /\ n \in p..Len(b)
  BY <1>2, <1>3
<1>5. SubSeq(b, 1, p) \o SubSeq(b, p + 1, n) = SubSeq(b, 1, n)
  BY <1>4, ConcatAdjacentSubSeq
<1> QED
  BY <1>1, <1>2, <1>3, <1>5, SubSeqFull DEF Replayed

(* A text begins with its first byte that is no blank.                      *)
LEMMA BeginsWithFirst ==
  ASSUME request \in Request, NEW with, "ws" \notin with
  PROVE  Begins(request.body, with) <=>
           FirstByte <= Len(request.body) /\ request.body[FirstByte] \in with
<1>1. PICK b \in Seq(STRING) : request.body = b
  BY DEF Request
<1>2. PICK n \in Nat : Len(b) = n
  OBVIOUS
<1>3. PICK f \in 1..(n + 1) : FirstByte = f
  BY <1>1, <1>2, FirstByteIsFirst
<1>4. /\ \A j \in 1..n : j < f => b[j] = "ws"
      /\ f <= n => b[f] # "ws"
  BY <1>1, <1>2, <1>3, FirstByteIsFirst
<1>5. ASSUME NEW k \in 1..n, b[k] \in with, \A j \in 1..(k - 1) : b[j] = "ws"
      PROVE  f = k
  <2>1. b[k] # "ws"
    BY <1>5
  <2>2. ~(k < f)
    BY <1>2, <1>3, <1>4, <2>1
  <2>3. ~(f < k)
    BY <1>2, <1>3, <1>4, <1>5
  <2> QED
    BY <1>2, <1>3, <2>2, <2>3
<1>6. DOMAIN b = 1..n
  BY <1>2
<1>7. f <= n => f \in 1..n /\ \A j \in 1..(f - 1) : b[j] = "ws"
  BY <1>2, <1>3, <1>4
<1> QED
  BY <1>1, <1>2, <1>3, <1>5, <1>6, <1>7 DEF Begins

LEMMA ArriveKeepsIInv ==
  ASSUME IInv, Arrive
  PROVE  IInv'
<1>1. ConfigInv' /\ Requests[env.clients] \subseteq Request
  BY ConfigStays, GatewayAssumption DEF IInv, ConfigInv, Arrive
<1>2. /\ request' \in Request /\ layer' = "cloudflare" /\ answer' = "none" /\ reached' = "none"
      /\ step' = "serving"
  BY <1>1 DEF Arrive, IInv, RequestInv, configVars
<1>3. RequestInv'
  BY <1>2, NobodyIsNoRequest DEF RequestInv
<1>4. LayerInv'
  BY <1>2 DEF LayerInv, Mcp, Guarded
<1> QED
  BY <1>1, <1>2, <1>3, <1>4 DEF IInv, ToolsAreProtected, OpenPathsStayOpen, OneWholeMessage

LEMMA FinishKeepsIInv ==
  ASSUME IInv, Finish
  PROVE  IInv'
<1>1. ConfigInv'
  BY ConfigStays DEF IInv, Finish
<1>2. layer' = "idle" /\ answer' = "none" /\ reached' = "none" /\ request' = NoRequest
  BY DEF Finish, IInv, RequestInv
<1>3. RequestInv' /\ LayerInv'
  BY <1>2 DEF RequestInv, LayerInv, Mcp, Guarded
<1> QED
  BY <1>1, <1>2, <1>3 DEF IInv, ToolsAreProtected, OpenPathsStayOpen, OneWholeMessage

(* An answer that no property is about, or that suits them.                 *)
LEMMA AnsweredKeepsIInv ==
  ASSUME IInv, layer # "idle", UNCHANGED <<request, prefix, reached, configVars>>, layer' = "idle",
         answer' # "none",
         answer' \in {"401", "403"} =>
           /\ request.path \notin Probes \cup {Metadata}
           /\ ~(request.path = "/mcp" /\ request.method = "OPTIONS"),
         answer' \in {"4xx", "400"} /\ request.path = "/mcp" =>
           \/ request.method # "POST"
           \/ Readable # Len(request.body)
           \/ ~Begins(request.body, {"object"})
  PROVE  IInv'
<1>1. ConfigInv'
  BY ConfigStays DEF IInv
<1>2. /\ request \in Request /\ request # NoRequest /\ step = "serving" /\ reached = "none"
      /\ UNCHANGED <<request, reached, step>> /\ layer' = "idle"
  BY DEF IInv, RequestInv, configVars
<1>3. RequestInv' /\ LayerInv'
  BY <1>2 DEF RequestInv, LayerInv, Mcp, Guarded
<1>4. ToolsAreProtected' /\ OpenPathsStayOpen'
  BY <1>2 DEF ToolsAreProtected, OpenPathsStayOpen, Probes, Metadata
<1>5. OneWholeMessage'
  BY <1>2, ReadableIsMin DEF OneWholeMessage, Begins
<1> QED
  BY <1>1, <1>3, <1>4, <1>5 DEF IInv

(* A request that goes on has nothing to show yet.                          *)
LEMMA OnTheWay ==
  ASSUME IInv, layer # "idle", UNCHANGED <<request, answer, reached, configVars>>, layer' # "idle"
  PROVE  ConfigInv' /\ RequestInv' /\ ToolsAreProtected' /\ OpenPathsStayOpen' /\ OneWholeMessage'
<1>1. ConfigInv'
  BY ConfigStays DEF IInv
<1>2. request # NoRequest /\ answer = "none" /\ reached = "none" /\ UNCHANGED <<request, answer, reached, step>>
  BY DEF IInv, RequestInv, configVars
<1>3. RequestInv'
  BY <1>2 DEF IInv, RequestInv
<1> QED
  BY <1>1, <1>2, <1>3 DEF ToolsAreProtected, OpenPathsStayOpen, OneWholeMessage

LEMMA SameRequest ==
  ASSUME UNCHANGED <<request, configVars>>
  PROVE  /\ Readable' = Readable /\ FirstByte' = FirstByte
         /\ Passable' <=> Passable
         /\ Authorized' <=> Authorized
         /\ Granted' <=> Granted
         /\ Begins(request.body, {"object"})' <=> Begins(request.body, {"object"})
         /\ UNCHANGED <<request, env, step>>
<1>1. UNCHANGED <<request, env, step, scopes>>
  BY DEF configVars
<1> QED
  BY <1>1 DEF Readable, FirstByte, Passable, Exempt, Probes, Metadata, Authorized, Granted, Begins

LEMMA ToKeepsIInv ==
  ASSUME IInv, layer # "idle", UNCHANGED <<request, prefix, answer, reached, configVars>>,
         layer' # "idle",
         layer' \in {"mux"} \cup Mcp => (env.cloudflare => Passable),
         layer' \in Mcp => request.path = "/mcp",
         layer' = "crossOrigin" => ~Authorized /\ request.method # "OPTIONS",
         layer' \in {"host", "token"} => request.method # "OPTIONS",
         layer' \in Guarded /\ Authorized => request.token = "valid" /\ Granted,
         layer' # "transport" \/ request.method # "POST",
         layer' = "tool" => /\ request.method = "POST"
                            /\ Readable = Len(request.body)
                            /\ Begins(request.body, {"object"})
  PROVE  IInv'
<1>1. UNCHANGED <<request, answer, reached, configVars>>
  OBVIOUS
<1>2. ConfigInv' /\ RequestInv' /\ ToolsAreProtected' /\ OpenPathsStayOpen' /\ OneWholeMessage'
  BY <1>1, OnTheWay
<1>3. LayerInv'
  BY <1>1, SameRequest DEF LayerInv, Mcp, Guarded
<1> QED
  BY <1>2, <1>3 DEF IInv

(* Where the mux sends a request.                                           *)
LEMMA RouteLeads ==
  /\ Route \in {"405", "probe", "metadata", "static", "api", "cors", "crossOrigin"}
  /\ Route \in {"cors", "crossOrigin"} => request.path = "/mcp"
  /\ Route = "crossOrigin" => ~Authorized /\ request.method # "OPTIONS"
<1>1. CASE request.path \in Probes
  BY <1>1 DEF Route
<1>2. CASE request.path \notin Probes /\ request.path = "/mcp"
  BY <1>2 DEF Route
<1>3. CASE request.path \notin Probes /\ request.path = Metadata
  BY <1>3 DEF Route, Metadata
<1>4. CASE request.path \notin Probes /\ request.path \notin {"/mcp", Metadata}
  BY <1>4 DEF Route
<1> QED
  BY <1>1, <1>2, <1>3, <1>4

(* singleMCPMessage: the first byte decides, and none is lost.              *)
LEMMA MessageKeepsIInv ==
  ASSUME IInv, Message
  PROVE  IInv'
<1>1. request \in Request /\ layer = "message" /\ answer = "none" /\ reached = "none"
  BY DEF Message, IInv, RequestInv
<1>2. Readable \in 0..Len(request.body) /\ FirstByte \in 1..(Len(request.body) + 1)
  BY <1>1, ReadableIsMin, FirstByteIsFirst
<1>3. Len(request.body) \in Nat
  BY <1>1 DEF Request
<1>4. Begins(request.body, {"object"}) <=>
        FirstByte <= Len(request.body) /\ request.body[FirstByte] \in {"object"}
  BY <1>1, BeginsWithFirst
<1>5. CASE request.method # "POST"
  <2>1. To("transport")
    BY <1>5 DEF Message
  <2> QED
    <3>1. /\ request.path = "/mcp" /\ (env.cloudflare => Passable)
          /\ Authorized => request.token = "valid" /\ Granted
      BY <1>1 DEF IInv, LayerInv, Mcp, Guarded
    <3>2. layer' = "transport" /\ UNCHANGED <<request, prefix, answer, reached, configVars>>
      BY <2>1 DEF To
    <3> QED
      BY <1>1, <1>5, <3>1, <3>2, ToKeepsIInv
<1>6. CASE /\ request.method = "POST"
           /\ \/ FirstByte > Readable /\ Readable < Len(request.body)
              \/ FirstByte <= Readable /\ request.body[FirstByte] = "array"
  <2>1. Answered("400")
    BY <1>6 DEF Message
  <2>2. Readable # Len(request.body) \/ ~Begins(request.body, {"object"})
    BY <1>2, <1>3, <1>4, <1>6
  <2> QED
    BY <1>1, <2>1, <2>2, AnsweredKeepsIInv DEF Answered
<1>7. CASE /\ request.method = "POST"
           /\ ~(FirstByte > Readable /\ Readable < Len(request.body))
           /\ ~(FirstByte <= Readable /\ request.body[FirstByte] = "array")
  <2>1. /\ prefix' = Min({FirstByte, Readable}) /\ layer' = "transport"
        /\ UNCHANGED <<request, answer, reached, configVars>>
    BY <1>7 DEF Message
  <2>2. Min({FirstByte, Readable}) \in 0..Readable
    <3>1. PICK f \in Nat, n \in Nat : FirstByte = f /\ Readable = n
      BY <1>2, <1>3
    <3>2. \E k \in {f, n} : \A j \in {f, n} : k <= j
      <4>1. {f, n} \in SUBSET Nat /\ {f, n} # {}
        OBVIOUS
      <4> QED
        BY <4>1, Smallest
    <3>3. Min({f, n}) \in {f, n} /\ Min({f, n}) <= n
      BY <3>2 DEF Min
    <3> QED
      BY <3>1, <3>3
  <2>3. ConfigInv' /\ RequestInv' /\ ToolsAreProtected' /\ OpenPathsStayOpen' /\ OneWholeMessage'
    BY <1>1, <2>1, OnTheWay
  <2>4. /\ request.path = "/mcp" /\ (env.cloudflare => Passable)
        /\ Authorized => request.token = "valid" /\ Granted
    BY <1>1 DEF IInv, LayerInv, Mcp, Guarded
  <2>5. LayerInv'
    BY <1>7, <2>1, <2>2, <2>4, SameRequest DEF LayerInv, Mcp, Guarded
  <2> QED
    BY <2>3, <2>5 DEF IInv
<1> QED
  BY <1>5, <1>6, <1>7

(* The transport calls a tool for one whole message.                        *)
LEMMA TransportKeepsIInv ==
  ASSUME IInv, Transport
  PROVE  IInv'
<1>1. /\ request \in Request /\ layer = "transport" /\ request.path = "/mcp"
      /\ env.cloudflare => Passable
      /\ Authorized => request.token = "valid" /\ Granted
  BY DEF Transport, IInv, RequestInv, LayerInv, Mcp, Guarded
<1>2. /\ Begins(request.body, {"object"}) <=>
           FirstByte <= Len(request.body) /\ request.body[FirstByte] \in {"object"}
      /\ Begins(request.body, {"object", "array"}) <=>
           FirstByte <= Len(request.body) /\ request.body[FirstByte] \in {"object", "array"}
  BY <1>1, BeginsWithFirst
<1>3. ASSUME request.method = "POST", Readable = Len(request.body)
      PROVE  Begins(Replayed, {"object", "array"}) <=> Begins(request.body, {"object"})
  <2>1. prefix \in 0..Readable /\ (FirstByte <= Readable => request.body[FirstByte] # "array")
    BY <1>1, <1>3 DEF IInv, LayerInv
  <2>2. Replayed = request.body
    BY <1>1, <1>3, <2>1, ReplayedIsBody
  <2> QED
    BY <1>2, <1>3, <2>1, <2>2
<1>4. CASE request.method = "POST" /\ Readable = Len(request.body) /\ Begins(Replayed, {"object", "array"})
  <2>1. To("tool")
    BY <1>4 DEF Transport
  <2> QED
    BY <1>1, <1>3, <1>4, <2>1, ToKeepsIInv DEF To
<1>5. CASE ~(request.method = "POST" /\ Readable = Len(request.body) /\ Begins(Replayed, {"object", "array"}))
  <2>1. Answered("4xx")
    BY <1>5 DEF Transport
  <2> QED
    BY <1>1, <1>3, <1>5, <2>1, AnsweredKeepsIInv DEF Answered
<1> QED
  BY <1>4, <1>5

LEMMA CloudflareKeepsIInv ==
  ASSUME IInv, Cloudflare
  PROVE  IInv'
<1>1. request \in Request /\ layer = "cloudflare" /\ answer = "none" /\ reached = "none"
  BY DEF Cloudflare, IInv, RequestInv
<1>2. CASE env.cloudflare /\ ~Exempt /\ ~request.cloudflare
  BY <1>1, <1>2, AnsweredKeepsIInv DEF Cloudflare, Answered, Exempt
<1>3. CASE ~(env.cloudflare /\ ~Exempt /\ ~request.cloudflare)
  <2>1. layer' = "mux" /\ UNCHANGED <<request, prefix, answer, reached, configVars>>
    BY <1>3 DEF Cloudflare, To
  <2> QED
    BY <1>1, <1>3, <2>1, ToKeepsIInv DEF Passable, Mcp, Guarded
<1> QED
  BY <1>2, <1>3

LEMMA MuxKeepsIInv ==
  ASSUME IInv, Mux
  PROVE  IInv'
<1>1. /\ request \in Request /\ layer = "mux" /\ answer = "none" /\ reached = "none"
      /\ env.cloudflare => Passable
  BY DEF Mux, IInv, RequestInv, LayerInv, Mcp, Guarded
<1>2. CASE Route = "405"
  BY <1>1, <1>2, AnsweredKeepsIInv DEF Mux, Answered
<1>3. CASE Route # "405"
  <2>1. layer' = Route /\ UNCHANGED <<request, prefix, answer, reached, configVars>>
    BY <1>3 DEF Mux, To
  <2> QED
    BY <1>1, <1>3, <2>1, RouteLeads, ToKeepsIInv DEF Mcp, Guarded
<1> QED
  BY <1>2, <1>3

LEMMA PlainKeepsIInv ==
  ASSUME IInv, Plain
  PROVE  IInv'
<1>1. layer # "idle"
  BY DEF Plain
<1>2. PICK status \in PlainAnswers : Answered(status)
  BY DEF Plain
<1>3. status \in {"200", "204", "304", "404", "503"}
  BY DEF PlainAnswers
<1> QED
  BY <1>1, <1>2, <1>3, AnsweredKeepsIInv DEF Answered

(* The four layers in front of the message.                                 *)
LEMMA GatesKeepIInv ==
  ASSUME IInv, CrossOrigin \/ Cors \/ Host \/ Token
  PROVE  IInv'
<1>1. layer \in {"crossOrigin", "cors", "host", "token"}
  BY DEF CrossOrigin, Cors, Host, Token
<1>2. /\ request.path = "/mcp" /\ (env.cloudflare => Passable)
      /\ layer = "crossOrigin" => ~Authorized /\ request.method # "OPTIONS"
      /\ layer \in {"host", "token"} => request.method # "OPTIONS"
  BY <1>1 DEF IInv, LayerInv, Mcp, Guarded
<1>3. request.path \notin Probes \cup {Metadata}
  BY <1>2 DEF Probes, Metadata
<1>4. ASSUME UNCHANGED <<request, prefix, reached, configVars>>, layer' = "idle",
             answer' \in {"204", "401", "403"}, answer' \in {"401", "403"} => request.method # "OPTIONS"
      PROVE  IInv'
  BY <1>1, <1>3, <1>4, AnsweredKeepsIInv
<1>5. ASSUME UNCHANGED <<request, prefix, answer, reached, configVars>>,
             layer' \in {"host", "token", "message"},
             layer' # "message" => request.method # "OPTIONS",
             layer' = "message" /\ Authorized => request.token = "valid" /\ Granted
      PROVE  IInv'
  BY <1>1, <1>2, <1>5, ToKeepsIInv DEF Guarded
<1>6. CASE CrossOrigin
  BY <1>2, <1>4, <1>5, <1>6 DEF CrossOrigin, Answered, To
<1>7. CASE Cors
  BY <1>4, <1>5, <1>7 DEF Cors, Answered, To
<1>8. CASE Host
  BY <1>2, <1>4, <1>5, <1>8 DEF Host, Answered, To
<1>9. CASE Token
  BY <1>2, <1>4, <1>5, <1>9 DEF Token, Answered, To
<1> QED
  BY <1>6, <1>7, <1>8, <1>9

(* Where a database is used, everything that was asked for has been         *)
(* checked.                                                                 *)
LEMMA UseKeepsIInv ==
  ASSUME IInv, UseDatabase
  PROVE  IInv'
<1>1. /\ layer \in {"tool", "api"} /\ layer' = "idle" /\ answer' \in {"200", "404"}
      /\ UNCHANGED <<request, configVars>>
  BY DEF UseDatabase
<1>2. ConfigInv'
  BY <1>1, ConfigStays DEF IInv
<1>3. /\ request \in Request /\ request # NoRequest /\ step = "serving"
      /\ UNCHANGED <<env, request, step>>
  BY <1>1 DEF IInv, RequestInv, configVars
<1>4. RequestInv' /\ LayerInv' /\ OpenPathsStayOpen'
  BY <1>1, <1>3 DEF RequestInv, LayerInv, Mcp, Guarded, OpenPathsStayOpen
<1>5. CASE layer = "tool"
  <2>1. /\ request.path = "/mcp" /\ (env.cloudflare => Passable) /\ request.method = "POST"
        /\ Authorized => request.token = "valid" /\ Granted
        /\ Readable = Len(request.body) /\ Begins(request.body, {"object"})
    BY <1>5 DEF IInv, LayerInv, Mcp, Guarded
  <2>2. env.cloudflare => request.cloudflare
    BY <2>1 DEF Passable, Exempt, Probes, Metadata
  <2>3. AsksForTokens => request.token = "valid" /\ ToSet(env.scopes) \subseteq request.granted
    BY <1>3, <2>1 DEF IInv, ConfigInv, AuthLoaded, Granted
  <2>4. ToolsAreProtected'
    BY <1>3, <2>1, <2>2, <2>3 DEF ToolsAreProtected, AsksForTokens
  <2>5. OneWholeMessage'
    BY <1>1, <1>3, <2>1, ReadableIsMin DEF OneWholeMessage, Begins
  <2> QED
    BY <1>2, <1>4, <2>4, <2>5 DEF IInv
<1>6. CASE layer = "api"
  <2>1. reached' = "api"
    BY <1>6 DEF UseDatabase
  <2>2. ToolsAreProtected' /\ OneWholeMessage'
    BY <1>1, <2>1 DEF ToolsAreProtected, OneWholeMessage
  <2> QED
    BY <1>2, <1>4, <2>2 DEF IInv
<1> QED
  BY <1>1, <1>5, <1>6

LEMMA StutterKeepsIInv ==
  ASSUME IInv, UNCHANGED vars
  PROVE  IInv'
<1>1. UNCHANGED <<request, layer, prefix, answer, reached, configVars>>
  BY DEF vars, gatewayVars
<1>2. ConfigInv'
  BY <1>1, ConfigStays DEF IInv
<1>3. UNCHANGED <<request, layer, prefix, answer, reached, env, step>>
  BY <1>1 DEF configVars
<1>4. RequestInv'
  BY <1>3 DEF IInv, RequestInv
<1>5. LayerInv'
  BY <1>1, <1>3, SameRequest DEF IInv, LayerInv
<1>6. ToolsAreProtected' /\ OpenPathsStayOpen' /\ OneWholeMessage'
  BY <1>3 DEF IInv, ToolsAreProtected, OpenPathsStayOpen, OneWholeMessage, Begins
<1> QED
  BY <1>2, <1>4, <1>5, <1>6 DEF IInv

LEMMA StepKeepsIInv == IInv /\ [Next]_vars => IInv'
<1> SUFFICES ASSUME IInv, [Next]_vars PROVE IInv'
  OBVIOUS
<1>1. CASE ConfigNext /\ UNCHANGED gatewayVars
  BY <1>1, StartKeepsIInv
<1>2. CASE GatewayNext
  BY <1>2, ArriveKeepsIInv, FinishKeepsIInv, CloudflareKeepsIInv, MuxKeepsIInv, PlainKeepsIInv,
     GatesKeepIInv, MessageKeepsIInv, TransportKeepsIInv, UseKeepsIInv DEF GatewayNext
<1>3. CASE UNCHANGED vars
  BY <1>3, StutterKeepsIInv
<1> QED
  BY <1>1, <1>2, <1>3 DEF Next

-----------------------------------------------------------------------------
(* The lists of databases                                                   *)

(* The places that are kept have the ranks from 1 to their number, each its *)
(* own.                                                                     *)
LEMMA RankIsBijection ==
  ASSUME NEW n \in Nat, NEW places \in SUBSET (1..n)
  PROVE  /\ Cardinality(places) \in Nat
         /\ Rank(places) \in [places -> 1..Cardinality(places)]
         /\ \A i, k \in places : Rank(places)[i] = Rank(places)[k] => i = k
         /\ \A r \in 1..Cardinality(places) : \E k \in places : Rank(places)[k] = r
<1> DEFINE c == Cardinality(places)
           Upto(k) == {j \in places : j <= k}
<1>1. IsFiniteSet(1..n)
  BY FS_Interval
<1>2. IsFiniteSet(places) /\ c \in Nat
  BY <1>1, FS_Subset, FS_CardinalityType
<1>3. ASSUME NEW k \in places
      PROVE  IsFiniteSet(Upto(k)) /\ Cardinality(Upto(k)) \in 1..c
  <2>1. Upto(k) \in SUBSET places
    OBVIOUS
  <2>2. IsFiniteSet(Upto(k)) /\ Cardinality(Upto(k)) <= c
    BY <1>2, <2>1, FS_Subset
  <2>3. k \in Upto(k)
    OBVIOUS
  <2>4. Cardinality(Upto(k)) \in Nat /\ Cardinality(Upto(k)) # 0
    BY <2>2, <2>3, FS_CardinalityType, FS_EmptySet
  <2> QED
    BY <1>2, <2>2, <2>4
<1>4. ASSUME NEW i \in places, NEW k \in places, i < k
      PROVE  Cardinality(Upto(i)) # Cardinality(Upto(k))
  <2>1. i \in Int /\ k \in Int /\ \A j \in places : j \in Int
    OBVIOUS
  <2>2. Upto(i) \in SUBSET Upto(k)
    <3>1. \A j \in places : j <= i => j <= k
      BY <1>4, <2>1
    <3> QED
      BY <3>1
  <2>3. k \in Upto(k) /\ k \notin Upto(i)
    BY <1>4, <2>1
  <2> QED
    BY <1>3, <2>2, <2>3, FS_Subset
<1>5. \A k \in places : Rank(places)[k] = Cardinality(Upto(k))
  BY DEF Rank
<1>6. Rank(places) \in [places -> 1..c]
  BY <1>3 DEF Rank
<1>7. \A i, k \in places : Rank(places)[i] = Rank(places)[k] => i = k
  <2>1. \A i, k \in places : i < k \/ k < i \/ i = k
    OBVIOUS
  <2> HIDE DEF Upto
  <2> QED
    BY <1>4, <1>5, <2>1
<1>8. Rank(places) \in Injection(places, 1..c)
  BY <1>6, <1>7 DEF Injection, IsInjective
<1>9. IsFiniteSet(1..c) /\ Cardinality(1..c) = c
  BY <1>2, FS_Interval
<1>10. Rank(places) \in Surjection(places, 1..c)
  BY <1>8, <1>9, FS_Injection
<1> QED
  BY <1>2, <1>6, <1>7, <1>10 DEF Surjection

(* splitDatabaseList keeps every item but the empty ones.                   *)
LEMMA ItemsAreKept ==
  ASSUME NEW list \in Seq(STRING)
  PROVE  /\ Items(list) \in Seq(STRING)
         /\ \A m \in 1..Len(Items(list)) : \E j \in 1..Len(list) : Items(list)[m] = list[j] /\ list[j] # Empty
         /\ \A j \in 1..Len(list) : list[j] # Empty => \E m \in 1..Len(Items(list)) : Items(list)[m] = list[j]
<1> DEFINE kept == Kept(list)
           c == Cardinality(kept)
           rank == Rank(kept)
           at == [m \in 1..c |-> CHOOSE k \in kept : rank[k] = m]
<1>1. Len(list) \in Nat /\ DOMAIN list = 1..Len(list)
  OBVIOUS
<1>2. kept \in SUBSET (1..Len(list)) /\ \A k \in 1..Len(list) : k \in kept <=> list[k] # Empty
  BY <1>1 DEF Kept
<1>3. /\ c \in Nat
      /\ rank \in [kept -> 1..c]
      /\ \A i, k \in kept : rank[i] = rank[k] => i = k
      /\ \A r \in 1..c : \E k \in kept : rank[k] = r
  BY <1>1, <1>2, RankIsBijection
<1>4. \A m \in 1..c : Items(list)[m] = list[at[m]]
  BY DEF Items
<1>5. Items(list) = [m \in 1..c |-> Items(list)[m]]
  BY DEF Items
<1> HIDE DEF kept, c, rank
<1>6. \A m \in 1..c : at[m] \in kept /\ rank[at[m]] = m
  BY <1>3
<1> HIDE DEF at
<1>7. \A k \in kept : rank[k] \in 1..c /\ at[rank[k]] = k
  BY <1>3, <1>6
<1>8. \A k \in kept : k \in 1..Len(list) /\ list[k] \in STRING
  BY <1>2
<1>9. \A m \in 1..c : Items(list)[m] \in STRING
  BY <1>4, <1>6, <1>8
<1>10. Items(list) \in [1..c -> STRING]
  BY <1>5, <1>9
<1>11. Items(list) \in Seq(STRING) /\ Len(Items(list)) = c
  BY <1>3, <1>10, SeqDef
<1>12. \A m \in 1..c : \E j \in 1..Len(list) : Items(list)[m] = list[j] /\ list[j] # Empty
  BY <1>2, <1>4, <1>6, <1>8
<1>13. \A j \in 1..Len(list) : list[j] # Empty => \E m \in 1..c : Items(list)[m] = list[j]
  BY <1>2, <1>4, <1>7
<1> QED
  BY <1>11, <1>12, <1>13

LEMMA KeptItems ==
  ASSUME NEW list \in Seq(STRING)
  PROVE  {Items(list)[m] : m \in DOMAIN Items(list)} = ToSet(list) \ {Empty}
<1>1. PICK kept \in Seq(STRING) : Items(list) = kept
  BY ItemsAreKept
<1>2. /\ \A m \in 1..Len(kept) : \E j \in 1..Len(list) : kept[m] = list[j] /\ list[j] # Empty
      /\ \A j \in 1..Len(list) : list[j] # Empty => \E m \in 1..Len(kept) : kept[m] = list[j]
  <2>1. Len(Items(list)) = Len(kept) /\ \A m \in 1..Len(kept) : Items(list)[m] = kept[m]
    BY <1>1
  <2> QED
    BY <2>1, ItemsAreKept
<1>3. DOMAIN kept = 1..Len(kept) /\ ToSet(list) = {list[j] : j \in 1..Len(list)}
  BY DEF ToSet
<1>4. \A m \in 1..Len(kept) : kept[m] \in ToSet(list) \ {Empty}
  BY <1>2, <1>3
<1>5. \A v \in ToSet(list) \ {Empty} : \E m \in 1..Len(kept) : v = kept[m]
  BY <1>2, <1>3
<1>6. {kept[m] : m \in 1..Len(kept)} = ToSet(list) \ {Empty}
  BY <1>4, <1>5
<1> QED
  BY <1>1, <1>3, <1>6

(* Without empty items nothing moves.                                       *)
LEMMA ItemsOfFull ==
  ASSUME NEW list \in Seq(STRING), \A k \in 1..Len(list) : list[k] # Empty
  PROVE  Items(list) = list
<1> DEFINE n == Len(list)
<1>1. n \in Nat /\ DOMAIN list = 1..n
  OBVIOUS
<1>2. Kept(list) = 1..n
  BY <1>1 DEF Kept
<1>3. \A k \in 1..n : Rank(1..n)[k] = k
  <2>1. ASSUME NEW k \in 1..n
        PROVE  {j \in 1..n : j <= k} = 1..k /\ Cardinality(1..k) = k
    <3>1. {j \in 1..n : j <= k} = 1..k
      BY <1>1
    <3>2. Cardinality(1..k) = k
      BY <1>1, FS_Interval
    <3> QED
      BY <3>1, <3>2
  <2> QED
    BY <2>1 DEF Rank
<1>4. Cardinality(1..n) = n
  BY <1>1, FS_Interval
<1>5. Items(list) = [m \in 1..n |-> list[CHOOSE k \in 1..n : Rank(1..n)[k] = m]]
  BY <1>2, <1>4 DEF Items
<1>6. \A m \in 1..n : (CHOOSE k \in 1..n : Rank(1..n)[k] = m) = m
  BY <1>3
<1>7. Items(list) = [m \in 1..n |-> list[m]]
  BY <1>5, <1>6
<1> QED
  BY <1>1, <1>7

LEMMA FamiliesAreFew == IsFiniteSet(Families) /\ Cardinality(Families) \in Nat
<1>1. IsFiniteSet({"file"}) /\ IsFiniteSet({"list"}) /\ IsFiniteSet({"numbered"})
  BY FS_Singleton
<1>2. IsFiniteSet(({"file"} \cup {"list"}) \cup {"numbered"})
  BY <1>1, FS_Union
<1>3. Families \in SUBSET (({"file"} \cup {"list"}) \cup {"numbered"})
  BY DEF Families
<1> QED
  BY <1>2, <1>3, FS_Subset, FS_CardinalityType

(* At most one source is in use once validateDatabaseSourceFamily agreed.   *)
LEMMA OneFamily ==
  ASSUME Cardinality(Families) <= 1
  PROVE  \A f, g \in Families : f = g
<1>1. Cardinality(Families) \in {0, 1}
  BY FamiliesAreFew
<1>2. Families = {} \/ \E f : Families = {f}
  BY <1>1, FamiliesAreFew, FS_EmptySet, FS_Singleton
<1> QED
  BY <1>2

(* A source that names a database is in use.                                *)
LEMMA NamedByFamily ==
  ASSUME env \in Environments, env \in Environment
  PROVE  /\ FromFile # {} => "file" \in Families
         /\ FromList # {} => "list" \in Families
         /\ FromNumbers # {} => "numbered" \in Families
<1>1. ASSUME FromFile # {}
      PROVE  "file" \in Families
  <2>1. env.file.items # <<>>
    BY <1>1 DEF FromFile
  <2> QED
    BY <2>1, ConfigurationAssumption DEF Families
<1>2. ASSUME FromList # {}
      PROVE  "list" \in Families
  <2>1. ~Blank(env.urls)
    BY <1>2 DEF FromList, Blank, ToSet
  <2> QED
    BY <2>1 DEF Families
<1>3. ASSUME FromNumbers # {}
      PROVE  "numbered" \in Families
  <2>1. PICK n \in Numbers : \A j \in 1..n : env.numbered[j].url # Empty
    BY <1>3 DEF FromNumbers
  <2>2. n \in 1..n
    BY <2>1 DEF Numbers, Environment
  <2> QED
    BY <2>1, <2>2 DEF Families
<1> QED
  BY <1>1, <1>2, <1>3

LEMMA OneSource ==
  ASSUME env \in Environments, env \in Environment, \A f, g \in Families : f = g
  PROVE  Named \in {FromFile, FromList, FromNumbers}
<1>1. "file" # "list" /\ "list" # "numbered" /\ "file" # "numbered"
  OBVIOUS
<1> QED
  BY <1>1, NamedByFamily DEF Named

LEMMA EnvironmentIsTyped ==
  ASSUME env \in Environment
  PROVE  /\ env.iam \in BOOLEAN /\ env.region \in STRING /\ env.single \in STRING
         /\ env.urls \in Seq(STRING) /\ env.ids \in Seq(STRING)
         /\ env.numbered \in Seq([url : STRING, id : STRING])
BY DEF Environment

(* What a source appends.                                                   *)
LEMMA Appended ==
  ASSUME entries \in Seq(EntryRecord), NEW more \in Seq(EntryRecord), entries' = entries \o more
  PROVE  /\ entries' \in Seq(EntryRecord)
         /\ Dsns' = Dsns \cup {more[k].dsn : k \in DOMAIN more}
         /\ \A k \in DOMAIN more : \E j \in DOMAIN entries' : entries'[j] = more[k]
         /\ \A k \in DOMAIN entries : \E j \in DOMAIN entries' : entries'[j] = entries[k]
<1>1. PICK e \in Seq(EntryRecord) : entries = e
  OBVIOUS
<1>2. PICK n \in Nat, m \in Nat : Len(e) = n /\ Len(more) = m
  OBVIOUS
<1>3. PICK f \in Seq(EntryRecord) : entries' = f /\ f = e \o more
  BY <1>1, ConcatProperties
<1>4. Len(f) = n + m /\ \A i \in 1..(n + m) : f[i] = IF i <= n THEN e[i] ELSE more[i - n]
  BY <1>2, <1>3, ConcatProperties
<1>5. DOMAIN e = 1..n /\ DOMAIN more = 1..m /\ DOMAIN f = 1..(n + m)
  BY <1>2, <1>3, <1>4
<1>6. \A k \in 1..m : k + n \in 1..(n + m) /\ f[k + n] = more[k]
  BY <1>2, <1>4
<1>7. \A k \in 1..n : k \in 1..(n + m) /\ f[k] = e[k]
  BY <1>2, <1>4
<1>8. \A k \in 1..(n + m) : (k \in 1..n /\ f[k] = e[k]) \/ (k - n \in 1..m /\ f[k] = more[k - n])
  BY <1>2, <1>4
<1>9. {f[k].dsn : k \in 1..(n + m)} = {e[k].dsn : k \in 1..n} \cup {more[k].dsn : k \in 1..m}
  <2>1. \A k \in 1..(n + m) : f[k].dsn \in {e[j].dsn : j \in 1..n} \cup {more[j].dsn : j \in 1..m}
    BY <1>8
  <2>2. \A k \in 1..n : e[k].dsn \in {f[j].dsn : j \in 1..(n + m)}
    BY <1>7
  <2>3. \A k \in 1..m : more[k].dsn \in {f[j].dsn : j \in 1..(n + m)}
    BY <1>6
  <2> QED
    BY <2>1, <2>2, <2>3
<1>10. Dsns = {e[k].dsn : k \in 1..n} /\ Dsns' = {f[k].dsn : k \in 1..(n + m)}
  BY <1>1, <1>3, <1>5 DEF Dsns
<1> QED
  BY <1>1, <1>3, <1>5, <1>6, <1>7, <1>9, <1>10

(* The numbers before the first gap are the first ones.                     *)
LEMMA NumbersBegin ==
  ASSUME env \in Environment
  PROVE  \E m \in Nat : Numbered = 1..m /\ 1..m \subseteq 1..Len(env.numbered)
<1>1. PICK n \in Nat : Len(env.numbered) = n
  BY DEF Environment
<1> DEFINE gaps == {k \in 1..(n + 1) : k = n + 1 \/ env.numbered[k].url = Empty}
<1>2. PICK g \in gaps : \A k \in gaps : g <= k
  <2>1. gaps \in SUBSET Nat /\ n + 1 \in gaps
    BY <1>1
  <2> QED
    BY <2>1, Smallest
<1>3. Numbered = 1..(g - 1)
  BY <1>1, <1>2 DEF Numbered, Numbers
<1> QED
  BY <1>1, <1>2, <1>3

LEMMA SameEnvironment ==
  ASSUME env' = env
  PROVE  UNCHANGED <<Families, FromFile, FromList, FromNumbers, Named>>
BY DEF Families, FromFile, FromList, FromNumbers, Named, Numbers

-----------------------------------------------------------------------------
(* The databases that are read, one source after the other                  *)

(* There is no default and no registry yet, or never.                       *)
LEMMA TooEarly ==
  ASSUME step' \in {"failed", "file", "list", "numbered", "single", "default"}
  PROVE  DefaultInv' /\ RegistryInv'
BY DEF DefaultInv, RegistryInv, AuthLoaded, Validated

LEMMA FailKeeps ==
  ASSUME SourcesInv, UNCHANGED <<env, entries>>, step' = "failed"
  PROVE  SourcesInv'
BY DEF SourcesInv, Loaded, AuthLoaded

LEMMA FamilyKeeps ==
  ASSUME SourcesInv, SourceFamily
  PROVE  SourcesInv'
<1>1. CASE Cardinality(Families) > 1
  BY <1>1, FailKeeps DEF SourceFamily
<1>2. CASE ~(Cardinality(Families) > 1)
  <2>1. step' = "file" /\ UNCHANGED <<env, entries>> /\ entries = <<>>
    BY <1>2 DEF SourceFamily, SourcesInv
  <2>2. \A f, g \in Families : f = g
    <3>1. Cardinality(Families) \in Nat
      BY FamiliesAreFew
    <3>2. Cardinality(Families) <= 1
      BY <1>2, <3>1
    <3> QED
      BY <3>2, OneFamily
  <2>3. \A f, g \in Families' : f = g
    BY <2>1, <2>2, SameEnvironment
  <2> QED
    BY <2>1, <2>3 DEF SourcesInv, Loaded, AuthLoaded
<1> QED
  BY <1>1, <1>2

(* Each database of the file is an entry.                                   *)
LEMMA FileKeeps ==
  ASSUME SourcesInv, DatabaseFile
  PROVE  SourcesInv'
<1> DEFINE Items0 == [id : STRING, url : STRING, iam : BOOLEAN, region : STRING]
<1>1. env \in Environment /\ step = "file" /\ env' = env
  BY DEF SourcesInv, DatabaseFile
<1>2. PICK items \in Seq(Items0) : env.file.items = items
  BY <1>1 DEF Environment
<1> HIDE DEF Items0
<1>3. PICK n \in Nat : Len(items) = n
  OBVIOUS
<1>4. DOMAIN items = 1..n /\ \A k \in 1..n : items[k] \in Items0
  BY <1>3
<1>5. CASE step' = "failed"
  <2>1. UNCHANGED entries
    BY <1>1, <1>5 DEF DatabaseFile, Fail
  <2> QED
    BY <1>1, <1>5, <2>1, FailKeeps
<1>6. CASE step' # "failed"
  <2>1. /\ step' = "list"
        /\ entries' = [k \in 1..n |-> Entry(items[k].id, items[k].url, items[k].iam, items[k].region)]
    BY <1>2, <1>4, <1>6 DEF DatabaseFile, Fail
  <2>2. \A k \in 1..n : /\ Entry(items[k].id, items[k].url, items[k].iam, items[k].region) \in EntryRecord
                        /\ Entry(items[k].id, items[k].url, items[k].iam, items[k].region).dsn = items[k].url
    <3> TAKE k \in 1..n
    <3>1. /\ items[k].id \in Ids /\ items[k].url \in STRING /\ items[k].iam \in BOOLEAN
          /\ items[k].region \in STRING \cup {Empty}
      BY <1>4 DEF Ids, Items0
    <3>2. env.iam \in BOOLEAN /\ env.region \in STRING
      BY <1>1, EnvironmentIsTyped
    <3> QED
      BY <3>1, <3>2 DEF Entry, EntryRecord
  <2>3. /\ entries' \in [1..n -> EntryRecord]
        /\ \A k \in 1..n : entries'[k].dsn = items[k].url
    BY <2>1, <2>2
  <2>4. entries' \in Seq(EntryRecord) /\ DOMAIN entries' = 1..n
    BY <2>3, SeqDef
  <2>5. Dsns' = FromFile'
    BY <1>1, <1>2, <1>4, <2>3, <2>4 DEF Dsns, FromFile
  <2>6. \A f, g \in Families' : f = g
    BY <1>1, SameEnvironment DEF SourcesInv
  <2> QED
    BY <1>1, <2>1, <2>4, <2>5, <2>6 DEF SourcesInv, Loaded, AuthLoaded
<1> QED
  BY <1>5, <1>6

(* Each URL of the list is an entry, under its own id.                      *)
LEMMA ListKeeps ==
  ASSUME SourcesInv, DatabaseList
  PROVE  SourcesInv'
<1>1. /\ env \in Environment /\ step = "list" /\ env' = env /\ step' = "numbered"
      /\ entries \in Seq(EntryRecord) /\ Dsns = FromFile
  BY DEF SourcesInv, DatabaseList
<1>3. env.urls \in Seq(STRING) /\ env.ids \in Seq(STRING)
  BY <1>1 DEF Environment
<1> DEFINE urls == IF Blank(env.urls) THEN <<>> ELSE Items(env.urls)
           ids == Items(env.ids)
           more == [k \in DOMAIN urls |-> Entry(ListValue(ids, k, DbId(k)), urls[k], FALSE, Empty)]
<1>2. entries' = entries \o more
  BY DEF DatabaseList
<1>4. Items(env.urls) \in Seq(STRING) /\ ids \in Seq(STRING)
  BY <1>3, ItemsAreKept
<1>5. urls \in Seq(STRING) /\ {urls[k] : k \in DOMAIN urls} = FromList
  <2>1. CASE Blank(env.urls)
    <3>1. urls = <<>> /\ FromList = {}
      BY <2>1 DEF Blank, FromList, ToSet
    <3>2. urls \in Seq(STRING) /\ DOMAIN urls = {}
      <4> HIDE DEF urls
      <4> QED
        BY <3>1
    <3>3. {urls[k] : k \in DOMAIN urls} = {}
      BY <3>2
    <3> QED
      BY <3>1, <3>2, <3>3
  <2>2. CASE ~Blank(env.urls)
    <3>1. urls = Items(env.urls)
      BY <2>2
    <3>2. {Items(env.urls)[k] : k \in DOMAIN Items(env.urls)} = FromList
      BY <1>3, KeptItems DEF FromList
    <3> QED
      BY <1>4, <3>1, <3>2
  <2> QED
    BY <2>1, <2>2
<1> HIDE DEF urls
<1>6. PICK n \in Nat : Len(urls) = n /\ DOMAIN urls = 1..n /\ \A k \in 1..n : urls[k] \in STRING
  BY <1>5
<1>7. ASSUME NEW k \in 1..n
      PROVE  ListValue(ids, k, DbId(k)) \in Ids
  <2>1. CASE k <= Len(ids) /\ ids[k] # Empty
    <3>1. k \in 1..Len(ids)
      BY <1>4, <2>1
    <3>2. ids[k] \in STRING
      BY <1>4, <3>1, ElementOfSeq
    <3> QED
      BY <2>1, <3>2 DEF ListValue, Ids
  <2>2. CASE ~(k <= Len(ids) /\ ids[k] # Empty)
    BY <2>2 DEF ListValue, Ids
  <2> QED
    BY <2>1, <2>2
<1> HIDE DEF ids
<1>8. \A k \in 1..n : /\ more[k] \in EntryRecord /\ more[k].dsn = urls[k]
                      /\ more[k].id = ListValue(ids, k, DbId(k))
  <2> TAKE k \in 1..n
  <2>1. more[k] = Entry(ListValue(ids, k, DbId(k)), urls[k], FALSE, Empty)
    BY <1>6
  <2>2. ListValue(ids, k, DbId(k)) \in Ids /\ urls[k] \in STRING
    BY <1>6, <1>7
  <2>3. env.iam \in BOOLEAN /\ env.region \in STRING
    BY <1>1, EnvironmentIsTyped
  <2> HIDE DEF more
  <2> QED
    BY <2>1, <2>2, <2>3 DEF Entry, EntryRecord
<1>9. more \in Seq(EntryRecord) /\ DOMAIN more = 1..n
  <2>1. more = [k \in 1..n |-> more[k]]
    BY <1>6
  <2> HIDE DEF more
  <2>2. more \in [1..n -> EntryRecord]
    BY <1>8, <2>1
  <2> QED
    BY <2>2, SeqDef
<1> HIDE DEF more
<1>10. {more[k].dsn : k \in DOMAIN more} = FromList
  BY <1>5, <1>6, <1>8, <1>9
<1>11. entries' \in Seq(EntryRecord) /\ Dsns' = FromFile' \cup FromList'
  <2>1. entries' \in Seq(EntryRecord) /\ Dsns' = Dsns \cup {more[k].dsn : k \in DOMAIN more}
    BY <1>1, <1>2, <1>9, Appended
  <2> QED
    BY <1>1, <1>10, <2>1, SameEnvironment
<1>12. PairsThere'
  <2> SUFFICES ASSUME Empty \notin ToSet(env.urls) \cup ToSet(env.ids),
                      NEW k \in DOMAIN env.urls, k <= Len(env.ids)
               PROVE  \E j \in DOMAIN entries' : entries'[j].id = env.ids[k] /\ entries'[j].dsn = env.urls[k]
    BY <1>1 DEF PairsThere
  <2>1. /\ DOMAIN env.urls = 1..Len(env.urls) /\ Len(env.urls) \in Nat
        /\ DOMAIN env.ids = 1..Len(env.ids) /\ Len(env.ids) \in Nat
    BY <1>3
  <2>2. /\ \A j \in 1..Len(env.urls) : env.urls[j] # Empty
        /\ \A j \in 1..Len(env.ids) : env.ids[j] # Empty
    BY <2>1 DEF ToSet
  <2>3. Items(env.urls) = env.urls /\ ids = env.ids
    BY <1>3, <2>2, ItemsOfFull DEF ids
  <2>4. ~Blank(env.urls)
    BY <2>1, <2>2 DEF Blank
  <2>5. urls = env.urls
    BY <2>3, <2>4 DEF urls
  <2>6. k \in 1..n /\ k \in 1..Len(env.ids)
    BY <1>6, <2>1, <2>5
  <2>7. ListValue(ids, k, DbId(k)) = env.ids[k]
    BY <2>2, <2>3, <2>6 DEF ListValue
  <2>8. more[k].id = env.ids[k] /\ more[k].dsn = env.urls[k]
    BY <1>8, <2>5, <2>6, <2>7
  <2>9. \E j \in DOMAIN entries' : entries'[j] = more[k]
    BY <1>1, <1>2, <1>9, <2>6, Appended
  <2> QED
    BY <2>8, <2>9
<1>13. \A f, g \in Families' : f = g
  BY <1>1, SameEnvironment DEF SourcesInv
<1> QED
  BY <1>1, <1>11, <1>12, <1>13 DEF SourcesInv, Loaded, AuthLoaded

(* Each numbered variable up to the first gap is an entry.                  *)
LEMMA NumbersKeep ==
  ASSUME SourcesInv, DatabaseNumbers
  PROVE  SourcesInv'
<1>1. /\ env \in Environment /\ step = "numbered" /\ env' = env
      /\ entries \in Seq(EntryRecord) /\ Dsns = FromFile \cup FromList /\ PairsThere
      /\ \A f, g \in Families : f = g
  BY DEF SourcesInv, DatabaseNumbers
<1>2. CASE step' = "failed"
  <2>1. UNCHANGED entries
    BY <1>1, <1>2 DEF DatabaseNumbers, Fail
  <2> QED
    BY <1>1, <1>2, <2>1, FailKeeps
<1>3. CASE step' # "failed"
  <2> DEFINE more == [n \in Numbered |->
                        Entry(IF env.numbered[n].id # Empty THEN env.numbered[n].id ELSE DbId(n),
                              env.numbered[n].url, FALSE, Empty)]
  <2>1. step' = "single" /\ entries' = entries \o more
    BY <1>3 DEF DatabaseNumbers, Fail
  <2>2. PICK m \in Nat : Numbered = 1..m /\ 1..m \subseteq 1..Len(env.numbered)
    BY <1>1, NumbersBegin
  <2>3. ASSUME NEW n \in Numbered
        PROVE  more[n] \in EntryRecord /\ more[n].dsn = env.numbered[n].url
    <3>1. env.numbered[n] \in [url : STRING, id : STRING]
      BY <1>1, <2>2, EnvironmentIsTyped, ElementOfSeq
    <3>2. env.iam \in BOOLEAN /\ env.region \in STRING
      BY <1>1, EnvironmentIsTyped
    <3>3. n \in Nat
      BY <2>2
    <3>4. more[n] = Entry(IF env.numbered[n].id # Empty THEN env.numbered[n].id ELSE DbId(n),
                          env.numbered[n].url, FALSE, Empty)
      OBVIOUS
    <3>5. (IF env.numbered[n].id # Empty THEN env.numbered[n].id ELSE DbId(n)) \in Ids
      BY <3>1, <3>3 DEF Ids
    <3> HIDE DEF more
    <3> QED
      BY <3>1, <3>2, <3>4, <3>5 DEF Entry, EntryRecord
  <2>4. more = [n \in 1..m |-> more[n]]
    BY <2>2
  <2> HIDE DEF more
  <2>5. more \in Seq(EntryRecord) /\ DOMAIN more = 1..m
    <3>1. more \in [1..m -> EntryRecord]
      BY <2>2, <2>3, <2>4
    <3> QED
      BY <3>1, SeqDef
  <2>6. {more[n].dsn : n \in DOMAIN more} = FromNumbers
    <3>1. FromNumbers = {env.numbered[n].url : n \in Numbered}
      BY DEF FromNumbers, Numbered
    <3> QED
      BY <2>2, <2>3, <2>5, <3>1
  <2>7. /\ entries' \in Seq(EntryRecord) /\ Dsns' = Dsns \cup {more[n].dsn : n \in DOMAIN more}
        /\ \A k \in DOMAIN entries : \E j \in DOMAIN entries' : entries'[j] = entries[k]
    BY <1>1, <2>1, <2>5, Appended
  <2>8. Dsns' = Named'
    BY <1>1, <2>6, <2>7, SameEnvironment DEF Named
  <2>9. PairsThere'
    BY <1>1, <2>7 DEF PairsThere
  <2>10. \A f, g \in Families' : f = g
    BY <1>1, SameEnvironment
  <2> QED
    BY <1>1, <2>1, <2>7, <2>8, <2>9, <2>10 DEF SourcesInv, Loaded, AuthLoaded
<1> QED
  BY <1>2, <1>3

(* DATABASE_URL is the only entry, or none.                                 *)
LEMMA SingleKeeps ==
  ASSUME SourcesInv, SingleDatabase
  PROVE  SourcesInv'
<1>1. /\ env \in Environment /\ step = "single" /\ env' = env
      /\ entries \in Seq(EntryRecord) /\ Dsns = Named /\ PairsThere
      /\ \A f, g \in Families : f = g
  BY DEF SourcesInv, SingleDatabase
<1>2. \A f, g \in Families' : f = g
  BY <1>1, SameEnvironment
<1>3. CASE entries # <<>>
  <2>1. step' = "default" /\ UNCHANGED entries
    BY <1>3 DEF SingleDatabase
  <2>2. Dsns' = Named' /\ PairsThere'
    BY <1>1, <2>1, SameEnvironment DEF Dsns, PairsThere
  <2> QED
    BY <1>1, <1>2, <2>1, <2>2 DEF SourcesInv, Loaded, AuthLoaded
<1>4. CASE entries = <<>> /\ step' = "failed"
  <2>1. UNCHANGED entries
    BY <1>4 DEF SingleDatabase, Fail
  <2> QED
    BY <1>1, <1>4, <2>1, FailKeeps
<1>5. CASE entries = <<>> /\ step' # "failed"
  <2> DEFINE e == Entry("default", env.single, FALSE, Empty)
  <2>1. step' = "default" /\ entries' = <<e>>
    BY <1>5 DEF SingleDatabase, Fail
  <2>2. e \in EntryRecord /\ e.dsn = env.single
    <3>1. env.iam \in BOOLEAN /\ env.region \in STRING /\ env.single \in STRING
      BY <1>1, EnvironmentIsTyped
    <3>2. "default" \in Ids
      BY DEF Ids
    <3>3. e = [id |-> "default", dsn |-> env.single, iam |-> FALSE \/ env.iam,
               region |-> IF Empty # Empty THEN Empty ELSE env.region]
      BY DEF Entry
    <3> HIDE DEF e
    <3> QED
      BY <3>1, <3>2, <3>3 DEF EntryRecord
  <2> HIDE DEF e
  <2>3. entries' \in Seq(EntryRecord) /\ DOMAIN entries' = {1} /\ entries'[1] = e
    BY <2>1, <2>2
  <2>4. Dsns' = {env.single}
    BY <2>2, <2>3 DEF Dsns
  <2>5. Named' = {}
    BY <1>1, <1>5, SameEnvironment DEF Dsns
  <2>6. PairsThere'
    BY <1>1, <1>5 DEF PairsThere
  <2> QED
    BY <1>1, <1>2, <2>1, <2>3, <2>4, <2>5, <2>6 DEF SourcesInv, Loaded, AuthLoaded
<1> QED
  BY <1>3, <1>4, <1>5

(* After the sources, the entries are not touched any more.                 *)
LEMMA LoadedKeeps ==
  ASSUME SourcesInv, UNCHANGED <<env, entries>>, step \in Loaded, step' \in Loaded \cup {"failed"}
  PROVE  SourcesInv'
<1>1. UNCHANGED <<Families, Named, Dsns, PairsThere>>
  BY SameEnvironment DEF Dsns, PairsThere
<1> QED
  BY <1>1 DEF SourcesInv, Loaded, AuthLoaded

LEMMA ChooseDefaultKeeps ==
  ASSUME DatabasesInv, ChooseDefault
  PROVE  DatabasesInv'
<1>1. /\ step = "default" /\ step' = "auth" /\ UNCHANGED <<env, entries>> /\ defaultID' = DefaultOf
  BY DEF ChooseDefault
<1>2. SourcesInv'
  BY <1>1, LoadedKeeps DEF DatabasesInv, Loaded
<1>3. DefaultInv' /\ RegistryInv'
  BY <1>1 DEF DefaultInv, DefaultOf, RegistryInv, AuthLoaded, Validated
<1> QED
  BY <1>2, <1>3 DEF DatabasesInv

(* Every id is there, and the default is one of them.                       *)
LEMMA ValidateKeeps ==
  ASSUME DatabasesInv, Validate
  PROVE  DatabasesInv'
<1>1. step = "validate" /\ step' \in {"discover", "connect", "failed"} /\ UNCHANGED <<env, entries, defaultID>>
  BY DEF Validate
<1>2. SourcesInv' /\ RegistryInv'
  BY <1>1, LoadedKeeps DEF DatabasesInv, RegistryInv, Loaded, AuthLoaded
<1>3. ASSUME step' # "failed"
      PROVE  /\ \A k \in DOMAIN entries : entries[k].id # Empty
             /\ \E k \in DOMAIN entries : entries[k].id = defaultID
  BY <1>3 DEF Validate, ValidEntry
<1>4. DefaultInv'
  BY <1>1, <1>3 DEF DatabasesInv, DefaultInv, AuthLoaded, Validated
<1> QED
  BY <1>2, <1>4 DEF DatabasesInv

(* loadMCPAuth and what lies between the databases and their registry.      *)
LEMMA BetweenKeeps ==
  ASSUME DatabasesInv, UNCHANGED <<env, entries, defaultID>>,
         \/ step = "auth" /\ step' \in {"validate", "failed"}
         \/ step \in Validated \ {"serving"} /\ step' \in (Validated \ {"serving"}) \cup {"failed"}
  PROVE  DatabasesInv'
<1>1. SourcesInv'
  BY LoadedKeeps DEF DatabasesInv, Loaded, AuthLoaded, Validated
<1>2. DefaultInv' /\ RegistryInv'
  BY DEF DatabasesInv, DefaultInv, RegistryInv, AuthLoaded, Validated
<1> QED
  BY <1>1, <1>2 DEF DatabasesInv

(* NewRegistry: the default is among the entries.                           *)
LEMMA RegisterKeeps ==
  ASSUME DatabasesInv, Register
  PROVE  DatabasesInv'
<1>1. /\ step = "register" /\ step' \in {"serving", "failed"} /\ UNCHANGED <<env, entries, defaultID>>
  BY DEF Register, Fail
<1>2. SourcesInv' /\ DefaultInv'
  BY <1>1, LoadedKeeps DEF DatabasesInv, DefaultInv, Loaded, AuthLoaded, Validated
<1>3. CASE step' = "failed"
  <2>1. RegistryInv'
    BY <1>3 DEF RegistryInv
  <2> QED
    BY <1>2, <2>1 DEF DatabasesInv
<1>4. CASE step' # "failed"
  <2>1. /\ \A j, k \in DOMAIN entries : entries[j].id = entries[k].id => j = k
        /\ registry'.ids = {<<entries[k].id, entries[k].dsn>> : k \in DOMAIN entries}
        /\ registry'.default = IF {id \in {entries[k].id : k \in DOMAIN entries} : id = defaultID} # {}
                               THEN defaultID ELSE entries[1].id
    BY <1>4 DEF Register, Fail
  <2>2. \E k \in DOMAIN entries : entries[k].id = defaultID
    BY <1>1 DEF DatabasesInv, DefaultInv, Validated
  <2>3. {id \in {entries[k].id : k \in DOMAIN entries} : id = defaultID} # {}
    BY <2>2
  <2>4. RegistryInv'
    BY <1>1, <2>1, <2>3 DEF RegistryInv
  <2> QED
    BY <1>2, <2>4 DEF DatabasesInv
<1> QED
  BY <1>3, <1>4

LEMMA InitDatabases == Init => DatabasesInv
<1> SUFFICES ASSUME Init PROVE DatabasesInv
  OBVIOUS
<1>1. env \in Environments /\ step = "family" /\ entries = <<>>
  BY DEF Init, ConfigInit
<1> QED
  BY <1>1, ConfigurationAssumption
  DEF DatabasesInv, SourcesInv, DefaultInv, RegistryInv, Loaded, AuthLoaded, Validated

LEMMA StepKeepsDatabases ==
  ASSUME DatabasesInv, [Next]_vars
  PROVE  DatabasesInv'
<1>1. CASE UNCHANGED configVars
  <2>1. UNCHANGED <<env, step, entries, defaultID, registry>>
    BY <1>1 DEF configVars
  <2>2. UNCHANGED <<Families, FromFile, FromList, FromNumbers, Named, Dsns, PairsThere>>
    BY <2>1, SameEnvironment DEF Dsns, PairsThere
  <2>3. SourcesInv'
    BY <2>1, <2>2 DEF DatabasesInv, SourcesInv
  <2>4. DefaultInv' /\ RegistryInv'
    BY <2>1 DEF DatabasesInv, DefaultInv, RegistryInv
  <2> QED
    BY <2>3, <2>4 DEF DatabasesInv
<1>2. ASSUME SourceFamily \/ DatabaseFile \/ DatabaseList \/ DatabaseNumbers \/ SingleDatabase
      PROVE  DatabasesInv'
  <2>1. SourcesInv'
    BY <1>2, FamilyKeeps, FileKeeps, ListKeeps, NumbersKeep, SingleKeeps DEF DatabasesInv
  <2>2. step' \in {"failed", "file", "list", "numbered", "single", "default"}
    BY <1>2 DEF SourceFamily, DatabaseFile, DatabaseList, DatabaseNumbers, SingleDatabase, Fail
  <2> QED
    BY <2>1, <2>2, TooEarly DEF DatabasesInv
<1>3. ASSUME LoadAuth
      PROVE  DatabasesInv'
  BY <1>3, BetweenKeeps DEF LoadAuth, Fail
<1>4. ASSUME Discover \/ ReadSome \/ TooLarge \/ Discovered \/ Connect
      PROVE  DatabasesInv'
  <2>1. UNCHANGED <<env, entries, defaultID>>
    BY <1>4 DEF Discover, ReadSome, TooLarge, Discovered, Connect
  <2>2. step \in Validated \ {"serving"} /\ step' \in (Validated \ {"serving"}) \cup {"failed"}
    BY <1>4 DEF Discover, ReadSome, TooLarge, Discovered, Connect, Fail, Refused, Validated
  <2> QED
    BY <2>1, <2>2, BetweenKeeps
<1>5. CASE ConfigNext
  BY <1>2, <1>3, <1>4, <1>5, ChooseDefaultKeeps, ValidateKeeps, RegisterKeeps DEF ConfigNext
<1>6. CASE GatewayNext
  <2>1. UNCHANGED configVars
    BY <1>6 DEF GatewayNext, Arrive, Finish, Cloudflare, Mux, Plain, CrossOrigin, Cors, Host, Token,
                Message, Transport, UseDatabase, Answered, To
  <2> QED
    BY <1>1, <2>1
<1> QED
  BY <1>1, <1>5, <1>6 DEF Next, vars
-----------------------------------------------------------------------------
(* What the registry has of them                                            *)

(* Once the process serves: an id in the registry is that of one entry.     *)
LEMMA PoolOfEntry ==
  ASSUME DatabasesInv, step = "serving", NEW k \in DOMAIN entries
  PROVE  /\ <<entries[k].id, entries[k].dsn>> \in registry.ids
         /\ Pool(entries[k].id) = {entries[k].dsn}
         /\ entries[k].id = registry.default => Pool(Empty) = {entries[k].dsn}
<1> DEFINE id == entries[k].id
           pair == <<entries[k].id, entries[k].dsn>>
<1>1. /\ registry.ids = {<<entries[j].id, entries[j].dsn>> : j \in DOMAIN entries}
      /\ \A i, j \in DOMAIN entries : entries[i].id = entries[j].id => i = j
      /\ id # Empty
  BY DEF DatabasesInv, DefaultInv, RegistryInv, Validated
<1>2. pair \in registry.ids /\ pair[1] = id /\ pair[2] = entries[k].dsn
  BY <1>1
<1>3. ASSUME NEW p \in registry.ids, p[1] = id
      PROVE  p = pair
  <2>1. PICK j \in DOMAIN entries : p = <<entries[j].id, entries[j].dsn>>
    BY <1>1
  <2>2. j = k
    BY <1>1, <1>3, <2>1
  <2> QED
    BY <2>1, <2>2
<1>4. {p \in registry.ids : p[1] = id} = {pair}
  BY <1>2, <1>3
<1>5. Pool(id) = {p[2] : p \in {q \in registry.ids : q[1] = id}}
  BY <1>1 DEF Pool
<1>6. id = registry.default => Pool(Empty) = {p[2] : p \in {q \in registry.ids : q[1] = id}}
  BY DEF Pool
<1>7. {p[2] : p \in {pair}} = {entries[k].dsn}
  BY <1>2
<1> QED
  BY <1>2, <1>4, <1>5, <1>6, <1>7

(* Every entry has its place in the registry.                               *)
LEMMA RegistryIsFull ==
  ASSUME DatabasesInv, step = "serving"
  PROVE  Cardinality(registry.ids) = Len(entries)
<1> DEFINE f == [k \in 1..Len(entries) |-> <<entries[k].id, entries[k].dsn>>]
<1>1. /\ registry.ids = {<<entries[j].id, entries[j].dsn>> : j \in DOMAIN entries}
      /\ \A i, j \in DOMAIN entries : entries[i].id = entries[j].id => i = j
      /\ entries \in Seq(EntryRecord)
  BY DEF DatabasesInv, SourcesInv, RegistryInv
<1>2. Len(entries) \in Nat /\ DOMAIN entries = 1..Len(entries)
  BY <1>1
<1>3. f \in [1..Len(entries) -> registry.ids]
  BY <1>1, <1>2
<1>4. \A i, j \in 1..Len(entries) : f[i] = f[j] => i = j
  BY <1>1, <1>2
<1>5. \A p \in registry.ids : \E k \in 1..Len(entries) : f[k] = p
  BY <1>1, <1>2
<1> HIDE DEF f
<1>6. f \in Injection(1..Len(entries), registry.ids) /\ f \in Surjection(1..Len(entries), registry.ids)
  BY <1>3, <1>4, <1>5 DEF Injection, IsInjective, Surjection
<1>7. IsFiniteSet(1..Len(entries)) /\ Cardinality(1..Len(entries)) = Len(entries)
  <2>1. \A n \in Nat : IsFiniteSet(1..n) /\ Cardinality(1..n) = n
    BY FS_Interval
  <2> QED
    BY <1>2, <2>1
<1> QED
  BY <1>6, <1>7, FS_Surjection

-----------------------------------------------------------------------------
(* The results                                                              *)

(* From the start of the process on, the settings, the layers that were     *)
(* passed and what was read of the message are as IInv says.                *)
THEOREM Invariance == Spec => []IInv
<1>1. Init => IInv
  BY InitIInv
<1>2. IInv /\ [Next]_vars => IInv'
  BY StepKeepsIInv
<1> QED
  BY <1>1, <1>2, PTL DEF Spec

(* loadOAuthAuthorizationServerMetadata: whatever the sizes of the Reads,   *)
(* no more than the limit is passed on, and no server starts from a part.   *)
THEOREM DocumentsAreWhole == Spec => []DocumentIsWhole
<1>1. IInv => DocumentIsWhole
  BY DEF IInv, ConfigInv, DocumentIsWhole
<1> QED
  BY <1>1, Invariance, PTL

(* Routes, protect, cloudflareAccess: for every environment and request,    *)
(* a tool is behind every check that was asked for, and what a client needs *)
(* before it has a token is open.                                           *)
THEOREM AccessAlwaysAsConfigured == Spec => []AccessAsConfigured
<1>1. IInv => AccessAsConfigured
  BY DEF IInv, AccessAsConfigured
<1> QED
  BY <1>1, Invariance, PTL

(* singleMCPMessage: for every body, limit and number of bytes received, a  *)
(* tool is called for one whole message only, and for every such message.   *)
THEOREM MessagesAreWhole == Spec => []OneWholeMessage
<1>1. IInv => OneWholeMessage
  BY DEF IInv
<1> QED
  BY <1>1, Invariance, PTL

(* The databases are those of the sources read so far, at every step of the *)
(* start, and stay so while requests are served.                            *)
THEOREM DatabasesInvariance == Spec => []DatabasesInv
<1>1. Init => DatabasesInv
  BY InitDatabases
<1>2. DatabasesInv /\ [Next]_vars => DatabasesInv'
  BY StepKeepsDatabases
<1> QED
  BY <1>1, <1>2, PTL DEF Spec

(* config.Load, NewRegistry: for every environment, what is served is what  *)
(* one source names, all of it.                                             *)
THEOREM OneSourceIsServed == Spec => []ServesOneSource
<1>1. ASSUME DatabasesInv, step = "serving"
      PROVE  LET served == {pair[2] : pair \in registry.ids}
                 named == FromFile \cup FromList \cup FromNumbers
             IN  /\ served \in {FromFile, FromList, FromNumbers, {env.single}}
                 /\ named # {} => served = named
  <2>1. /\ registry.ids = {<<entries[j].id, entries[j].dsn>> : j \in DOMAIN entries}
        /\ Dsns = Named \/ (Named = {} /\ Dsns = {env.single})
        /\ env \in Environments /\ env \in Environment /\ \A f, g \in Families : f = g
    BY <1>1 DEF DatabasesInv, SourcesInv, RegistryInv, Loaded, AuthLoaded
  <2>2. {pair[2] : pair \in registry.ids} = Dsns
    <3>1. \A pair \in registry.ids : pair[2] \in Dsns
      BY <2>1 DEF Dsns
    <3>2. \A j \in DOMAIN entries : /\ <<entries[j].id, entries[j].dsn>> \in registry.ids
                                    /\ <<entries[j].id, entries[j].dsn>>[2] = entries[j].dsn
      BY <2>1
    <3> QED
      BY <3>1, <3>2 DEF Dsns
  <2>3. Named \in {FromFile, FromList, FromNumbers}
    BY <2>1, OneSource
  <2>4. /\ Dsns \in {FromFile, FromList, FromNumbers, {env.single}}
        /\ Named # {} => Dsns = Named
    BY <2>1, <2>3
  <2> QED
    BY <2>2, <2>4 DEF Named
<1>2. DatabasesInv => ServesOneSource
  BY <1>1 DEF ServesOneSource
<1> QED
  BY <1>2, DatabasesInvariance, PTL

(* Registry.Pool: an id leads to the database it was given to, for lists    *)
(* and files of any length.                                                 *)
THEOREM IdsAreTrue == Spec => []IdsNameTheirDatabase
<1>1. ASSUME DatabasesInv, step = "serving"
      PROVE  /\ \A k \in DOMAIN entries : Pool(entries[k].id) = {entries[k].dsn}
             /\ Cardinality(registry.ids) = Len(entries)
             /\ env.wanted # Empty => registry.default = env.wanted
             /\ \E pair \in registry.ids : Pool(Empty) = {pair[2]}
  <2>1. \A k \in DOMAIN entries : Pool(entries[k].id) = {entries[k].dsn}
    BY <1>1, PoolOfEntry
  <2>2. PICK k \in DOMAIN entries : entries[k].id = registry.default
    BY <1>1 DEF DatabasesInv, DefaultInv, RegistryInv, Validated
  <2>3. /\ <<entries[k].id, entries[k].dsn>> \in registry.ids
        /\ <<entries[k].id, entries[k].dsn>>[2] = entries[k].dsn
        /\ Pool(Empty) = {entries[k].dsn}
    BY <1>1, <2>2, PoolOfEntry
  <2>4. env.wanted # Empty => registry.default = env.wanted
    BY <1>1 DEF DatabasesInv, DefaultInv, RegistryInv, AuthLoaded
  <2> QED
    BY <1>1, <2>1, <2>3, <2>4, RegistryIsFull
<1>2. ASSUME DatabasesInv, step = "serving", Empty \notin ToSet(env.urls) \cup ToSet(env.ids),
             NEW k \in DOMAIN env.urls, k <= Len(env.ids)
      PROVE  Pool(env.ids[k]) = {env.urls[k]}
  <2>1. PICK j \in DOMAIN entries : entries[j].id = env.ids[k] /\ entries[j].dsn = env.urls[k]
    BY <1>2 DEF DatabasesInv, SourcesInv, PairsThere, Loaded, AuthLoaded
  <2> QED
    BY <1>2, <2>1, PoolOfEntry
<1>3. DatabasesInv => IdsNameTheirDatabase
  BY <1>1, <1>2 DEF IdsNameTheirDatabase, IdsAreDistinct, PairedWithoutGaps
<1> QED
  BY <1>3, DatabasesInvariance, PTL
=============================================================================
