---------------------------- MODULE Configuration ----------------------------
(***************************************************************************)
(* From the environment to the databases that are served: config.Load       *)
(* (internal/config), the discovery of the authorization server             *)
(* (internal/server/mcp_auth.go), and the registry (internal/db/registry.go *)
(* behind internal/server/registry.go), in the order in which main.go goes  *)
(* through them.                                                            *)
(*                                                                         *)
(* An environment is a record of what the variables hold after splitting:   *)
(* an unset one is Empty or <<>>.  Display names, and settings that have a  *)
(* default, matter only by whether they are valid (env.valid).              *)
(***************************************************************************)
EXTENDS Integers, Sequences, FiniteSets, SequencesExt

CONSTANTS
  Environments,  \* the environments to start in
  BadIds,        \* ids with other characters than those allowed
  MaxBody        \* maxMCPAuthResponseBytes

(* What the variables and the databases file can hold once split.           *)
Environment ==
  [file     : [is : STRING, default : STRING, defaultDatabaseID : STRING,
               items : Seq([id : STRING, url : STRING, iam : BOOLEAN, region : STRING])],
   urls     : Seq(STRING), ids : Seq(STRING),
   numbered : Seq([url : STRING, id : STRING]),
   single   : STRING, wanted : STRING, iam : BOOLEAN, region : STRING, valid : BOOLEAN,
   wellKnown : STRING, alias : STRING, resource : STRING, scopes : Seq(STRING),
   cloudflare : BOOLEAN, clients : STRING]

ASSUME ConfigurationAssumption ==
  /\ MaxBody \in Nat
  /\ Environments \subseteq Environment
  /\ \A e \in Environments : e.file.is = "none" => e.file.items = <<>>

VARIABLES
  env,           \* the environment
  step,          \* what main does next; "serving" or "failed" at the end
  entries,       \* of config.Databases
  fileDefault,   \* the default named in the databases file
  defaultID,     \* config.DefaultDatabaseID
  scopes,        \* config.MCPAuth.RequiredScopes; none: not enabled
  body,          \* length of the discovery document
  read,          \* bytes of it that were passed on
  registry       \* the pool of every id, by its DSN

configVars == <<env, step, entries, fileDefault, defaultID, scopes, body, read, registry>>

Empty == ""                    \* a variable that is not set, an item of blanks
Unreadable == "unreadable"     \* a _FILE variable names a file that cannot be read
Numbers == 1..Len(env.numbered)
DbId(k) == <<"db1", "db2", "db3", "db4">>[k]

-----------------------------------------------------------------------------
(* Lists                                                                    *)

(* splitDatabaseList: empty items are dropped, the order of the others is   *)
(* kept.                                                                    *)
Rank(places) == [k \in places |-> Cardinality({j \in places : j <= k})]
Kept(list) == {k \in DOMAIN list : list[k] # Empty}
Items(list) == [n \in 1..Cardinality(Kept(list)) |-> list[CHOOSE k \in Kept(list) : Rank(Kept(list))[k] = n]]

Blank(list) == list \in {<<>>, <<Empty>>}

(* Mutant of ListValue: the last one is not found.                          *)
ListValueBefore(list, k, fallback) == IF k < Len(list) /\ list[k] # Empty THEN list[k] ELSE fallback

(* listValue.                                                               *)
ListValue(list, k, fallback) == IF k <= Len(list) /\ list[k] # Empty THEN list[k] ELSE fallback

Entry(id, dsn, iam, region) ==
  [id |-> id, dsn |-> dsn, iam |-> iam \/ env.iam, region |-> IF region # Empty THEN region ELSE env.region]

(* The numbered variables are read up to the first that is not set.         *)
Numbered == {n \in Numbers : \A j \in 1..n : env.numbered[j].url # Empty}

-----------------------------------------------------------------------------
(* config.Load                                                              *)

ConfigInit ==
  /\ env \in Environments
  /\ step = "family"
  /\ entries = <<>> /\ fileDefault = Empty /\ defaultID = Empty /\ scopes = {}
  /\ body = 0 /\ read = 0
  /\ registry = [ids |-> {}, default |-> Empty]

Fail == step' = "failed"

(* Mutant of Families: the numbered variables are not counted.              *)
FamiliesOfTwo ==
  {f \in {"file", "list"} :
     \/ f = "file" /\ env.file.is # "none"
     \/ f = "list" /\ ~Blank(env.urls)}

(* The sources for several databases that are in use.                       *)
Families ==
  {f \in {"file", "list", "numbered"} :
     \/ f = "file" /\ env.file.is # "none"
     \/ f = "list" /\ ~Blank(env.urls)
     \/ f = "numbered" /\ \E k \in Numbers : env.numbered[k].url # Empty}

SourceFamily ==
  /\ step = "family"
  /\ step' = IF Cardinality(Families) > 1 THEN "failed" ELSE "file"
  /\ UNCHANGED <<env, entries, fileDefault, defaultID, scopes, body, read, registry>>

DatabaseFile ==
  /\ step = "file"
  /\ LET items == env.file.items
     IN  IF env.file.is = Unreadable \/ \E k \in DOMAIN items : items[k].url = Unreadable
         THEN Fail /\ UNCHANGED <<entries, fileDefault>>
         ELSE /\ entries' = [k \in DOMAIN items |-> Entry(items[k].id, items[k].url, items[k].iam, items[k].region)]
              /\ fileDefault' = IF env.file.defaultDatabaseID # Empty THEN env.file.defaultDatabaseID ELSE env.file.default
              /\ step' = "list"
  /\ UNCHANGED <<env, defaultID, scopes, body, read, registry>>

DatabaseList ==
  /\ step = "list"
  /\ LET urls == IF Blank(env.urls) THEN <<>> ELSE Items(env.urls)
         ids == Items(env.ids)
     IN  entries' = entries \o [k \in DOMAIN urls |-> Entry(ListValue(ids, k, DbId(k)), urls[k], FALSE, Empty)]
  /\ step' = "numbered"
  /\ UNCHANGED <<env, fileDefault, defaultID, scopes, body, read, registry>>

DatabaseNumbers ==
  /\ step = "numbered"
  /\ IF \E n \in Numbered : env.numbered[n].url = Unreadable
     THEN Fail /\ UNCHANGED entries
     ELSE /\ entries' = entries \o
               [n \in Numbered |->
                  Entry(IF env.numbered[n].id # Empty THEN env.numbered[n].id ELSE DbId(n), env.numbered[n].url, FALSE, Empty)]
          /\ step' = "single"
  /\ UNCHANGED <<env, fileDefault, defaultID, scopes, body, read, registry>>

(* DATABASE_URL is looked at if nothing else named a database.              *)
SingleDatabase ==
  /\ step = "single"
  /\ IF entries # <<>> THEN step' = "default" /\ UNCHANGED entries
     ELSE IF env.single \in {Empty, Unreadable} THEN Fail /\ UNCHANGED entries
     ELSE entries' = <<Entry("default", env.single, FALSE, Empty)>> /\ step' = "default"
  /\ UNCHANGED <<env, fileDefault, defaultID, scopes, body, read, registry>>

DefaultOf ==
  IF env.wanted # Empty THEN env.wanted ELSE IF fileDefault # Empty THEN fileDefault ELSE entries[1].id

ChooseDefault ==
  /\ step = "default"
  /\ defaultID' = DefaultOf
  /\ step' = "auth"
  /\ UNCHANGED <<env, entries, fileDefault, scopes, body, read, registry>>

WellKnown == IF env.wellKnown # Empty THEN env.wellKnown ELSE env.alias

(* Mutant of Partly: only an address of the server without the others.      *)
PartlyWithServer == WellKnown # Empty /\ (env.resource = Empty \/ env.scopes = <<>>)

Partly ==
  /\ WellKnown # Empty \/ env.resource # Empty \/ env.scopes # <<>>
  /\ WellKnown = Empty \/ env.resource = Empty \/ env.scopes = <<>>

(* parseMCPScopes: each once, in an order nobody looks at; all of them      *)
(* valid.                                                                   *)
Scopes == ToSet(env.scopes)
ValidScopes == "bad" \notin Scopes

(* The three settings of the authorization go together and are valid; the   *)
(* two names of the first must agree.                                       *)
LoadAuth ==
  /\ step = "auth"
  /\ IF \/ env.wellKnown # Empty /\ env.alias # Empty /\ env.wellKnown # env.alias
        \/ Partly
        \/ WellKnown = "bad" \/ env.resource = "bad" \/ (WellKnown # Empty /\ ~ValidScopes)
     THEN Fail /\ UNCHANGED scopes
     ELSE /\ scopes' = IF WellKnown = Empty THEN {} ELSE Scopes
          /\ step' = "validate"
  /\ UNCHANGED <<env, entries, fileDefault, defaultID, body, read, registry>>

(* validateDatabaseEntry.                                                   *)
ValidEntry(k) ==
  /\ entries[k].id \notin {Empty} \cup BadIds
  /\ \A j \in 1..(k - 1) : entries[j].id # entries[k].id
  /\ entries[k].dsn # Empty
  /\ entries[k].iam => entries[k].region # Empty

(* applyDefaultDatabase and validate.                                       *)
Validate ==
  /\ step = "validate"
  /\ step' = IF /\ \E k \in DOMAIN entries : entries[k].id = defaultID
                /\ env.valid
                /\ \A k \in DOMAIN entries : ValidEntry(k)
             THEN IF scopes # {} THEN "discover" ELSE "connect"
             ELSE "failed"
  /\ UNCHANGED <<env, entries, fileDefault, defaultID, scopes, body, read, registry>>

-----------------------------------------------------------------------------
(* The authorization server                                                 *)

Refused == step' = "failed" /\ UNCHANGED <<body, read>>

(* The document is fetched twice.  GetAuthServerMeta decodes it, what it    *)
(* says is checked (registration, secure endpoints, the scopes), and any of *)
(* this may fail.  Then NewProvider fetches it once more and reads it to    *)
(* its end: the reading that follows is this one.  A length that is         *)
(* announced and too large is refused at once.                              *)
Discover ==
  /\ step = "discover"
  /\ \/ Refused
     \/ \E length \in 0..(MaxBody + 1), announced \in BOOLEAN :
          IF announced /\ length > MaxBody THEN Refused
          ELSE body' = length /\ read' = 0 /\ step' = "reading"
  /\ UNCHANGED <<env, entries, fileDefault, defaultID, scopes, registry>>

(* boundedReadCloser passes on at most what remains to the limit.           *)
Passed(room) == IF room > MaxBody - read THEN MaxBody - read ELSE room

(* One Read: some bytes, or an error of the connection.                     *)
ReadSome ==
  /\ step = "reading"
  /\ read < MaxBody
  /\ \/ \E room \in 1..(MaxBody + 1), n \in 1..(MaxBody + 1) :
          /\ n <= Passed(room) /\ n <= body - read
          /\ read' = read + n
          /\ UNCHANGED step
     \/ Fail /\ UNCHANGED read
  /\ UNCHANGED <<env, entries, fileDefault, defaultID, scopes, body, registry>>

(* Mutant of AtEnd: at the limit nothing is probed for.                      *)
AtEndOrLimit == read = body \/ read = MaxBody

(* At the limit one more byte is asked for; the end is only where there is  *)
(* none.                                                                    *)
AtEnd == read = body

TooLarge ==
  /\ step = "reading"
  /\ read = MaxBody /\ ~AtEnd
  /\ Fail
  /\ UNCHANGED <<env, entries, fileDefault, defaultID, scopes, body, read, registry>>

(* The end of the document.  What NewProvider took from it is checked: the  *)
(* issuer, an asymmetric signature.                                         *)
Discovered ==
  /\ step = "reading"
  /\ AtEnd
  /\ step' \in {"connect", "failed"}
  /\ UNCHANGED <<env, entries, fileDefault, defaultID, scopes, body, read, registry>>

-----------------------------------------------------------------------------
(* The registry                                                             *)

(* The pools are made in the order of the entries; one may fail.            *)
Connect ==
  /\ step = "connect"
  /\ step' \in {"register", "failed"}
  /\ UNCHANGED <<env, entries, fileDefault, defaultID, scopes, body, read, registry>>

(* NewRegistry: the entry marked as default, or the first.  The document    *)
(* has been used and is forgotten.                                          *)
Register ==
  /\ step = "register"
  /\ LET ids == {entries[k].id : k \in DOMAIN entries}
         marked == {id \in ids : id = defaultID}
     IN  IF \E j, k \in DOMAIN entries : j # k /\ entries[j].id = entries[k].id
         THEN Fail /\ UNCHANGED registry
         ELSE /\ registry' = [ids     |-> {<<entries[k].id, entries[k].dsn>> : k \in DOMAIN entries},
                              default |-> IF marked # {} THEN defaultID ELSE entries[1].id]
              /\ step' = "serving"
  /\ body' = 0 /\ read' = 0
  /\ UNCHANGED <<env, entries, fileDefault, defaultID, scopes>>

(* Registry.Pool: the DSN an id stands for, none if there is no such id.    *)
Pool(id) ==
  {pair[2] : pair \in {p \in registry.ids : p[1] = IF id = Empty THEN registry.default ELSE id}}

ConfigNext ==
  \/ SourceFamily \/ DatabaseFile \/ DatabaseList \/ DatabaseNumbers \/ SingleDatabase
  \/ ChooseDefault \/ LoadAuth \/ Validate
  \/ Discover \/ ReadSome \/ TooLarge \/ Discovered
  \/ Connect \/ Register
=============================================================================
