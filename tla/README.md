# pgpeek in TLA+

pgpeek is a read-only PostgreSQL browser: a Go server (`main.go`, `internal/`)
with an HTTP API and an MCP endpoint, and a Preact client (`web/`) that talks to
it.  This directory models the parts of it whose correctness depends on *order*:
requests that share a connection pool, answers that arrive after the user went
on, crashes between two statements, a shutdown that meets handlers at work, rows
read while others write them, the checks a request passes one after the other,
and the scanners and searches whose every step counts.  TLC checks the models on
small instances; TLAPS proves the main theorems about all of them, the scanner of
the guard included, for every value of the constants.

`PROJECT.json` lists the runs, the properties of each, the source lines behind
every definition (`map`), the hazards and the theorems.

## 1. The system

| Part | Source | State it keeps | Operations | Talks to |
|---|---|---|---|---|
| Query pool | `internal/db/pool.go`, `catalog.go`, `table_rows.go`, `query_output.go`; handlers in `internal/server` | pgx connections and their sessions; the slot `exportSlots` | run a query, acquire, open, reset (`AfterRelease`), close | PostgreSQL; every HTTP and MCP handler |
| Saved query store | `internal/store`, `saved_query_handlers.go` | one SQLite table with AUTOINCREMENT ids | list, get, create, update, delete, seed the presets | `main.go` at start; HTTP handlers; the SQL tab |
| SQL tab | `web/sql-tab.js`, `sql-results.js`, `easter-eggs.js` | editor text, result, error, `actionRef`, locks | edit, run, count, save, delete, cancel, export | HTTP API; App (database and SQL of the URL) |
| Application shell, data tab, URL | `web/app.js`, `data-tab.js`, `url-state.js` | databases, tables, the open table, its page, `urlInit`; browser history | open, switch, page, Back, reload | HTTP API; history API; both tabs |
| Export in the browser | `web/sql-actions.js`, `handleExport` | a hidden frame, a token cookie, a completion cookie | post the form, poll, end | HTTP API; the other tabs, through the cookies |
| Process life | `main.go`, timeouts of `internal/config/config.go` | pools, store, HTTP server, deferred calls | connect, open, seed, serve, drain, close | signals, the handlers |
| MCP output cap | `internal/server/mcp_output.go` | bounds of the search | cut an output | MCP tools |
| Result sizes, cut cells | `internal/db/pool.go` (`collect`, `queryCell`), `cell.go`, `result_size.go`, `csv.go`; the grids of `web/data-tab.js`, `sql-results.js` | a running byte count, the references of cut cells; the cells a tab has opened | charge a row, cut a cell, read it again | the query pool, the tabs |
| SQL guard | `internal/guard` | the scanner's place in the text, its mask | accept or refuse one statement, cut what follows it | query and export handlers |
| Configuration, registry | `internal/config`, `internal/db/registry.go` | ids, DSNs, the default, the settings of the authorization | parse, validate, look up | everything, at start |
| HTTP server, MCP gateway, auth | `internal/server/server.go`, `middleware.go`, `mcp*.go`, `internal/mcpauth` | none beyond the configuration | check, route, answer | clients, the authorization server |
| Rendering and the editor bundle | `web/structure-tab.js`, `sidebar.js`, `theme.js`, `copy-results.js`, `sql-helpers.js`, `web/vendor` | view state | render, format | the shell |

What is hard in it, and what must hold nevertheless:

* **Pool.**  A session remembers settings, advisory locks and prepared
  statements.  It must be lent clean, to one request at a time, whatever fails
  in the reset; a request must not wait for a second connection with the first
  in hand; the single export slot must survive every error path.
* **Store.**  A handler writes and reads back in two statements, and anything
  may lie between them, a crash included.  Ids a tab still shows must not come
  to mean other rows.  Seeding must not mix with the team's queries.
* **SQL tab.**  Answers come late, aborted requests may still be answered, and
  effects run after a render with that render's values.  A result not marked
  stale must be that of the text and database on the screen, and the controls
  must be locked exactly while something runs.
* **Shell.**  Lists of tables and pages of rows overtake each other while the
  user switches, walks through history and reloads.  What is shown must be of
  the database, table and page it claims, and of those the URL names.
* **Export.**  A page cannot see a download, so the server tells it by a cookie;
  cookies are shared by all tabs.  A tab must not take another's file for its
  own, nor wait for ever.
* **Process.**  Each step of the start may fail with some resources open, a
  signal may come at any moment, and handlers may outlive the shutdown.
* **Output cap.**  An off-by-one loses an item, exceeds the limit or loops.
* **Sizes and cut cells.**  The size of an answer is estimated while it is read;
  it must never be larger than the limit, and what is left out must be told.  A
  cut cell is read again later, by its place, from a table that others change.
* **Guard.**  The text that is validated is a mask of the text that is run: a
  literal or a comment that ends a symbol too early or too late makes the two
  mean different things.
* **Configuration and gateway.**  Several sources name databases, and three
  settings make up one authorization.  What was asked for must be what is in
  force when a tool is called, past layers of which each knows one check.

## 2. The modules

| Module | Models | Proofs |
|---|---|---|
| `SessionLease` | what the pool promises: a session is lent to one request at a time, and clean (abstract specification) | |
| `QueryPool` | handlers, connections, sessions, export slot; implements `SessionLease` | `QueryPoolProofs` |
| `SavedQueries` | the table, the booting server, handlers by statement, the drop-down of each tab | `SavedQueriesProofs` |
| `SqlTab` | the SQL tab and the props App gives it | `SqlTabProofs` |
| `AppNavigation` | databases, tables, open table, rows, URL and history | `BrowserProofs` |
| `Export` | tabs, cookies, `handleExport`, the network between them | `BrowserProofs` |
| `Lifecycle` | `main.run`, `serve`, deferred closing, handlers | `LifecycleProofs` |
| `McpOutput` | the four cut functions and their search | `AnswerProofs` |
| `ResultPage` | the byte budget of an answer, cut cells and how they are read again, the CSV of a table | `AnswerProofs` |
| `GuardScan` | the two passes of the guard's scanner, the verdict, the text to be counted | `GuardScanProofs` |
| `Configuration` | `config.Load`, the discovery document, the registry | (in `GatewayProofs`) |
| `Gateway` | the layers a request passes; extends `Configuration` | `GatewayProofs` |
| `MC*` | symmetry sets and functions the configurations need | |

`Gateway` is composed with `Configuration`: it extends it, and its requests
begin when the other is done.  The other modules meet where the code does: the export slot is in both `QueryPool` (with the
query's connection) and `Export` (with the browser); the queries of `QueryPool` are the
readings whose rows `ResultPage` follows; `SeedPresets` is one step
in `Lifecycle` and one step per statement in `SavedQueries`; the SQL of the URL
is in `SqlTab`, the rest of the URL in `AppNavigation`.  They are not composed
into one state machine: the parts share nothing else, and the product of their
states is out of TLC's reach.

### QueryPool

A handler is a `kind` with a list of queries (`todo`), read off the handlers:
`/query` and the export run one, `describe` two, a searched or sorted page the
column query and then the page, a CSV the page and one cell fetched again with
the same plan.  `Start`, `Acquire`, `Dial`, `QueryDone`, `QueryFails`,
`ConnectionLost` and `GiveUp` are the ways through `Pool.collect` and the pgx
pool; every one of them does what the deferred calls on that path do (`Answer`
frees the slot, `CloseRows` gives the connection to `AfterRelease`).  CSV goes to a
spool file first: its rows are closed when the last query ends, but an export keeps
its slot through gzip and `io.Copy` (phase `"copying"`, `Copied`).
`ResetDeallocate` and `ResetDiscard` are the two statements of `resetSession`,
`ResetFails` an error or the timeout of five seconds in either.  pgxpool and
PostgreSQL are modelled from how the code uses them: what a query may leave in
its session (`SessionAfter`) is marked external in the map.  `Request`s are
reused after their answer, so behaviours go on for ever.

### SavedQueries

One action per SQL statement.  `Crash` may fall between any two of them: what
was committed stays, whoever waits hears of an error.  `born` numbers the
insertions, so that an id that was used again could be told apart.  Tabs keep
`listed` and `selected`; callers of the API that are no browser write too.  A
`flow` is a user action with its requests; `current` is the comparison of
`action` with `actionRef.current`.

### SqlTab

Every handler of the tab is an action; answers are `RunSucceeds`, `RunFails`,
`CountEnds`, `SaveEnds`, `ExportEnds` or, if overtaken, `AnswerLate`.  Preact's
order is modelled because it matters: a changed prop leaves its effects
`pending` (`"later"`); if the tab is rendered again first they run as of their
own render (`Report`, `Navigate`), and `"now"` says that they are due before
anything else.  A statement is the text it was taken from; `Magic` texts are
answered, `Refused` ones refused in the browser (`easter-eggs.js`).

### AppNavigation

`hist` and `pos` are the browser's history, with the URLs App writes.  `pending`
is the effect that loads the tables and has not run yet; `loads` and `fetches`
are requests, `live` the flag their cleanup clears.  `Pop` is `onPopstate`, with
the table looked up in the list at hand (`Restore`) or queued (`Queue`).
`missed` is a history variable: it marks states after a step through history
that came while the tables were loading (section 5), or a list of tables heeded
after the switch and before the effect that would call it off.

### Export

A token is the number of its export.  `Click`, `Submit`, `Poll` and `FrameLoads`
are `sql-actions.js`; `Admit` to `Returns` are `handleExport`; `Arrives` and
`Breaks` the network.  `slots` is the number of elements in the channel
`exportSlots`: `Takes` sends one if there is room, `Frees` receives it when the
handler returns, after the copy or after the error is written.  That it is taken
exactly while an export is at work is a property (`OneExportAtATime`), which a
handler that frees it with the end of the query violates.  A file leaves no trace in the page but its cookie, an
error loads in the frame.  Pages sleep (frozen in the background), cookies
expire, pages are reloaded.

### Lifecycle

`deferred` is the list of what `run` or `closeEntries` will close, last first.
Handlers run on, through the drain, a listener failure, a grace period that was
too short, and the closing of pool and store under them.

### McpOutput

`length[n]` is the length of the output with `n` items, marked truncated; the
unmarked one is a byte longer (`false` for `true`).  Every growing `length` is
an initial state, so the run covers every output of that size.

### ResultPage

`source` is what one statement returns: the rows of its snapshot.  `TakeRow` is a
turn of the loop of `collect` that goes on, `LoopEnds` the three ways out of it.
A value is its length and its preview; its hash is the value itself.  `Change`
is a write by somebody else at any moment.  A tab asks for a page (`AskPage`),
keeps the old rows until the answer comes, and opens cut cells (`Open`) at the
offset it has *then*; a file is collected whole and has its cut cells read
again, one statement each (`Resolve`).  The sizes of JSON encodings are
parameters; what `collect` adds up and what `writeJSON` sends (`ExactSize`) are two
different sums of them, and the properties compare the two.  They differ because
`resultEnvelopeBytes` charges every answer with all fields, 19 digits for
`elapsedMs` and the digits of the row cap, whereas `cellsTruncated` and
`truncatedCells` are left out of an answer in which no cell is cut (`omitempty`),
the numbers are shorter, `true` is shorter than `false`, nothing follows the last
name, row and reference, and a newline ends the text.  So an answer is never larger
than the limit, and it may stop for a row for which there would still have been
room, by at most `Reserve`: the optional fields and the digits, `Optional +
Digits[RowCap] + ElapsedRoom` (in the code 42 bytes for the fields, 19 digits for the
time and those of the cap).

### GuardScan

A text is a sequence of symbols: characters and, where only the word matters,
whole keywords.  Every turn of the loop of `maskSQL` is a step; `Masked` and
`Validated` are what `Validate` and `PrepareCount` do with a finished mask.  The
reference the properties compare with (`Pieces`) reads a text symbol by symbol
with a state, the way PostgreSQL's lexer is specified, and shares nothing with
the scanner, which jumps to the ends of pieces.

### Configuration and Gateway

An environment is a record of what the variables hold after splitting.
`SourceFamily` to `Validate` are the calls of `config.Load` in their order,
`Discover` to `Discovered` the bounded reading of the discovery document (one
`Read` per step, of any size), `Connect` and `Register` the registry.  `step` is
what comes next; every failure ends in `"failed"`.  The document is fetched twice
through the same bounded reader.  `GetAuthServerMeta` decodes it and need not read to
its end; that fetch and the checks of what it brought either fail or not (`Refused`).
`NewProvider` reads to the end and is the last thing before the start goes on: its
reading is the one followed in steps.

Then a request of those a client of the environment may send goes through
`Cloudflare`, `Mux`, `CrossOrigin` or `Cors`, `Host`, `Token`, `Message`,
`Transport` and `UseDatabase`, a step each, in the order in which `Routes` wraps
the handlers.  A body is a sequence of symbols (`"ws"`, the opening of an object,
the opening of a list); `received` is how much of it arrives.  Handlers keep
nothing between requests, so one at a time is followed.  The token library, the
MCP transport and `http.CrossOriginProtection` are modelled from their use.

## 3. The runs

All runs finish within about a minute, `saved_safety` within two or three, with two
workers.

| Run | Bounds | What it shows |
|---|---|---|
| `pool` | 2 requests, 2 connections, `FairSpec` | no request holds two connections or keeps one, or the slot, beyond its answer; the pool implements `SessionLease`; every request is answered |
| `saved_safety` | 1 tab, API callers, 2 actions in flight, 2 presets, 3 inserts, symmetric, under a view | ids keep their meaning; what a tab selects it lists; presets go in one after the other and never mix with the team's rows, also after a crash between them |
| `saved_preset_lost` | 2 presets | *violation*: a crash between two presets loses the second for good |
| `sqltab_safety` | 4 texts (2 ordinary, 1 magic, 1 refused), 2 databases, 2 requests, symmetric | fresh results and errors (`FreshView`), locks, editor and URL, what an export asks for |
| `sqltab_edit_drops` | 3 texts, 1 database, 1 request | *violation*: two quick edits clear the rows |
| `nav_safety` | 2 databases with 1 and 2 tables, 2 pages, 2 history entries, 2 requests of each kind | tables, rows and URL belong to what the interface is at |
| `lifecycle` | 2 databases, 2 handlers, `FairSpec` | nothing left open, nobody cut short in an orderly shutdown, the process ends after a signal |
| `export` | 2 tabs, 2 exports, `FairSpec` | a tab reports its own file only; one export at a time, and the slot is held exactly then; a page is freed |
| `mcp_output` | up to 4 items, lengths 1 to 7, limit 4 | longest prefix or rightful refusal (`AnswerIsBest`), mark, termination |
| `result_page` | tables of up to 3 rows of 2 cells, 3 values of which 2 are long and begin alike, pages of 2 rows, 6 limits, 1 write by others | an answer is within its limit and tells what it left out, and stops early only for a row that is too much but for `Reserve`; an opened cell is the one that was cut; a file is one snapshot |
| `guard` | all texts of up to 5 or 6 symbols of six groups | the mask is the code, the counted text is the statement, the verdict follows from the words |
| `gateway` | about 2800 environments, each varying one group of settings; limits of 2 and 3 bytes | databases come from one source and ids name theirs; the document is whole; access is as configured; a tool gets one whole message |

Why these bounds are enough.  *Pool:* two requests on two connections are the
first size at which each can hold one and want another; with that, the mutant
that leaves rows open blocks both for ever; the theorems cover the safety
properties and the refinement for any number of either.  A CSV fetches one cell again
(`MaxCells` = 1); every further one repeats it.  *Store:* a tab, a caller of the
API and a crash need two actions in flight; two presets can be interrupted half way,
and a third insert is the team's row, or one whose id could be used again.  The view
`Future` leaves out what no later step and no property of the run reads: the history
variables `loaded` and `warned`, `next` outside of seeding, and what a flow keeps of
its request once only its answer counts.  *SQL tab:* two
requests let one overtake the other, two databases and two texts make them
differ.  *Shell:* one table is in both databases and one in a single one; two
entries are a Back and a Forward; two requests of each kind overtake each other.
Longer histories repeat these steps because only the current entry is read.
*Lifecycle:* two pools have an order in which they open and close.  *Cap:* five
lengths on both sides of the limit reach every branch with either parity of the
interval; the proof covers the rest.  *Pages:* three rows are a page and the
beginning of the next; the limits lie below the names of the columns, between
one and two rows with and without their references, and above all; at one of them an
answer without cut cells stops for a row that only the whole `Reserve` keeps out (with
a byte less the property fails); one write
moves a row, removes it or changes it between any two statements.  *Guard:* five
or six symbols are enough for a nested comment, an escaped quote at the end, a
tag that is the beginning of another, a semicolon between two comments, and
EXPLAIN with two options and its statement; pieces that do not touch are read
independently.  All of it is about the symbols of the model: characters outside them,
a carriage return among them, are not covered (section 6).  *Gateway:* lists of up to three items with gaps anywhere, files
of two, three numbered variables with a gap anywhere; documents from empty to
one byte past the limit in reads of any size; bodies of up to four bytes with
the limit at three.  Symmetry is used in runs without liveness properties only,
and the properties do not tell the permuted values apart.

Some properties are conjunctions of parts with names and comments of their own,
for instance `VerdictFromWords`, `IdsNameTheirDatabase` (`IdsAreDistinct`,
`PairedWithoutGaps`), `CutsAreTold` and `AccessAsConfigured`.

Deadlock is checked except in `lifecycle`, `mcp_output`, `guard` and `gateway`,
which end (the process exits, the functions return, a start fails), and in
`result_page`, where a file that was sent is the last thing a request does.

### Fairness

* `pool`: queries end because `buildConfig` sets `statement_timeout`;
  opening and resetting a connection have their own timeouts; copying to a client
  ends by the server's write timeout; pgxpool serves
  waiting acquirers in order, so one that could be served again and again is
  served (strong fairness).  Contexts need *not* expire and the property does
  not rely on it.  No client is assumed to send anything.
* `lifecycle`: `run` continues when it can, and a query ends.  A handler need
  *not* receive its request's body: no timeout bounds that.
* `export`: the server finishes what it began, an answer arrives or its
  connection breaks, an awake page handles its timers and events (strong, as a
  page may sleep in between), a sleeping one wakes.  Users are not assumed to
  click.  `ExportEnds` excepts a page that slept through the minute its
  completion cookie lived (see 5).
* `mcp_output`: sequential code goes on.

`result_page`, `guard` and `gateway` are about safety and assume none.

Every property of a passing run has a mutant in `PROJECT.json`: a plausible bug
in a mapped definition under which TLC finds that property violated.

## 4. The proofs

All constants are arbitrary under the named assumptions of each module; no
instance is bounded.  Each proof goes from an inductive invariant with one step
per action.

* **`QueryPoolProofs`** (`NoRequestAssumption`).  `IInv` adds to the checked
  invariants `HolderPhase` and `BusyHeld` (who holds a connection is in the phase
  that goes with its state) and `SessionStage` (what a session still carries at
  each point of the reset).  `OfferedSessionsClean` is not inductive without the
  latter: that DISCARD ALL yields a fresh session depends on the client's cache
  having been emptied one step before.  `OneConnectionPerRequest` needs
  `HolderPhase`: a request that waits holds nothing, hence may take one.
  Proved: types, one connection per request, nothing held after the answer,
  clean sessions (`OfferedSessionsClean`, which no run lists because the
  refinement contains it), the export slot, and `Refinement`:
  `Spec => LendsCleanSessions`.
* **`SavedQueriesProofs`** (`SavedQueriesAssumption`).  That ids keep their
  meaning says nothing about how an id is made, so it cannot carry itself over
  the next insertion.  `IdsInv` does: a row is named after its insertion, in the
  table, in every list a tab shows and in every answer on its way, and nothing
  is named past the counter.  `SeedingInv` (while presets go in the table holds
  only those before) gives `SeedsBeforeTheTeam`; `SaveInv` (when the list is on
  its way, the new row is in it or gone for good) and `TabInv` give
  `ChosenIsListed`.  The last two are action properties.  Proved for any number
  of tabs, actions in flight, presets and crashes.
* **`SqlTabProofs`** (`SqlTabAssumption`).  `LatestInv` says that the request
  whose answer will be heeded was sent for the text now in the editor, and for
  the database unless the effects of a switch are still to run; without it an
  arriving answer could be of anything.  `ShownInv` excepts the same interval
  for what is on the screen, and `LockInv` ties the locks to the request and
  the export at work, which exclude each other.  Proved: `FreshView`,
  `LockedWhileWorking`, `EditorMatchesUrl` and the action property
  `ExportOfQueryResult`.
* **`BrowserProofs`**, on navigation (`AppNavigationAssumption`).  `LoadsInv` and
  `GridInv`: at most one request for tables and one for rows is heeded, and what
  it asked for is what is chosen, or the effect that calls it off has yet to
  run.  `QueueInv` is about the time in which tables are on their way: what is
  queued, or else what is shown, must already be what the URL names, because
  nothing looks at the URL again when they arrive.  Proved: `TablesOfDb`,
  `RowsOfView`, `UrlNamesView`, for histories of any length and any number of
  requests.
* **`LifecycleProofs`** (`LifecycleAssumption`).  `StageInv` and `ResourceInv`
  relate how far `run` has come to what is deferred and what is open;
  `HandlerInv` says that nobody works once an orderly drain is over.  Proved:
  types, `ExitLeavesNothingOpen`, `ServedInFull`.
* **`AnswerProofs`** (`ResultPageAssumption`, `McpOutputAssumption`), about both
  components that keep an answer within its size.  For `ResultPage` the invariant
  is `PageInv`: while rows are read, `bytes` is exactly `Counted` (the envelope,
  the encoded rows, the references, each with its separator) and the references
  are exactly those of the rows taken (`TakenInv`); in a file, a place that has no
  reference left holds what the row holds (`FileInv`); a cell that is asked for has
  its reference from the rows shown (`CellInv`), so that the offset the tab has
  moved to cannot matter: another value has another hash.  `AnswerSize` is the
  arithmetic: what was counted is at least what is sent, and more by at most
  `Reserve`.  The sums
  are recursive functions; what they compute is proved from a least
  counterexample (`UpTo`, `SumsExist`, `RunningSums`, `TotalOfAppend`).  Proved:
  `AnswerWithinLimit`, `CutsAreTold`, `OpenedIsWhatWasCut`, `FileIsOneSnapshot`,
  for any columns (none included), rows, sizes and limits, and any number of
  writes by others.

  For `McpOutput` (`OutputInv`) it is the invariant of a binary search: the
  prefix at `low` fits (or `low` is zero and `query` will look), and nothing
  longer than `high` does.  Proved: types, `AnswerIsBest` (its parts are
  `LongestThatFits` and `RefusedOnlyIfHopeless`), `OmissionIsTold`, for any limit
  and any lengths.
* **`BrowserProofs`**, on exports (`ExportAssumption`).  `CookieMeansFile` (a completion
  cookie belongs to a file that has arrived) and `TokenGiven` (whoever has
  something to report has a token, and nobody else has that one).
  `OneExportAtATime` ties the count of the channel to the stages of the exports; its
  proof also needs `UnsentInv`, that an export which has not been sent is not at work:
  else the form that arrives could stop one and leave its slot taken.  Proved:
  types, `StartedMeansFile`, `OneExportAtATime`, for any number of tabs and
  exports.
* **`GatewayProofs`** (`ConfigurationAssumption`, `GatewayAssumption`).
  `ConfigInv` says that once the authorization has been loaded, whoever made any
  of its settings has it enabled with all the scopes listed, and that nobody
  connects before the document has been read to its end.  `LayerInv` says for
  each layer what those before it have made sure of; without it the step that
  calls a tool would not know of the token checked three layers earlier, nor
  that the byte `singleMCPMessage` looked at is still the first one the
  transport reads (`ReplayedIsBody`, `BeginsWithFirst`).  Proved: `DocumentIsWhole`,
  `AccessAsConfigured`, `OneWholeMessage`, for all environments, requests,
  bodies and limits.

  A second invariant, `DatabasesInv`, is about the databases.  `ServesOneSource`
  and `IdsNameTheirDatabase` speak of a process that serves, six or more steps
  after the sources were read, so each step of `config.Load` needs a fact of its
  own: `SourcesInv` says that at most one source names anything, that the
  entries are exactly those of the sources read so far, and that ids and URLs
  stay paired (`PairsThere`); `DefaultInv` that a default which passed
  validation is the id of an entry; `RegistryInv` that the registry holds every
  entry under its own id.  That appending a list keeps all of it rests on what
  dropping the empty items of a list does: `RankIsBijection` (the places kept
  are numbered without gaps, because an injection between sets of the same size
  is onto), `ItemsAreKept` (nothing is lost or added), `ItemsOfFull` (a list
  without empty items stays as it is, which is what pairs
  `PGPEEK_DATABASE_IDS` with `PGPEEK_DATABASE_URLS`), and on `NumbersBegin` (the
  numbered variables that are read are the first ones).  `OneFamily` turns the
  count of `validateDatabaseSourceFamily` into "no two sources".  `Items` is
  written with ranks rather than `SelectSeq`, whose recursion no prover here
  unfolds; both drop the empty items and keep the order of the others.

* **`GuardScanProofs`** (`GuardScanAssumption`), for texts of any length over the
  symbols.  The invariant `GuardInv` rests on one fact, `PlaceInv`: whenever the
  loop looks at a symbol, the text read from its start is in code there.  It is
  kept because each turn of the loop jumps over exactly one piece (`Jump`), and
  for each kind of piece there is a lemma that the jump ends where the reading,
  which goes symbol by symbol and knows nothing of jumps, leaves the piece:
  `LineJump`, `BlockJump` (by induction on what is left, at every depth),
  `QuoteJump` (doubled and escaped quotes), `DollarJump` (the same tag once more
  and no earlier).  Then `CountInv` says that the statements counted are one more
  than the places before `i` where material follows a semicolon, and `TrailInv`
  that `trailing` is the first of the semicolons that nothing has followed yet.
  `CountTellsOne` turns a count of one into `OneStatement` when the mask is
  complete, so the second pass begins with it.  The text that is cut must have no
  semicolon of its own; that is about the reading of another, shorter text, and
  `CutReads` shows that up to a semicolon of the code a text and what is before
  it read alike (no tag, pair or escape reaches over the cut).  `ChainExists` gives
  the recursive functions of model and reading their values.  Proved:
  `CountIsTheStatement`; and that nothing to execute follows a semicolon of a text that
  is accepted (`AcceptedIsOne`), a part of `VerdictFromWords`.  For
  `MaskIsTheCode` a second invariant, `MaskInv`, says that the mask has the words
  of what is before `i` (`Level`), and that the last word can be made longer in
  both or in neither (`Joint`: without it, `a/**/b` could become one word).
  `WordsGoAlong` and `WordsStay` are about two sequences side by side; a turn
  writes a symbol without letters for a piece that is not kept (`BlankFits`), a
  symbol of the code as it is (`CopyFits`), or a name between blanks (`NameFits`).
  `VerdictFromWords` needs two things more.  The functions of `Validate` look at
  the mask as it stands, by position; `UpGrows` follows the words of the mask
  symbol by symbol, and from it come that a symbol with no letter beside it is a
  word of its own and stays one (`WordsAlone`), so that the first keyword is the
  first word (`FirstWord`), what `ContainsWord` finds is one of the words
  (`WordsContained`), and behind EXPLAIN and its options, which never end within a
  word (`TargetIs`, `BehindOptions`), there is an allowed word with no forbidden
  one from there on (`TargetWords`).  And the invariant `HeadInv` says that the
  mask begins as the text does: with nothing but brackets and blanks while no
  statement has begun, and then with a letter exactly if the statement does (a
  literal leaves a mark that is no letter, so `'x' SELECT` does not begin with
  `SELECT`).  `RefusalIs` puts them together for the first mask, and `VerdictInv`
  carries what it decided through the second pass.

The assumptions say that a model value which stands for "none" is not one of
the things it is told apart from (`NoReq` is no request, `Nothing` is neither a
database nor a queued table), that the magic texts are texts, and that bounds
are numbers.  `ConfigurationAssumption` says what an environment is (the record
`Environment`: texts, flags and lists of them, of any length) and that one
without a databases file has no items from it; `ResultPageAssumption`, that a
preview is not itself one of the values.  The bounds on requests, history and
insertions are constants too, so a theorem holds for every value of them.

What the liveness properties rest on is proved as far as it can be said of single
steps: a measure, and that a step takes it down or leaves it.

* `RequestsGoOn` (`QueryPool`): `WorkLeft`, four for each query that is left, less
  what its phase has behind it.  A step of any request or connection leaves a
  request where it is or brings it nearer to its answer, in at most sixteen steps;
  `FewQueries` is the invariant that bounds it.
* `RunComesToAnEnd` (`Lifecycle`): `StepsLeft`, from the number of databases, what is
  deferred and whether a pool is made or open.  A step of `run` takes it down, a
  handler or a signal leaves it, and it begins at no more than 4 N + 11.
* `ExportsGoOn` (`Export`): the form of an export is sent once (`UnsentInv`: no tab
  that has yet to send it has a token the server knows), its stages follow in
  order, and what has reached the browser is not replaced.
* `SearchHalves` (`McpOutput`): every look at the middle leaves at most half of what
  was to be searched, so the cut takes logarithmically many.
* `ScanComesToAnEnd` (`GuardScan`): each turn of the loop leaves less of the two
  passes (`TurnMoves`, from the lemmas about jumps), whatever is left open.

Only model-checked: the liveness properties themselves (`EveryRequestAnswered`,
`SignalEndsProcess`, `ExportEnds`, `SearchEnds`), that is, that the steps which take
a measure down are possible and are taken, because liveness under
fairness and ENABLED are out of the prover's reach.  The induction theorems
of the library take an operator, which no prover here can instantiate; where a
sum had to be proved about, the induction is spelled out with a set instead
(`UpTo`).  No module here declares a RECURSIVE operator.

## 5. Disagreements between code and documents

With a run that shows them (`findings` in `PROJECT.json`):

* `SeedPresets` is not atomic and seeds an empty table only; an interrupted
  first start never loads the rest of the presets (`store.go:158`, against
  `store.go:140` "loaded once on first run").
* A second edit before the effects of the first clears the completed rows
  (`web/sql-tab.js:223`, against the comment at `sql-tab.js:66`).

Seen while modelling, without a run of their own:

* The list of saved queries that arrives last wins, also when it is older
  (`web/app.js:156`, against README.md:446-447).
* Back within a database while its tables load leaves the URL naming a table
  that is not shown (`web/app.js:275`, against README.md:191).  `UrlNamesView`
  excepts it through `missed`.
* Empty items of the list of ids are dropped before the ids are matched with the
  URLs (`databases.go:210`): ids `,b` with URLs `u1,u2` give `b` to `u1`, against
  README.md:162 "Optional comma/semicolon IDs matching `PGPEEK_DATABASE_URLS`".
  The default `listValue` has for an empty item (`databases.go:235`) is never
  used.  `PairedWithoutGaps` is about lists without empty items.
* Numbered variables count as in use if any of the 64 is set
  (`databases.go:63`) but are read up to the first that is not
  (`databases.go:146`): with `_2` set and `_1` not, nothing is read and
  `DATABASE_URL` is served.  `ServesOneSource` speaks of the numbers before the
  first gap.
* After the team has deleted every row, a restart loads the presets again
  (`store.go:154`).
* An export under a magic result sends the editor's text, not what produced the
  result (`sql-tab.js:310-311`).
* A rewritten DROP leaves the previous result shown, as stale
  (`easter-eggs.js:130`).
* A string in dollars before the first keyword is overlooked by the guard, because
  a blank stands for it in the mask (`mask.go:127`; any other literal leaves a
  mark).  No statement begins with one, so PostgreSQL refuses such a text itself;
  `VerdictFromWords` says so.
* An output one byte too long is marked truncated although nothing was left out
  (`mcp_output.go:58`).
* A page that sleeps through its completion cookie stays locked until it is
  reloaded (`sql-actions.js:62`).

## 6. What is not modelled

* The budget of `catalog_limit.go`: a sum with an early end, after which the
  handlers refuse the whole list; and the overview of all databases
  (`handleDatabases`), whose queries are ordinary ones of the pool.
* Durations: each timeout may fire at any moment its timer runs, so orders of
  configured values (`config.go:75`) are not told apart.
* In `Configuration`: display names, defaults of plain settings (only whether
  they are valid), and *how* a scope or an id is invalid.  A scope list of only
  separators is one with a bad scope: both are refused.
* In `GuardScan`: characters beyond the symbols listed there; the forbidden
  words are represented by two of them, the restricted relations by one.  A carriage
  return is no symbol: `mask.go:43` ends a line comment at a newline only, the lexer
  of PostgreSQL at a carriage return too, so what the run and the theorems say of the
  guard is said of texts without one.
* In `Gateway`: how a file or the metadata are written; their answers are the status.
* The text of SQL, rows and messages elsewhere; the packing of the URL and its
  length limit; rendering, formatting, completion, achievements and themes; the
  structure tab, whose requests follow the pattern of the rows of a table.
* What go-oidc and the MCP SDK decide about tokens, sessions and JSON.
* In `SqlTab` one tab; in `SavedQueries` the tabs' editors.

## 7. Plan

Done: all modules of section 2; the proofs about `QueryPool`, `SavedQueries`,
`SqlTab`, `AppNavigation`, `Export`, `Lifecycle`, `Gateway` with
`Configuration`, `McpOutput` with `ResultPage`, and `GuardScan`.

Every invariant and every action property that a passing run checks is stated by a
theorem now, and what the liveness properties rest on has a measure.

Next, proofs: the guards of the steps that take the measures down, as state
predicates (that in every state before the end one of them holds), which is what
liveness needs besides fairness; and the other direction for EXPLAIN in
`VerdictFromWords`, which says now what an accepted one has, not which are accepted.
