-------------------------------- MODULE Export --------------------------------
(***************************************************************************)
(* Export of a query as a file: web/sql-actions.js in the tabs of one       *)
(* browser, and handleExport.  A tab posts a form into a hidden frame, with *)
(* a token that is also in a cookie; a file cannot be seen by the page, so  *)
(* the server marks its answer with a cookie named after the token, which   *)
(* the page polls.  An error is a document, which the frame loads.          *)
(*                                                                         *)
(* A token is the number of its export.  Cookies are shared by the tabs.    *)
(***************************************************************************)
EXTENDS Naturals

CONSTANTS
  Tab,         \* tabs of the browser
  MaxExports   \* bound: exports ever started

ASSUME ExportAssumption == MaxExports \in Nat

VARIABLES
  started,     \* exports started so far
  tab,         \* tab[t]: "idle", "framed" before its form is sent, "sent" after
  token,       \* token[t]: of its last export, 0 before the first
  outcome,     \* outcome[t]: what the tab last said of that export
  asleep,      \* tabs whose timers and events are suspended
  csrf,        \* the cookie pgpeek_export_csrf, 0 if there is none
  done,        \* tokens with a cookie pgpeek_export_done_<token> set to 1
  sent,        \* sent[k]: the token cookie that went with the form of export k
  stage,       \* stage[k]: what the server does about export k
  slots,       \* elements in the channel exportSlots, which has room for one
  reply        \* reply[k]: what has reached the browser: "none", "file" or "error"

exportVars ==
  <<started, tab, token, outcome, asleep, csrf, done, sent, stage, slots, reply>>
exportPage == <<started, tab, token, outcome, asleep, csrf>>

-----------------------------------------------------------------------------
Token == 1..MaxExports

ExportInit ==
  /\ started = 0
  /\ tab = [t \in Tab |-> "idle"]
  /\ token = [t \in Tab |-> 0]
  /\ outcome = [t \in Tab |-> "none"]
  /\ asleep = {}
  /\ csrf = 0
  /\ done = {}
  /\ sent = [k \in Token |-> 0]
  /\ stage = [k \in Token |-> "none"]
  /\ slots = 0
  /\ reply = [k \in Token |-> "none"]

Awake(t) == t \notin asleep

(* The tab waits for the answer to export k.                                *)
Waits(t, k) == tab[t] # "idle" /\ token[t] = k

-----------------------------------------------------------------------------
(* The page.                                                                *)

(* Mutant of Fresh: every page uses the same token.                         *)
Fixed == 1

(* 128 random bits.                                                         *)
Fresh == started + 1

(* exportCSV, exportQuery: the page is locked until the export ends.        *)
Click(t) ==
  /\ Awake(t)
  /\ tab[t] = "idle"
  /\ started < MaxExports
  /\ started' = started + 1
  /\ token' = [token EXCEPT ![t] = Fresh]
  /\ csrf' = Fresh
  /\ done' = done \ {Fresh}
  /\ tab' = [tab EXCEPT ![t] = "framed"]
  /\ outcome' = [outcome EXCEPT ![t] = "none"]
  /\ UNCHANGED <<asleep, sent, stage, slots, reply>>

(* The empty frame has loaded: the form goes, with the cookies there are.   *)
Submit(t) ==
  /\ Awake(t)
  /\ tab[t] = "framed"
  /\ tab' = [tab EXCEPT ![t] = "sent"]
  /\ sent' = [sent EXCEPT ![token[t]] = csrf]
  /\ stage' = [stage EXCEPT ![token[t]] = "posted"]
  /\ UNCHANGED <<started, token, outcome, asleep, csrf, done, slots, reply>>

Finish(t, what) ==
  /\ tab' = [tab EXCEPT ![t] = "idle"]
  /\ outcome' = [outcome EXCEPT ![t] = what]
  /\ done' = done \ {token[t]}
  /\ UNCHANGED <<started, token, asleep, csrf, sent, stage, slots, reply>>

(* Mutant of Seen: the completion cookie is named without the token.        *)
SeenAny(k) == done # {}

Seen(k) == k \in done

(* waitForCompletion finds the cookie; if not it sets its timer again.      *)
Poll(t) ==
  /\ Awake(t)
  /\ tab[t] # "idle"
  /\ Seen(token[t])
  /\ Finish(t, "download started")

(* Mutant of FrameLoads: the frame is listened to for its first load only.  *)
ListensOnce(t) == FALSE /\ UNCHANGED exportVars

(* The frame loads the server's error, or that of the browser.              *)
FrameLoads(t) ==
  /\ Awake(t)
  /\ tab[t] = "sent"
  /\ reply[token[t]] = "error"
  /\ Finish(t, "error")

(* The page is loaded anew: its frame is gone, and what was asked for with  *)
(* it if it had not been answered.                                          *)
ReloadPage(t) ==
  /\ tab[t] # "idle"
  /\ tab' = [tab EXCEPT ![t] = "idle"]
  /\ reply' = IF reply[token[t]] = "none" /\ stage[token[t]] # "none"
              THEN [reply EXCEPT ![token[t]] = "error"]
              ELSE reply
  /\ UNCHANGED <<started, token, outcome, asleep, csrf, done, sent, stage, slots>>

(* The browser freezes a page in the background, or the machine sleeps.     *)
Sleep(t) ==
  /\ Awake(t)
  /\ asleep' = asleep \cup {t}
  /\ UNCHANGED <<started, tab, token, outcome, csrf, done, sent, stage, slots, reply>>

Wake(t) ==
  /\ asleep' = asleep \ {t}
  /\ UNCHANGED <<started, tab, token, outcome, csrf, done, sent, stage, slots, reply>>

(* The minute of a completion cookie is over.  A page that is awake looks   *)
(* for it ten times a second, so its own does not expire before it is seen. *)
Expire(k) ==
  /\ k \in done
  /\ \A t \in Tab : Waits(t, k) => t \in asleep
  /\ done' = done \ {k}
  /\ UNCHANGED exportPage
  /\ UNCHANGED <<sent, stage, slots, reply>>

-----------------------------------------------------------------------------
(* handleExport.                                                            *)

Goes(k, from, to) ==
  /\ stage[k] = from
  /\ stage' = [stage EXCEPT ![k] = to]
  /\ UNCHANGED exportPage
  /\ UNCHANGED <<done, sent, reply>>

(* An element is sent to the channel only if it has room: select does not   *)
(* wait; it is received when handleExport returns, by a deferred call.      *)
Takes == slots < 1 /\ slots' = slots + 1
Frees == slots > 0 /\ slots' = slots - 1

(* The cookie matches the form and no other export has the slot.            *)
Admit(k) ==
  /\ sent[k] = k
  /\ Takes
  /\ Goes(k, "posted", "exporting")

(* The database is unknown, the form unreadable, the SQL refused, the       *)
(* cookie another one, or the slot is taken (429): an error document.       *)
Refuse(k) == Goes(k, "posted", "refused") /\ UNCHANGED slots

(* Mutant of Spooled: the slot goes back with the end of the query.         *)
SpooledAndFree(k) == Goes(k, "exporting", "copying") /\ Frees

(* The spool file is complete: the answer starts.                           *)
Spooled(k) == Goes(k, "exporting", "copying") /\ UNCHANGED slots

(* The query, the spool file or the size limit fails, or the request is     *)
(* cancelled: an error document is written.                                 *)
Fails(k) == Goes(k, "exporting", "failing") /\ UNCHANGED slots

(* handleExport returns: the copy is over, at its end or by the write       *)
(* timeout, or the error is written.                                        *)
Returns(k) ==
  /\ Goes(k, "copying", "copied") \/ Goes(k, "failing", "refused")
  /\ Frees

-----------------------------------------------------------------------------
(* The network.                                                             *)

(* The answer, or its first part, reaches the browser, with its cookie.     *)
Arrives(k) ==
  /\ reply[k] = "none"
  /\ stage[k] \in {"copying", "copied", "failing", "refused"}
  /\ IF stage[k] \in {"failing", "refused"}
     THEN /\ reply' = [reply EXCEPT ![k] = "error"]
          /\ UNCHANGED done
     ELSE /\ reply' = [reply EXCEPT ![k] = "file"]
          /\ done' = done \cup {k}
  /\ UNCHANGED exportPage
  /\ UNCHANGED <<sent, stage, slots>>

(* The connection breaks before the answer arrives.                         *)
Breaks(k) ==
  /\ reply[k] = "none"
  /\ stage[k] # "none"
  /\ reply' = [reply EXCEPT ![k] = "error"]
  /\ UNCHANGED exportPage
  /\ UNCHANGED <<done, sent, stage, slots>>

-----------------------------------------------------------------------------
PageStep(t) ==
  Click(t) \/ Submit(t) \/ Poll(t) \/ FrameLoads(t) \/ ReloadPage(t) \/ Sleep(t) \/ Wake(t)

Handles(k) == Admit(k) \/ Refuse(k) \/ Spooled(k) \/ Fails(k) \/ Returns(k)

ExportNext ==
  \/ \E t \in Tab : PageStep(t)
  \/ \E k \in Token : Expire(k) \/ Handles(k) \/ Arrives(k) \/ Breaks(k)

ExportSpec == ExportInit /\ [][ExportNext]_exportVars

(* The server ends what it began (statement and write timeouts), an answer  *)
(* arrives or its connection breaks, a page that is awake handles its       *)
(* events and timers, and one that sleeps wakes up.                         *)
ExportFairness ==
  /\ \A k \in Token : WF_exportVars(Handles(k)) /\ WF_exportVars(Arrives(k) \/ Breaks(k))
  /\ \A t \in Tab : SF_exportVars(Submit(t)) /\ SF_exportVars(Poll(t)) /\ SF_exportVars(FrameLoads(t))
                      /\ WF_exportVars(t \in asleep /\ Wake(t))

ExportFairSpec == ExportSpec /\ ExportFairness

-----------------------------------------------------------------------------
(* Types; and no two tabs have the same token.                              *)
ExportTypeOK ==
  /\ started \in 0..MaxExports
  /\ tab \in [Tab -> {"idle", "framed", "sent"}]
  /\ token \in [Tab -> 0..started]
  /\ outcome \in [Tab -> {"none", "download started", "error"}]
  /\ asleep \subseteq Tab
  /\ csrf \in 0..started
  /\ done \subseteq Token
  /\ sent \in [Token -> 0..started]
  /\ stage \in [Token -> {"none", "posted", "exporting", "copying", "copied", "failing", "refused"}]
  /\ slots \in 0..1
  /\ reply \in [Token -> {"none", "file", "error"}]
  /\ \A s, t \in Tab : token[s] = token[t] /\ token[s] # 0 => s = t

(* A tab says that its download started only when the file it asked for has *)
(* reached the browser, whatever the other tabs of the browser export, and  *)
(* whichever of their answers, errors and cookies come first or expire.     *)
StartedMeansFile ==
  \A t \in Tab : outcome[t] = "download started" => reply[token[t]] = "file"

(* docs/test-matrix.md:30, "single active export": handleExport is at work  *)
(* for one export at a time, also while it sends a file to a slow browser   *)
(* or to none any more.  The slot is taken just then: no way out of the     *)
(* handler loses it, which would refuse every later export, and none gives  *)
(* it back while a file is still copied.                                    *)
Working == {"exporting", "copying", "failing"}

OneExportAtATime ==
  /\ \A j, k \in Token : stage[j] \in Working /\ stage[k] \in Working => j = k
  /\ slots = 1 <=> \E k \in Token : stage[k] \in Working

(* A page is not locked for ever: every answer to its export, a broken      *)
(* connection included, ends it, with one exception (sql-actions.js:62): a  *)
(* page that slept through the minute its completion cookie lived.          *)
Missed(t) == tab[t] = "sent" /\ reply[token[t]] = "file" /\ token[t] \notin done

ExportEnds == \A t \in Tab : tab[t] # "idle" ~> tab[t] = "idle" \/ Missed(t)
=============================================================================
