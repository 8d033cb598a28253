--------------------------- MODULE PermissionSettings ---------------------------
(***************************************************************************)
(* The project's permission configuration, from the file to the dialog of  *)
(* one browser: reads, atomic replacements and removals by requests that   *)
(* need a valid session (AdminLogin), a server that stops at any moment    *)
(* and starts again, a user who also edits the file by hand, and the way   *)
(* to the login page and back.                                             *)
(*                                                                         *)
(* A configuration has one flag, yoloMode, and the policy of one surface,  *)
(* bash; what a hand has written need not have all of it, nor be valid.    *)
(***************************************************************************)
EXTENDS AdminLogin, FiniteSets

CONSTANTS
    Me,             \* this browser, one of the Clients
    MaxOpens,       \* bound: times the dialog is opened while requests are under way
    MaxEdits,       \* bound: changes made in the dialog
    MaxEvents       \* bound: restarts, expired sessions, edits by hand, logins elsewhere

ASSUME PermissionSettingsAssumption ==
    /\ Me \in Clients /\ Cardinality(Clients) >= 1
    /\ {MaxOpens, MaxEdits, MaxEvents} \subseteq Nat

VARIABLES
    file,           \* the project's configuration file
    calls,          \* requests of this browser that are not over
    page,           \* what app.vue shows, and with it session.loggedIn
    dialog,
    opens, edits, events,   \* counts that are bounded
    current         \* history: nothing since made the last answer an old one

settings == <<file, calls, page, dialog, opens, edits, events, current>>
vars == <<login, settings>>

-------------------------------------------------------------------------------
(* Configurations *)

Policies == {"ask", "rules"}
Configs == [yoloMode : BOOLEAN, bash : Policies]

(* defaultPermissionConfig *)
Default == [yoloMode |-> FALSE, bash |-> "ask"]

Whole(fields) == [is |-> "whole", fields |-> fields]
Missing == [is |-> "missing", fields |-> Default]
Torn == [is |-> "torn", fields |-> Default]
HandWritten == {Whole([bash |-> "rules"]), Whole([yoloMode |-> TRUE, unknown |-> TRUE])}

(* What normalizePermissionConfig demands *)
Valid(fields) ==
    /\ DOMAIN fields \subseteq {"yoloMode", "bash"}
    /\ "bash" \in DOMAIN fields /\ fields.bash \in Policies

(* normalizePermissionConfig *)
Normalize(fields) ==
    [yoloMode |-> IF "yoloMode" \in DOMAIN fields THEN fields.yoloMode ELSE Default.yoloMode,
     bash |-> fields.bash]

Response(exists, config) == [exists |-> exists, config |-> config]

(* readProjectPermissionConfig: what a load tells, None when it is refused *)
Read(raw) ==
    CASE raw.is = "missing" -> Response(FALSE, Default)
      [] raw.is = "whole" /\ Valid(raw.fields) -> Response(TRUE, Normalize(raw.fields))
      [] OTHER -> None

-------------------------------------------------------------------------------
(* Types *)

Sessions == {"session", "signed in"}     \* requests for the session
Ops == {"load", "save", "reset"} \union Sessions
Going == {"sent", "written", "unauthorized"}
Call(op, body) ==
    [op |-> op, body |-> body, cookie |-> cookies[Me], at |-> "sent", reply |-> None,
     live |-> TRUE, alone |-> op \notin Sessions /\ \A t \in calls : t.op \in Sessions,
     nr |-> opens' + edits']

Closed == [open |-> FALSE, response |-> None, draft |-> None, loading |-> FALSE,
           saving |-> FALSE, resetting |-> FALSE, failed |-> FALSE, asking |-> FALSE]

TypeOK ==
    /\ LoginTypeOK
    /\ file \in {Missing} \union HandWritten \union {Whole(c) : c \in Configs}
    /\ \A t \in calls : /\ t.op \in Ops /\ t.body \in Configs \union {None}
                        /\ t.at \in {"sent", "written", "answered", "unauthorized", "refused"}
    /\ page \in {"workspace", "login"}
    /\ dialog.response \in [exists : BOOLEAN, config : Configs] \union {None}
    /\ dialog.draft \in Configs \union {None}

Unsaved ==
    /\ None \notin {dialog.response, dialog.draft}
    /\ dialog.response.config # dialog.draft

-------------------------------------------------------------------------------
(* The server *)

(* Nobody waits for an answer to a page that was left, but 401 is an event.  *)
Became(t, at, reply) ==
    calls' = (calls \ {t}) \union
        (IF t.live \/ at \in {"written", "unauthorized"}
         THEN {[t EXCEPT !.at = at, !.reply = reply]} ELSE {})
Browser == <<login, page, dialog, opens, edits, events>>

(* authMiddleware, and the route of the session *)
Unauthorized(t) ==
    /\ t.at = "sent" /\ t.op \notin Sessions /\ ~Accepted(t.cookie)
    /\ Became(t, "unauthorized", None)
    /\ UNCHANGED <<Browser, file, current>>

Session(t) ==
    /\ t.at = "sent" /\ t.op \in Sessions
    /\ Became(t, "answered", Accepted(t.cookie))
    /\ UNCHANGED <<Browser, file, current>>

(* readPermissionConfigFile *)
Load(t) ==
    /\ t.at = "sent" /\ t.op = "load" /\ Accepted(t.cookie)
    /\ IF Read(file) = None THEN Became(t, "refused", None) ELSE Became(t, "answered", Read(file))
    /\ UNCHANGED <<Browser, file, current>>

WriteInPlace(t) ==                                                 \* fault
    /\ t.at = "sent" /\ t.op = "save" /\ Accepted(t.cookie)
    /\ file' = Torn /\ Became(t, "written", None)
    /\ UNCHANGED <<Browser, current>>

(* writePermissionConfigFile: first to a temporary file, which is then renamed. *)
Write(t) ==
    /\ t.at = "sent" /\ t.op = "save" /\ Accepted(t.cookie)
    /\ Became(t, "written", None)
    /\ UNCHANGED <<Browser, file, current>>

Rename(t) ==
    /\ t.at = "written"
    /\ file' = Whole(t.body) /\ Became(t, "answered", Response(TRUE, t.body))
    /\ UNCHANGED <<Browser, current>>

ResetForgetsFile(t) ==                                             \* fault
    /\ t.at = "sent" /\ t.op = "reset" /\ Accepted(t.cookie)
    /\ Became(t, "answered", Response(FALSE, Default))
    /\ UNCHANGED <<Browser, file, current>>

(* resetProjectPermissionConfig *)
Remove(t) ==
    /\ t.at = "sent" /\ t.op = "reset" /\ Accepted(t.cookie)
    /\ file' = Missing /\ Became(t, "answered", Response(FALSE, Default))
    /\ UNCHANGED <<Browser, current>>

(* A call of the file system fails; a temporary file is removed. *)
Refuse(t) ==
    /\ t.at \in {"sent", "written"}
    /\ Became(t, "refused", None)
    /\ UNCHANGED <<Browser, file, current>>

Serve(t) ==
    \/ Unauthorized(t) \/ Session(t) \/ Load(t)
    \/ Write(t) \/ Rename(t) \/ Remove(t) \/ Refuse(t)

-------------------------------------------------------------------------------
(* The browser *)

Event == events < MaxEvents /\ events' = events + 1

(* Somebody else asks to be signed in. *)
Elsewhere == Event /\ UNCHANGED <<file, calls, page, dialog, opens, edits, current>>

(* The server stops and starts again: what was under way is lost, perhaps the *)
(* answer to what was done.                                                   *)
Restart ==
    /\ Event /\ Restarted
    /\ \E lost \in SUBSET calls :
        /\ {t \in calls : t.at \in {"sent", "written"}} \subseteq lost
        /\ calls' = (calls \ lost) \union {[t EXCEPT !.at = "refused"] : t \in lost}
        /\ current' = (current /\ \A t \in lost : t.at # "answered")
    /\ UNCHANGED <<file, page, dialog, opens, edits>>

(* The session is too old: SESSION_MAX_AGE_SECONDS *)
Expire ==
    /\ Event /\ cookies' = [cookies EXCEPT ![Me] = 0]
    /\ UNCHANGED <<consecutiveFailures, since, attempts, ahead, left, secret>>
    /\ UNCHANGED <<file, calls, page, dialog, opens, edits, current>>

(* The user edits the file by hand. *)
EditByHand ==
    /\ Event
    /\ file' \in HandWritten \union {Missing} /\ file' # file
    /\ calls' = {[t EXCEPT !.alone = FALSE] : t \in calls} /\ current' = FALSE
    /\ UNCHANGED <<login, page, dialog, opens, edits>>

(* A request of the dialog begins; answers of two of them come in any order. *)
Begin(op, body) ==
    /\ calls' = {Call(op, body)} \union {[t EXCEPT !.alone = FALSE] : t \in calls}
    /\ UNCHANGED current

Workspace == page = "workspace"
Server == <<login, file, page, events>>

(* loadConfig: the dialog opens, or Retry *)
Open ==
    /\ Workspace
    /\ \/ calls = {} /\ opens' = opens
       \/ opens < MaxOpens /\ opens' = opens + 1
    /\ \/ ~dialog.open
       \/ dialog.open /\ dialog.failed /\ ~dialog.loading
    /\ dialog' = [dialog EXCEPT !.open = TRUE, !.loading = TRUE, !.failed = FALSE]
    /\ UNCHANGED edits
    /\ Begin("load", None)
    /\ UNCHANGED Server

Editable == Workspace /\ dialog.open /\ dialog.draft # None /\ ~dialog.failed /\ ~dialog.asking

(* setToolAction, updateFlag *)
Edit ==
    /\ Editable /\ edits < MaxEdits /\ edits' = edits + 1
    /\ \E d \in {[dialog.draft EXCEPT !.bash = "ask"],
                 [dialog.draft EXCEPT !.yoloMode = ~@]} :
        d # dialog.draft /\ dialog' = [dialog EXCEPT !.draft = d]
    /\ UNCHANGED <<Server, calls, opens, current>>

(* saveConfig *)
Save ==
    /\ Editable /\ ~dialog.loading /\ ~dialog.saving /\ ~dialog.resetting
    /\ dialog' = [dialog EXCEPT !.saving = TRUE]
    /\ UNCHANGED <<opens, edits>>
    /\ Begin("save", dialog.draft)
    /\ UNCHANGED Server

(* resetConfig *)
Reset ==
    /\ Workspace /\ dialog.open /\ ~dialog.asking
    /\ ~dialog.loading /\ ~dialog.saving /\ ~dialog.resetting
    /\ dialog.response # None /\ dialog.response.exists
    /\ dialog' = [dialog EXCEPT !.resetting = TRUE]
    /\ UNCHANGED <<opens, edits>>
    /\ Begin("reset", None)
    /\ UNCHANGED Server

CloseTo(d) == dialog' = [d EXCEPT !.open = FALSE, !.failed = FALSE, !.asking = FALSE]

(* requestClose, discardChangesAndClose *)
Close ==
    /\ Workspace /\ dialog.open
    /\ \/ ~dialog.asking /\ Unsaved /\ dialog' = [dialog EXCEPT !.asking = TRUE]
       \/ ~dialog.asking /\ ~Unsaved /\ CloseTo(dialog)
       \/ dialog.asking /\ (CloseTo(dialog) \/ dialog' = [dialog EXCEPT !.asking = FALSE])
    /\ UNCHANGED <<Server, calls, opens, edits, current>>

SetFlagOnSuccess(op, d) ==                                         \* fault
    IF d.response = None THEN d
    ELSE [d EXCEPT !.loading = FALSE, !.saving = FALSE, !.resetting = FALSE]

SetFlag(op, d) ==
    CASE op = "load" -> [d EXCEPT !.loading = FALSE]
      [] op = "save" -> [d EXCEPT !.saving = FALSE]
      [] op = "reset" -> [d EXCEPT !.resetting = FALSE]

(* What the dialog makes of an answer, of a refusal *)
Shows(t) ==
    SetFlag(t.op,
        CASE t.at = "answered" -> [dialog EXCEPT !.response = t.reply, !.draft = t.reply.config]
          [] t.at # "answered" /\ t.op = "load" ->
                [dialog EXCEPT !.response = None, !.draft = None, !.failed = TRUE]
          [] OTHER -> dialog)

(* loadConfig, saveConfig and resetConfig after their await; a page that was  *)
(* left has nobody to tell, and agentaz-auth-expired has a listener while the *)
(* workspace is shown: handleAuthExpired                                      *)
Answer(t) ==
    /\ t.op \notin Sessions /\ t.at \in {"answered", "refused", "unauthorized"}
    /\ dialog' = IF t.live THEN Shows(t) ELSE dialog
    /\ UNCHANGED <<opens, edits>>
    /\ calls' = (calls \ {t}) \union
        (IF t.at = "unauthorized" /\ Workspace
         THEN {[Call("session", None) EXCEPT !.nr = 0]} ELSE {})
    /\ current' = IF t.at = "answered" THEN t.alone ELSE current
    /\ UNCHANGED <<login, file, page, events>>

(* fetchSession, and then the route follows it: applyAuthRoute.  A page that  *)
(* is left forgets its dialog, and the answers to it.                         *)
SessionTold(t) ==
    /\ t.op \in Sessions /\ t.at \in {"answered", "refused"}
    /\ \/ /\ t.at = "answered" /\ (t.reply = TRUE <=> page = "workspace")
          /\ calls' = calls \ {t} /\ UNCHANGED <<page, dialog>>
       \/ /\ t.at = "answered" /\ ~(t.reply = TRUE <=> page = "workspace")
          /\ page' = IF t.reply THEN "workspace" ELSE "login"
          /\ dialog' = Closed
          /\ calls' = {o \in calls \ {t} : o.op \in Sessions}
                \union {[o EXCEPT !.live = FALSE, !.alone = FALSE] :
                            o \in {o \in calls : o.op \notin Sessions /\ o.at \in Going}}
       \/ /\ t.at = "refused"
          /\ calls' = calls \ {t} /\ UNCHANGED <<page, dialog>>
    /\ UNCHANGED <<login, file, opens, edits, events, current>>

(* LoginView.login; once signed in it asks for the session. *)
SignIn ==
    /\ page = "login" /\ \A t \in calls : t.op # "signed in"
    /\ Attempt(Me)
    /\ UNCHANGED settings

SignedIn ==
    /\ Accept(Me)
    /\ UNCHANGED <<file, page, dialog, opens, edits, events, current>>
    /\ calls' = calls \union {[Call("signed in", None) EXCEPT !.cookie = secret, !.nr = 0]}

-------------------------------------------------------------------------------
(* Specification *)

Init ==
    /\ LoginInit /\ \A c \in Clients \ {Me} : cookies[c] = 0
    /\ file \in {Missing} \union HandWritten
    /\ calls = {} /\ page = IF Accepted(cookies[Me]) THEN "workspace" ELSE "login"
    /\ dialog = Closed /\ opens = 0 /\ edits = 0 /\ events = 0 /\ current = FALSE

Login(c) ==
    \/ (WaitBeforeAttempt(c) \/ Reject(c)) /\ UNCHANGED settings
    \/ c = Me /\ SignedIn
    \/ c # Me /\ Accept(c) /\ UNCHANGED settings

Others ==
    \/ \E c \in Clients \ {Me} : Attempt(c) /\ Elsewhere
    \/ Restart \/ Expire \/ EditByHand

Next ==
    \/ \E t \in calls : Serve(t) \/ Answer(t) \/ SessionTold(t)
    \/ Open \/ Edit \/ Save \/ Reset \/ Close \/ SignIn
    \/ \E c \in Clients : Login(c)
    \/ Tick /\ UNCHANGED settings
    \/ Others

Spec == Init /\ [][Next]_vars

(* Requests are served and answered, and clocks go on. *)
FairSpec ==
    /\ Spec
    /\ WF_vars(\E t \in calls : Serve(t) \/ Answer(t) \/ SessionTold(t))
    /\ \A c \in Clients : WF_vars(Login(c))
    /\ WF_vars(Tick /\ UNCHANGED settings)

-------------------------------------------------------------------------------
(* Properties *)

(* Whoever reads the file at any moment, an extension's permission check or a *)
(* server that has just been started, finds a whole configuration.            *)
PolicyWhole == file.is # "torn"

(* What the dialog shows once its requests are over is what the file says,    *)
(* also after a refusal or a restart: unless the file was edited by hand      *)
(* meanwhile, or two requests were under way at once: their answers come in   *)
(* any order, and the dialog keeps whichever came last.                       *)
ShownIsFile ==
    current /\ calls = {} /\ dialog.response # None => dialog.response = Read(file)

(* The dialog does not stay blocked, whatever fails. *)
Blocked == Workspace /\ (dialog.loading \/ dialog.saving \/ dialog.resetting)
DialogFreed == Blocked ~> ~Blocked

(* The safety of it: what blocks the dialog is a request whose answer frees   *)
(* it, and no such request is lost to a restart, or to a page that is left.   *)
Awaited(op) == \E t \in calls : t.op = op /\ t.live
BlockedByRequests ==
    /\ dialog.loading => Awaited("load")
    /\ dialog.saving => Awaited("save")
    /\ dialog.resetting => Awaited("reset")
===============================================================================
