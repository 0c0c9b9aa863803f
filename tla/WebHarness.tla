----------------------------- MODULE WebHarness -----------------------------
(***************************************************************************)
(* What the two web sketches share: a page in a browser, scripts that use   *)
(* the same routes, the sketch that answers them one at a time, and the     *)
(* library under it (FtpsSession).  The page goes on while its requests are *)
(* on their way: two of them may be, one of the chain of requests a click   *)
(* starts and one of the periodic refresh, and either may fail.  A request  *)
(* that reaches the sketch is served to its end before the next, so that    *)
(* gStatus.busy is never seen set; it is left out, with the log and the     *)
(* preview.                                                                *)
(*                                                                         *)
(* page     the page: s.authorized, s.hydrated, whether its buttons are     *)
(*          enabled, its token, and the chain in progress (s.pending)       *)
(* act      the chain's request and its answer;  poll: the refresh's        *)
(* config   whether each setting has a value (gConfig); stale: auxiliary,   *)
(*          those that nobody has posted since, or in, the page's last save  *)
(* connected   gStatus.connected, the field of gStatus that decides;        *)
(*          begun: gFtpsBegun                                               *)
(* serving  the request being served and what is to be called next; ok is   *)
(*          auxiliary: no call made for it has failed                       *)
(* up, outcome   the session (FtpsSession)                                  *)
(* refused  auxiliary: the page's last save was refused                     *)
(***************************************************************************)
EXTENDS FtpsErrors, Sequences

CONSTANTS
    Errors,     \* the errors of the library that are told apart
    PageOps,    \* what a click may ask for
    ScriptOps,  \* what a script may ask for
    Names,      \* the settings that are told apart
    PageForms,  \* the forms a click may post
    ScriptForms \* the forms a script may post

\* What is posted for a setting: a value, none (the page never shows the
\* password, so that a save may blank it), one that is too long for the setting,
\* or one that is no value of it (a port that is no number, an encoding that is
\* none).
Fields == [name: Names, value: {"given", "blank", "long", "wrong"}]

\* A setting may stand for several keys, of which a form posts any.
Forms == PageForms \cup ScriptForms

ASSUME ErrorsAssumption == Errors \subseteq FtpsError

\* What connect() needs, and what a transfer needs.
ASSUME NamesAssumption == {"server", "path"} \subseteq Names

\* The page posts every setting, whatever its form holds.
ASSUME FormsAssumption ==
    /\ Forms \subseteq Seq(Fields)
    /\ \A form \in PageForms, f \in Names :
          \E i \in DOMAIN form : form[i].name = f

VARIABLES page, act, poll, config, stale, connected, begun, serving, up, outcome,
          refused

client == <<page, act, poll>>
library == <<up, outcome>>
settings == <<config, stale, refused>>
server == <<settings, connected, begun, serving>>
vars == <<client, server, library>>

LibraryOps == {"store", "retrieve", "list", "mkd", "dele", "rmd", "rename",
               "size"}

Session == INSTANCE FtpsSession WITH SessionOps <- LibraryOps

\* A token that no longer opens anything was replaced by a later unlock.
Tokens == {"none", "old", "current"}

Stages == {"idle", "auth", "status", "set", "run", "report"}

NoForm == <<>>

NoMessage == [at |-> "none", kind |-> "none", op |-> "none", form |-> NoForm,
              token |-> "none", code |-> 0]

\* A request on its way (sent) or its answer (answered).
Message(kind, op, form, token) ==
    [at |-> "sent", kind |-> kind, op |-> op, form |-> form,
     token |-> token, code |-> 0]

\* The request being served: the call of the library to make next, and what
\* comes after a connect().
NotServing == [for |-> "none", kind |-> "none", op |-> "none", next |-> "none",
               then |-> "none", ok |-> TRUE]

Init ==
    /\ Session!Init
    /\ page = [authorized |-> FALSE, hydrated |-> FALSE, enabled |-> FALSE,
               token |-> "none", stage |-> "idle", op |-> "none"]
    /\ act = NoMessage /\ poll = NoMessage
    /\ config = [f \in Names |-> "given"]
    /\ stale = Names
    /\ connected = FALSE
    /\ begun = FALSE
    /\ serving = NotServing
    /\ refused = FALSE

-----------------------------------------------------------------------------
(* The page.                                                                 *)

Pending(p) == p.stage # "idle"

\* applyUnauthorized().
Unauthorized(p) ==
    [p EXCEPT !.authorized = FALSE, !.token = "none", !.enabled = FALSE]

\* A mutant: the buttons come back while a chain is in progress.
RenderStatusAlways(p) == [p EXCEPT !.hydrated = TRUE, !.enabled = p.authorized]

\* renderStatus(): the form is filled in once, the buttons are enabled unless
\* a chain is in progress.
RenderStatus(p) ==
    [p EXCEPT !.hydrated = TRUE,
              !.enabled = IF Pending(p) THEN @ ELSE p.authorized]

Finished(p) == [p EXCEPT !.stage = "idle", !.op = "none"]

\* unlockHarness(): the button is there at all times.
Unlock ==
    /\ ~Pending(page)
    /\ page' = [page EXCEPT !.stage = "auth"]
    /\ \E passcode \in {"right", "wrong"} :
          act' = Message("auth", passcode, NoForm, page.token)
    /\ UNCHANGED <<poll, server, library>>

\* The answer to the chain's request has come.
Answered(stage, code) ==
    /\ page.stage = stage
    /\ act.at = "answered" /\ act.code = code
    /\ UNCHANGED <<poll, server, library>>

\* The chain goes on with another request, under the token the page has now.
Continue(p, stage, kind) ==
    /\ page' = [p EXCEPT !.stage = stage]
    /\ act' = Message(kind, p.op, NoForm, p.token)

Stop(p) == page' = Finished(p) /\ act' = NoMessage

Unlocked ==
    /\ Answered("auth", 200)
    /\ Continue([page EXCEPT !.authorized = TRUE, !.token = act.token],
                "status", "status")

\* A mutant: the page goes on waiting for the chain that was refused.
StopUnlessRefused(p) == page' = Unauthorized(p) /\ act' = NoMessage

StopUnauthorized(p) == Stop(Unauthorized(p))

ChainRefused ==
    /\ page.stage # "idle"
    /\ Answered(page.stage, 401)
    /\ StopUnauthorized(page)

UnlockShowsStatus == Answered("status", 200) /\ Stop(RenderStatus(page))

\* doAction(), doFsAction(): the form is saved first.
Click(op) ==
    /\ page.enabled /\ ~Pending(page) /\ page.authorized
    /\ page' = [page EXCEPT !.stage = "set", !.op = op, !.enabled = FALSE]
    /\ \E form \in PageForms : act' = Message("set", "none", form, page.token)
    /\ UNCHANGED <<poll, server, library>>

\* The chain goes on whether the settings were accepted or not.
Saved ==
    \E code \in {200, 400} :
        /\ Answered("set", code)
        /\ Continue(RenderStatus(page), "run",
                    IF page.op \in {"connect", "upload", "download", "quit"}
                    THEN "action" ELSE "fs")

Done ==
    \E code \in {200, 400, 413, 500} :
        /\ Answered("run", code)
        /\ Stop(IF act.kind = "action" THEN RenderStatus(page) ELSE page)

\* exportReport().
Export ==
    /\ page.enabled /\ ~Pending(page) /\ page.authorized
    /\ page' = [page EXCEPT !.stage = "report", !.enabled = FALSE]
    /\ act' = Message("report", "none", NoForm, page.token)
    /\ UNCHANGED <<poll, server, library>>

Exported == Answered("report", 200) /\ Stop(page)

\* The chain's request, or its answer, is lost: fetch() rejects.
ChainFails ==
    /\ Pending(page)
    /\ act.at \in {"sent", "answered"} /\ serving.for # "act"
    /\ Stop(IF page.stage = "auth" THEN Unauthorized(page) ELSE page)
    /\ UNCHANGED <<poll, server, library>>

\* refreshStatus(), by the timer or after a chain.  One at a time is a bound
\* of the model: a browser may have more on their way.
Refresh ==
    /\ page.authorized
    /\ poll.at = "none"
    /\ poll' = Message("status", "none", NoForm, page.token)
    /\ UNCHANGED <<page, act, server, library>>

Refreshed ==
    /\ poll.at = "answered" /\ poll.code = 200
    /\ page' = RenderStatus(page)
    /\ poll' = NoMessage
    /\ UNCHANGED <<act, server, library>>

\* The refusal of an old token locks the page even if it has a new one.
RefreshRefused ==
    /\ poll.at = "answered" /\ poll.code = 401
    /\ page' = Unauthorized(page)
    /\ poll' = NoMessage
    /\ UNCHANGED <<act, server, library>>

\* A refresh is lost.  /status changes nothing, so that a lost request is as
\* good as a lost answer.
RefreshFails ==
    /\ poll.at = "answered"
    /\ poll' = NoMessage
    /\ UNCHANGED <<page, act, server, library>>

-----------------------------------------------------------------------------
(* The sketch: a request comes in.                                           *)

\* The answer to the request at hand, sent to whoever asked.
WithAnswer(m, code) == [m EXCEPT !.at = "answered", !.code = code,
                                 !.form = NoForm, !.token = "none"]

Answer(who, code) ==
    /\ act' = IF who = "act" THEN WithAnswer(act, code) ELSE act
    /\ poll' = IF who = "poll" THEN WithAnswer(poll, code) ELSE poll

\* handleClient(): a request for a route that needs the token, with it or
\* without.  A script always has the one in force.
Receives(who, kind) ==
    /\ serving = NotServing
    /\ \/ who = "act" /\ act.at = "sent" /\ act.kind = kind
       \/ who = "poll" /\ poll.at = "sent" /\ poll.kind = kind
       \/ who = "script"

Permitted(who) ==
    \/ who = "act" /\ act.token = "current"
    \/ who = "poll" /\ poll.token = "current"
    \/ who = "script"

Requester == {"act", "poll", "script"}

ServeUnauthorized(who) ==
    /\ \E kind \in {"status", "set", "action", "fs", "report"} :
          Receives(who, kind)
    /\ ~Permitted(who)
    /\ Answer(who, 401)
    /\ UNCHANGED <<page, server, library>>

\* handleAuthRequest(): a new token, and every other is void.
Aged(token) == IF token = "current" THEN "old" ELSE token

ServeAuth(who) ==
    /\ Receives(who, "auth")
    /\ \/ /\ who = "script" \/ act.op = "right"
          /\ page' = [page EXCEPT !.token = Aged(@)]
          /\ act' = IF who = "act"
                    THEN [WithAnswer(act, 200) EXCEPT !.token = "current"]
                    ELSE [act EXCEPT !.token = Aged(@)]
          /\ poll' = [poll EXCEPT !.token = Aged(@)]
       \/ /\ who = "act" /\ act.op = "wrong"
          /\ Answer(who, 401)
          /\ UNCHANGED page
    /\ UNCHANGED <<server, library>>

\* sendStatusJson(), sendReportText().
ServeStatus(who) ==
    /\ \E kind \in {"status", "report"} : Receives(who, kind)
    /\ Permitted(who)
    /\ Answer(who, 200)
    /\ UNCHANGED <<page, server, library>>

Taken(field) == field.value \in {"given", "blank"}

\* The fields that are looked at: up to the first that cannot be taken.
Reached(form) ==
    {i \in DOMAIN form : \A j \in DOMAIN form : j < i => Taken(form[j])}

\* Those that set f.  A value that is too long sets it too, to an empty one.
Setting(form, f) ==
    {i \in Reached(form) : form[i].name = f /\ form[i].value # "wrong"}

\* A mutant: what cannot be taken is passed over.
ApplyWhatFits(form) ==
    LET sets(f) == {i \in DOMAIN form : form[i].name = f /\ Taken(form[i])}
    IN  [config |-> [f \in Names |->
                       IF sets(f) = {} THEN config[f]
                       ELSE form[CHOOSE i \in sets(f) : TRUE].value],
         changed |-> {f \in Names : sets(f) # {}},
         ok |-> TRUE]

\* applyConfigFromQuery(): field by field, up to the first it cannot take.  A
\* setting that is not posted stays as it is; a form that posts none is
\* accepted.
ApplyConfig(form) ==
    LET last(f) == CHOOSE i \in Setting(form, f) :
                      \A j \in Setting(form, f) : j <= i
    IN  [config |-> [f \in Names |->
                       CASE Setting(form, f) = {} -> config[f]
                         [] Setting(form, f) # {} ->
                              IF form[last(f)].value = "given" THEN "given"
                                                               ELSE "blank"],
         changed |-> {f \in Names : Setting(form, f) # {}},
         ok |-> \A i \in DOMAIN form : Taken(form[i])]

\* handleSetRequest().
ServeSet(who) ==
    /\ Receives(who, "set") /\ Permitted(who)
    /\ \E form \in (IF who = "act" THEN {act.form} ELSE ScriptForms) :
          LET set == ApplyConfig(form)
          IN  /\ config' = set.config
              /\ stale' = (IF who = "act" THEN Names ELSE stale) \ set.changed
              /\ refused' = IF who = "act" THEN ~set.ok ELSE refused
              /\ Answer(who, IF set.ok THEN 200 ELSE 400)
    /\ UNCHANGED <<page, connected, begun, serving, library>>

-----------------------------------------------------------------------------
(* The sketch: /action, one step for each call of the library.               *)

Given(name) == config[name] # "blank"

\* runConnectAction(): its checks, then begin() once and connect().
FirstConnectCall == IF ~Given("server") THEN "refuse"
                    ELSE IF begun THEN "connect" ELSE "begin"

\* What a request calls first, or that it is turned down at once.
FirstCall(op) ==
    CASE op = "connect" -> FirstConnectCall
      [] op = "upload" -> IF connected /\ Given("path")
                          THEN "store" ELSE "refuse"
      [] op = "download" -> IF connected /\ Given("path")
                            THEN "retrieve" ELSE "refuse"
      [] op = "quit" -> "quit"

ActionOps == {"connect", "upload", "download", "quit"}

\* A connect without settings and a transfer before it are turned down.
ServeAction(who) ==
    /\ Receives(who, "action") /\ Permitted(who)
    /\ \E op \in (IF who = "act" THEN {act.op} ELSE ScriptOps \cap ActionOps) :
          IF FirstCall(op) = "refuse"
          THEN /\ Answer(who, 500)
               /\ UNCHANGED serving
          ELSE /\ serving' = [for |-> who, kind |-> "action", op |-> op,
                              next |-> FirstCall(op), then |-> "answer", ok |-> TRUE]
               /\ UNCHANGED <<act, poll>>
    /\ UNCHANGED <<page, settings, connected, begun, library>>

\* The library is called and returns; only some of its errors are told apart.
Calls(name) ==
    /\ serving.next = name
    /\ UNCHANGED <<page, settings>>

Returned == outcome'.lastError \in Errors

\* The request at hand ends with the call that has just returned.
Ends(nowConnected) ==
    /\ serving' = NotServing
    /\ connected' = nowConnected
    /\ Answer(serving.for, IF outcome'.ok THEN 200 ELSE 500)

\* It goes on with another call.
GoesOn(next, nowConnected) ==
    /\ serving' = [serving EXCEPT !.next = next, !.ok = @ /\ outcome'.ok]
    /\ connected' = nowConnected
    /\ UNCHANGED <<act, poll>>

\* ensureFtpsBegun().
CallBegin ==
    /\ Calls("begin")
    /\ up' = FALSE
    /\ Session!Cleared("begin") \/ Session!Fails("begin")
    /\ Returned
    /\ begun' = outcome'.ok
    /\ IF outcome'.ok THEN GoesOn("connect", connected) ELSE Ends(FALSE)

\* A mutant: the connect() that was asked for is taken for one /fs makes.
AfterConnectGoOn == GoesOn(serving.then, TRUE)

\* What follows a connect() that succeeded: the answer, if it was asked for.
AfterConnect == IF serving.then = "answer" THEN Ends(TRUE)
                                           ELSE GoesOn(serving.then, TRUE)

CallConnect ==
    /\ Calls("connect")
    /\ \/ up' = TRUE /\ Session!Connected("connect") /\ AfterConnect
       \/ up' = FALSE /\ Session!Fails("connect") /\ Ends(FALSE)
       \/ Session!Refused("connect") /\ Ends(FALSE)
    /\ Returned
    /\ UNCHANGED begun

\* A call that needs a session returns.
CallReturns(name) ==
    /\ Calls(name)
    /\ up' \in BOOLEAN
    /\ Session!Succeeds(name) \/ Session!FailsSoftly(name) \/ Session!Fails(name)
    /\ Returned
    /\ UNCHANGED begun

CallTransfer ==
    \E name \in {"store", "retrieve"} :
        /\ serving.kind = "action"
        /\ CallReturns(name)
        /\ Ends(connected)

\* A mutant: gStatus still says connected.
QuitEndsConnected(ok) ==
    /\ connected' = connected
    /\ Answer(serving.for, IF ok THEN 200 ELSE 500)

QuitEnds(ok) ==
    /\ connected' = FALSE
    /\ Answer(serving.for, IF ok THEN 200 ELSE 500)

\* quit() returns nothing: lastError() decides, which it may not have set.
CallQuit ==
    /\ Calls("quit")
    /\ up' = FALSE
    /\ Session!QuitReturns
    /\ Returned
    /\ serving' = NotServing
    /\ QuitEnds(outcome'.lastError # "QuitFailed")
    /\ UNCHANGED begun

-----------------------------------------------------------------------------

\* What a user may do at any time, and what a network may.
Clicks == Unlock \/ (\E op \in PageOps : Click(op)) \/ Export

Losses == ChainFails \/ RefreshFails

\* The steps the page takes by itself.
ChainGoesOn ==
    Unlocked \/ UnlockShowsStatus \/ ChainRefused \/ Saved \/ Done \/ Exported

RefreshAnswered == Refreshed \/ RefreshRefused

\* The routes both sketches have.
ServeCommon(who) ==
    \/ ServeUnauthorized(who) \/ ServeAuth(who) \/ ServeStatus(who)
    \/ ServeSet(who) \/ ServeAction(who)

LibraryCommon == CallBegin \/ CallConnect \/ CallTransfer \/ CallQuit

=============================================================================
