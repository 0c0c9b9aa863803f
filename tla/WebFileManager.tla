--------------------------- MODULE WebFileManager ---------------------------
(***************************************************************************)
(* The web file manager: the web harness with the route /fs, which works on *)
(* the server's files and connects by itself when gStatus says there is no  *)
(* session.                                                                *)
(***************************************************************************)
EXTENDS WebHarness

FsOps == {"local-list", "remote-list", "remote-mkdir", "delete", "move", "copy"}

\* A click asks for an operation that one of the two routes has.
ASSUME PageOpsAssumption == PageOps \subseteq ActionOps \cup FsOps

\* The call each operation makes first, once there is a session.
RemoteCall(op) ==
    CASE op = "remote-list" -> "list"
      [] op = "remote-mkdir" -> "mkd"
      [] op = "delete" -> "dele"
      [] op = "move" -> "rename"
      [] op = "copy" -> "size"

\* A remote operation that is to be served: its names are looked at only after
\* the session; remote-list takes "/" for a missing one.
Begins(who, op, call) ==
    /\ serving' = [for |-> who, kind |-> "fs", op |-> op, then |-> call,
                   ok |-> TRUE,
                   next |-> IF connected THEN call ELSE FirstConnectCall]
    /\ UNCHANGED <<act, poll>>

ServeFs(who) ==
    /\ Receives(who, "fs") /\ Permitted(who)
    /\ \E op \in (IF who = "act" THEN {act.op} ELSE ScriptOps \cap FsOps) :
          \/ /\ op = "local-list"
             /\ \E code \in {200, 500} : Answer(who, code)
             /\ UNCHANGED serving
          \/ /\ op # "local-list"
             /\ ~connected /\ FirstConnectCall = "refuse"
             /\ Answer(who, 500)
             /\ UNCHANGED serving
          \/ /\ op # "local-list"
             /\ connected \/ FirstConnectCall # "refuse"
             /\ \/ Begins(who, op, RemoteCall(op))
                \/ op # "remote-list" /\ Begins(who, op, "badRequest")
    /\ UNCHANGED <<page, settings, connected, begun, library>>

\* A name is missing.
FsBadRequest ==
    /\ Calls("badRequest")
    /\ serving' = NotServing
    /\ Answer(serving.for, 400)
    /\ UNCHANGED <<connected, begun, library>>

FsCall(name) == serving.kind = "fs" /\ CallReturns(name)

\* The operations of one call.
FsCommand ==
    \E name \in {"list", "mkd", "rename"} : FsCall(name) /\ Ends(connected)

\* delete: a name that is no file may be that of a directory.
FsDele ==
    /\ FsCall("dele")
    /\ IF outcome'.ok THEN Ends(connected) ELSE GoesOn("rmd", connected)

FsRmd == FsCall("rmd") /\ Ends(connected)

\* A mutant: the copy goes on whatever the preflight says.
CopyGoesOnAnyway(next) == GoesOn(next, connected)

\* copy: a step that fails ends it.
CopyGoesOn(next) ==
    IF outcome'.ok THEN GoesOn(next, connected) ELSE Ends(connected)

\* A file of more than kDownloadBufferSize bytes is turned down.  One of
\* exactly that many is let through, and retrieve() reports it as failed.
FsSize ==
    /\ FsCall("size")
    /\ \/ CopyGoesOn("retrieve")
       \/ /\ outcome'.ok
          /\ serving' = NotServing
          /\ Answer(serving.for, 413)
          /\ UNCHANGED connected

FsRetrieve == FsCall("retrieve") /\ CopyGoesOn("store")

FsStore == FsCall("store") /\ Ends(connected)

Fs == FsBadRequest \/ FsCommand \/ FsDele \/ FsRmd \/ FsSize \/ FsRetrieve
         \/ FsStore

-----------------------------------------------------------------------------

Serve(who) == ServeCommon(who) \/ ServeFs(who)

Library == LibraryCommon \/ Fs

Next ==
    \/ Clicks \/ Losses \/ ChainGoesOn \/ Refresh \/ RefreshAnswered
    \/ \E who \in Requester : Serve(who)
    \/ Library

Spec == Init /\ [][Next]_vars

\* The page handles what it gets and its timer goes on; the library returns
\* (FtpsSession's run shows it); the page's requests are served in the end
\* although scripts go on asking, and a network that loses some of the
\* refresh's answers does not lose all of them.
FairSpec ==
    /\ Spec
    /\ WF_vars(ChainGoesOn) /\ WF_vars(Refresh) /\ WF_vars(Library)
    /\ SF_vars(Serve("act")) /\ SF_vars(Serve("poll"))
    /\ SF_vars(RefreshAnswered)

-----------------------------------------------------------------------------
(* Properties. *)

Messages ==
    [at: {"none", "sent", "answered"},
     kind: {"none", "auth", "status", "set", "action", "fs", "report"},
     op: PageOps \cup {"none", "right", "wrong"}, form: PageForms \cup {NoForm},
     token: Tokens, code: {0, 200, 400, 401, 413, 500}]

\* Type correctness.
TypeOK ==
    /\ page \in [authorized: BOOLEAN, hydrated: BOOLEAN, enabled: BOOLEAN,
                 token: Tokens, stage: Stages, op: PageOps \cup {"none"}]
    /\ act \in Messages /\ poll \in Messages
    /\ config \in [Names -> {"given", "blank"}]
    /\ stale \in SUBSET Names
    /\ serving \in [for: Requester \cup {"none"}, kind: {"none", "action", "fs"},
                    op: ActionOps \cup FsOps \cup {"none"},
                    next: LibraryOps \cup {"begin", "connect", "quit",
                                          "badRequest", "none"},
                    then: LibraryOps \cup {"badRequest", "answer", "none"},
                    ok: BOOLEAN]
    /\ connected \in BOOLEAN
    /\ begun \in BOOLEAN
    /\ refused \in BOOLEAN

\* The buttons work only on a page that is unlocked, has filled in its form
\* from the sketch, so that a click never saves a blank form over the settings,
\* and has no click in progress.  The refresh's answers, which enable the
\* buttons, come at any time.
EnabledOnlyWhenReady ==
    page.enabled => /\ page.authorized /\ page.hydrated
                    /\ page.stage \notin {"set", "run", "report"}

\* The operation of a click runs with the form that was saved for it: while it
\* is on its way, and its save was not refused, no setting is older than that
\* save.  The page's two requests may have a script's saves before, between and
\* after them, which post any part of the settings, and be lost or refused at
\* any point.  What a script posts after the page's save is not excluded: the
\* sketch does not tie an operation to the save before it.
ClickRunsItsForm ==
    page.stage = "run" /\ act.at = "sent" /\ ~refused => stale = {}

\* When gStatus.connected and the session disagree, the last call of the
\* library says why: it lost the session with a session-dead error, or it was
\* a connect() refused before it touched the session.
DisagreementExplained ==
    /\ connected /\ ~up => IsSessionDead(outcome.lastError)
    /\ ~connected /\ up => outcome.op = "connect" /\ ~outcome.ok

\* The chain of every click ends, and an unlocked page does not stay without
\* its buttons.
PageComesBack ==
    /\ []<>~Pending(page)
    /\ []<>~(page.authorized /\ ~Pending(page) /\ ~page.enabled)

\* A request of the page is answered 200 by /fs, local-list apart, only while
\* there is a session and gStatus knows of it, and, delete apart, when no call
\* made for it has failed: a step of a copy that failed is not taken for done,
\* although a connect() nobody asked for and three calls may lie between the
\* request and its answer.
FsSuccessMeansDone ==
    [][act'.at = "answered" /\ act.at = "sent" /\ act.kind = "fs"
         /\ act.op # "local-list" /\ act'.code = 200
           => /\ up' /\ connected' /\ outcome'.ok
              /\ serving.ok \/ act.op = "delete"]_vars

-----------------------------------------------------------------------------
(* What the documentation says and the code does not do. *)

\* "If the FTPS server drops the connection between harness operations,
\* gStatus.connected remains true until the next store()/retrieve() fails"
\* (CODE REVIEW/FINAL_PASS_04152026.md:89).
ConnectedUntilTransferFails ==
    outcome.op \in {"store", "retrieve"} /\ IsSessionDead(outcome.lastError)
        => ~connected

=============================================================================
