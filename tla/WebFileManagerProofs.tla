------------------------ MODULE WebFileManagerProofs ------------------------
(***************************************************************************)
(* WebFileManager's safety properties, for any operations, forms and       *)
(* errors.  What carries them is how the sketch's request in progress      *)
(* (serving) agrees with the page's request it came from (act), with       *)
(* gStatus.connected and with gFtpsBegun: a call that needs a session is   *)
(* made only when gStatus says there is one, and a call made for the page  *)
(* is made while the page waits for it.                                    *)
(***************************************************************************)
EXTENDS WebFileManager, TLAPS

\* The page knows what it is doing, and its request says it.
RequestFits ==
    /\ page.stage \in {"set", "run"} => page.op \in PageOps
    /\ act.at = "sent" /\ act.kind = "action" =>
         page.stage = "run" /\ act.op \in ActionOps
    /\ act.at = "sent" /\ act.kind = "fs" =>
         page.stage = "run" /\ act.op \in FsOps
    /\ act.at = "sent" /\ act.kind = "set" => act.form \in PageForms
    /\ page.stage = "set" => act.kind = "set"

\* The page's save, from its answer to the end of the operation it is for: it
\* was refused, or it left no older setting.
SaveFits ==
    \/ page.stage = "run"
    \/ page.stage = "set" /\ act.at = "answered" /\ act.code \in {200, 400}
    => refused \/ stale = {}

\* A request served for the page is the one it waits for.
ServingFits ==
    serving.for = "act" =>
        /\ act.at = "sent" /\ act.kind \in {"action", "fs"}
        /\ act.kind = serving.kind /\ act.op = serving.op

\* What is to be called next, and after it, against what the sketch knows.
CallFits ==
    /\ serving.kind = "none" => serving.next = "none"
    /\ connected => begun
    /\ serving.next = "begin" => ~begun
    /\ serving.next = "connect" => begun
    /\ serving.next \in LibraryOps => connected
    /\ serving.kind = "fs" =>
         serving.next # "quit" /\ serving.then \in LibraryOps \cup {"badRequest"}
    /\ serving.kind = "action" => serving.then = "answer"
    /\ "dele" \in {serving.next, serving.then} => serving.op = "delete"
    /\ serving.op # "delete" => serving.ok

WebInv ==
    /\ TypeOK /\ EnabledOnlyWhenReady /\ SaveFits
    /\ RequestFits /\ ServingFits /\ CallFits /\ DisagreementExplained

-----------------------------------------------------------------------------
(* The sketch and the library stand still, or the page does. *)

\* What the page does leaves the sketch alone.
LEMMA ServerStill ==
    ASSUME WebInv, UNCHANGED <<server, library>>
    PROVE  CallFits' /\ DisagreementExplained'
BY DEF WebInv, server, library, CallFits, DisagreementExplained

\* The typing of the sketch's state.
ServerTyped ==
    /\ config \in [Names -> {"given", "blank"}]
    /\ stale \in SUBSET Names
    /\ serving \in [for: Requester \cup {"none"}, kind: {"none", "action", "fs"},
                    op: ActionOps \cup FsOps \cup {"none"},
                    next: LibraryOps \cup {"begin", "connect", "quit",
                                          "badRequest", "none"},
                    then: LibraryOps \cup {"badRequest", "answer", "none"},
                    ok: BOOLEAN]
    /\ connected \in BOOLEAN
    /\ begun \in BOOLEAN
    /\ refused \in BOOLEAN

Pages == [authorized: BOOLEAN, hydrated: BOOLEAN, enabled: BOOLEAN,
          token: Tokens, stage: Stages, op: PageOps \cup {"none"}]

LEMMA TypeParts ==
    TypeOK <=> page \in Pages /\ act \in Messages /\ poll \in Messages
                 /\ ServerTyped
BY DEF TypeOK, Pages, ServerTyped

LEMMA ServerStillTyped ==
    ASSUME WebInv, UNCHANGED server
    PROVE  ServerTyped'
BY TypeParts DEF WebInv, server, settings, ServerTyped

\* A request and its answer are messages.
LEMMA MessageTyped ==
    ASSUME NEW kind \in {"auth", "status", "set", "action", "fs", "report"},
           NEW op \in PageOps \cup {"none", "right", "wrong"},
           NEW form \in PageForms \cup {NoForm}, NEW token \in Tokens
    PROVE  Message(kind, op, form, token) \in Messages
BY DEF Message, Messages

LEMMA NoMessageTyped == NoMessage \in Messages
BY DEF NoMessage, Messages, Tokens

LEMMA WithAnswerTyped ==
    ASSUME NEW m \in Messages, NEW code \in {200, 400, 401, 413, 500}
    PROVE  /\ WithAnswer(m, code) \in Messages
           /\ WithAnswer(m, code).at = "answered"
           /\ WithAnswer(m, code).code = code
           /\ WithAnswer(m, code).kind = m.kind
           /\ WithAnswer(m, code).op = m.op
<1>1. WithAnswer(m, code) \in Messages
  <2>1. \A n \in Messages : /\ [n EXCEPT !.at = "answered"] \in Messages
                            /\ [n EXCEPT !.code = code] \in Messages
                            /\ [n EXCEPT !.form = NoForm] \in Messages
    BY DEF Messages
  <2>2. \A n \in Messages : [n EXCEPT !.token = "none"] \in Messages
    BY DEF Messages, Tokens
  <2> HIDE DEF Messages
  <2> QED BY <2>1, <2>2, Zenon DEF WithAnswer
<1>2. /\ WithAnswer(m, code).at = "answered"
      /\ WithAnswer(m, code).code = code
  BY DEF WithAnswer, Messages
<1>3. /\ WithAnswer(m, code).kind = m.kind
      /\ WithAnswer(m, code).op = m.op
  BY DEF WithAnswer, Messages
<1> QED BY <1>1, <1>2, <1>3

-----------------------------------------------------------------------------
(* The page. *)

\* A step of the page: its request is a new one or none, it says so, and the
\* sketch serves no request of its chain.
LEMMA PageStep ==
    ASSUME WebInv, UNCHANGED <<server, library>>,
           page' \in Pages, act' \in Messages, poll' \in Messages,
           EnabledOnlyWhenReady', RequestFits', SaveFits',
           serving.for # "act" \/ UNCHANGED act
    PROVE  WebInv'
<1>1. TypeOK'
  BY ServerStillTyped DEF TypeOK, Pages, ServerTyped
<1>2. ServingFits'
  BY DEF WebInv, ServingFits, server
<1> QED BY <1>1, <1>2, ServerStill DEF WebInv

\* Nothing is served for a page whose chain has its answer, or has none.
LEMMA NotServed ==
    ASSUME WebInv, act.at = "answered" \/ ~Pending(page)
    PROVE  serving.for # "act"
BY DEF WebInv, ServingFits, RequestFits, Pending

LEMMA UnlockKeeps == ASSUME WebInv, Unlock PROVE WebInv'
<1> USE DEF Unlock
<1>1. PICK passcode \in {"right", "wrong"} :
        act' = Message("auth", passcode, NoForm, page.token)
  OBVIOUS
<1>2. page \in Pages
  BY TypeParts DEF WebInv
<1>3. act' \in Messages
  BY <1>1, <1>2, MessageTyped DEF Pages
<1>4. page' \in Pages /\ EnabledOnlyWhenReady'
  BY <1>2 DEF Pages, Stages, WebInv, EnabledOnlyWhenReady
<1>5. RequestFits' /\ SaveFits'
  BY <1>1, <1>2 DEF RequestFits, SaveFits, Message, Pages
<1> QED BY <1>3, <1>4, <1>5, PageStep, NotServed, TypeParts DEF WebInv

\* renderStatus() and the refusal of a token keep the buttons' promise.
LEMMA RenderStatusKeeps ==
    ASSUME NEW p \in Pages
    PROVE  /\ RenderStatus(p) \in Pages
           /\ RenderStatus(p).stage = p.stage /\ RenderStatus(p).op = p.op
           /\ RenderStatus(p).token = p.token
           /\ RenderStatus(p).authorized = p.authorized
           /\ RenderStatus(p).hydrated
           /\ RenderStatus(p).enabled = IF Pending(p) THEN p.enabled ELSE p.authorized
BY DEF Pages, RenderStatus, Pending

LEMMA UnauthorizedKeeps ==
    ASSUME NEW p \in Pages
    PROVE  /\ Unauthorized(p) \in Pages
           /\ Unauthorized(p).stage = p.stage /\ Unauthorized(p).op = p.op
           /\ ~Unauthorized(p).enabled
BY DEF Pages, Unauthorized, Tokens

\* A chain that ends leaves no request behind.
LEMMA StopKeeps ==
    ASSUME WebInv, serving.for # "act", UNCHANGED <<poll, server, library>>,
           NEW p \in Pages, Stop(p),
           p.enabled => p.authorized /\ p.hydrated
    PROVE  WebInv'
<1>1. page' \in Pages /\ EnabledOnlyWhenReady'
  BY DEF Stop, Finished, Pages, Stages, EnabledOnlyWhenReady
<1>2. act' \in Messages
  BY NoMessageTyped DEF Stop
<1>3. RequestFits' /\ SaveFits'
  BY DEF Stop, Finished, Pages, NoMessage, RequestFits, SaveFits
<1> QED BY <1>1, <1>2, <1>3, PageStep, TypeParts DEF WebInv

LEMMA AnsweredFacts ==
    ASSUME WebInv, NEW stage, NEW code, Answered(stage, code)
    PROVE  /\ page \in Pages /\ act \in Messages
           /\ page.stage = stage /\ serving.for # "act"
           /\ page.enabled => page.authorized /\ page.hydrated
           /\ page.enabled => page.stage \notin {"set", "run", "report"}
           /\ UNCHANGED <<poll, server, library>>
BY NotServed, TypeParts DEF WebInv, Answered, EnabledOnlyWhenReady

LEMMA UnlockedKeeps == ASSUME WebInv, Unlocked PROVE WebInv'
<1> DEFINE p == [page EXCEPT !.authorized = TRUE, !.token = act.token]
<1>1. Answered("auth", 200) /\ Continue(p, "status", "status")
  BY DEF Unlocked
<1>2. page \in Pages /\ act.token \in Tokens
  BY <1>1, AnsweredFacts DEF Messages
<1>3. /\ p \in Pages /\ p.token = act.token /\ p.op = page.op
      /\ p.enabled = page.enabled /\ p.authorized /\ p.hydrated = page.hydrated
  BY <1>2 DEF Pages
<1> HIDE DEF p
<1>4. act' \in Messages
  BY <1>1, <1>2, <1>3, MessageTyped DEF Continue, Pages
<1>5. page' \in Pages /\ EnabledOnlyWhenReady'
  BY <1>1, <1>2, <1>3, AnsweredFacts
     DEF Continue, Pages, Stages, EnabledOnlyWhenReady
<1>6. RequestFits' /\ SaveFits'
  BY <1>1, <1>3 DEF Continue, Message, Pages, RequestFits, SaveFits
<1> QED BY <1>1, <1>4, <1>5, <1>6, AnsweredFacts, PageStep, TypeParts DEF WebInv

LEMMA ChainRefusedKeeps == ASSUME WebInv, ChainRefused PROVE WebInv'
<1>1. Answered(page.stage, 401) /\ Stop(Unauthorized(page))
  BY DEF ChainRefused, StopUnauthorized
<1> QED BY <1>1, AnsweredFacts, UnauthorizedKeeps, StopKeeps

LEMMA UnlockShowsStatusKeeps == ASSUME WebInv, UnlockShowsStatus PROVE WebInv'
<1>1. Answered("status", 200) /\ Stop(RenderStatus(page))
  BY DEF UnlockShowsStatus
<1> QED BY <1>1, AnsweredFacts, RenderStatusKeeps, StopKeeps

LEMMA ClickKeeps == ASSUME WebInv, NEW op \in PageOps, Click(op) PROVE WebInv'
<1> USE DEF Click
<1>1. PICK form \in PageForms : act' = Message("set", "none", form, page.token)
  OBVIOUS
<1>2. page \in Pages
  BY TypeParts DEF WebInv
<1>3. act' \in Messages
  BY <1>1, <1>2, MessageTyped DEF Pages
<1>4. page' \in Pages /\ EnabledOnlyWhenReady'
  BY <1>2 DEF Pages, Stages, EnabledOnlyWhenReady
<1>5. RequestFits' /\ SaveFits'
  BY <1>1, <1>2 DEF RequestFits, SaveFits, Message, Pages
<1> QED BY <1>3, <1>4, <1>5, PageStep, NotServed, TypeParts DEF WebInv

\* Which route an operation belongs to decides what kind the request is.
LEMMA SavedKeeps == ASSUME WebInv, Saved PROVE WebInv'
<1> DEFINE kind == IF page.op \in {"connect", "upload", "download", "quit"}
                   THEN "action" ELSE "fs"
           p == RenderStatus(page)
<1>1. PICK code \in {200, 400} : Answered("set", code) /\ Continue(p, "run", kind)
  BY DEF Saved
<1>2. page \in Pages /\ page.op \in PageOps
  BY <1>1, AnsweredFacts DEF WebInv, RequestFits
<1>3. /\ p \in Pages /\ p.op = page.op
      /\ p.enabled = page.enabled
  BY <1>1, <1>2, RenderStatusKeeps, AnsweredFacts DEF Pending
<1>4. /\ kind \in {"action", "fs"}
      /\ kind = "action" => page.op \in ActionOps
      /\ kind = "fs" => page.op \in FsOps
  <2>1. page.op \in ActionOps \/ page.op \in FsOps
    BY <1>2, PageOpsAssumption
  <2> QED BY <2>1 DEF ActionOps
<1> HIDE DEF p, kind
<1>5. act' \in Messages
  BY <1>1, <1>2, <1>3, <1>4, MessageTyped DEF Continue, Pages
<1>6. page' \in Pages /\ EnabledOnlyWhenReady'
  BY <1>1, <1>3, AnsweredFacts DEF Continue, Pages, Stages, EnabledOnlyWhenReady
<1>7. RequestFits'
  BY <1>1, <1>2, <1>3, <1>4 DEF Continue, Message, Pages, RequestFits
<1>8. SaveFits'
  BY <1>1, AnsweredFacts DEF WebInv, Answered, SaveFits, server, settings
<1> QED
  BY <1>1, <1>5, <1>6, <1>7, <1>8, AnsweredFacts, PageStep, TypeParts DEF WebInv

LEMMA DoneKeeps == ASSUME WebInv, Done PROVE WebInv'
<1>1. PICK code \in {200, 400, 413, 500} :
        /\ Answered("run", code)
        /\ Stop(IF act.kind = "action" THEN RenderStatus(page) ELSE page)
  BY DEF Done
<1> QED BY <1>1, AnsweredFacts, RenderStatusKeeps, StopKeeps

LEMMA ExportKeeps == ASSUME WebInv, Export PROVE WebInv'
<1> USE DEF Export
<1>1. page \in Pages
  BY TypeParts DEF WebInv
<1>2. act' \in Messages
  BY <1>1, MessageTyped DEF Pages
<1>3. page' \in Pages /\ EnabledOnlyWhenReady'
  BY <1>1 DEF Pages, Stages, EnabledOnlyWhenReady
<1>4. RequestFits' /\ SaveFits'
  BY <1>1 DEF RequestFits, SaveFits, Message, Pages
<1> QED BY <1>2, <1>3, <1>4, PageStep, NotServed, TypeParts DEF WebInv

LEMMA ExportedKeeps == ASSUME WebInv, Exported PROVE WebInv'
BY AnsweredFacts, StopKeeps DEF Exported

LEMMA ChainFailsKeeps == ASSUME WebInv, ChainFails PROVE WebInv'
<1>1. page \in Pages /\ (page.enabled => page.authorized /\ page.hydrated)
  BY TypeParts DEF WebInv, EnabledOnlyWhenReady
<1> QED BY <1>1, UnauthorizedKeeps, StopKeeps DEF ChainFails

\* The refresh changes nothing of the chain.
LEMMA RefreshKeeps == ASSUME WebInv, Refresh PROVE WebInv'
<1>1. page \in Pages /\ poll' \in Messages
  BY TypeParts, MessageTyped DEF WebInv, Refresh, Pages
<1> QED BY <1>1, PageStep, TypeParts
        DEF WebInv, Refresh, EnabledOnlyWhenReady, RequestFits, SaveFits, server,
            settings

LEMMA RefreshAnsweredKeeps == ASSUME WebInv, RefreshAnswered PROVE WebInv'
<1>1. page \in Pages /\ act \in Messages
  BY TypeParts DEF WebInv
<1>2. poll' \in Messages /\ UNCHANGED <<act, server, library>>
  BY NoMessageTyped DEF RefreshAnswered, Refreshed, RefreshRefused
<1>3. page' \in Pages /\ page'.stage = page.stage /\ page'.op = page.op
  BY <1>1, RenderStatusKeeps, UnauthorizedKeeps
     DEF RefreshAnswered, Refreshed, RefreshRefused
<1>4. EnabledOnlyWhenReady'
  BY <1>1, RenderStatusKeeps, UnauthorizedKeeps
     DEF RefreshAnswered, Refreshed, RefreshRefused, WebInv, EnabledOnlyWhenReady,
         Pending
<1>5. RequestFits' /\ SaveFits'
  BY <1>2, <1>3 DEF WebInv, RequestFits, SaveFits, server, settings
<1> QED BY <1>1, <1>2, <1>3, <1>4, <1>5, PageStep

LEMMA RefreshFailsKeeps == ASSUME WebInv, RefreshFails PROVE WebInv'
BY PageStep, TypeParts, NoMessageTyped
   DEF WebInv, RefreshFails, EnabledOnlyWhenReady, RequestFits, SaveFits, server,
       settings

-----------------------------------------------------------------------------
(* The sketch answers. *)

\* An answer is a message, to whoever asked; the other message stays.
LEMMA AnswerTyped ==
    ASSUME WebInv, NEW who \in Requester \cup {"none"},
           NEW code \in {200, 400, 401, 413, 500}, Answer(who, code)
    PROVE  /\ act' \in Messages /\ poll' \in Messages
           /\ who = "act" => /\ act'.at = "answered" /\ act'.code = code
                             /\ act'.kind = act.kind /\ act'.op = act.op
           /\ who # "act" => act' = act
<1>1. act \in Messages /\ poll \in Messages
  BY TypeParts DEF WebInv
<1> QED BY <1>1, WithAnswerTyped DEF Answer

\* With the answer to it the request is no longer served.
LEMMA AnswerKeeps ==
    ASSUME WebInv, NEW who \in Requester \cup {"none"},
           NEW code \in {200, 400, 401, 413, 500}, Answer(who, code),
           UNCHANGED page, serving' = NotServing, ServerTyped',
           SaveFits', DisagreementExplained', connected' => begun'
    PROVE  WebInv'
<1>1. act' \in Messages /\ poll' \in Messages /\ (act' = act \/ act'.at = "answered")
  BY AnswerTyped
<1>2. page' \in Pages /\ EnabledOnlyWhenReady'
  BY TypeParts DEF WebInv, EnabledOnlyWhenReady
<1>3. TypeOK'
  BY <1>1, <1>2 DEF TypeOK, Pages, ServerTyped
<1>4. RequestFits'
  <2>1. act' = act \/ (act'.at = "answered" /\ act'.kind = act.kind)
    BY AnswerTyped
  <2> QED BY <2>1 DEF WebInv, RequestFits
<1>5. ServingFits' /\ CallFits'
  BY DEF ServingFits, CallFits, NotServing, LibraryOps
<1> QED BY <1>2, <1>3, <1>4, <1>5 DEF WebInv

\* An answer to another request, or a refusal, says nothing of the page's save.
LEMMA AnswerKeepsSave ==
    ASSUME WebInv, NEW who \in Requester \cup {"none"},
           NEW code \in {200, 400, 401, 413, 500}, Answer(who, code),
           who = "act" => act.kind # "set" \/ code = 401,
           UNCHANGED <<page, settings>>
    PROVE  SaveFits'
<1>1. \/ act' = act
      \/ act'.code = code /\ (act.kind # "set" \/ code = 401)
  BY AnswerTyped
<1> QED BY <1>1 DEF WebInv, RequestFits, SaveFits, settings

\* It is answered at once and nothing else happens.
LEMMA AnswerOnlyKeeps ==
    ASSUME WebInv, NEW who \in Requester,
           NEW code \in {200, 400, 401, 413, 500}, Answer(who, code),
           who = "act" => act.kind # "set" \/ code = 401,
           UNCHANGED <<page, server, library>>, serving = NotServing
    PROVE  WebInv'
<1>1. ServerTyped' /\ SaveFits' /\ DisagreementExplained'
  BY ServerStill, ServerStillTyped, AnswerKeepsSave DEF server
<1>2. serving' = NotServing /\ (connected' => begun')
  BY DEF server, WebInv, CallFits
<1> QED BY <1>1, <1>2, AnswerKeeps

LEMMA ServeUnauthorizedKeeps ==
    ASSUME WebInv, NEW who \in Requester, ServeUnauthorized(who) PROVE WebInv'
BY AnswerOnlyKeeps DEF ServeUnauthorized, Receives

LEMMA ServeStatusKeeps ==
    ASSUME WebInv, NEW who \in Requester, ServeStatus(who) PROVE WebInv'
BY AnswerOnlyKeeps DEF ServeStatus, Receives

\* A token is all that ages.
LEMMA AgedTyped == \A token \in Tokens : Aged(token) \in Tokens
BY DEF Aged, Tokens

LEMMA ServeAuthKeeps ==
    ASSUME WebInv, NEW who \in Requester, ServeAuth(who) PROVE WebInv'
<1>1. /\ page \in Pages /\ act \in Messages /\ poll \in Messages
      /\ serving = NotServing /\ UNCHANGED <<server, library>>
  BY TypeParts DEF WebInv, ServeAuth, Receives
<1>2. CASE Answer(who, 401) /\ UNCHANGED page
  BY <1>1, <1>2, AnswerOnlyKeeps
<1>3. CASE /\ page' = [page EXCEPT !.token = Aged(@)]
           /\ act' = IF who = "act"
                     THEN [WithAnswer(act, 200) EXCEPT !.token = "current"]
                     ELSE [act EXCEPT !.token = Aged(@)]
           /\ poll' = [poll EXCEPT !.token = Aged(@)]
  <2>1. \A m \in Messages :
           /\ [m EXCEPT !.token = "current"] \in Messages
           /\ [m EXCEPT !.token = "current"].at = m.at
           /\ [m EXCEPT !.token = "current"].kind = m.kind
    BY DEF Messages, Tokens
  <2>2. \A m \in Messages :
           /\ [m EXCEPT !.token = Aged(@)] \in Messages
           /\ [m EXCEPT !.token = Aged(@)].at = m.at
           /\ [m EXCEPT !.token = Aged(@)].kind = m.kind
           /\ [m EXCEPT !.token = Aged(@)].op = m.op
           /\ [m EXCEPT !.token = Aged(@)].form = m.form
           /\ [m EXCEPT !.token = Aged(@)].code = m.code
    BY AgedTyped DEF Messages
  <2>3. /\ WithAnswer(act, 200) \in Messages
        /\ WithAnswer(act, 200).at = "answered"
        /\ WithAnswer(act, 200).kind = act.kind
    BY <1>1, WithAnswerTyped
  <2>4. /\ act' \in Messages /\ poll' \in Messages
        /\ \/ act'.at = "answered" /\ act'.kind = "auth" /\ act.kind = "auth"
           \/ /\ act'.at = act.at /\ act'.kind = act.kind /\ act'.op = act.op
              /\ act'.form = act.form /\ act'.code = act.code
    BY <1>1, <1>3, <2>1, <2>2, <2>3 DEF ServeAuth, Receives, Requester
  <2>5. page' \in Pages /\ page'.stage = page.stage /\ page'.op = page.op
    BY <1>1, <1>3, AgedTyped DEF Pages
  <2>6. EnabledOnlyWhenReady'
    BY <1>1, <1>3 DEF Pages, WebInv, EnabledOnlyWhenReady
  <2>7. RequestFits' /\ SaveFits'
    BY <1>1, <2>4, <2>5 DEF WebInv, RequestFits, SaveFits, server, settings
  <2> QED BY <1>1, <2>4, <2>5, <2>6, <2>7, PageStep DEF NotServing
<1> QED BY <1>2, <1>3 DEF ServeAuth

\* A form that is accepted sets every setting it posts.
LEMMA Applied ==
    ASSUME config \in [Names -> {"given", "blank"}], NEW form
    PROVE  /\ ApplyConfig(form).config \in [Names -> {"given", "blank"}]
           /\ ApplyConfig(form).changed \subseteq Names
           /\ ApplyConfig(form).ok \in BOOLEAN
           /\ ApplyConfig(form).ok =>
                \A f \in Names : (\E i \in DOMAIN form : form[i].name = f)
                                   => f \in ApplyConfig(form).changed
<1> DEFINE last(f) == CHOOSE i \in Setting(form, f) :
                         \A j \in Setting(form, f) : j <= i
           value(f) == CASE Setting(form, f) = {} -> config[f]
                         [] Setting(form, f) # {} ->
                              IF form[last(f)].value = "given" THEN "given"
                                                               ELSE "blank"
           set == ApplyConfig(form)
<1>1. \A f \in Names : value(f) \in {"given", "blank"}
  <2> TAKE f \in Names
  <2>1. CASE Setting(form, f) = {}
    BY <2>1
  <2>2. CASE Setting(form, f) # {}
    BY <2>2
  <2> QED BY <2>1, <2>2
<1>2. /\ set.config = [f \in Names |-> value(f)]
      /\ set.changed = {f \in Names : Setting(form, f) # {}}
      /\ set.ok = \A i \in DOMAIN form : Taken(form[i])
  BY DEF ApplyConfig
<1> HIDE DEF set, value
<1>3. set.ok \in BOOLEAN
  BY <1>2
<1>4. ASSUME set.ok, NEW f \in Names, NEW i \in DOMAIN form, form[i].name = f
      PROVE  f \in set.changed
  <2>1. \A j \in DOMAIN form : Taken(form[j])
    BY <1>2, <1>4
  <2>2. i \in Setting(form, f)
    BY <1>4, <2>1 DEF Setting, Reached, Taken
  <2> QED BY <1>2, <2>2
<1> QED BY <1>1, <1>2, <1>3, <1>4 DEF set

LEMMA ServeSetKeeps ==
    ASSUME WebInv, NEW who \in Requester, ServeSet(who) PROVE WebInv'
<1>1. /\ serving = NotServing /\ UNCHANGED <<page, connected, begun, serving, library>>
      /\ who = "act" => act.at = "sent" /\ act.kind = "set"
  BY DEF ServeSet, Receives, Requester
<1>2. /\ config \in [Names -> {"given", "blank"}] /\ stale \in SUBSET Names
      /\ refused \in BOOLEAN
  BY TypeParts DEF WebInv, ServerTyped
<1>3. PICK form :
        /\ who = "act" => form = act.form
        /\ config' = ApplyConfig(form).config
        /\ stale' = (IF who = "act" THEN Names ELSE stale)
                        \ ApplyConfig(form).changed
        /\ refused' = IF who = "act" THEN ~ApplyConfig(form).ok ELSE refused
        /\ Answer(who, IF ApplyConfig(form).ok THEN 200 ELSE 400)
  BY DEF ServeSet
<1>4. /\ ApplyConfig(form).config \in [Names -> {"given", "blank"}]
      /\ ApplyConfig(form).ok \in BOOLEAN
      /\ ApplyConfig(form).ok =>
           \A f \in Names : (\E i \in DOMAIN form : form[i].name = f)
                              => f \in ApplyConfig(form).changed
  BY <1>2, Applied
<1>5. /\ config' \in [Names -> {"given", "blank"}] /\ stale' \in SUBSET Names
      /\ refused' \in BOOLEAN
  BY <1>2, <1>3, <1>4
<1>6. PICK code \in {200, 400} : Answer(who, code)
  BY <1>3
<1>7. SaveFits'
  <2>1. CASE who = "act"
    <3>1. form \in PageForms
      BY <1>1, <1>3, <2>1 DEF WebInv, RequestFits
    <3>2. \A f \in Names : \E i \in DOMAIN form : form[i].name = f
      BY <3>1, FormsAssumption
    <3>3. stale' = Names \ ApplyConfig(form).changed
          /\ refused' = ~ApplyConfig(form).ok
      BY <1>3, <2>1
    <3>4. refused' \/ stale' = {}
      <4>1. CASE ApplyConfig(form).ok
        <5>1. \A f \in Names : f \in ApplyConfig(form).changed
          BY <1>4, <3>2, <4>1
        <5> QED BY <3>3, <5>1
      <4>2. CASE ~ApplyConfig(form).ok
        BY <3>3, <4>2, Zenon
      <4> QED BY <4>1, <4>2
    <3> QED BY <3>4 DEF SaveFits
  <2>2. CASE who # "act"
    <3>1. act' = act
      BY <1>6, <2>2, AnswerTyped
    <3>2. refused' = refused /\ stale' \subseteq stale
      BY <1>3, <2>2
    <3> QED BY <1>1, <3>1, <3>2 DEF WebInv, SaveFits
  <2> QED BY <2>1, <2>2
<1>8. ServerTyped'
  BY <1>1, <1>5, TypeParts DEF ServerTyped, WebInv
<1>9. DisagreementExplained' /\ (connected' => begun')
  BY <1>1 DEF WebInv, DisagreementExplained, CallFits, library
<1> QED BY <1>1, <1>6, <1>7, <1>8, <1>9, AnswerKeeps

-----------------------------------------------------------------------------
(* The sketch begins to serve a request. *)

LEMMA BeginsKeeps ==
    ASSUME WebInv,
           UNCHANGED <<page, act, poll, settings, connected, begun, library>>,
           ServerTyped', ServingFits', CallFits'
    PROVE  WebInv'
<1>1. TypeOK'
  BY TypeParts DEF WebInv, TypeOK, ServerTyped, Pages
<1>2. EnabledOnlyWhenReady' /\ SaveFits' /\ RequestFits'
        /\ DisagreementExplained'
  BY DEF WebInv, EnabledOnlyWhenReady, SaveFits, RequestFits,
         DisagreementExplained, library, settings
<1> QED BY <1>1, <1>2 DEF WebInv

\* A transfer begins with a session, a connect() after begin().
LEMMA FirstCallFits ==
    ASSUME CallFits, NEW op \in ActionOps, FirstCall(op) # "refuse"
    PROVE  /\ FirstCall(op) \in {"store", "retrieve", "begin", "connect", "quit"}
           /\ FirstCall(op) = "begin" => ~begun
           /\ FirstCall(op) = "connect" => begun
           /\ FirstCall(op) \in LibraryOps => connected
BY DEF FirstCall, FirstConnectCall, ActionOps, LibraryOps

LEMMA ServeActionKeeps ==
    ASSUME WebInv, NEW who \in Requester, ServeAction(who) PROVE WebInv'
<1>1. /\ serving = NotServing /\ Receives(who, "action")
      /\ UNCHANGED <<page, settings, connected, begun, library>>
  BY DEF ServeAction, Receives
<1>2. PICK op \in (IF who = "act" THEN {act.op} ELSE ScriptOps \cap ActionOps) :
        IF FirstCall(op) = "refuse"
        THEN /\ Answer(who, 500)
             /\ UNCHANGED serving
        ELSE /\ serving' = [for |-> who, kind |-> "action", op |-> op,
                            next |-> FirstCall(op), then |-> "answer", ok |-> TRUE]
             /\ UNCHANGED <<act, poll>>
  BY DEF ServeAction
<1>3. op \in ActionOps /\ (who = "act" => act.at = "sent" /\ act.kind = "action")
  BY <1>1, <1>2 DEF Receives, WebInv, RequestFits, Requester
<1>4. CASE FirstCall(op) = "refuse"
  BY <1>1, <1>2, <1>4, AnswerOnlyKeeps DEF server, Receives, Requester
<1>5. CASE FirstCall(op) # "refuse"
  <2>1. /\ serving' = [for |-> who, kind |-> "action", op |-> op,
                       next |-> FirstCall(op), then |-> "answer", ok |-> TRUE]
        /\ UNCHANGED <<act, poll>>
    BY <1>2, <1>5
  <2>2. /\ FirstCall(op) \in {"store", "retrieve", "begin", "connect", "quit"}
        /\ FirstCall(op) = "begin" => ~begun
        /\ FirstCall(op) = "connect" => begun
        /\ FirstCall(op) \in LibraryOps => connected
    BY <1>3, <1>5, FirstCallFits DEF WebInv
  <2>3. ServerTyped'
    BY <1>1, <1>3, <2>1, <2>2, TypeParts
       DEF ServerTyped, WebInv, LibraryOps, settings
  <2>4. ServingFits'
    BY <1>2, <1>3, <2>1 DEF ServingFits
  <2>5. CallFits'
    BY <1>1, <2>1, <2>2 DEF CallFits, WebInv
  <2> QED BY <1>1, <2>1, <2>3, <2>4, <2>5, BeginsKeeps
<1> QED BY <1>4, <1>5

\* /fs: the first call is that of the operation, or of a connect() before it.
LEMMA BeginsFsKeeps ==
    ASSUME WebInv, NEW who \in Requester, Receives(who, "fs"),
           UNCHANGED <<page, settings, connected, begun, library>>,
           NEW op \in FsOps \ {"local-list"},
           who = "act" => op = act.op,
           NEW call \in {RemoteCall(op), "badRequest"},
           connected \/ FirstConnectCall # "refuse",
           Begins(who, op, call)
    PROVE  WebInv'
<1>1. /\ serving' = [for |-> who, kind |-> "fs", op |-> op, then |-> call,
                     ok |-> TRUE,
                     next |-> IF connected THEN call ELSE FirstConnectCall]
      /\ UNCHANGED <<act, poll>>
  BY DEF Begins
<1>2. /\ RemoteCall(op) \in {"list", "mkd", "dele", "rename", "size"}
      /\ RemoteCall(op) = "dele" => op = "delete"
  BY DEF FsOps, RemoteCall
<1>3. /\ ~connected => FirstConnectCall \in {"begin", "connect"}
      /\ FirstConnectCall = "begin" => ~begun
      /\ FirstConnectCall = "connect" => begun
  BY DEF FirstConnectCall
<1>4. ServerTyped'
  BY <1>1, <1>2, <1>3, TypeParts
     DEF ServerTyped, WebInv, LibraryOps, settings
<1>5. ServingFits'
  BY <1>1 DEF ServingFits, Receives, Requester
<1>6. CallFits'
  BY <1>1, <1>2, <1>3 DEF CallFits, WebInv, LibraryOps
<1> QED BY <1>1, <1>4, <1>5, <1>6, BeginsKeeps

LEMMA ServeFsKeeps ==
    ASSUME WebInv, NEW who \in Requester, ServeFs(who) PROVE WebInv'
<1>1. /\ serving = NotServing /\ Receives(who, "fs")
      /\ UNCHANGED <<page, settings, connected, begun, library>>
  BY DEF ServeFs, Receives
<1>2. PICK op \in (IF who = "act" THEN {act.op} ELSE ScriptOps \cap FsOps) :
          \/ /\ op = "local-list"
             /\ \E code \in {200, 500} : Answer(who, code)
             /\ UNCHANGED serving
          \/ /\ op # "local-list"
             /\ ~connected /\ FirstConnectCall = "refuse"
             /\ Answer(who, 500)
             /\ UNCHANGED serving
          \/ /\ op # "local-list"
             /\ connected \/ FirstConnectCall # "refuse"
             /\ \/ Begins(who, op, RemoteCall(op))
                \/ op # "remote-list" /\ Begins(who, op, "badRequest")
  BY DEF ServeFs
<1>3. op \in FsOps /\ (who = "act" => op = act.op)
  BY <1>1, <1>2 DEF Receives, WebInv, RequestFits, Requester
<1>4. CASE UNCHANGED serving /\ \E code \in {200, 500} : Answer(who, code)
  BY <1>1, <1>4, AnswerOnlyKeeps DEF server, Receives, Requester
<1>5. CASE /\ op # "local-list"
           /\ connected \/ FirstConnectCall # "refuse"
           /\ Begins(who, op, RemoteCall(op)) \/ Begins(who, op, "badRequest")
  BY <1>1, <1>3, <1>5, BeginsFsKeeps
<1> QED BY <1>2, <1>4, <1>5

LEMMA ServeKeeps ==
    ASSUME WebInv, NEW who \in Requester, Serve(who) PROVE WebInv'
BY ServeUnauthorizedKeeps, ServeAuthKeeps, ServeStatusKeeps, ServeSetKeeps,
   ServeActionKeeps, ServeFsKeeps
   DEF Serve, ServeCommon

-----------------------------------------------------------------------------
(* The library returns. *)

\* The session-dead errors are those of the contract.
LEMMA SameDeadErrors == Session!SessionDeadErrors = SessionDeadErrors
BY DEF Session!SessionDeadErrors, SessionDeadErrors

\* The request at hand goes on with another call.
LEMMA GoesOnKeeps ==
    ASSUME WebInv, UNCHANGED <<page, settings>>, begun' \in BOOLEAN,
           NEW next \in LibraryOps \cup {"connect", "badRequest"},
           NEW nowConnected \in BOOLEAN, GoesOn(next, nowConnected),
           outcome'.ok \in BOOLEAN,
           CallFits', DisagreementExplained'
    PROVE  WebInv'
<1>1. /\ serving' = [serving EXCEPT !.next = next, !.ok = serving.ok /\ outcome'.ok]
      /\ connected' = nowConnected /\ UNCHANGED <<act, poll>>
  BY DEF GoesOn
<1>2. ServerTyped
  BY TypeParts DEF WebInv
<1>3. /\ serving'.for = serving.for /\ serving'.kind = serving.kind
      /\ serving'.op = serving.op
  BY <1>1, <1>2 DEF ServerTyped
<1>4. ServerTyped'
  <2>1. \A b \in BOOLEAN : (serving.ok /\ b) \in BOOLEAN
    OBVIOUS
  <2> QED BY <1>1, <1>2, <2>1 DEF ServerTyped, settings
<1>5. TypeOK'
  BY <1>1, <1>4, TypeParts DEF WebInv, TypeOK, ServerTyped, Pages
<1>6. ServingFits'
  BY <1>1, <1>3 DEF WebInv, ServingFits
<1>7. EnabledOnlyWhenReady' /\ SaveFits' /\ RequestFits'
  BY <1>1 DEF WebInv, EnabledOnlyWhenReady, SaveFits, RequestFits, settings
<1> QED BY <1>5, <1>6, <1>7 DEF WebInv

\* It is answered, with the code of the call or one of the route's.
LEMMA AnsweredKeeps ==
    ASSUME WebInv, UNCHANGED <<page, settings>>,
           begun' \in BOOLEAN, connected' \in BOOLEAN, connected' => begun',
           serving' = NotServing,
           NEW code \in {200, 400, 401, 413, 500}, Answer(serving.for, code),
           DisagreementExplained'
    PROVE  WebInv'
<1>1. ServerTyped /\ serving.for \in Requester \cup {"none"}
  BY TypeParts DEF WebInv, ServerTyped
<1>2. ServerTyped'
  BY <1>1 DEF ServerTyped, NotServing, settings
<1>3. SaveFits'
  <2>1. serving.for = "act" => act.kind # "set"
    BY DEF WebInv, ServingFits
  <2> QED BY <1>1, <2>1, AnswerKeepsSave
<1> QED BY <1>1, <1>2, <1>3, AnswerKeeps

LEMMA EndsKeeps ==
    ASSUME WebInv, UNCHANGED <<page, settings>>,
           begun' \in BOOLEAN, NEW nowConnected \in BOOLEAN, Ends(nowConnected),
           connected' => begun', DisagreementExplained'
    PROVE  WebInv'
BY AnsweredKeeps DEF Ends

LEMMA CallBeginKeeps == ASSUME WebInv, CallBegin PROVE WebInv'
<1>1. /\ serving.next = "begin" /\ UNCHANGED <<page, settings>>
      /\ up' = FALSE /\ begun' = outcome'.ok
  BY DEF CallBegin, Calls
<1>2. outcome'.ok \in BOOLEAN
  <2>1. ASSUME NEW ok \in BOOLEAN, NEW err, Session!Return("begin", ok, err)
        PROVE  outcome'.ok \in BOOLEAN
    BY <2>1 DEF Session!Return
  <2> QED BY <2>1 DEF CallBegin, Session!Cleared, Session!Fails
<1>3. ~connected /\ connected \in BOOLEAN
  BY <1>1, TypeParts DEF WebInv, CallFits, ServerTyped
<1>4. CASE outcome'.ok /\ GoesOn("connect", connected)
  <2>1. CallFits'
    BY <1>1, <1>3, <1>4, TypeParts
       DEF GoesOn, CallFits, WebInv, ServerTyped, LibraryOps
  <2>2. DisagreementExplained'
    BY <1>1, <1>3, <1>4 DEF GoesOn, DisagreementExplained
  <2> QED BY <1>1, <1>2, <1>3, <1>4, <2>1, <2>2, GoesOnKeeps
<1>5. CASE Ends(FALSE)
  <2>1. ~connected'
    BY <1>5 DEF Ends
  <2>2. DisagreementExplained'
    BY <1>1, <2>1 DEF DisagreementExplained
  <2> QED BY <1>1, <1>2, <1>5, <2>1, <2>2, EndsKeeps
<1> QED BY <1>4, <1>5 DEF CallBegin

LEMMA CallConnectKeeps == ASSUME WebInv, CallConnect PROVE WebInv'
<1>1. /\ serving.next = "connect" /\ UNCHANGED <<page, settings, begun>>
      /\ begun /\ begun' \in BOOLEAN
  BY TypeParts DEF CallConnect, Calls, WebInv, CallFits, ServerTyped
<1>2. CASE Session!Connected("connect") /\ AfterConnect
  <2>1. up' /\ outcome'.ok \in BOOLEAN /\ outcome'.ok
    BY <1>2 DEF Session!Connected, Session!Return
  <2>2. CASE Ends(TRUE)
    <3>1. DisagreementExplained'
      BY <2>1, <2>2 DEF Ends, DisagreementExplained
    <3> QED BY <1>1, <2>2, <3>1, EndsKeeps
  <2>3. CASE serving.then # "answer" /\ GoesOn(serving.then, TRUE)
    <3>1. serving.kind \notin {"action", "none"}
      BY <1>1, <2>3 DEF WebInv, CallFits
    <3>2. serving.kind = "fs"
      BY <3>1, TypeParts DEF WebInv, ServerTyped
    <3>3. serving.then \in LibraryOps \cup {"badRequest"}
      BY <3>2 DEF WebInv, CallFits
    <3>4. CallFits'
      BY <1>1, <2>1, <2>3, <3>2, <3>3, TypeParts
         DEF GoesOn, CallFits, WebInv, ServerTyped, LibraryOps
    <3>5. DisagreementExplained'
      BY <2>1, <2>3 DEF GoesOn, DisagreementExplained
    <3> QED BY <1>1, <2>1, <2>3, <3>3, <3>4, <3>5, GoesOnKeeps
  <2> QED BY <1>2, <2>2, <2>3 DEF AfterConnect
<1>3. CASE up' = FALSE /\ Ends(FALSE)
  <2>1. DisagreementExplained'
    BY <1>3 DEF Ends, DisagreementExplained
  <2> QED BY <1>1, <1>3, <2>1, EndsKeeps
<1>4. CASE Session!Refused("connect") /\ Ends(FALSE)
  <2>1. outcome'.op = "connect" /\ ~outcome'.ok
    BY <1>4 DEF Session!Refused, Session!Return
  <2>2. DisagreementExplained'
    BY <1>4, <2>1 DEF Ends, DisagreementExplained
  <2> QED BY <1>1, <1>4, <2>2, EndsKeeps
<1> QED BY <1>2, <1>3, <1>4 DEF CallConnect

\* A call that needs a session is made with one, as the sketch sees it, and
\* tells what has become of it.
LEMMA Called ==
    ASSUME WebInv, NEW name \in LibraryOps, CallReturns(name)
    PROVE  /\ serving.next = name /\ UNCHANGED <<page, settings, begun>>
           /\ connected /\ begun /\ connected \in BOOLEAN /\ begun \in BOOLEAN
           /\ outcome'.ok \in BOOLEAN
           /\ outcome'.ok => up'
           /\ ~up' => IsSessionDead(outcome'.lastError)
<1>1. /\ serving.next = name /\ UNCHANGED <<page, settings, begun>>
      /\ Session!Succeeds(name) \/ Session!FailsSoftly(name) \/ Session!Fails(name)
  BY DEF CallReturns, Calls
<1>2. connected /\ begun /\ connected \in BOOLEAN /\ begun \in BOOLEAN
  BY <1>1, TypeParts DEF WebInv, CallFits, ServerTyped
<1>3. ASSUME NEW ok \in BOOLEAN, NEW err, Session!Return(name, ok, err)
      PROVE  outcome'.ok \in BOOLEAN /\ (outcome'.ok <=> ok) /\ outcome'.lastError = err
  BY <1>3 DEF Session!Return
<1>4. CASE Session!Succeeds(name)
  BY <1>1, <1>2, <1>3, <1>4 DEF Session!Succeeds
<1>5. CASE Session!FailsSoftly(name)
  BY <1>1, <1>2, <1>3, <1>5 DEF Session!FailsSoftly
<1>6. CASE Session!Fails(name)
  BY <1>1, <1>2, <1>3, <1>6, SameDeadErrors DEF Session!Fails, IsSessionDead
<1> QED BY <1>1, <1>4, <1>5, <1>6

\* It ends what the request asked for.
LEMMA CalledEnds ==
    ASSUME WebInv, NEW name \in LibraryOps, CallReturns(name), Ends(connected)
    PROVE  WebInv'
<1>1. DisagreementExplained' /\ connected'
  BY Called DEF Ends, DisagreementExplained
<1> QED BY <1>1, Called, EndsKeeps

\* Another call follows it; after a failure, only in a delete.
LEMMA CalledGoesOn ==
    ASSUME WebInv, NEW name \in LibraryOps, CallReturns(name),
           NEW next \in LibraryOps \ {"dele"}, GoesOn(next, connected),
           outcome'.ok \/ name = "dele"
    PROVE  WebInv'
<1>1. /\ serving' = [serving EXCEPT !.next = next, !.ok = serving.ok /\ outcome'.ok]
      /\ connected' = connected
  BY DEF GoesOn
<1>2. ServerTyped /\ CallFits
  BY TypeParts DEF WebInv
<1>3. /\ serving'.next = next /\ serving'.then = serving.then
      /\ serving'.op = serving.op /\ serving'.kind = serving.kind
  BY <1>1, <1>2 DEF ServerTyped
<1>4. serving.op # "delete" => serving'.ok
  <2>1. name = "dele" => serving.op = "delete"
    BY <1>2, Called DEF CallFits
  <2>2. serving.ok /\ outcome'.ok => serving'.ok
    BY <1>1, <1>2 DEF ServerTyped
  <2> QED BY <1>2, <2>1, <2>2 DEF CallFits
<1>5. CallFits'
  BY <1>1, <1>2, <1>3, <1>4, Called DEF CallFits, LibraryOps
<1>6. DisagreementExplained'
  BY <1>1, Called DEF DisagreementExplained
<1> QED BY <1>5, <1>6, Called, GoesOnKeeps

LEMMA CallTransferKeeps == ASSUME WebInv, CallTransfer PROVE WebInv'
BY CalledEnds DEF CallTransfer, LibraryOps

LEMMA CallQuitKeeps == ASSUME WebInv, CallQuit PROVE WebInv'
<1>1. /\ UNCHANGED <<page, settings, begun>>
      /\ up' = FALSE /\ serving' = NotServing /\ connected' = FALSE
      /\ begun' \in BOOLEAN
  BY TypeParts DEF CallQuit, Calls, QuitEnds, WebInv, ServerTyped
<1>2. PICK code \in {200, 500} : Answer(serving.for, code)
  BY DEF CallQuit, QuitEnds
<1>3. DisagreementExplained'
  BY <1>1 DEF DisagreementExplained
<1>4. connected' \in BOOLEAN /\ (connected' => begun')
  BY <1>1
<1> QED BY <1>1, <1>2, <1>3, <1>4, AnsweredKeeps

LEMMA FsKeeps == ASSUME WebInv, Fs PROVE WebInv'
<1>1. CASE FsBadRequest
  <2>1. DisagreementExplained' /\ (connected' => begun')
    BY <1>1 DEF FsBadRequest, WebInv, DisagreementExplained, CallFits, library
  <2>2. connected' \in BOOLEAN /\ begun' \in BOOLEAN
    BY <1>1, TypeParts DEF FsBadRequest, WebInv, ServerTyped
  <2> QED BY <1>1, <2>1, <2>2, AnsweredKeeps DEF FsBadRequest, Calls
<1>2. CASE FsCommand
  BY <1>2, CalledEnds DEF FsCommand, FsCall, LibraryOps
<1>3. CASE FsDele
  BY <1>3, CalledEnds, CalledGoesOn DEF FsDele, FsCall, LibraryOps
<1>4. CASE FsRmd
  BY <1>4, CalledEnds DEF FsRmd, FsCall, LibraryOps
<1>5. CASE FsSize
  <2>1. CallReturns("size")
    BY <1>5 DEF FsSize, FsCall
  <2>2. CASE CopyGoesOn("retrieve")
    BY <2>1, <2>2, CalledEnds, CalledGoesOn DEF CopyGoesOn, LibraryOps
  <2>3. CASE /\ serving' = NotServing
             /\ Answer(serving.for, 413)
             /\ UNCHANGED connected
    <3>1. DisagreementExplained'
      BY <2>1, <2>3, Called DEF DisagreementExplained, LibraryOps
    <3> QED BY <2>1, <2>3, <3>1, Called, AnsweredKeeps DEF LibraryOps
  <2> QED BY <1>5, <2>2, <2>3 DEF FsSize
<1>6. CASE FsRetrieve
  BY <1>6, CalledEnds, CalledGoesOn DEF FsRetrieve, FsCall, CopyGoesOn, LibraryOps
<1>7. CASE FsStore
  BY <1>7, CalledEnds DEF FsStore, FsCall, LibraryOps
<1> QED BY <1>1, <1>2, <1>3, <1>4, <1>5, <1>6, <1>7 DEF Fs

-----------------------------------------------------------------------------
(* The theorems. *)

LEMMA WebInit == Init => WebInv
<1> SUFFICES ASSUME Init PROVE WebInv
  OBVIOUS
<1> USE DEF Init
<1>1. page \in Pages /\ EnabledOnlyWhenReady
  BY DEF Pages, Tokens, Stages, EnabledOnlyWhenReady
<1>2. act \in Messages /\ poll \in Messages
  BY NoMessageTyped
<1>3. ServerTyped /\ SaveFits
  BY DEF ServerTyped, NotServing, SaveFits
<1>4. RequestFits /\ ServingFits /\ CallFits
  BY DEF RequestFits, ServingFits, CallFits, NotServing, NoMessage, LibraryOps
<1>5. DisagreementExplained
  BY DEF Session!Init, DisagreementExplained
<1> QED BY <1>1, <1>2, <1>3, <1>4, <1>5, TypeParts DEF WebInv

LEMMA WebStep == WebInv /\ [Next]_vars => WebInv'
<1> SUFFICES ASSUME WebInv, [Next]_vars PROVE WebInv'
  OBVIOUS
<1>1. CASE Clicks
  BY <1>1, UnlockKeeps, ClickKeeps, ExportKeeps DEF Clicks
<1>2. CASE Losses
  BY <1>2, ChainFailsKeeps, RefreshFailsKeeps DEF Losses
<1>3. CASE ChainGoesOn
  BY <1>3, UnlockedKeeps, UnlockShowsStatusKeeps, ChainRefusedKeeps, SavedKeeps,
     DoneKeeps, ExportedKeeps DEF ChainGoesOn
<1>4. CASE Refresh \/ RefreshAnswered
  BY <1>4, RefreshKeeps, RefreshAnsweredKeeps
<1>5. CASE \E who \in Requester : Serve(who)
  BY <1>5, ServeKeeps
<1>6. CASE Library
  BY <1>6, CallBeginKeeps, CallConnectKeeps, CallTransferKeeps, CallQuitKeeps,
     FsKeeps DEF Library, LibraryCommon
<1>7. CASE UNCHANGED vars
  BY <1>7 DEF vars, client, server, library, WebInv, TypeOK, EnabledOnlyWhenReady,
     SaveFits, RequestFits, ServingFits, CallFits, DisagreementExplained, settings
<1> QED BY <1>1, <1>2, <1>3, <1>4, <1>5, <1>6, <1>7 DEF Next

\* The page, the requests and the sketch agree with each other in every state.
THEOREM WebInvariant == Spec => []WebInv
BY WebInit, WebStep, PTL DEF Spec

\* Type correctness of the page, the messages and the sketch.
THEOREM WebTypeCorrect == Spec => []TypeOK
<1>1. WebInv => TypeOK
  BY DEF WebInv
<1> QED BY <1>1, WebInvariant, PTL

\* renderStatus() and setButtonsEnabled(): whatever answers come when, the
\* buttons work only on a page that is unlocked, filled in and idle.
THEOREM ButtonsNeedReadyPage == Spec => []EnabledOnlyWhenReady
<1>1. WebInv => EnabledOnlyWhenReady
  BY DEF WebInv
<1> QED BY <1>1, WebInvariant, PTL

\* doAction(), doFsAction() and applyConfigFromQuery(): the operation of a click
\* runs with the form that was saved for it, whatever scripts posted before.
THEOREM ClicksRunTheirForms == Spec => []ClickRunsItsForm
<1>1. WebInv => ClickRunsItsForm
  BY DEF WebInv, SaveFits, ClickRunsItsForm
<1> QED BY <1>1, WebInvariant, PTL

\* gStatus.connected against the session: what the last call said explains
\* every difference.
THEOREM DisagreementsExplained == Spec => []DisagreementExplained
<1>1. WebInv => DisagreementExplained
  BY DEF WebInv
<1> QED BY <1>1, WebInvariant, PTL

-----------------------------------------------------------------------------
(* What a 200 means. *)

\* The page waits for the answer to a request of /fs, and gets a 200.
Succeeded ==
    /\ act'.at = "answered" /\ act.at = "sent" /\ act.kind = "fs"
    /\ act.op # "local-list" /\ act'.code = 200

DoneIndeed == up' /\ connected' /\ outcome'.ok /\ (serving.ok \/ act.op = "delete")

\* The page answers nothing, and a request at once only with a refusal.
LEMMA PageNoSuccess ==
    ASSUME WebInv, Clicks \/ Losses \/ ChainGoesOn \/ Refresh \/ RefreshAnswered
    PROVE  ~Succeeded
<1>1. CASE Clicks
  <2>1. act'.at = "sent"
    <3>1. \A kind, op, form, token : Message(kind, op, form, token).at = "sent"
      BY DEF Message
    <3>2. CASE Unlock
      BY <3>1, <3>2 DEF Unlock
    <3>3. ASSUME NEW op \in PageOps, Click(op) PROVE act'.at = "sent"
      BY <3>1, <3>3 DEF Click
    <3>4. CASE Export
      BY <3>1, <3>4 DEF Export
    <3> QED BY <1>1, <3>2, <3>3, <3>4 DEF Clicks
  <2> QED BY <2>1 DEF Succeeded
<1>2. CASE ChainFails \/ ChainGoesOn
  <2>1. ASSUME NEW p, Stop(p) PROVE act'.at = "none"
    BY <2>1 DEF Stop, NoMessage
  <2>2. ASSUME NEW p, NEW stage, NEW kind, Continue(p, stage, kind)
        PROVE  act'.at = "sent"
    BY <2>2 DEF Continue, Message
  <2>3. act'.at \in {"none", "sent"}
    BY <1>2, <2>1, <2>2 DEF ChainFails, ChainGoesOn, Unlocked, UnlockShowsStatus,
       ChainRefused, StopUnauthorized, Saved, Done, Exported
  <2> QED BY <2>3 DEF Succeeded
<1>3. CASE Refresh \/ RefreshAnswered \/ RefreshFails
  <2>1. UNCHANGED act
    BY <1>3 DEF Refresh, RefreshAnswered, Refreshed, RefreshRefused, RefreshFails
  <2> QED BY <2>1 DEF Succeeded
<1> QED BY <1>1, <1>2, <1>3 DEF Losses

LEMMA AnswerNoSuccess ==
    ASSUME WebInv, NEW who \in Requester,
           NEW code \in {200, 400, 401, 413, 500}, Answer(who, code),
           code # 200 \/ act.kind # "fs" \/ who # "act"
    PROVE  ~Succeeded
BY AnswerTyped DEF Succeeded

LEMMA ServeNoSuccess ==
    ASSUME WebInv, NEW who \in Requester, Serve(who) PROVE ~Succeeded
<1>1. ASSUME NEW kind, Receives(who, kind), kind # "fs", who = "act"
      PROVE  act.kind # "fs"
  BY <1>1 DEF Receives
<1>2. CASE ServeUnauthorized(who)
  BY <1>2, AnswerNoSuccess DEF ServeUnauthorized
<1>3. CASE ServeAuth(who)
  <2>1. CASE Answer(who, 401)
    BY <2>1, AnswerNoSuccess
  <2>2. CASE who # "act" /\ act' = [act EXCEPT !.token = Aged(@)]
    <3>1. act'.at = act.at
      BY <2>2, TypeParts DEF WebInv, Messages
    <3> QED BY <3>1 DEF Succeeded
  <2>3. CASE who = "act"
    BY <1>1, <1>3, <2>3 DEF ServeAuth, Succeeded
  <2> QED BY <1>3, <2>1, <2>2, <2>3 DEF ServeAuth
<1>4. CASE ServeStatus(who)
  <2>1. who = "act" => act.kind # "fs"
    BY <1>1, <1>4 DEF ServeStatus
  <2> QED BY <1>4, <2>1, AnswerNoSuccess DEF ServeStatus
<1>5. CASE ServeSet(who)
  <2>1. who = "act" => act.kind # "fs"
    BY <1>1, <1>5 DEF ServeSet
  <2>2. PICK code \in {200, 400} : Answer(who, code)
    BY <1>5 DEF ServeSet
  <2> QED BY <2>1, <2>2, AnswerNoSuccess
<1>6. CASE ServeAction(who)
  <2>1. Answer(who, 500) \/ UNCHANGED act
    BY <1>6 DEF ServeAction
  <2> QED BY <2>1, AnswerNoSuccess DEF Succeeded
<1>7. CASE ServeFs(who)
  <2>1. \/ Answer(who, 500) \/ UNCHANGED act
        \/ /\ who = "act" => act.op = "local-list"
           /\ \E code \in {200, 500} : Answer(who, code)
    BY <1>7 DEF ServeFs, Begins
  <2>2. CASE who = "act" /\ act.op = "local-list"
    BY <2>2 DEF Succeeded
  <2>3. CASE who # "act" /\ \E code \in {200, 500} : Answer(who, code)
    BY <2>3, AnswerNoSuccess
  <2>4. CASE Answer(who, 500) \/ UNCHANGED act
    BY <2>4, AnswerNoSuccess DEF Succeeded
  <2> QED BY <2>1, <2>2, <2>3, <2>4
<1> QED BY <1>2, <1>3, <1>4, <1>5, <1>6, <1>7 DEF Serve, ServeCommon

\* A call's own success is what is answered with 200.
LEMMA EndsTells ==
    ASSUME WebInv, NEW nowConnected \in BOOLEAN, Ends(nowConnected), Succeeded,
           outcome'.ok \in BOOLEAN
    PROVE  /\ outcome'.ok /\ connected' = nowConnected
           /\ serving.kind = "fs" /\ (serving.ok \/ act.op = "delete")
<1>1. serving.for \in Requester \cup {"none"}
  BY TypeParts DEF WebInv, ServerTyped
<1>2. PICK code \in {200, 500} :
        Answer(serving.for, code) /\ (code = 200 <=> outcome'.ok)
  BY DEF Ends
<1>3. serving.for = "act" /\ code = 200
  BY <1>1, <1>2, AnswerTyped DEF Succeeded
<1>4. serving.kind = "fs" /\ (serving.ok \/ act.op = "delete")
  BY <1>3 DEF WebInv, ServingFits, CallFits, Succeeded
<1> QED BY <1>2, <1>3, <1>4 DEF Ends

LEMMA RefusalNoSuccess ==
    ASSUME WebInv, NEW code \in {400, 413, 500}, Answer(serving.for, code)
    PROVE  ~Succeeded
BY AnswerTyped, TypeParts DEF Succeeded, WebInv, ServerTyped

LEMMA CalledEndsDone ==
    ASSUME WebInv, NEW name \in LibraryOps, CallReturns(name), Ends(connected),
           Succeeded
    PROVE  DoneIndeed
BY Called, EndsTells DEF DoneIndeed

LEMMA LibraryDone == ASSUME WebInv, Library, Succeeded PROVE DoneIndeed
<1>1. ~UNCHANGED act
  BY DEF Succeeded
<1>2. ASSUME NEW next, NEW nowConnected, GoesOn(next, nowConnected) PROVE FALSE
  BY <1>1, <1>2 DEF GoesOn
<1>3. ASSUME NEW op, NEW err, Session!Return(op, FALSE, err),
             NEW nowConnected \in BOOLEAN, Ends(nowConnected)
      PROVE  FALSE
  <2>1. outcome'.ok = FALSE
    BY <1>3 DEF Session!Return
  <2> QED BY <1>3, <2>1, EndsTells
<1>4. CASE CallBegin
  <2>1. CASE outcome'.ok
    BY <1>2, <1>4, <2>1 DEF CallBegin
  <2>2. CASE ~outcome'.ok
    <3>1. Ends(FALSE)
      BY <1>4, <2>2 DEF CallBegin
    <3>2. Answer(serving.for, 500)
      BY <2>2, <3>1 DEF Ends
    <3> QED BY <3>2, RefusalNoSuccess
  <2> QED BY <2>1, <2>2
<1>5. CASE CallConnect
  <2>1. CASE Session!Connected("connect") /\ AfterConnect
    <3>1. up' /\ outcome'.ok \in BOOLEAN
      BY <2>1 DEF Session!Connected, Session!Return
    <3>2. Ends(TRUE)
      BY <1>2, <2>1 DEF AfterConnect
    <3> QED BY <3>1, <3>2, EndsTells DEF DoneIndeed
  <2>2. CASE Ends(FALSE) /\ (Session!Fails("connect") \/ Session!Refused("connect"))
    BY <1>3, <2>2 DEF Session!Fails, Session!Refused
  <2> QED BY <1>5, <2>1, <2>2 DEF CallConnect
<1>6. CASE CallTransfer
  BY <1>6, CalledEndsDone DEF CallTransfer, LibraryOps
<1>7. CASE CallQuit
  <2>1. serving.next = "quit" /\ serving.kind # "fs"
    BY <1>7 DEF CallQuit, Calls, WebInv, CallFits
  <2>2. PICK code \in {200, 500} : Answer(serving.for, code)
    BY <1>7 DEF CallQuit, QuitEnds
  <2>3. serving.for # "act"
    BY <2>1 DEF WebInv, ServingFits, Succeeded
  <2>4. UNCHANGED act
    BY <2>2, <2>3 DEF Answer
  <2> QED BY <1>1, <2>4
<1>8. CASE FsBadRequest
  BY <1>8, RefusalNoSuccess DEF FsBadRequest
<1>9. CASE FsSize
  <2>1. ~Answer(serving.for, 413)
    BY RefusalNoSuccess
  <2> QED BY <1>2, <1>9, <2>1, CalledEndsDone DEF FsSize, FsCall, CopyGoesOn, LibraryOps
<1>10. CASE FsCommand \/ FsDele \/ FsRmd \/ FsRetrieve \/ FsStore
  BY <1>2, <1>10, CalledEndsDone
     DEF FsCommand, FsDele, FsRmd, FsRetrieve, FsStore, FsCall, CopyGoesOn, LibraryOps
<1> QED BY <1>4, <1>5, <1>6, <1>7, <1>8, <1>9, <1>10 DEF Library, LibraryCommon, Fs

\* handleFsRequest(): a 200 means that there is a session, that gStatus knows
\* it, and that every call made for the request has succeeded.
THEOREM FsSuccessIsReal == Spec => FsSuccessMeansDone
<1> DEFINE A == act'.at = "answered" /\ act.at = "sent" /\ act.kind = "fs"
                  /\ act.op # "local-list" /\ act'.code = 200
                    => /\ up' /\ connected' /\ outcome'.ok
                       /\ serving.ok \/ act.op = "delete"
<1>1. WebInv /\ [Next]_vars => [A]_vars
  <2> SUFFICES ASSUME WebInv, Next, Succeeded PROVE DoneIndeed
    BY DEF Succeeded, DoneIndeed
  <2> QED BY PageNoSuccess, ServeNoSuccess, LibraryDone DEF Next
<1> QED
  BY <1>1, WebInvariant, PTL DEF Spec, FsSuccessMeansDone

=============================================================================
