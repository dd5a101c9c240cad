--------------------------- MODULE RuntimeSettings ---------------------------
(***************************************************************************)
(* The runtime settings: the file behind GET, PUT and DELETE               *)
(* /api/v1/settings, and the settings form of several browser tabs.  A PUT *)
(* reads the settings, decides whether leaving Dry Run needs the           *)
(* confirmation token, and only then writes; the store's gate is held for  *)
(* each of the two calls, not for both.                                    *)
(*                                                                         *)
(* The file and the cached copy change together under that gate and a      *)
(* temporary file is moved into place, so what GetAsync returns survives a *)
(* restart of the server: a crash only loses the answers under way.        *)
(***************************************************************************)
EXTENDS Naturals

CONSTANTS
    Tab,        \* browser tabs on the console
    Slot,       \* requests that may be under way at once (bounds overlap)
    Plain,      \* values of every setting the form submits besides dryRun
    Retention,  \* values of operationRetentionDays, which the form leaves out
    Blank,      \* the inputs of a form no settings were loaded into
    Keep,       \* null in a request: the server keeps what it has read
    Unloaded,   \* currentRuntimeSettings before the first answer
    NoFile,     \* runtime-settings.json does not exist
    Defaults,   \* settings of the deployment
    NoTab       \* the tab of a free slot

Settings == [dryRun : BOOLEAN, plain : Plain, retention : Retention]

ASSUME DistinctMarks ==
    /\ Blank \notin Plain
    /\ Keep \notin Retention
    /\ NoFile \notin Settings /\ Unloaded \notin BOOLEAN
    /\ NoTab \notin Tab
    /\ Defaults \in Settings

VARIABLES
    stored,     \* runtime-settings.json
    form,       \* the inputs of the settings form, per tab
    current,    \* dryRun of currentRuntimeSettings and of appInfo, per tab
    modal,      \* the Leave Dry Run dialog is open, per tab
    call,       \* the requests under way
    confirmed   \* somebody has ever asked for Live with the token

tabVars == <<form, current, modal>>
vars == <<stored, form, current, modal, call, confirmed>>

(* What a request carries: the body of a PUT, or the settings answered.    *)
Body == [dryRun : BOOLEAN, plain : Plain \cup {Blank},
         retention : Retention \cup {Keep}]

Put == {"save", "confirm", "retain", "script"}
Kind == Put \cup {"load", "reset", "retainLoad"}

(* read is what was answered, or what the check of a PUT keeps.  For the    *)
(* properties, overtaken says that another write landed since the check of  *)
(* a PUT, outdated that one landed since the GET its body was built from.   *)
Call == [tab : Tab \cup {NoTab}, kind : Kind, data : Body, token : BOOLEAN,
         stage : {"free", "sent", "checked", "answered", "failed", "settling"},
         read : Settings, overtaken : BOOLEAN, outdated : BOOLEAN,
         reopen : BOOLEAN]

Free == [tab |-> NoTab, kind |-> "load", data |-> Defaults, token |-> FALSE,
         stage |-> "free", read |-> Defaults, overtaken |-> FALSE,
         outdated |-> FALSE, reopen |-> FALSE]

(* GetAsync *)
Current == IF stored = NoFile THEN Defaults ELSE stored

Init ==
    /\ stored = NoFile
    /\ form = [t \in Tab |-> [dryRun |-> FALSE, plain |-> Blank]]
    /\ current = [t \in Tab |-> Unloaded]
    /\ modal = [t \in Tab |-> FALSE]
    /\ call = [s \in Slot |-> Free]
    /\ confirmed = ~Current.dryRun

-----------------------------------------------------------------------------
(* The tab                                                                 *)

Send(t, s, kind, data, token) ==
    /\ call[s] = Free
    /\ call' = [call EXCEPT ![s] = [Free EXCEPT !.tab = t, !.kind = kind,
                 !.data = data, !.token = token, !.stage = "sent"]]
    /\ UNCHANGED <<stored, confirmed>>

settingsFromForm(t) ==
    [dryRun |-> form[t].dryRun, plain |-> form[t].plain, retention |-> Keep]

(* A page asks for the settings when it boots.                             *)
loadRuntimeSettings(t, s) ==
    /\ current[t] = Unloaded
    /\ Send(t, s, "load", Defaults, FALSE)
    /\ UNCHANGED tabVars

(* Bound: nobody types all the required inputs before the settings arrive. *)
EditForm(t) == \E p \in Plain :
    /\ current[t] # Unloaded
    /\ form' = [form EXCEPT ![t].plain = p]
    /\ UNCHANGED <<stored, current, modal, call, confirmed>>

openLiveModal(t) ==
    /\ modal' = [modal EXCEPT ![t] = TRUE]
    /\ UNCHANGED <<stored, current, call, confirmed>>

setupEnableLive(t) == openLiveModal(t) /\ UNCHANGED form

closeLiveModal(t) ==
    /\ modal[t]
    /\ modal' = [modal EXCEPT ![t] = FALSE]
    /\ form' = [form EXCEPT ![t].dryRun =
                 current[t] # FALSE]
    /\ UNCHANGED <<stored, current, call, confirmed>>

(* The switch and the chip ask for Dry Run at once, for Live they open the *)
(* dialog; the form does so only when it is about to leave Dry Run.        *)
backToDryRun(t, s) ==
    /\ form' = [form EXCEPT ![t].dryRun = TRUE]
    /\ Send(t, s, "save", [settingsFromForm(t) EXCEPT !.dryRun = TRUE], FALSE)
    /\ UNCHANGED <<current, modal>>

SwitchOn(t, s) == ~form[t].dryRun /\ backToDryRun(t, s)

SwitchOff(t) ==
    /\ form[t].dryRun
    /\ openLiveModal(t)
    /\ form' = [form EXCEPT ![t].dryRun = FALSE]

modeActionToLive(t) == current[t] # FALSE /\ openLiveModal(t) /\ UNCHANGED form
modeActionToDry(t, s) == current[t] = FALSE /\ backToDryRun(t, s)

liveModalConfirm(t, s) ==
    /\ modal[t]
    /\ Send(t, s, "confirm", [settingsFromForm(t) EXCEPT !.dryRun = FALSE], TRUE)
    /\ UNCHANGED tabVars

(* Submitting needs the required inputs; the automatic-updates switch      *)
(* saves whatever the form holds.                                          *)
GoingLive(t) == current[t] = TRUE /\ ~form[t].dryRun

submitOpensModal(t) ==
    /\ form[t].plain # Blank /\ GoingLive(t)
    /\ openLiveModal(t)
    /\ UNCHANGED form

submitSettings(t, s) ==
    /\ form[t].plain # Blank /\ ~GoingLive(t)
    /\ Send(t, s, "save", settingsFromForm(t), FALSE)
    /\ UNCHANGED tabVars

toggleAutomaticUpdates(t, s) ==
    /\ Send(t, s, "save", settingsFromForm(t), FALSE)
    /\ UNCHANGED tabVars

resetSettings(t, s) ==
    /\ Send(t, s, "reset", Defaults, FALSE)
    /\ UNCHANGED tabVars

(* saveRetention reads the settings and sends them back with its own field; *)
(* runBackgroundTask admits one at a time.  data.retention holds the days.  *)
saveRetention(t, s) == \E days \in Retention :
    /\ \A o \in Slot : ~(call[o].tab = t /\ call[o].kind \in {"retain", "retainLoad"})
    /\ Send(t, s, "retainLoad", [Defaults EXCEPT !.retention = days], FALSE)
    /\ UNCHANGED tabVars

(* A script of the user beside the console asks for Live, without token.   *)
Script(t, s) == \E p \in Plain :
    /\ Send(t, s, "script", [dryRun |-> FALSE, plain |-> p, retention |-> Keep], FALSE)
    /\ UNCHANGED tabVars

-----------------------------------------------------------------------------
(* The server                                                              *)

CarriesRead(c) ==
    \/ c.kind = "retainLoad" /\ c.stage = "answered"
    \/ c.kind = "retain" /\ c.stage \in {"sent", "checked"}

Overtake(s) == [o \in Slot |->
    IF o = s THEN call[o]
    ELSE [call[o] EXCEPT !.overtaken = @ \/ call[o].stage = "checked",
                         !.outdated = @ \/ CarriesRead(call[o])]]

(* What is left of a call once it is answered, or has failed.              *)
Answered(c, settings) ==
    [Free EXCEPT !.tab = c.tab, !.kind = c.kind, !.stage = "answered",
                 !.data.retention = IF c.kind = "retainLoad" THEN c.data.retention ELSE @,
                 !.read = settings, !.reopen = c.reopen]
Failed(c) ==
    [Free EXCEPT !.tab = c.tab, !.kind = c.kind, !.stage = "failed", !.reopen = c.reopen]

(* GET /settings                                                           *)
Get(s) ==
    /\ call[s].stage = "sent" /\ call[s].kind \in {"load", "retainLoad"}
    /\ call' = [call EXCEPT ![s] = Answered(call[s], Current)]
    /\ UNCHANGED <<stored, form, current, modal, confirmed>>

(* Mistakes: the API leaves the question to the dialog; it believes what    *)
(* the form was loaded with.                                                *)
NeedsTokenInDialog(c) == Current.dryRun /\ ~c.data.dryRun /\ ~c.token /\ c.kind = "confirm"
NeedsTokenByForm(c) == current[c.tab] = TRUE /\ ~c.data.dryRun /\ ~c.token

(* The first half of PUT: validation, the read, the token.  Of what it has *)
(* read only the optional fields are used again.                           *)
NeedsToken(c) == Current.dryRun /\ ~c.data.dryRun /\ ~c.token

PutCheck(s) ==
    /\ call[s].stage = "sent" /\ call[s].kind \in Put
    /\ call' = [call EXCEPT ![s] =
         IF call[s].data.plain = Blank \/ NeedsToken(call[s])
         THEN Failed(call[s])
         ELSE [call[s] EXCEPT !.stage = "checked",
                              !.read.retention = Current.retention]]
    /\ UNCHANGED <<stored, form, current, modal, confirmed>>

(* Mistake: a null field falls back to the deployment.                       *)
MergedWithDefaults(c) ==
    [c.data EXCEPT !.retention = IF @ = Keep THEN Defaults.retention ELSE @]

(* The second half: a null field falls back to what the check has read.    *)
Merged(c) ==
    [c.data EXCEPT !.retention = IF @ = Keep THEN c.read.retention ELSE @]

PutWrite(s) ==
    /\ call[s].stage = "checked"
    /\ stored' = Merged(call[s])
    /\ call' = [Overtake(s) EXCEPT ![s] = Answered(call[s], Merged(call[s]))]
    /\ confirmed' = (confirmed \/ call[s].token)
    /\ UNCHANGED tabVars

(* DELETE: ResetAsync removes the file.                                    *)
Reset(s) ==
    /\ call[s].stage = "sent" /\ call[s].kind = "reset"
    /\ stored' = NoFile
    /\ call' = [Overtake(s) EXCEPT ![s] = Answered(call[s], Defaults)]
    /\ confirmed' = (confirmed \/ ~Defaults.dryRun)
    /\ UNCHANGED tabVars

(* The connection or the server goes away: before the request had any      *)
(* effect, between its two halves, or with its answer.                     *)
Lose(s) ==
    /\ call[s].stage \in {"sent", "checked", "answered"}
    /\ call' = [call EXCEPT ![s] = Failed(call[s])]
    /\ UNCHANGED <<stored, form, current, modal, confirmed>>

-----------------------------------------------------------------------------
(* Answers                                                                 *)

applySettingsToForm(t, settings) ==
    /\ form' = [form EXCEPT ![t] = [dryRun |-> settings.dryRun,
                                    plain |-> settings.plain]]
    /\ current' = [current EXCEPT ![t] = settings.dryRun]

Settled(s) == call' = [call EXCEPT ![s] = Free]

(* loadRuntimeSettings and the reset button take what they got.            *)
Loaded(s) == LET c == call[s] IN
    /\ c.stage = "answered" /\ c.kind \in {"load", "reset"}
    /\ applySettingsToForm(c.tab, c.read)
    /\ modal' = IF c.reopen THEN [modal EXCEPT ![c.tab] = TRUE] ELSE modal
    /\ Settled(s)
    /\ UNCHANGED <<stored, confirmed>>

(* saveSettings: the answer fills the form, the dialog closes only after    *)
(* the status requests that follow.                                         *)
Saved(s) == LET c == call[s] IN
    /\ c.stage = "answered" /\ c.kind \in {"save", "confirm"}
    /\ applySettingsToForm(c.tab, c.read)
    /\ call' = [call EXCEPT ![s] = [Free EXCEPT !.tab = c.tab, !.kind = c.kind,
                                                 !.stage = "settling"]]
    /\ UNCHANGED <<stored, modal, confirmed>>

SavedSettles(s) == LET c == call[s] IN
    /\ c.stage = "settling"
    /\ modal' = IF c.kind = "confirm" THEN [modal EXCEPT ![c.tab] = FALSE] ELSE modal
    /\ Settled(s)
    /\ UNCHANGED <<stored, form, current, confirmed>>

(* A save that fails, or whose status requests fail, loads the settings    *)
(* again before the error is shown; the dialog is opened again after that. *)
SaveFails(s) == LET c == call[s] IN
    /\ c.stage \in {"failed", "settling"} /\ c.kind \in {"save", "confirm"}
    /\ call' = [call EXCEPT ![s] = [Free EXCEPT !.tab = c.tab, !.kind = "load",
                 !.stage = "sent", !.reopen = c.kind = "confirm"]]
    /\ UNCHANGED <<stored, form, current, modal, confirmed>>

OtherFails(s) == LET c == call[s] IN
    /\ c.stage = "failed" /\ c.kind \notin {"save", "confirm"}
    /\ modal' = IF c.reopen THEN [modal EXCEPT ![c.tab] = TRUE] ELSE modal
    /\ Settled(s)
    /\ UNCHANGED <<stored, form, current, confirmed>>

RetentionLoaded(s) == LET c == call[s] IN
    /\ c.stage = "answered" /\ c.kind = "retainLoad"
    /\ call' = [call EXCEPT ![s] = [Free EXCEPT !.tab = c.tab, !.kind = "retain",
                 !.data = [c.read EXCEPT !.retention = c.data.retention],
                 !.stage = "sent", !.outdated = c.outdated]]
    /\ UNCHANGED <<stored, form, current, modal, confirmed>>

OtherSaved(s) ==
    /\ call[s].stage = "answered" /\ call[s].kind \in {"retain", "script"}
    /\ Settled(s)
    /\ UNCHANGED <<stored, form, current, modal, confirmed>>

-----------------------------------------------------------------------------
(* The dialog covers the page: its own buttons are all there is then.      *)
OnPage(t) ==
    \/ EditForm(t) \/ setupEnableLive(t) \/ SwitchOff(t)
    \/ modeActionToLive(t) \/ submitOpensModal(t)
    \/ \E s \in Slot :
         \/ SwitchOn(t, s) \/ modeActionToDry(t, s) \/ submitSettings(t, s)
         \/ toggleAutomaticUpdates(t, s) \/ resetSettings(t, s) \/ saveRetention(t, s)

TabStep(t) ==
    \/ ~modal[t] /\ OnPage(t)
    \/ closeLiveModal(t)
    \/ \E s \in Slot :
         loadRuntimeSettings(t, s) \/ liveModalConfirm(t, s) \/ Script(t, s)

ServerStep(s) == Get(s) \/ PutCheck(s) \/ PutWrite(s) \/ Reset(s) \/ Lose(s)

AnswerStep(s) ==
    \/ Loaded(s) \/ Saved(s) \/ SavedSettles(s) \/ SaveFails(s)
    \/ OtherFails(s) \/ RetentionLoaded(s) \/ OtherSaved(s)

Next == (\E t \in Tab : TabStep(t)) \/ \E s \in Slot : ServerStep(s) \/ AnswerStep(s)

Spec == Init /\ [][Next]_vars

-----------------------------------------------------------------------------
(* Every variable stays in its domain, and a free slot is Free.            *)
TypeOK ==
    /\ stored \in Settings \cup {NoFile}
    /\ form \in [Tab -> [dryRun : BOOLEAN, plain : Plain \cup {Blank}]]
    /\ current \in [Tab -> BOOLEAN \cup {Unloaded}]
    /\ modal \in [Tab -> BOOLEAN]
    /\ call \in [Slot -> Call]
    /\ confirmed \in BOOLEAN
    /\ \A s \in Slot : call[s].stage = "free" <=> call[s].tab = NoTab

(* However many tabs, stale forms and overlapping requests: the server is  *)
(* Live only if somebody once sent the token, or the deployment says so.   *)
LiveWasConfirmed == ~Current.dryRun => confirmed

(* A step leaves Dry Run only with the token, by the reset to a deployment *)
(* that is Live, or by a PUT another write has overtaken between its check *)
(* and its own write: the window of SettingsEndpoints is the only way out. *)
Leaves == Current.dryRun /\ ~Current'.dryRun

LeavesDryRunConfirmed ==
    [][Leaves => \/ stored' = NoFile
                 \/ \E s \in Slot : /\ PutWrite(s)
                                    /\ call[s].token \/ call[s].overtaken]_vars

(* A save changes only what its sender set: the form never changes the      *)
(* retention, which it does not show, and the retention card nothing else,  *)
(* unless another write came between the read the save is based on and its  *)
(* own write.                                                               *)
OthersKept ==
    [][\A s \in Slot : PutWrite(s) /\ ~call[s].overtaken =>
        IF call[s].kind = "retain"
        THEN \/ call[s].outdated
             \/ Current' = [Current EXCEPT !.retention = call[s].data.retention]
        ELSE Current'.retention = Current.retention]_vars

=============================================================================
