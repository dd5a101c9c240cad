------------------------------- MODULE Console -------------------------------
(***************************************************************************)
(* One browser tab of the console.  app.js keeps what it has read from the  *)
(* server in global variables and draws panels from them; nothing redraws a *)
(* panel but the code that calls its renderer.  Handlers are asynchronous:  *)
(* between two awaits other handlers run, and answers arrive in any order.  *)
(*                                                                         *)
(* A renderer is the set of pairs <<panel, global>> it brings up to date, a *)
(* handler the sequence of its requests, each with what runs when it is     *)
(* answered.  What a panel looks like is left out.                          *)
(***************************************************************************)
EXTENDS Naturals, Sequences, FiniteSets

CONSTANTS Slot,     \* handlers that may be under way at once
          MaxInputs \* bound: what the user clicks, types and opens, and timers start
ASSUME InputsBounded == MaxInputs \in Nat

(* schedule is the part of appInfo that the status tells too: automation on *)
(* or off, and its interval.                                               *)
Global == {"info", "schedule", "presets", "shares", "groups", "events", "operations",
           "quarantine", "logs", "maintenance", "automation",
           "storage", "retention", "update", "renaming", "samples"}

(* The views that read or draw something when they are entered; the others  *)
(* are one.                                                                 *)
View == {"setup", "ops", "maintenance", "overview"}

-----------------------------------------------------------------------------
(* Renderers                                                               *)

Panel(name, globals) == {name} \X globals

renderMode       == Panel("mode chip", {"info"})
renderBadges     == Panel("badges", {"events", "shares", "groups"})

activeEvents     == {"events"}
eventSummary     == {"groups", "shares"}
automationBlock  == {"info", "schedule", "automation", "quarantine"}
eventRowList     == eventSummary
eventHeadline    == eventSummary
renderNextScanCountdown == Panel("countdown", {"schedule", "automation"})
renderRunningEvent ==
    Panel("running event", activeEvents \cup eventRowList \cup eventHeadline \cup automationBlock)
        \cup renderNextScanCountdown
renderStorage    == Panel("storage", {"storage"})
renderSources    == Panel("sources", {"shares", "storage"})
renderRecentOps  == Panel("recent operations", {"operations"})
renderOverview   == renderRunningEvent \cup renderStorage \cup renderSources \cup renderRecentOps

SETUP_STEPS      == {"shares", "groups", "info"}
renderOnboarding == Panel("onboarding", SETUP_STEPS)
renderSetup      == Panel("setup", SETUP_STEPS \cup activeEvents \cup {"storage", "operations"})

renderPresets        == Panel("share presets", {"presets"})
renderShares         == Panel("shares", {"shares"})
renderGroupChoices   == Panel("group choices", {"shares"})
renderGroups         == Panel("groups", {"groups", "shares", "events"})
renderEventSelectors == Panel("event selectors", {"groups", "shares"})
renderEvents         == Panel("events", {"events", "groups", "shares", "operations", "info"})
renderRoutingSources == Panel("routing sources", {"shares"})
shareForPath         == {"shares"}
renderOperations     == Panel("operations", {"operations", "info"} \cup shareForPath)
renderLogs           == Panel("logs", {"logs"})
renderQuarantine     == Panel("quarantine", {"quarantine", "info"})
renderMaintenance    == Panel("maintenance", {"maintenance", "retention", "shares"})
renderRenamePresets  == Panel("rename presets", {"renaming", "shares"})
renderMappings       == Panel("camera mappings", {"renaming"})
renderPresetChoices  == Panel("preset choices", {"renaming"})
renderRenamePreview  == Panel("rename preview", {"samples"})
renderImageUpdate    == Panel("image update", {"update"})
renderStatusLine     == Panel("status line", {"automation", "storage"})

renderAll ==
    UNION {renderMode, renderBadges, renderPresets, renderShares, renderGroupChoices,
           renderGroups, renderEventSelectors, renderEvents, renderRoutingSources,
           renderOperations, renderQuarantine, renderOnboarding, renderOverview}

Drawn == UNION {renderAll, renderSetup, renderLogs, renderMaintenance, renderRenamePresets,
                renderMappings, renderPresetChoices, renderRenamePreview,
                renderImageUpdate, renderStatusLine}

-----------------------------------------------------------------------------
(* Handlers: stages in the order of their awaits.  A change is a request    *)
(* that changes what the server answers for some globals before it is       *)
(* answered itself, and adds to the log; a read assigns globals and draws;  *)
(* a watch is a read the code repeats until the automation cycle is over.   *)
(* setup says that the setup page is drawn too where it is the view.        *)
(* Left out of what is changed: the size of the database file and the       *)
(* indexed files a preview takes as its examples.                           *)

Stage(kind, globals, draws, setup) ==
    <<[kind |-> kind, globals |-> globals, draws |-> draws, setup |-> setup]>>
Read(globals, draws) == Stage("read", globals, draws, FALSE)
Change(globals)      == Stage("change", globals \cup {"logs"}, {}, FALSE)

refreshRenamePreview == Read({"samples"}, renderRenamePreview)

(* The preview is asked for at the end and not awaited.                     *)
reloadRenaming ==
    Read({"renaming"}, renderRenamePresets \cup renderMappings \cup renderPresetChoices)
        \o refreshRenamePreview

load ==
    Read({"info", "schedule", "presets", "shares", "groups", "events", "operations",
          "quarantine"}, renderAll)
        \o reloadRenaming

(* Mistake: only the shares are read again.                                 *)
reloadSharesOnly ==
    Read({"shares"}, renderBadges \cup renderShares \cup renderGroupChoices
                     \cup renderEventSelectors \cup renderRoutingSources \cup renderOnboarding
                     \cup renderOverview)
        \o reloadRenaming

reloadConfiguration ==
    Read({"shares", "groups", "events"},
         UNION {renderBadges, renderShares, renderGroupChoices, renderGroups,
                renderEventSelectors, renderEvents, renderRoutingSources,
                renderOnboarding, renderOverview})
        \o reloadRenaming

(* Mistake: the overview is not drawn again.                                *)
reloadEventsListOnly ==
    Read({"events"}, renderBadges \cup renderEvents \cup renderOnboarding)

reloadEvents ==
    Read({"events"}, renderBadges \cup renderEvents \cup renderOnboarding \cup renderOverview)

refreshOperations ==
    Read({"operations"}, renderOperations \cup renderRecentOps \cup renderEvents)
refreshQuarantine ==
    Read({"quarantine"}, renderQuarantine \cup renderRunningEvent)
(* Promise.all over both, as one read.                                      *)
refreshHistory ==
    Read({"operations", "quarantine"},
         UNION {renderOperations, renderRecentOps, renderEvents, renderQuarantine, renderRunningEvent})
refreshLogs        == Read({"logs"}, renderLogs)
refreshMaintenance == Read({"maintenance"}, {}) \o Read({"retention"}, renderMaintenance)

(* settings.js                                                              *)
applySettingsToForm ==
    Stage("read", {"info", "schedule"}, renderMode \cup renderOnboarding \cup renderOverview, TRUE)
loadAutomationStatus ==
    Stage("read", {"automation", "storage"}, renderStatusLine \cup renderOverview, TRUE)
Settings     == {"info", "schedule", "automation", "storage"}
saveSettings  == Change(Settings) \o applySettingsToForm \o loadAutomationStatus
resetSettings == Change(Settings \cup {"retention"}) \o applySettingsToForm \o loadAutomationStatus

monitorAutomationCycle == Stage("watch", {"automation", "schedule"}, renderOverview, FALSE)

(* The storage card lists destination shares; with a share go its indexed   *)
(* files and their operations.                                              *)
deleteShare ==
    Change({"shares", "storage", "samples", "operations", "quarantine", "maintenance"})
        \o reloadConfiguration
shareFormSubmit == Change({"shares", "storage", "samples"}) \o reloadConfiguration
deleteGroup    == Change({"groups"}) \o reloadConfiguration
groupFormSubmit == deleteGroup
startEvent     == Change({"events"}) \o reloadEvents
stopEvent      == startEvent
eventFormSubmit == startEvent
deleteEvent    == Change({"events", "operations", "quarantine"}) \o reloadEvents
deletePreset   == Change({"renaming", "shares"}) \o reloadConfiguration
presetFormSubmit == Change({"renaming"}) \o reloadConfiguration
deleteMapping  == Change({"renaming", "samples"}) \o reloadRenaming \o refreshRenamePreview
mappingFormSubmit == deleteMapping

triggerScanNow == Change({}) \o monitorAutomationCycle
backfillEvent  == Change({}) \o monitorAutomationCycle \o reloadEvents
routeEventAgain ==
    Change({"operations", "maintenance"}) \o monitorAutomationCycle
        \o Read({"events", "quarantine"},
                UNION {renderBadges, renderEvents, renderOnboarding, renderOverview, renderQuarantine})
renameRoutedFiles == Change({"operations"}) \o refreshOperations
Transferred       == {"operations", "quarantine", "maintenance", "storage"}
executeTransfer   == Change(Transferred) \o refreshOperations
routeAgain        == Change(Transferred) \o refreshHistory
retryQuarantine   == routeAgain
dismissQuarantine == Change({"operations", "quarantine", "maintenance"}) \o refreshHistory

(* runMaintenance: one request, then the figures of the page.  That a       *)
(* retention saved across other settings puts those back is the matter of   *)
(* RuntimeSettings.                                                         *)
runMaintenance(globals) == Change(globals) \o refreshMaintenance
reindexMetadata == runMaintenance({})
forgetMissing   == runMaintenance({"maintenance"})
compactDatabase == runMaintenance({"maintenance"})
saveRetention   == runMaintenance({"retention"})
pruneNow        == runMaintenance({"maintenance", "operations"})

checkImageUpdate == Change({"update"}) \o Read({"update"}, renderImageUpdate)

(* What a click may start.  runBackgroundTask hands out the promise of the  *)
(* task that is running under the same key: it does not run twice.          *)
Task == {triggerScanNow, backfillEvent, routeEventAgain, renameRoutedFiles,
         executeTransfer, routeAgain, reindexMetadata, forgetMissing, saveRetention,
         pruneNow, checkImageUpdate}
Click == {deleteShare, shareFormSubmit, deleteGroup, startEvent, deleteEvent,
          deletePreset, presetFormSubmit, deleteMapping, saveSettings, resetSettings,
          dismissQuarantine, refreshOperations, refreshQuarantine, refreshLogs, refreshMaintenance,
          loadAutomationStatus}

-----------------------------------------------------------------------------
VARIABLES
    view,       \* the view that is shown
    stale,      \* pairs: the panel shows an older value of the global than the page holds
    behind,     \* globals: the server holds something newer than the page
    excused,    \* of these, those whose read crossed a change, failed or is yet to come
    call,       \* the handlers under way
    typing,     \* the templates changed and the debounce timer runs
    inputs      \* how often the user or a timer acted

vars == <<view, stale, behind, excused, call, typing, inputs>>

(* A handler under way: the whole of it, the stages left, whether the first *)
(* of them has been answered, and which globals changed since it was.       *)
Idle == [handler |-> <<>>, rest |-> <<>>, answered |-> FALSE, old |-> {}]

Init ==
    /\ view \in {"setup", "overview"}
    /\ stale = {}
    /\ behind = Global
    /\ excused = Global
    /\ \E s \in Slot :
         call = [[o \in Slot |-> Idle] EXCEPT ![s] = [Idle EXCEPT !.handler = load, !.rest = load]]
    /\ typing = FALSE
    /\ inputs = 0

Input ==
    /\ inputs < MaxInputs
    /\ inputs' = inputs + 1

Begin(s, handler) ==
    /\ call[s] = Idle
    /\ call' = [call EXCEPT ![s].handler = handler, ![s].rest = handler]

(* The user starts something.                                              *)
Start(s) ==
    /\ Input
    /\ \/ \E h \in Click : Begin(s, h)
       \/ \E h \in Task : (\A o \in Slot : call[o].handler # h) /\ Begin(s, h)
    /\ UNCHANGED <<view, stale, behind, excused, typing>>

setView(v) ==
    /\ Input
    /\ view' = v
    /\ stale' = IF v = "setup" THEN stale \ renderSetup ELSE stale
    /\ CASE v = "ops" -> \E s \in Slot : Begin(s, refreshLogs)
         [] v = "maintenance" -> \E s \in Slot : Begin(s, refreshMaintenance)
         [] OTHER -> UNCHANGED call
    /\ UNCHANGED <<behind, excused, typing>>

Current(s) == call[s].rest[1]
Waiting(s) == call[s].rest # <<>> /\ ~call[s].answered

(* The server changes globals: an answer already on its way is old.         *)
Outdate(globals) == [o \in Slot |->
    IF call[o].rest # <<>> /\ call[o].answered
    THEN [call[o] EXCEPT !.old = @ \cup (globals \cap Current(o).globals)]
    ELSE call[o]]

(* A template is typed.  The preview is asked for with what the inputs      *)
(* held then, so a request under way is out of date too.                    *)
schedulePreview ==
    /\ Input
    /\ typing' = TRUE
    /\ behind' = behind \cup {"samples"}
    /\ call' = [o \in Slot |->
         IF call[o].rest # <<>> /\ Current(o).globals = {"samples"}
         THEN [call[o] EXCEPT !.old = {"samples"}] ELSE call[o]]
    /\ UNCHANGED <<view, stale, excused>>

PreviewDue(s) ==
    /\ typing
    /\ typing' = FALSE
    /\ Begin(s, refreshRenamePreview)
    /\ UNCHANGED <<view, stale, behind, excused, inputs>>

-----------------------------------------------------------------------------
(* The server answers a request.                                            *)
Serve(s) ==
    /\ Waiting(s)
    /\ IF Current(s).kind = "change"
       THEN /\ behind' = behind \cup Current(s).globals
            /\ call' = [Outdate(Current(s).globals) EXCEPT ![s].answered = TRUE]
       ELSE /\ call' = [call EXCEPT ![s].answered = TRUE]
            /\ UNCHANGED behind
    /\ UNCHANGED <<view, stale, excused, typing, inputs>>

(* Mistake: the answer of one stage is taken for the answer of the next.    *)
OnwardAnswered(s) ==
    IF Len(call[s].rest) = 1 THEN Idle ELSE [call[s] EXCEPT !.rest = Tail(@)]

(* Where the handler stands after its first stage, or after it failed.      *)
Onward(s) ==
    IF Len(call[s].rest) = 1 THEN Idle
    ELSE [call[s] EXCEPT !.rest = Tail(@), !.answered = FALSE, !.old = {}]

(* The answer arrives: globals are assigned, panels drawn.  What changed    *)
(* after the answer was given stays behind, and is excused: the reads       *)
(* crossed.                                                                 *)
Assigned(s) ==
    /\ stale' = (stale \cup {x \in Drawn : x[2] \in Current(s).globals})
                  \ (Current(s).draws \cup
                     IF Current(s).setup /\ view = "setup" THEN renderSetup ELSE {})
    /\ behind' = (behind \ Current(s).globals) \cup call[s].old
    /\ excused' = (excused \ Current(s).globals) \cup call[s].old

Answer(s) ==
    /\ call[s].rest # <<>> /\ call[s].answered
    /\ IF Current(s).kind = "change" THEN UNCHANGED <<stale, behind, excused>> ELSE Assigned(s)
    /\ \/ call' = [call EXCEPT ![s] = Onward(s)]
       \/ /\ Current(s).kind = "watch"
          /\ call' = [call EXCEPT ![s].answered = FALSE, ![s].old = {}]
    /\ UNCHANGED <<view, typing, inputs>>

(* The request is refused or its answer lost: the handler shows the error   *)
(* and gives up the rest.                                                   *)
Fail(s) ==
    /\ call[s].rest # <<>>
    /\ call' = [call EXCEPT ![s] = Idle]
    /\ excused' = excused \cup
         (behind \cap UNION {call[s].rest[i].globals : i \in 1..Len(call[s].rest)})
    /\ UNCHANGED <<view, stale, behind, typing, inputs>>

Next ==
    \/ \E s \in Slot : Start(s) \/ PreviewDue(s) \/ Serve(s) \/ Answer(s) \/ Fail(s)
    \/ \E v \in View : setView(v)
    \/ schedulePreview

Spec == Init /\ [][Next]_vars

-----------------------------------------------------------------------------
(* Handlers hold stages that are left of them, globals and pairs exist.     *)
TypeOK ==
    /\ view \in View
    /\ stale \subseteq Drawn
    /\ behind \subseteq Global /\ excused \subseteq behind
    /\ typing \in BOOLEAN
    /\ \A s \in Slot :
         /\ call[s].old \subseteq IF call[s].rest = <<>> THEN {} ELSE Current(s).globals
         /\ call[s].rest = <<>> => call[s] = Idle
         /\ Len(call[s].rest) <= Len(call[s].handler)

(* Where some handler assigns the global and leaves the panel as it is,     *)
(* though another may draw it: buttons that depend on the mode, names and   *)
(* counts taken from another list, the setup page, the share list and, when *)
(* the settings cannot be read, the figures of the maintenance page, the    *)
(* status line during a watched cycle, and the shares beside the presets    *)
(* until their own request is answered.                                     *)
NotFollowed ==
    UNION {renderSetup,
           {<<"events", "info">>, <<"quarantine", "info">>, <<"operations", "info">>},
           {<<"operations", "shares">>, <<"groups", "events">>,
            <<"maintenance", "shares">>, <<"maintenance", "maintenance">>, <<"rename presets", "shares">>,
            <<"status line", "automation">>}}

(* However handlers interleave, no panel shows an older value than the page *)
(* holds, but for the pairs of NotFollowed, those that at least one reader  *)
(* of the global does not draw.                                             *)
PanelsFollow == stale \subseteq NotFollowed

(* What commands change and leave unread: the histories (deleteShare,       *)
(* deleteEvent, executeTransfer, routeEventAgain, pruneNow), the figures of *)
(* the maintenance page (whatever moves or drops operations elsewhere), the *)
(* retention (resetSettings), the log (all of them), and the storage card   *)
(* (shares and transfers), which the status poll reads within five seconds. *)
LeftBehind == {"operations", "quarantine", "maintenance", "retention", "logs", "storage"}

(* When nothing is under way, the page holds every change it asked for of   *)
(* settings, shares, groups, events, presets and names, except where a read *)
(* crossed the change or failed; LeftBehind names what it may lack anyway.  *)
OwnChangesShown ==
    (typing = FALSE /\ \A s \in Slot : call[s] = Idle) => behind \subseteq excused \cup LeftBehind
=============================================================================
