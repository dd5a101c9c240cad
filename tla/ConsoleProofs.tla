---------------------------- MODULE ConsoleProofs ----------------------------
(***************************************************************************)
(* For any number of handlers under way in a tab: every panel follows what *)
(* the page holds, and what the page's own changes left it behind of is    *)
(* read by somebody, or was excused.                                       *)
(*                                                                         *)
(* First what each renderer draws from, and who follows a global.  Then    *)
(* the shape of a handler: each of its reads draws every panel that        *)
(* follows what it assigns, and what a stage changes a later stage reads.  *)
(* Both come from the parts of a handler by concatenation, and both hold   *)
(* of what is left of a handler; Sound adds whose task is still owed.      *)
(***************************************************************************)
EXTENDS Console, SequenceTheorems, TLAPS

\* A pair of a panel and one of its globals.
LEMMA PanelPairs ==
  ASSUME NEW name, NEW globals, NEW x \in Panel(name, globals)
  PROVE  x = <<name, x[2]>> /\ x[2] \in globals
  BY DEF Panel

\* The globals a renderer draws from.
LEMMA RendererReads ==
  ASSUME NEW x
  PROVE  /\ x \in renderMode => x[2] \in {"info"}
         /\ x \in renderBadges => x[2] \in {"events", "shares", "groups"}
         /\ x \in renderRunningEvent => x[2] \in {"events", "groups", "shares", "info", "schedule", "automation", "quarantine"}
         /\ x \in renderStorage => x[2] \in {"storage"}
         /\ x \in renderSources => x[2] \in {"shares", "storage"}
         /\ x \in renderRecentOps => x[2] \in {"operations"}
         /\ x \in renderOnboarding => x[2] \in {"shares", "groups", "info"}
         /\ x \in renderSetup => x[2] \in {"shares", "groups", "info", "events", "storage", "operations"}
         /\ x \in renderPresets => x[2] \in {"presets"}
         /\ x \in renderShares => x[2] \in {"shares"}
         /\ x \in renderGroupChoices => x[2] \in {"shares"}
         /\ x \in renderGroups => x[2] \in {"groups", "shares", "events"}
         /\ x \in renderEventSelectors => x[2] \in {"groups", "shares"}
         /\ x \in renderEvents => x[2] \in {"events", "groups", "shares", "operations", "info"}
         /\ x \in renderRoutingSources => x[2] \in {"shares"}
         /\ x \in renderOperations => x[2] \in {"operations", "info", "shares"}
         /\ x \in renderLogs => x[2] \in {"logs"}
         /\ x \in renderQuarantine => x[2] \in {"quarantine", "info"}
         /\ x \in renderMaintenance => x[2] \in {"maintenance", "retention", "shares"}
         /\ x \in renderRenamePresets => x[2] \in {"renaming", "shares"}
         /\ x \in renderMappings => x[2] \in {"renaming"}
         /\ x \in renderPresetChoices => x[2] \in {"renaming"}
         /\ x \in renderRenamePreview => x[2] \in {"samples"}
         /\ x \in renderImageUpdate => x[2] \in {"update"}
         /\ x \in renderStatusLine => x[2] \in {"automation", "storage"}
<1>1. x \in renderMode => x[2] \in {"info"}
  BY PanelPairs DEF renderMode
<1>2. x \in renderBadges => x[2] \in {"events", "shares", "groups"}
  BY PanelPairs DEF renderBadges
<1>3. x \in renderRunningEvent => x[2] \in {"events", "groups", "shares", "info", "schedule", "automation", "quarantine"}
  BY PanelPairs DEF renderRunningEvent, activeEvents, eventRowList, eventHeadline, eventSummary, automationBlock, renderNextScanCountdown
<1>4. x \in renderStorage => x[2] \in {"storage"}
  BY PanelPairs DEF renderStorage
<1>5. x \in renderSources => x[2] \in {"shares", "storage"}
  BY PanelPairs DEF renderSources
<1>6. x \in renderRecentOps => x[2] \in {"operations"}
  BY PanelPairs DEF renderRecentOps
<1>7. x \in renderOnboarding => x[2] \in {"shares", "groups", "info"}
  BY PanelPairs DEF renderOnboarding, SETUP_STEPS
<1>8. x \in renderSetup => x[2] \in {"shares", "groups", "info", "events", "storage", "operations"}
  BY PanelPairs DEF renderSetup, SETUP_STEPS, activeEvents
<1>9. x \in renderPresets => x[2] \in {"presets"}
  BY PanelPairs DEF renderPresets
<1>10. x \in renderShares => x[2] \in {"shares"}
  BY PanelPairs DEF renderShares
<1>11. x \in renderGroupChoices => x[2] \in {"shares"}
  BY PanelPairs DEF renderGroupChoices
<1>12. x \in renderGroups => x[2] \in {"groups", "shares", "events"}
  BY PanelPairs DEF renderGroups
<1>13. x \in renderEventSelectors => x[2] \in {"groups", "shares"}
  BY PanelPairs DEF renderEventSelectors
<1>14. x \in renderEvents => x[2] \in {"events", "groups", "shares", "operations", "info"}
  BY PanelPairs DEF renderEvents
<1>15. x \in renderRoutingSources => x[2] \in {"shares"}
  BY PanelPairs DEF renderRoutingSources
<1>16. x \in renderOperations => x[2] \in {"operations", "info", "shares"}
  BY PanelPairs DEF renderOperations, shareForPath
<1>17. x \in renderLogs => x[2] \in {"logs"}
  BY PanelPairs DEF renderLogs
<1>18. x \in renderQuarantine => x[2] \in {"quarantine", "info"}
  BY PanelPairs DEF renderQuarantine
<1>19. x \in renderMaintenance => x[2] \in {"maintenance", "retention", "shares"}
  BY PanelPairs DEF renderMaintenance
<1>20. x \in renderRenamePresets => x[2] \in {"renaming", "shares"}
  BY PanelPairs DEF renderRenamePresets
<1>21. x \in renderMappings => x[2] \in {"renaming"}
  BY PanelPairs DEF renderMappings
<1>22. x \in renderPresetChoices => x[2] \in {"renaming"}
  BY PanelPairs DEF renderPresetChoices
<1>23. x \in renderRenamePreview => x[2] \in {"samples"}
  BY PanelPairs DEF renderRenamePreview
<1>24. x \in renderImageUpdate => x[2] \in {"update"}
  BY PanelPairs DEF renderImageUpdate
<1>25. x \in renderStatusLine => x[2] \in {"automation", "storage"}
  BY PanelPairs DEF renderStatusLine
<1> QED
  BY <1>1, <1>2, <1>3, <1>4, <1>5, <1>6, <1>7, <1>8, <1>9, <1>10, <1>11, <1>12, <1>13,
     <1>14, <1>15, <1>16, <1>17, <1>18, <1>19, <1>20, <1>21, <1>22, <1>23, <1>24, <1>25

\* What is drawn is drawn by one of the renderers.
LEMMA Renderers ==
  ASSUME NEW x \in Drawn
  PROVE  \/ x \in renderMode
         \/ x \in renderBadges
         \/ x \in renderRunningEvent
         \/ x \in renderStorage
         \/ x \in renderSources
         \/ x \in renderRecentOps
         \/ x \in renderOnboarding
         \/ x \in renderSetup
         \/ x \in renderPresets
         \/ x \in renderShares
         \/ x \in renderGroupChoices
         \/ x \in renderGroups
         \/ x \in renderEventSelectors
         \/ x \in renderEvents
         \/ x \in renderRoutingSources
         \/ x \in renderOperations
         \/ x \in renderLogs
         \/ x \in renderQuarantine
         \/ x \in renderMaintenance
         \/ x \in renderRenamePresets
         \/ x \in renderMappings
         \/ x \in renderPresetChoices
         \/ x \in renderRenamePreview
         \/ x \in renderImageUpdate
         \/ x \in renderStatusLine
<1>1. Drawn = UNION {renderAll, renderSetup, renderLogs, renderMaintenance, renderRenamePresets,
                      renderMappings, renderPresetChoices, renderRenamePreview,
                      renderImageUpdate, renderStatusLine}
  BY DEF Drawn
<1> QED
  BY <1>1 DEF renderAll, renderOverview

\* The pairs some reader of the global does not draw.
LEMMA Unfollowed ==
  ASSUME NEW x
  PROVE  /\ x \in renderSetup => x \in NotFollowed
         /\ x \in renderEvents /\ x[2] = "info" => x \in NotFollowed
         /\ x \in renderQuarantine /\ x[2] = "info" => x \in NotFollowed
         /\ x \in renderOperations /\ x[2] = "info" => x \in NotFollowed
         /\ x \in renderOperations /\ x[2] = "shares" => x \in NotFollowed
         /\ x \in renderGroups /\ x[2] = "events" => x \in NotFollowed
         /\ x \in renderMaintenance /\ x[2] = "shares" => x \in NotFollowed
         /\ x \in renderMaintenance /\ x[2] = "maintenance" => x \in NotFollowed
         /\ x \in renderRenamePresets /\ x[2] = "shares" => x \in NotFollowed
         /\ x \in renderStatusLine /\ x[2] = "automation" => x \in NotFollowed
<1>1. x \in renderSetup => x \in NotFollowed
  BY DEF NotFollowed
<1>2. x \in renderEvents /\ x[2] = "info" => x \in NotFollowed
  <2>1. x \in renderEvents /\ x[2] = "info" => x = <<"events", "info">>
    BY PanelPairs DEF renderEvents
  <2>2. <<"events", "info">> \in NotFollowed
    BY DEF NotFollowed
  <2> QED
    BY <2>1, <2>2
<1>3. x \in renderQuarantine /\ x[2] = "info" => x \in NotFollowed
  <2>1. x \in renderQuarantine /\ x[2] = "info" => x = <<"quarantine", "info">>
    BY PanelPairs DEF renderQuarantine
  <2>2. <<"quarantine", "info">> \in NotFollowed
    BY DEF NotFollowed
  <2> QED
    BY <2>1, <2>2
<1>4. x \in renderOperations /\ x[2] = "info" => x \in NotFollowed
  <2>1. x \in renderOperations /\ x[2] = "info" => x = <<"operations", "info">>
    BY PanelPairs DEF renderOperations
  <2>2. <<"operations", "info">> \in NotFollowed
    BY DEF NotFollowed
  <2> QED
    BY <2>1, <2>2
<1>5. x \in renderOperations /\ x[2] = "shares" => x \in NotFollowed
  <2>1. x \in renderOperations /\ x[2] = "shares" => x = <<"operations", "shares">>
    BY PanelPairs DEF renderOperations
  <2>2. <<"operations", "shares">> \in NotFollowed
    BY DEF NotFollowed
  <2> QED
    BY <2>1, <2>2
<1>6. x \in renderGroups /\ x[2] = "events" => x \in NotFollowed
  <2>1. x \in renderGroups /\ x[2] = "events" => x = <<"groups", "events">>
    BY PanelPairs DEF renderGroups
  <2>2. <<"groups", "events">> \in NotFollowed
    BY DEF NotFollowed
  <2> QED
    BY <2>1, <2>2
<1>7. x \in renderMaintenance /\ x[2] = "shares" => x \in NotFollowed
  <2>1. x \in renderMaintenance /\ x[2] = "shares" => x = <<"maintenance", "shares">>
    BY PanelPairs DEF renderMaintenance
  <2>2. <<"maintenance", "shares">> \in NotFollowed
    BY DEF NotFollowed
  <2> QED
    BY <2>1, <2>2
<1>8. x \in renderMaintenance /\ x[2] = "maintenance" => x \in NotFollowed
  <2>1. x \in renderMaintenance /\ x[2] = "maintenance" => x = <<"maintenance", "maintenance">>
    BY PanelPairs DEF renderMaintenance
  <2>2. <<"maintenance", "maintenance">> \in NotFollowed
    BY DEF NotFollowed
  <2> QED
    BY <2>1, <2>2
<1>9. x \in renderRenamePresets /\ x[2] = "shares" => x \in NotFollowed
  <2>1. x \in renderRenamePresets /\ x[2] = "shares" => x = <<"rename presets", "shares">>
    BY PanelPairs DEF renderRenamePresets
  <2>2. <<"rename presets", "shares">> \in NotFollowed
    BY DEF NotFollowed
  <2> QED
    BY <2>1, <2>2
<1>10. x \in renderStatusLine /\ x[2] = "automation" => x \in NotFollowed
  <2>1. x \in renderStatusLine /\ x[2] = "automation" => x = <<"status line", "automation">>
    BY PanelPairs DEF renderStatusLine
  <2>2. <<"status line", "automation">> \in NotFollowed
    BY DEF NotFollowed
  <2> QED
    BY <2>1, <2>2
<1> QED
  BY <1>1, <1>2, <1>3, <1>4, <1>5, <1>6, <1>7, <1>8, <1>9, <1>10

\* Who follows a global.
LEMMA Followers ==
  ASSUME NEW x \in Drawn, x \notin NotFollowed
  PROVE  /\ x[2] \in Global
         /\ x[2] = "info" => x \in renderMode \/ x \in renderRunningEvent \/ x \in renderOnboarding
         /\ x[2] = "schedule" => x \in renderRunningEvent
         /\ x[2] = "presets" => x \in renderPresets
         /\ x[2] = "shares" => x \in renderBadges \/ x \in renderRunningEvent \/ x \in renderSources \/
              x \in renderOnboarding \/ x \in renderShares \/
              x \in renderGroupChoices \/ x \in renderGroups \/
              x \in renderEventSelectors \/ x \in renderEvents \/
              x \in renderRoutingSources
         /\ x[2] = "groups" => x \in renderBadges \/ x \in renderRunningEvent \/ x \in renderOnboarding \/
              x \in renderGroups \/ x \in renderEventSelectors \/ x \in renderEvents
         /\ x[2] = "events" => x \in renderBadges \/ x \in renderRunningEvent \/ x \in renderEvents
         /\ x[2] = "operations" => x \in renderRecentOps \/ x \in renderEvents \/ x \in renderOperations
         /\ x[2] = "quarantine" => x \in renderRunningEvent \/ x \in renderQuarantine
         /\ x[2] = "logs" => x \in renderLogs
         /\ x[2] = "maintenance" => FALSE
         /\ x[2] = "automation" => x \in renderRunningEvent
         /\ x[2] = "storage" => x \in renderStorage \/ x \in renderSources \/ x \in renderStatusLine
         /\ x[2] = "retention" => x \in renderMaintenance
         /\ x[2] = "update" => x \in renderImageUpdate
         /\ x[2] = "renaming" => x \in renderRenamePresets \/ x \in renderMappings \/ x \in renderPresetChoices
         /\ x[2] = "samples" => x \in renderRenamePreview
  BY Renderers, RendererReads, Unfollowed DEF Global

\* Every renderer draws what is drawn.
LEMMA RenderersDraw ==
  /\ renderAll \subseteq Drawn /\ renderSetup \subseteq Drawn /\ renderLogs \subseteq Drawn
  /\ renderMaintenance \subseteq Drawn /\ renderRenamePresets \subseteq Drawn
  /\ renderMappings \subseteq Drawn /\ renderPresetChoices \subseteq Drawn
  /\ renderRenamePreview \subseteq Drawn /\ renderImageUpdate \subseteq Drawn
  /\ renderStatusLine \subseteq Drawn
  BY DEF Drawn

-----------------------------------------------------------------------------
(* Stages and handlers                                                     *)

\* A read draws every panel that follows what it assigns.
StageType ==
  {st \in [kind: {"read", "change", "watch"}, globals: SUBSET Global, draws: SUBSET Drawn,
           setup: BOOLEAN] :
     st.kind # "change" => \A x \in Drawn : x[2] \in st.globals => x \in st.draws \cup NotFollowed}

ReadsAt(h, j, g) == h[j].kind # "change" /\ g \in h[j].globals

\* A sequence of stages that reads the globals G and, after each change, what it
\* changed, but for what is left behind and the globals owed.
Shape(h, G, owed) ==
  /\ h \in Seq(StageType) /\ h # <<>>
  /\ \A g \in G : \E j \in 1..Len(h) : ReadsAt(h, j, g)
  /\ \A i \in 1..Len(h) : h[i].kind = "change" =>
       \A g \in h[i].globals \ (LeftBehind \cup owed) :
         \E j \in 1..Len(h) : j > i /\ ReadsAt(h, j, g)

LEMMA ReadShape ==
  ASSUME NEW kind \in {"read", "watch"}, NEW G \in SUBSET Global, NEW D \in SUBSET Drawn,
         NEW setup \in BOOLEAN,
         \A x \in Drawn : x \notin NotFollowed /\ x[2] \in G => x \in D
  PROVE  Shape(Stage(kind, G, D, setup), G, {})
<1> DEFINE st == [kind |-> kind, globals |-> G, draws |-> D, setup |-> setup]
<1>1. st \in StageType
  BY DEF StageType
<1>2. Stage(kind, G, D, setup) = <<st>>
  BY DEF Stage
<1>3. st.kind # "change" /\ st.globals = G
  OBVIOUS
<1> HIDE DEF st
<1>4. <<st>> \in Seq(StageType) /\ Len(<<st>>) = 1 /\ <<st>>[1] = st /\ <<st>> # <<>>
  BY <1>1
<1> QED
  BY <1>2, <1>3, <1>4 DEF Shape, ReadsAt

LEMMA ChangeShape ==
  ASSUME NEW G \in SUBSET Global
  PROVE  Shape(Change(G), {}, G \cup {"logs"})
<1> DEFINE L == G \cup {"logs"}
           st == [kind |-> "change", globals |-> L, draws |-> {}, setup |-> FALSE]
<1>0. L \in SUBSET Global
  BY DEF Global
<1>1. Change(G) = <<st>>
  BY DEF Change, Stage
<1> HIDE DEF L
<1>2. st \in StageType
  BY <1>0 DEF StageType
<1>3. st.globals = L
  OBVIOUS
<1> HIDE DEF st
<1>4. <<st>> \in Seq(StageType) /\ Len(<<st>>) = 1 /\ <<st>>[1] = st /\ <<st>> # <<>>
  BY <1>2
<1>5. Shape(Change(G), {}, L)
  BY <1>1, <1>3, <1>4 DEF Shape
<1> QED
  BY <1>5 DEF L

LEMMA ThenShape ==
  ASSUME NEW a, NEW b, NEW G, NEW H, NEW owed, NEW more,
         Shape(a, G, owed), Shape(b, H, more)
  PROVE  Shape(a \o b, G \cup H, (owed \ H) \cup more)
<1> DEFINE h == a \o b
<1>1. /\ a \in Seq(StageType) /\ b \in Seq(StageType) /\ a # <<>>
      /\ Len(a) \in Nat /\ Len(b) \in Nat
  BY DEF Shape
<1>2. /\ h \in Seq(StageType) /\ Len(h) = Len(a) + Len(b)
      /\ \A i \in 1..Len(a) : h[i] = a[i]
      /\ \A i \in 1..Len(b) : h[Len(a) + i] = b[i]
  BY <1>1
<1>3. h # <<>>
  BY <1>1, <1>2
<1> HIDE DEF h
<1>4. \A i \in 1..Len(a) : i \in 1..Len(h)
  BY <1>1, <1>2
<1>5. \A i \in 1..Len(b) : Len(a) + i \in 1..Len(h)
  BY <1>1, <1>2
<1>6. ASSUME NEW g \in G \cup H PROVE \E j \in 1..Len(h) : ReadsAt(h, j, g)
  <2>1. CASE g \in G
    <3>1. PICK j \in 1..Len(a) : ReadsAt(a, j, g)
      BY <2>1 DEF Shape
    <3> QED
      BY <1>2, <1>4, <3>1 DEF ReadsAt
  <2>2. CASE g \in H
    <3>1. PICK j \in 1..Len(b) : ReadsAt(b, j, g)
      BY <2>2 DEF Shape
    <3> QED
      BY <1>2, <1>5, <3>1 DEF ReadsAt
  <2> QED
    BY <2>1, <2>2
<1>7. ASSUME NEW i \in 1..Len(h), h[i].kind = "change",
             NEW g \in h[i].globals \ (LeftBehind \cup (owed \ H) \cup more)
      PROVE  \E j \in 1..Len(h) : j > i /\ ReadsAt(h, j, g)
  <2>1. CASE i \in 1..Len(a)
    <3>1. h[i] = a[i]
      BY <1>2, <2>1
    <3>2. CASE g \in owed
      <4>1. PICK j \in 1..Len(b) : ReadsAt(b, j, g)
        BY <1>7, <3>2 DEF Shape
      <4>2. Len(a) + j \in 1..Len(h) /\ Len(a) + j > i /\ ReadsAt(h, Len(a) + j, g)
        BY <1>1, <1>2, <1>5, <2>1, <4>1 DEF ReadsAt
      <4> QED
        BY <4>2
    <3>3. CASE g \notin owed
      <4>1. PICK j \in 1..Len(a) : j > i /\ ReadsAt(a, j, g)
        BY <1>7, <2>1, <3>1, <3>3 DEF Shape
      <4> QED
        BY <1>2, <1>4, <4>1 DEF ReadsAt
    <3> QED
      BY <3>2, <3>3
  <2>2. CASE i \notin 1..Len(a)
    <3>1. PICK k \in 1..Len(b) : i = Len(a) + k
      <4>1. i - Len(a) \in 1..Len(b) /\ i = Len(a) + (i - Len(a))
        BY <1>1, <1>2, <2>2
      <4> QED
        BY <4>1
    <3>2. h[i] = b[k]
      BY <1>2, <3>1
    <3>3. PICK j \in 1..Len(b) : j > k /\ ReadsAt(b, j, g)
      BY <1>7, <3>2 DEF Shape
    <3>4. Len(a) + j \in 1..Len(h) /\ Len(a) + j > i /\ ReadsAt(h, Len(a) + j, g)
      BY <1>1, <1>2, <1>5, <3>1, <3>3 DEF ReadsAt
    <3> QED
      BY <3>4
  <2> QED
    BY <2>1, <2>2
<1> QED
  BY <1>2, <1>3, <1>6, <1>7 DEF Shape, h

\* A handler reads again whatever it changed.
Whole(h) == Shape(h, {}, {})

LEMMA ShapeIsWhole ==
  ASSUME NEW h, NEW G, NEW owed, owed \subseteq LeftBehind, Shape(h, G, owed)
  PROVE  Whole(h)
  BY DEF Whole, Shape

\* Fewer globals read, more owed.
LEMMA WeakerShape ==
  ASSUME NEW h, NEW G, NEW owed, NEW H, NEW more, H \subseteq G, owed \subseteq more,
         Shape(h, G, owed)
  PROVE  Shape(h, H, more)
  BY DEF Shape

\* Reads after reads, and reads that pay what is owed.
LEMMA ThenReads ==
  ASSUME NEW a, NEW b, NEW G, NEW H, NEW owed, Shape(a, G, owed), Shape(b, H, {})
  PROVE  /\ Shape(a \o b, G \cup H, owed)
         /\ owed \subseteq H \cup LeftBehind => Whole(a \o b)
<1>1. Shape(a \o b, G \cup H, (owed \ H) \cup {})
  BY ThenShape
<1>2. Shape(a \o b, G \cup H, owed)
  BY <1>1, WeakerShape
<1>3. ASSUME owed \subseteq H \cup LeftBehind PROVE Whole(a \o b)
  <2>1. (owed \ H) \cup {} \subseteq LeftBehind
    BY <1>3
  <2> QED
    BY <1>1, <2>1, ShapeIsWhole
<1> QED
  BY <1>2, <1>3

\* Each read draws whoever follows what it assigns.
LEMMA ReadShapes ==
  /\ Shape(refreshRenamePreview,
           {"samples"}, {})
  /\ Shape(Read({"renaming"},
           renderRenamePresets \cup renderMappings \cup renderPresetChoices),
           {"renaming"}, {})
  /\ Shape(Read({"info", "schedule", "presets", "shares", "groups", "events", "operations", "quarantine"},
           renderAll),
           {"info", "schedule", "presets", "shares", "groups", "events", "operations", "quarantine"}, {})
  /\ Shape(Read({"shares", "groups", "events"},
           UNION {renderBadges, renderShares, renderGroupChoices, renderGroups,
                renderEventSelectors, renderEvents, renderRoutingSources,
                renderOnboarding, renderOverview}),
           {"shares", "groups", "events"}, {})
  /\ Shape(reloadEvents,
           {"events"}, {})
  /\ Shape(refreshOperations,
           {"operations"}, {})
  /\ Shape(refreshQuarantine,
           {"quarantine"}, {})
  /\ Shape(refreshHistory,
           {"operations", "quarantine"}, {})
  /\ Shape(refreshLogs,
           {"logs"}, {})
  /\ Shape(Read({"maintenance"},
           {}),
           {"maintenance"}, {})
  /\ Shape(Read({"retention"},
           renderMaintenance),
           {"retention"}, {})
  /\ Shape(applySettingsToForm,
           {"info", "schedule"}, {})
  /\ Shape(loadAutomationStatus,
           {"automation", "storage"}, {})
  /\ Shape(monitorAutomationCycle,
           {"automation", "schedule"}, {})
  /\ Shape(Read({"events", "quarantine"},
           UNION {renderBadges, renderEvents, renderOnboarding, renderOverview, renderQuarantine}),
           {"events", "quarantine"}, {})
  /\ Shape(Read({"update"},
           renderImageUpdate),
           {"update"}, {})
<1>1. Shape(refreshRenamePreview,
           {"samples"}, {})
  <2> DEFINE G == {"samples"}
             D == renderRenamePreview
  <2>1. \A x \in Drawn : x \notin NotFollowed /\ x[2] \in G => x \in D
    BY Followers DEF renderAll, renderOverview
  <2>2. G \in SUBSET Global
    BY DEF Global
  <2>3. D \in SUBSET Drawn
    BY RenderersDraw DEF renderAll, renderOverview
  <2> HIDE DEF G, D
  <2>4. Shape(Stage("read", G, D, FALSE), G, {})
    BY <2>1, <2>2, <2>3, ReadShape
  <2> QED
    BY <2>4 DEF G, D, Read, refreshRenamePreview
<1>2. Shape(Read({"renaming"},
           renderRenamePresets \cup renderMappings \cup renderPresetChoices),
           {"renaming"}, {})
  <2> DEFINE G == {"renaming"}
             D == renderRenamePresets \cup renderMappings \cup renderPresetChoices
  <2>1. \A x \in Drawn : x \notin NotFollowed /\ x[2] \in G => x \in D
    BY Followers DEF renderAll, renderOverview
  <2>2. G \in SUBSET Global
    BY DEF Global
  <2>3. D \in SUBSET Drawn
    BY RenderersDraw DEF renderAll, renderOverview
  <2> HIDE DEF G, D
  <2>4. Shape(Stage("read", G, D, FALSE), G, {})
    BY <2>1, <2>2, <2>3, ReadShape
  <2> QED
    BY <2>4 DEF G, D, Read
<1>3. Shape(Read({"info", "schedule", "presets", "shares", "groups", "events", "operations", "quarantine"},
           renderAll),
           {"info", "schedule", "presets", "shares", "groups", "events", "operations", "quarantine"}, {})
  <2> DEFINE G == {"info", "schedule", "presets", "shares", "groups", "events", "operations", "quarantine"}
             D == renderAll
  <2>1. \A x \in Drawn : x \notin NotFollowed /\ x[2] \in G => x \in D
    BY Followers DEF renderAll, renderOverview
  <2>2. G \in SUBSET Global
    BY DEF Global
  <2>3. D \in SUBSET Drawn
    BY RenderersDraw DEF renderAll, renderOverview
  <2> HIDE DEF G, D
  <2>4. Shape(Stage("read", G, D, FALSE), G, {})
    BY <2>1, <2>2, <2>3, ReadShape
  <2> QED
    BY <2>4 DEF G, D, Read
<1>4. Shape(Read({"shares", "groups", "events"},
           UNION {renderBadges, renderShares, renderGroupChoices, renderGroups,
                renderEventSelectors, renderEvents, renderRoutingSources,
                renderOnboarding, renderOverview}),
           {"shares", "groups", "events"}, {})
  <2> DEFINE G == {"shares", "groups", "events"}
             D == UNION {renderBadges, renderShares, renderGroupChoices, renderGroups,
                  renderEventSelectors, renderEvents, renderRoutingSources,
                  renderOnboarding, renderOverview}
  <2>1. \A x \in Drawn : x \notin NotFollowed /\ x[2] \in G => x \in D
    BY Followers DEF renderAll, renderOverview
  <2>2. G \in SUBSET Global
    BY DEF Global
  <2>3. D \in SUBSET Drawn
    BY RenderersDraw DEF renderAll, renderOverview
  <2> HIDE DEF G, D
  <2>4. Shape(Stage("read", G, D, FALSE), G, {})
    BY <2>1, <2>2, <2>3, ReadShape
  <2> QED
    BY <2>4 DEF G, D, Read
<1>5. Shape(reloadEvents,
           {"events"}, {})
  <2> DEFINE G == {"events"}
             D == renderBadges \cup renderEvents \cup renderOnboarding \cup renderOverview
  <2>1. \A x \in Drawn : x \notin NotFollowed /\ x[2] \in G => x \in D
    BY Followers DEF renderAll, renderOverview
  <2>2. G \in SUBSET Global
    BY DEF Global
  <2>3. D \in SUBSET Drawn
    BY RenderersDraw DEF renderAll, renderOverview
  <2> HIDE DEF G, D
  <2>4. Shape(Stage("read", G, D, FALSE), G, {})
    BY <2>1, <2>2, <2>3, ReadShape
  <2> QED
    BY <2>4 DEF G, D, Read, reloadEvents
<1>6. Shape(refreshOperations,
           {"operations"}, {})
  <2> DEFINE G == {"operations"}
             D == renderOperations \cup renderRecentOps \cup renderEvents
  <2>1. \A x \in Drawn : x \notin NotFollowed /\ x[2] \in G => x \in D
    BY Followers DEF renderAll, renderOverview
  <2>2. G \in SUBSET Global
    BY DEF Global
  <2>3. D \in SUBSET Drawn
    BY RenderersDraw DEF renderAll, renderOverview
  <2> HIDE DEF G, D
  <2>4. Shape(Stage("read", G, D, FALSE), G, {})
    BY <2>1, <2>2, <2>3, ReadShape
  <2> QED
    BY <2>4 DEF G, D, Read, refreshOperations
<1>7. Shape(refreshQuarantine,
           {"quarantine"}, {})
  <2> DEFINE G == {"quarantine"}
             D == renderQuarantine \cup renderRunningEvent
  <2>1. \A x \in Drawn : x \notin NotFollowed /\ x[2] \in G => x \in D
    BY Followers DEF renderAll, renderOverview
  <2>2. G \in SUBSET Global
    BY DEF Global
  <2>3. D \in SUBSET Drawn
    BY RenderersDraw DEF renderAll, renderOverview
  <2> HIDE DEF G, D
  <2>4. Shape(Stage("read", G, D, FALSE), G, {})
    BY <2>1, <2>2, <2>3, ReadShape
  <2> QED
    BY <2>4 DEF G, D, Read, refreshQuarantine
<1>8. Shape(refreshHistory,
           {"operations", "quarantine"}, {})
  <2> DEFINE G == {"operations", "quarantine"}
             D == UNION {renderOperations, renderRecentOps,
                         renderEvents, renderQuarantine, renderRunningEvent}
  <2>1. \A x \in Drawn : x \notin NotFollowed /\ x[2] \in G => x \in D
    BY Followers DEF renderAll, renderOverview
  <2>2. G \in SUBSET Global
    BY DEF Global
  <2>3. D \in SUBSET Drawn
    BY RenderersDraw DEF renderAll, renderOverview
  <2> HIDE DEF G, D
  <2>4. Shape(Stage("read", G, D, FALSE), G, {})
    BY <2>1, <2>2, <2>3, ReadShape
  <2> QED
    BY <2>4 DEF G, D, Read, refreshHistory
<1>9. Shape(refreshLogs,
           {"logs"}, {})
  <2> DEFINE G == {"logs"}
             D == renderLogs
  <2>1. \A x \in Drawn : x \notin NotFollowed /\ x[2] \in G => x \in D
    BY Followers DEF renderAll, renderOverview
  <2>2. G \in SUBSET Global
    BY DEF Global
  <2>3. D \in SUBSET Drawn
    BY RenderersDraw DEF renderAll, renderOverview
  <2> HIDE DEF G, D
  <2>4. Shape(Stage("read", G, D, FALSE), G, {})
    BY <2>1, <2>2, <2>3, ReadShape
  <2> QED
    BY <2>4 DEF G, D, Read, refreshLogs
<1>10. Shape(Read({"maintenance"},
           {}),
           {"maintenance"}, {})
  <2> DEFINE G == {"maintenance"}
             D == {}
  <2>1. \A x \in Drawn : x \notin NotFollowed /\ x[2] \in G => x \in D
    BY Followers DEF renderAll, renderOverview
  <2>2. G \in SUBSET Global
    BY DEF Global
  <2>3. D \in SUBSET Drawn
    BY RenderersDraw DEF renderAll, renderOverview
  <2> HIDE DEF G, D
  <2>4. Shape(Stage("read", G, D, FALSE), G, {})
    BY <2>1, <2>2, <2>3, ReadShape
  <2> QED
    BY <2>4 DEF G, D, Read
<1>11. Shape(Read({"retention"},
           renderMaintenance),
           {"retention"}, {})
  <2> DEFINE G == {"retention"}
             D == renderMaintenance
  <2>1. \A x \in Drawn : x \notin NotFollowed /\ x[2] \in G => x \in D
    BY Followers DEF renderAll, renderOverview
  <2>2. G \in SUBSET Global
    BY DEF Global
  <2>3. D \in SUBSET Drawn
    BY RenderersDraw DEF renderAll, renderOverview
  <2> HIDE DEF G, D
  <2>4. Shape(Stage("read", G, D, FALSE), G, {})
    BY <2>1, <2>2, <2>3, ReadShape
  <2> QED
    BY <2>4 DEF G, D, Read
<1>12. Shape(applySettingsToForm,
           {"info", "schedule"}, {})
  <2> DEFINE G == {"info", "schedule"}
             D == renderMode \cup renderOnboarding \cup renderOverview
  <2>1. \A x \in Drawn : x \notin NotFollowed /\ x[2] \in G => x \in D
    BY Followers DEF renderAll, renderOverview
  <2>2. G \in SUBSET Global
    BY DEF Global
  <2>3. D \in SUBSET Drawn
    BY RenderersDraw DEF renderAll, renderOverview
  <2> HIDE DEF G, D
  <2>4. Shape(Stage("read", G, D, TRUE), G, {})
    BY <2>1, <2>2, <2>3, ReadShape
  <2> QED
    BY <2>4 DEF G, D, Read, applySettingsToForm
<1>13. Shape(loadAutomationStatus,
           {"automation", "storage"}, {})
  <2> DEFINE G == {"automation", "storage"}
             D == renderStatusLine \cup renderOverview
  <2>1. \A x \in Drawn : x \notin NotFollowed /\ x[2] \in G => x \in D
    BY Followers DEF renderAll, renderOverview
  <2>2. G \in SUBSET Global
    BY DEF Global
  <2>3. D \in SUBSET Drawn
    BY RenderersDraw DEF renderAll, renderOverview
  <2> HIDE DEF G, D
  <2>4. Shape(Stage("read", G, D, TRUE), G, {})
    BY <2>1, <2>2, <2>3, ReadShape
  <2> QED
    BY <2>4 DEF G, D, Read, loadAutomationStatus
<1>14. Shape(monitorAutomationCycle,
           {"automation", "schedule"}, {})
  <2> DEFINE G == {"automation", "schedule"}
             D == renderOverview
  <2>1. \A x \in Drawn : x \notin NotFollowed /\ x[2] \in G => x \in D
    BY Followers DEF renderAll, renderOverview
  <2>2. G \in SUBSET Global
    BY DEF Global
  <2>3. D \in SUBSET Drawn
    BY RenderersDraw DEF renderAll, renderOverview
  <2> HIDE DEF G, D
  <2>4. Shape(Stage("watch", G, D, FALSE), G, {})
    BY <2>1, <2>2, <2>3, ReadShape
  <2> QED
    BY <2>4 DEF G, D, Read, monitorAutomationCycle
<1>15. Shape(Read({"events", "quarantine"},
           UNION {renderBadges, renderEvents, renderOnboarding, renderOverview, renderQuarantine}),
           {"events", "quarantine"}, {})
  <2> DEFINE G == {"events", "quarantine"}
             D == UNION {renderBadges, renderEvents, renderOnboarding,
                         renderOverview, renderQuarantine}
  <2>1. \A x \in Drawn : x \notin NotFollowed /\ x[2] \in G => x \in D
    BY Followers DEF renderAll, renderOverview
  <2>2. G \in SUBSET Global
    BY DEF Global
  <2>3. D \in SUBSET Drawn
    BY RenderersDraw DEF renderAll, renderOverview
  <2> HIDE DEF G, D
  <2>4. Shape(Stage("read", G, D, FALSE), G, {})
    BY <2>1, <2>2, <2>3, ReadShape
  <2> QED
    BY <2>4 DEF G, D, Read
<1>16. Shape(Read({"update"},
           renderImageUpdate),
           {"update"}, {})
  <2> DEFINE G == {"update"}
             D == renderImageUpdate
  <2>1. \A x \in Drawn : x \notin NotFollowed /\ x[2] \in G => x \in D
    BY Followers DEF renderAll, renderOverview
  <2>2. G \in SUBSET Global
    BY DEF Global
  <2>3. D \in SUBSET Drawn
    BY RenderersDraw DEF renderAll, renderOverview
  <2> HIDE DEF G, D
  <2>4. Shape(Stage("read", G, D, FALSE), G, {})
    BY <2>1, <2>2, <2>3, ReadShape
  <2> QED
    BY <2>4 DEF G, D, Read
<1> QED
  BY <1>1, <1>2, <1>3, <1>4, <1>5, <1>6, <1>7, <1>8, <1>9, <1>10, <1>11, <1>12, <1>13,
     <1>14, <1>15, <1>16

\* A change, and one or two reads that show it.
LEMMA ChangeThen ==
  ASSUME NEW G \in SUBSET Global, NEW b, NEW H, Shape(b, H, {}), G \subseteq H \cup LeftBehind
  PROVE  Whole(Change(G) \o b)
<1>1. Shape(Change(G), {}, G \cup {"logs"})
  BY ChangeShape
<1>2. G \cup {"logs"} \subseteq H \cup LeftBehind
  BY DEF LeftBehind
<1> QED
  BY <1>1, <1>2, ThenReads

LEMMA ChangeThenTwo ==
  ASSUME NEW G \in SUBSET Global, NEW a, NEW A, NEW b, NEW B,
         Shape(a, A, {}), Shape(b, B, {}), G \subseteq A \cup B \cup LeftBehind
  PROVE  Whole(Change(G) \o a \o b)
<1> DEFINE first == Change(G) \o a
           owed == (G \cup {"logs"}) \ A
<1>1. Shape(Change(G), {}, G \cup {"logs"})
  BY ChangeShape
<1>2. Shape(first, {} \cup A, owed \cup {})
  BY <1>1, ThenShape
<1>3. owed \cup {} \subseteq B \cup LeftBehind
  BY DEF LeftBehind
<1> HIDE DEF first, owed
<1>4. Whole(first \o b)
  BY <1>2, <1>3, ThenReads
<1> QED
  BY <1>4 DEF first

\* The reloads.
LEMMA ReloadShapes ==
  /\ Shape(reloadRenaming, {"renaming", "samples"}, {})
  /\ Shape(reloadConfiguration, {"shares", "groups", "events", "renaming", "samples"}, {})
  /\ Shape(refreshMaintenance, {"maintenance", "retention"}, {})
  /\ Whole(load)
<1>1. Shape(reloadRenaming, {"renaming"} \cup {"samples"}, {})
  BY ReadShapes, ThenReads DEF reloadRenaming
<1>2. Shape(reloadRenaming, {"renaming", "samples"}, {})
  BY <1>1, WeakerShape
<1>3. Shape(reloadConfiguration, {"shares", "groups", "events"} \cup {"renaming", "samples"}, {})
  BY <1>2, ReadShapes, ThenReads DEF reloadConfiguration
<1>4. Shape(reloadConfiguration, {"shares", "groups", "events", "renaming", "samples"}, {})
  BY <1>3, WeakerShape
<1>5. Shape(refreshMaintenance, {"maintenance"} \cup {"retention"}, {})
  BY ReadShapes, ThenReads DEF refreshMaintenance
<1>6. Shape(refreshMaintenance, {"maintenance", "retention"}, {})
  BY <1>5, WeakerShape
<1>7. Whole(load)
  BY <1>2, ReadShapes, ThenReads DEF load
<1> QED
  BY <1>2, <1>4, <1>6, <1>7

\* Whatever a handler of a click changes, it reads again.
LEMMA ClicksAreWhole == \A h \in Click : Whole(h)
<1> USE DEF Global, LeftBehind
<1>1. Whole(deleteShare) /\ Whole(shareFormSubmit) /\ Whole(deleteGroup)
  BY ReloadShapes, ChangeThen DEF deleteShare, shareFormSubmit, deleteGroup
<1>2. Whole(startEvent) /\ Whole(deleteEvent)
  BY ReadShapes, ChangeThen DEF startEvent, deleteEvent
<1>3. Whole(deletePreset) /\ Whole(presetFormSubmit)
  BY ReloadShapes, ChangeThen DEF deletePreset, presetFormSubmit
<1>4. Whole(deleteMapping)
  <2> DEFINE G == {"renaming", "samples"}
  <2>1. G \in SUBSET Global /\ G \subseteq G \cup {"samples"} \cup LeftBehind
    OBVIOUS
  <2>2. Whole(Change(G) \o reloadRenaming \o refreshRenamePreview)
    BY <2>1, ReadShapes, ReloadShapes, ChangeThenTwo
  <2> QED
    BY <2>2 DEF deleteMapping
<1>5. Whole(saveSettings) /\ Whole(resetSettings)
  <2>1. ASSUME NEW G \in SUBSET (Settings \cup {"retention"})
        PROVE  Whole(Change(G) \o applySettingsToForm \o loadAutomationStatus)
    <3>1. /\ G \in SUBSET Global
          /\ G \subseteq {"info", "schedule"} \cup {"automation", "storage"} \cup LeftBehind
      BY DEF Settings
    <3> QED
      BY <3>1, ReadShapes, ChangeThenTwo
  <2> QED
    BY <2>1 DEF saveSettings, resetSettings
<1>6. Whole(dismissQuarantine)
  BY ReadShapes, ChangeThen DEF dismissQuarantine
<1>7. /\ Whole(refreshOperations) /\ Whole(refreshQuarantine) /\ Whole(refreshLogs)
      /\ Whole(refreshMaintenance) /\ Whole(loadAutomationStatus)
  BY ReadShapes, ReloadShapes, ShapeIsWhole
<1> QED
  BY <1>1, <1>2, <1>3, <1>4, <1>5, <1>6, <1>7 DEF Click

LEMMA TasksAreWhole == \A h \in Task : Whole(h)
<1> USE DEF Global, LeftBehind
<1>1. Whole(triggerScanNow)
  BY ReadShapes, ChangeThen DEF triggerScanNow
<1>2. Whole(backfillEvent)
  <2>1. {} \in SUBSET Global /\ {} \subseteq {"automation", "schedule"} \cup {"events"} \cup LeftBehind
    OBVIOUS
  <2>2. Whole(Change({}) \o monitorAutomationCycle \o reloadEvents)
    BY <2>1, ReadShapes, ChangeThenTwo
  <2> QED
    BY <2>2 DEF backfillEvent
<1>3. Whole(routeEventAgain)
  <2> DEFINE G == {"operations", "maintenance"}
  <2>1. /\ G \in SUBSET Global
        /\ G \subseteq {"automation", "schedule"} \cup {"events", "quarantine"} \cup LeftBehind
    OBVIOUS
  <2> HIDE DEF G
  <2>2. Whole(Change(G) \o monitorAutomationCycle
               \o Read({"events", "quarantine"},
                       UNION {renderBadges, renderEvents, renderOnboarding, renderOverview,
                              renderQuarantine}))
    BY <2>1, ReadShapes, ChangeThenTwo
  <2> QED
    BY <2>2 DEF routeEventAgain, G
<1>4. Whole(renameRoutedFiles) /\ Whole(executeTransfer) /\ Whole(routeAgain)
  BY ReadShapes, ChangeThen DEF renameRoutedFiles, executeTransfer, routeAgain, Transferred
<1>5. Whole(reindexMetadata) /\ Whole(forgetMissing) /\ Whole(saveRetention) /\ Whole(pruneNow)
  BY ReloadShapes, ChangeThen
     DEF reindexMetadata, forgetMissing, saveRetention, pruneNow, runMaintenance
<1>6. Whole(checkImageUpdate)
  BY ReadShapes, ChangeThen DEF checkImageUpdate
<1> QED
  BY <1>1, <1>2, <1>3, <1>4, <1>5, <1>6 DEF Task

-----------------------------------------------------------------------------
(* The inductive invariant                                                 *)

\* Whatever a stage of h changes, a later stage of h reads.
Pays(h) ==
  \A i \in 1..Len(h) : h[i].kind = "change" =>
    \A g \in h[i].globals \ LeftBehind : \E j \in 1..Len(h) : j > i /\ ReadsAt(h, j, g)

CallType ==
  [handler: Seq(StageType), rest: Seq(StageType), answered: BOOLEAN, old: SUBSET Global]

CallOK(c) ==
  /\ c \in CallType
  /\ c.rest = <<>> => c = Idle
  /\ c.rest # <<>> => c.old \subseteq c.rest[1].globals
  /\ Len(c.rest) <= Len(c.handler)
  /\ Pays(c.rest)

CallsOK ==
  /\ DOMAIN call = Slot
  /\ \A s \in Slot : CallOK(call[s])

SetsOK ==
  /\ view \in View
  /\ stale \subseteq Drawn /\ PanelsFollow
  /\ behind \subseteq Global /\ excused \subseteq behind
  /\ typing \in BOOLEAN

Reads(rest, g) == \E i \in 1..Len(rest) : ReadsAt(rest, i, g)

\* What the page is behind of is read by a stage that is left, or by the preview
\* that the debounce timer starts.
Owed ==
  \A g \in behind \ (excused \cup LeftBehind) :
    \/ g = "samples" /\ typing
    \/ \E s \in Slot : Reads(call[s].rest, g)

Sound == CallsOK /\ SetsOK /\ Owed

LEMMA IdleIsOK == CallOK(Idle) /\ \A g : ~Reads(Idle.rest, g)
<1>1. Idle \in CallType
  <2>1. <<>> \in Seq(StageType)
    OBVIOUS
  <2> QED
    BY <2>1 DEF Idle, CallType
<1>2. Idle.rest = <<>> /\ Idle.handler = <<>>
  BY DEF Idle
<1>3. Len(Idle.rest) = 0
  BY <1>2
<1> QED
  BY <1>1, <1>2, <1>3 DEF CallOK, Pays, Reads

\* A stage further.
LEMMA TailIsOK ==
  ASSUME NEW c, CallOK(c), c.rest # <<>>, Len(c.rest) # 1
  PROVE  /\ CallOK([c EXCEPT !.rest = Tail(@), !.answered = FALSE, !.old = {}])
         /\ \A i \in 1..Len(c.rest), g \in Global :
              i # 1 /\ ReadsAt(c.rest, i, g) => Reads(Tail(c.rest), g)
<1> DEFINE h == c.rest
           t == Tail(h)
           d == [c EXCEPT !.rest = t, !.answered = FALSE, !.old = {}]
<1>1. /\ h \in Seq(StageType) /\ h # <<>> /\ Len(h) # 1 /\ Pays(h)
      /\ c.handler \in Seq(StageType) /\ Len(h) <= Len(c.handler)
      /\ c \in CallType
  BY DEF CallOK, CallType
<1>2. d \in CallType /\ d.rest = t /\ d.handler = c.handler /\ d.old = {}
  <2>1. t \in Seq(StageType)
    BY <1>1
  <2> HIDE DEF t
  <2> QED
    BY <1>1, <2>1 DEF CallType
<1> HIDE DEF h
<1>3. /\ t \in Seq(StageType) /\ Len(t) = Len(h) - 1 /\ Len(h) \in Nat /\ Len(h) > 1
      /\ \A i \in 1..Len(t) : i + 1 \in 1..Len(h) /\ t[i] = h[i + 1]
  <2>1. Len(h) \in Nat /\ Len(h) > 1
    <3> DEFINE n == Len(h)
    <3>1. n \in Nat \ {0} /\ n # 1
      BY <1>1, EmptySeq
    <3> HIDE DEF n
    <3>2. n > 1 /\ n \in Nat
      BY <3>1
    <3> QED
      BY <3>2 DEF n
  <2>2. t \in Seq(StageType) /\ Len(t) = Len(h) - 1
    BY <1>1, HeadTailProperties
  <2>3. \A i \in 1..Len(t) : t[i] = h[i + 1]
    BY <1>1, HeadTailProperties
  <2> HIDE DEF t
  <2> QED
    BY <2>1, <2>2, <2>3
<1> HIDE DEF t
<1>4. \A i \in 1..Len(h) : \A g : i # 1 /\ ReadsAt(h, i, g) => i - 1 \in 1..Len(t) /\ ReadsAt(t, i - 1, g)
  <2> SUFFICES ASSUME NEW i \in 1..Len(h), NEW g, i # 1, ReadsAt(h, i, g)
               PROVE  i - 1 \in 1..Len(t) /\ ReadsAt(t, i - 1, g)
    OBVIOUS
  <2>1. i - 1 \in 1..Len(t)
    BY <1>3
  <2>2. t[i - 1] = h[i]
    BY <1>3, <2>1
  <2> QED
    BY <2>1, <2>2 DEF ReadsAt
<1>5. Pays(t)
  <2> SUFFICES ASSUME NEW i \in 1..Len(t), t[i].kind = "change", NEW g \in t[i].globals \ LeftBehind
               PROVE  \E j \in 1..Len(t) : j > i /\ ReadsAt(t, j, g)
    BY DEF Pays
  <2>1. i + 1 \in 1..Len(h) /\ t[i] = h[i + 1]
    BY <1>3
  <2>2. PICK j \in 1..Len(h) : j > i + 1 /\ ReadsAt(h, j, g)
    BY <1>1, <2>1 DEF Pays
  <2>3. j - 1 \in 1..Len(t) /\ ReadsAt(t, j - 1, g) /\ j - 1 > i
    BY <1>3, <1>4, <2>2
  <2> QED
    BY <2>3
<1>6. t # <<>> /\ Len(t) <= Len(c.handler)
  BY <1>1, <1>3
<1> HIDE DEF d
<1>7. CallOK(d)
  BY <1>2, <1>5, <1>6 DEF CallOK
<1> QED
  BY <1>4, <1>7 DEF d, t, h, Reads

\* A handler that begins is whole, and takes nothing from the others.
LEMMA Begun ==
  ASSUME CallsOK, NEW s \in Slot, NEW h, Whole(h), Begin(s, h)
  PROVE  /\ CallsOK'
         /\ call'[s].rest = h
         /\ \A o \in Slot : \A g : Reads(call[o].rest, g) => Reads(call'[o].rest, g)
<1>1. DOMAIN call = Slot /\ call[s] = Idle /\ \A o \in Slot : CallOK(call[o])
  BY DEF CallsOK, Begin
<1>2. call' = [call EXCEPT ![s].handler = h, ![s].rest = h]
  BY DEF Begin
<1>3. DOMAIN call' = Slot /\ \A o \in Slot \ {s} : call'[o] = call[o]
  BY <1>1, <1>2
<1> DEFINE d == call'[s]
<1>4. d = [[Idle EXCEPT !.handler = h] EXCEPT !.rest = h]
  BY <1>1, <1>2
<1>5. d = [handler |-> h, rest |-> h, answered |-> FALSE, old |-> {}]
  BY <1>4 DEF Idle
<1>6. CallOK(d) /\ d.rest = h
  <2>1. h \in Seq(StageType) /\ h # <<>> /\ Pays(h)
    BY DEF Whole, Shape, Pays
  <2>2. d \in CallType
    BY <1>5, <2>1 DEF CallType
  <2>3. d.rest = h /\ d.handler = h /\ d.old = {}
    BY <1>5
  <2> HIDE DEF d
  <2> QED
    BY <2>1, <2>2, <2>3 DEF CallOK
<1> HIDE DEF d
<1>7. \A g : ~Reads(call[s].rest, g)
  BY <1>1, IdleIsOK
<1> QED
  BY <1>1, <1>3, <1>6, <1>7 DEF CallsOK, d

\* Only the answer flag and the outdated globals of a call change.
LEMMA Marked ==
  ASSUME NEW c, NEW d, CallOK(c), c.rest # <<>>,
         d.rest = c.rest, d.handler = c.handler, d \in CallType, d.old \subseteq c.rest[1].globals
  PROVE  CallOK(d)
  BY DEF CallOK

LEMMA Initially == Init => Sound
<1> SUFFICES ASSUME Init PROVE Sound
  OBVIOUS
<1>1. PICK s \in Slot :
        call = [[o \in Slot |-> Idle] EXCEPT ![s] = [Idle EXCEPT !.handler = load, !.rest = load]]
  BY DEF Init
<1>2. /\ view \in View /\ stale = {} /\ behind = Global /\ excused = Global /\ typing = FALSE
  BY DEF Init, View
<1>3. DOMAIN call = Slot /\ \A o \in Slot \ {s} : call[o] = Idle
  BY <1>1
<1> DEFINE d == call[s]
<1>4. d = [handler |-> load, rest |-> load, answered |-> FALSE, old |-> {}]
  BY <1>1 DEF Idle
<1>5. CallOK(d)
  <2>1. load \in Seq(StageType) /\ load # <<>> /\ Pays(load)
    BY ReloadShapes DEF Whole, Shape, Pays
  <2>2. d \in CallType
    BY <1>4, <2>1 DEF CallType
  <2>3. d.rest = load /\ d.handler = load /\ d.old = {}
    BY <1>4
  <2> HIDE DEF d
  <2> QED
    BY <2>1, <2>2, <2>3 DEF CallOK
<1>6. CallsOK
  BY <1>3, <1>5, IdleIsOK DEF CallsOK
<1>7. SetsOK
  BY <1>2 DEF SetsOK, PanelsFollow
<1>8. Owed
  BY <1>2 DEF Owed
<1> QED
  BY <1>6, <1>7, <1>8 DEF Sound

-----------------------------------------------------------------------------
(* One lemma per action                                                    *)

LEMMA StartKeeps ==
  ASSUME Sound, NEW s \in Slot, Start(s) PROVE Sound'
<1>1. PICK h \in Click \cup Task : Begin(s, h)
  BY DEF Start
<1>2. Whole(h)
  BY ClicksAreWhole, TasksAreWhole
<1>3. /\ CallsOK'
      /\ \A o \in Slot : \A g : Reads(call[o].rest, g) => Reads(call'[o].rest, g)
  BY <1>1, <1>2, Begun DEF Sound
<1>4. UNCHANGED <<view, stale, behind, excused, typing>>
  BY DEF Start
<1>5. SetsOK'
  BY <1>4 DEF Sound, SetsOK, PanelsFollow
<1>6. Owed'
  BY <1>3, <1>4 DEF Sound, Owed
<1> QED
  BY <1>3, <1>5, <1>6 DEF Sound

LEMMA ViewKeeps ==
  ASSUME Sound, NEW v \in View, setView(v) PROVE Sound'
<1>1. view' = v /\ stale' \subseteq stale /\ UNCHANGED <<behind, excused, typing>>
  BY DEF setView
<1>2. \/ \E s \in Slot : \E h \in {refreshLogs, refreshMaintenance} : Begin(s, h)
      \/ UNCHANGED call
  BY DEF setView
<1>3. Whole(refreshLogs) /\ Whole(refreshMaintenance)
  BY ClicksAreWhole DEF Click
<1>4. /\ CallsOK'
      /\ \A o \in Slot : \A g : Reads(call[o].rest, g) => Reads(call'[o].rest, g)
  <2>1. CASE UNCHANGED call
    BY <2>1 DEF Sound, CallsOK
  <2>2. CASE \E s \in Slot : \E h \in {refreshLogs, refreshMaintenance} : Begin(s, h)
    <3>1. PICK s \in Slot, h \in {refreshLogs, refreshMaintenance} : Begin(s, h)
      BY <2>2
    <3>2. Whole(h)
      BY <1>3
    <3> QED
      BY <3>1, <3>2, Begun DEF Sound
  <2> QED
    BY <1>2, <2>1, <2>2
<1>5. SetsOK'
  BY <1>1 DEF Sound, SetsOK, PanelsFollow
<1>6. Owed'
  BY <1>1, <1>4 DEF Sound, Owed
<1> QED
  BY <1>4, <1>5, <1>6 DEF Sound

LEMMA PreviewKeeps ==
  ASSUME Sound, NEW s \in Slot, PreviewDue(s) PROVE Sound'
<1>1. typing' = FALSE /\ UNCHANGED <<view, stale, behind, excused>>
  BY DEF PreviewDue
<1>2. Begin(s, refreshRenamePreview)
  BY DEF PreviewDue
<1>3. Whole(refreshRenamePreview)
  BY ReadShapes, ShapeIsWhole
<1>4. /\ CallsOK'
      /\ call'[s].rest = refreshRenamePreview
      /\ \A o \in Slot : \A g : Reads(call[o].rest, g) => Reads(call'[o].rest, g)
  BY <1>2, <1>3, Begun DEF Sound
<1>5. Reads(refreshRenamePreview, "samples")
  BY ReadShapes DEF Shape, Reads
<1>6. SetsOK'
  BY <1>1 DEF Sound, SetsOK, PanelsFollow
<1>7. Owed'
  <2> SUFFICES ASSUME NEW g \in behind \ (excused \cup LeftBehind)
               PROVE  \E o \in Slot : Reads(call'[o].rest, g)
    BY <1>1 DEF Owed
  <2>1. CASE g = "samples"
    BY <1>4, <1>5, <2>1
  <2>2. CASE g # "samples"
    BY <1>4, <2>2 DEF Sound, Owed
  <2> QED
    BY <2>1, <2>2
<1> QED
  BY <1>4, <1>6, <1>7 DEF Sound

LEMMA ScheduleKeeps ==
  ASSUME Sound, schedulePreview PROVE Sound'
<1>1. typing' = TRUE /\ behind' = behind \cup {"samples"} /\ UNCHANGED <<view, stale, excused>>
  BY DEF schedulePreview
<1>2. DOMAIN call' = Slot
  BY DEF schedulePreview
<1>3. ASSUME NEW o \in Slot PROVE CallOK(call'[o]) /\ call'[o].rest = call[o].rest
  <2> DEFINE c == call[o]
             d == call'[o]
  <2>1. CallOK(c)
    BY DEF Sound, CallsOK
  <2>2. CASE c.rest # <<>> /\ Current(o).globals = {"samples"}
    <3>1. d = [c EXCEPT !.old = {"samples"}]
      BY <2>2 DEF schedulePreview
    <3>2. c \in CallType
      BY <2>1 DEF CallOK
    <3>3. {"samples"} \in SUBSET Global
      BY DEF Global
    <3>4. d \in CallType /\ d.rest = c.rest /\ d.handler = c.handler /\ d.old = {"samples"}
      BY <3>1, <3>2, <3>3 DEF CallType
    <3>5. d.old \subseteq c.rest[1].globals
      BY <2>2, <3>4 DEF Current
    <3> HIDE DEF c, d
    <3>6. c.rest # <<>>
      BY <2>2
    <3>7. CallOK(d)
      BY <2>1, <3>4, <3>5, <3>6, Marked
    <3> QED
      BY <3>4, <3>7 DEF c, d
  <2>3. CASE ~(c.rest # <<>> /\ Current(o).globals = {"samples"})
    <3>1. d = c
      BY <2>3 DEF schedulePreview
    <3> QED
      BY <2>1, <3>1
  <2> QED
    BY <2>2, <2>3
<1>4. SetsOK'
  BY <1>1 DEF Sound, SetsOK, PanelsFollow, Global
<1>5. Owed'
  BY <1>1, <1>3 DEF Sound, Owed
<1> QED
  BY <1>2, <1>3, <1>4, <1>5 DEF Sound, CallsOK

LEMMA ServeKeeps ==
  ASSUME Sound, NEW s \in Slot, Serve(s) PROVE Sound'
<1> DEFINE G == Current(s).globals
<1>1. UNCHANGED <<view, stale, excused, typing>>
  BY DEF Serve
<1>2. /\ CallOK(call[s]) /\ call[s].rest # <<>> /\ Current(s) = call[s].rest[1]
      /\ call[s].rest \in Seq(StageType) /\ 1 \in 1..Len(call[s].rest)
  <2>1. CallOK(call[s]) /\ call[s].rest # <<>> /\ Current(s) = call[s].rest[1]
    BY DEF Sound, CallsOK, Serve, Waiting, Current
  <2>2. call[s].rest \in Seq(StageType)
    BY <2>1 DEF CallOK, CallType
  <2>3. Len(call[s].rest) \in Nat \ {0}
    BY <2>1, <2>2, EmptySeq
  <2> QED
    BY <2>1, <2>2, <2>3
<1>3. Current(s) \in StageType
  BY <1>2
<1>4. G \subseteq Global
  BY <1>3 DEF StageType
<1>5. \/ Current(s).kind = "change" /\ behind' = behind \cup G
      \/ Current(s).kind # "change" /\ behind' = behind
  BY DEF Serve
<1>6. DOMAIN call' = Slot
  BY DEF Serve, Outdate, Sound, CallsOK
<1>7. ASSUME NEW o \in Slot PROVE CallOK(call'[o]) /\ call'[o].rest = call[o].rest
  <2> DEFINE c == call[o]
             d == call'[o]
             old == IF Current(s).kind = "change" /\ c.rest # <<>> /\ c.answered
                    THEN c.old \cup (G \cap Current(o).globals) ELSE c.old
             ans == IF o = s THEN TRUE ELSE c.answered
  <2>1. CallOK(c) /\ c \in CallType
    BY DEF Sound, CallsOK, CallOK
  <2>2. c = [handler |-> c.handler, rest |-> c.rest, answered |-> c.answered, old |-> c.old]
    BY <2>1 DEF CallType
  <2>3. d = [handler |-> c.handler, rest |-> c.rest, answered |-> ans, old |-> old]
    <3>1. CASE Current(s).kind = "change"
      <4>1. call' = [Outdate(G) EXCEPT ![s].answered = TRUE]
        BY <3>1 DEF Serve
      <4>2. Outdate(G)[o] = [c EXCEPT !.old = old]
        BY <2>2, <3>1 DEF Outdate
      <4>3. DOMAIN Outdate(G) = Slot
        BY DEF Outdate
      <4>4. CASE o = s
        BY <2>2, <4>1, <4>2, <4>3, <4>4
      <4>5. CASE o # s
        BY <2>2, <4>1, <4>2, <4>3, <4>5
      <4> QED
        BY <4>4, <4>5
    <3>2. CASE Current(s).kind # "change"
      <4>1. call' = [call EXCEPT ![s].answered = TRUE]
        BY <3>2 DEF Serve
      <4>2. DOMAIN call = Slot /\ old = c.old
        BY <3>2 DEF Sound, CallsOK
      <4>3. CASE o = s
        BY <2>2, <4>1, <4>2, <4>3
      <4>4. CASE o # s
        BY <2>2, <4>1, <4>2, <4>4
      <4> QED
        BY <4>3, <4>4
    <3> QED
      BY <3>1, <3>2
  <2>4. CASE c.rest = <<>>
    <3>1. o # s /\ d = c
      BY <1>2, <2>2, <2>3, <2>4
    <3> QED
      BY <2>1, <3>1
  <2>5. CASE c.rest # <<>>
    <3>1. old \in SUBSET Global /\ old \subseteq c.rest[1].globals
      <4>1. c.old \subseteq c.rest[1].globals /\ c.old \subseteq Global
        BY <2>1, <2>5 DEF CallOK, CallType
      <4> QED
        BY <1>4, <4>1 DEF Current
    <3>2. ans \in BOOLEAN
      BY <2>1 DEF CallType
    <3> HIDE DEF old, ans
    <3>3. d \in CallType /\ d.rest = c.rest /\ d.handler = c.handler /\ d.old = old
      BY <2>1, <2>3, <3>1, <3>2 DEF CallType
    <3> HIDE DEF d, c
    <3>4. CallOK(d)
      BY <2>1, <2>5, <3>1, <3>3, Marked
    <3> QED
      BY <3>3, <3>4 DEF c, d
  <2> QED
    BY <2>4, <2>5
<1>8. SetsOK'
  <2>1. behind' \subseteq Global /\ behind \subseteq behind'
    BY <1>4, <1>5 DEF Sound, SetsOK
  <2> QED
    BY <1>1, <2>1 DEF Sound, SetsOK, PanelsFollow
<1>9. Owed'
  <2> SUFFICES ASSUME NEW g \in behind' \ (excused \cup LeftBehind)
               PROVE  \/ g = "samples" /\ typing
                      \/ \E o \in Slot : Reads(call[o].rest, g)
    BY <1>1, <1>7 DEF Owed
  <2>1. CASE g \in behind
    BY <2>1 DEF Sound, Owed
  <2>2. CASE g \notin behind
    <3>1. Current(s).kind = "change" /\ g \in G \ LeftBehind
      BY <1>5, <2>2
    <3>2. Pays(call[s].rest)
      BY <1>2 DEF CallOK
    <3>3. Reads(call[s].rest, g)
      BY <1>2, <3>1, <3>2 DEF Pays, Reads
    <3> QED
      BY <3>3
  <2> QED
    BY <2>1, <2>2
<1> QED
  BY <1>6, <1>7, <1>8, <1>9 DEF Sound, CallsOK

LEMMA AnswerKeeps ==
  ASSUME Sound, NEW s \in Slot, Answer(s) PROVE Sound'
<1> DEFINE c == call[s]
           d == call'[s]
           G == Current(s).globals
<1>1. UNCHANGED <<view, typing>>
  BY DEF Answer
<1>2. CallOK(c) /\ c \in CallType /\ c.rest # <<>> /\ Current(s) = c.rest[1] /\ DOMAIN call = Slot
  BY DEF Sound, CallsOK, CallOK, Answer, Current
<1>3. c.rest \in Seq(StageType) /\ Len(c.rest) \in Nat \ {0} /\ Current(s) \in StageType
  <2>1. c.rest \in Seq(StageType)
    BY <1>2 DEF CallType
  <2>2. Len(c.rest) \in Nat \ {0}
    BY <1>2, <2>1, EmptySeq
  <2> QED
    BY <1>2, <2>1, <2>2
<1>4. c.old \subseteq G /\ G \subseteq Global
  BY <1>2, <1>3 DEF CallOK, StageType
<1>5. /\ DOMAIN call' = Slot
      /\ \A o \in Slot \ {s} : call'[o] = call[o]
      /\ \/ d = Onward(s)
         \/ Current(s).kind = "watch" /\ d = [[c EXCEPT !.answered = FALSE] EXCEPT !.old = {}]
  BY <1>2 DEF Answer
<1>6. /\ CallOK(d)
      /\ \A i \in 1..Len(c.rest) : \A g \in Global :
           i # 1 /\ ReadsAt(c.rest, i, g) => Reads(d.rest, g)
  <2>1. CASE d = Onward(s) /\ Len(c.rest) = 1
    <3>1. d = Idle
      BY <2>1 DEF Onward
    <3>2. \A i \in 1..Len(c.rest) : i = 1
      BY <2>1
    <3> QED
      BY <3>1, <3>2, IdleIsOK
  <2>2. CASE d = Onward(s) /\ Len(c.rest) # 1
    <3>1. d = [c EXCEPT !.rest = Tail(@), !.answered = FALSE, !.old = {}]
      BY <2>2 DEF Onward
    <3>2. d.rest = Tail(c.rest)
      BY <1>2, <3>1 DEF CallType
    <3> HIDE DEF c, d
    <3> QED
      BY <1>2, <2>2, <3>1, <3>2, TailIsOK
  <2>3. CASE d = [[c EXCEPT !.answered = FALSE] EXCEPT !.old = {}]
    <3>1. d \in CallType /\ d.rest = c.rest /\ d.handler = c.handler /\ d.old = {}
      BY <1>2, <2>3 DEF CallType
    <3> HIDE DEF c, d
    <3>2. CallOK(d)
      BY <1>2, <3>1, Marked
    <3> QED
      BY <3>1, <3>2 DEF Reads
  <2> QED
    BY <1>5, <2>1, <2>2, <2>3
<1>7. CallsOK'
  BY <1>5, <1>6 DEF Sound, CallsOK
<1>8. \A g \in Global : \A o \in Slot :
        Reads(call[o].rest, g) =>
          \/ Current(s).kind # "change" /\ g \in G
          \/ \E q \in Slot : Reads(call'[q].rest, g)
  <2> SUFFICES ASSUME NEW g \in Global, NEW o \in Slot, Reads(call[o].rest, g)
               PROVE  \/ Current(s).kind # "change" /\ g \in G
                      \/ \E q \in Slot : Reads(call'[q].rest, g)
    OBVIOUS
  <2>1. CASE o # s
    BY <1>5, <2>1
  <2>2. CASE o = s
    <3>1. PICK i \in 1..Len(c.rest) : ReadsAt(c.rest, i, g)
      BY <2>2 DEF Reads
    <3>2. CASE i = 1
      BY <1>2, <3>1, <3>2 DEF ReadsAt
    <3>3. CASE i # 1
      BY <1>6, <3>1, <3>3
    <3> QED
      BY <3>2, <3>3
  <2> QED
    BY <2>1, <2>2
<1>9. CASE Current(s).kind = "change"
  <2>1. UNCHANGED <<stale, behind, excused>>
    BY <1>9 DEF Answer
  <2>2. SetsOK'
    BY <1>1, <2>1 DEF Sound, SetsOK, PanelsFollow
  <2>3. Owed'
    <3> SUFFICES ASSUME NEW g \in behind \ (excused \cup LeftBehind)
                 PROVE  \/ g = "samples" /\ typing
                        \/ \E q \in Slot : Reads(call'[q].rest, g)
      BY <1>1, <2>1 DEF Owed
    <3>1. g \in Global
      BY DEF Sound, SetsOK
    <3> QED
      BY <1>8, <1>9, <3>1 DEF Sound, Owed
  <2> QED
    BY <1>7, <2>2, <2>3 DEF Sound
<1>10. CASE Current(s).kind # "change"
  <2>1. Assigned(s)
    BY <1>10 DEF Answer
  <2>2. behind' = (behind \ G) \cup c.old /\ excused' = (excused \ G) \cup c.old
    BY <2>1 DEF Assigned
  <2>3. stale' \subseteq Drawn /\ stale' \subseteq NotFollowed
    <3> SUFFICES ASSUME NEW x \in stale' PROVE x \in Drawn /\ x \in NotFollowed
      OBVIOUS
    <3>1. x \notin Current(s).draws /\ (x \in stale \/ (x \in Drawn /\ x[2] \in G))
      BY <2>1 DEF Assigned
    <3>2. x \in Drawn /\ x[2] \in G => x \in Current(s).draws \cup NotFollowed
      BY <1>3, <1>10 DEF StageType
    <3>3. x \in stale => x \in Drawn /\ x \in NotFollowed
      BY DEF Sound, SetsOK, PanelsFollow
    <3> QED
      BY <3>1, <3>2, <3>3
  <2>4. SetsOK'
    BY <1>1, <1>4, <2>2, <2>3 DEF Sound, SetsOK, PanelsFollow
  <2>5. Owed'
    <3> SUFFICES ASSUME NEW g \in behind' \ (excused' \cup LeftBehind)
                 PROVE  \/ g = "samples" /\ typing
                        \/ \E q \in Slot : Reads(call'[q].rest, g)
      BY <1>1 DEF Owed
    <3>1. g \in behind \ (excused \cup LeftBehind) /\ g \notin G
      BY <2>2
    <3>2. g \in Global
      BY <3>1 DEF Sound, SetsOK
    <3> QED
      BY <1>8, <3>1, <3>2 DEF Sound, Owed
  <2> QED
    BY <1>7, <2>4, <2>5 DEF Sound
<1> QED
  BY <1>9, <1>10

LEMMA FailKeeps ==
  ASSUME Sound, NEW s \in Slot, Fail(s) PROVE Sound'
<1> DEFINE rest == call[s].rest
<1>1. UNCHANGED <<view, stale, behind, typing>>
  BY DEF Fail
<1>2. excused' = excused \cup (behind \cap UNION {rest[i].globals : i \in 1..Len(rest)})
  BY DEF Fail
<1>3. DOMAIN call' = Slot /\ call'[s] = Idle /\ \A o \in Slot \ {s} : call'[o] = call[o]
  BY DEF Fail, Sound, CallsOK
<1>4. CallsOK'
  BY <1>3, IdleIsOK DEF Sound, CallsOK
<1>5. SetsOK'
  BY <1>1, <1>2 DEF Sound, SetsOK, PanelsFollow
<1>6. Owed'
  <2> SUFFICES ASSUME NEW g \in behind \ (excused' \cup LeftBehind)
               PROVE  \/ g = "samples" /\ typing
                      \/ \E o \in Slot : Reads(call'[o].rest, g)
    BY <1>1 DEF Owed
  <2>1. g \in behind \ (excused \cup LeftBehind)
    BY <1>2
  <2>2. \A i \in 1..Len(rest) : g \notin rest[i].globals
    BY <1>2, <2>1
  <2>3. ~Reads(rest, g)
    BY <2>2 DEF Reads, ReadsAt
  <2> QED
    BY <1>3, <2>1, <2>3 DEF Sound, Owed
<1> QED
  BY <1>4, <1>5, <1>6 DEF Sound

-----------------------------------------------------------------------------
(* The theorems                                                            *)

LEMMA Soundness == Spec => []Sound
<1>1. Sound /\ [Next]_vars => Sound'
  <2> SUFFICES ASSUME Sound, [Next]_vars PROVE Sound'
    OBVIOUS
  <2>1. CASE Next
    BY <2>1, StartKeeps, PreviewKeeps, ServeKeeps, AnswerKeeps, FailKeeps, ViewKeeps, ScheduleKeeps
       DEF Next
  <2>2. CASE UNCHANGED vars
    BY <2>2 DEF vars, Sound, CallsOK, SetsOK, PanelsFollow, Owed
  <2> QED
    BY <2>1, <2>2
<1> QED
  BY <1>1, Initially, PTL DEF Spec

\* Handlers hold stages that are left of them, globals and pairs exist.
THEOREM Typing == Spec => []TypeOK
<1>1. Sound => TypeOK
  <2> SUFFICES ASSUME Sound PROVE TypeOK
    OBVIOUS
  <2>1. ASSUME NEW s \in Slot
        PROVE  /\ call[s].old \subseteq IF call[s].rest = <<>> THEN {} ELSE Current(s).globals
               /\ call[s].rest = <<>> => call[s] = Idle
               /\ Len(call[s].rest) <= Len(call[s].handler)
    <3>1. CallOK(call[s])
      BY DEF Sound, CallsOK
    <3>2. Idle.old = {}
      BY DEF Idle
    <3> QED
      BY <3>1, <3>2 DEF CallOK, Current
  <2> QED
    BY <2>1 DEF Sound, SetsOK, TypeOK
<1> QED
  BY <1>1, Soundness, PTL

\* However the answers of any number of handlers interleave: no panel shows an
\* older value than the page holds, except for the pairs of NotFollowed.
THEOREM PanelsAreFollowed == Spec => []PanelsFollow
<1>1. Sound => PanelsFollow
  BY DEF Sound, SetsOK
<1> QED
  BY <1>1, Soundness, PTL

\* When nothing is under way, the page is behind a change of its own only where a
\* read crossed the change or failed, and in what LeftBehind names.
THEOREM OwnChangesAreShown == Spec => []OwnChangesShown
<1>1. Sound => OwnChangesShown
  <2> SUFFICES ASSUME Sound, typing = FALSE, \A s \in Slot : call[s] = Idle,
                      NEW g \in behind \ (excused \cup LeftBehind)
               PROVE  FALSE
    BY DEF OwnChangesShown, LeftBehind
  <2> QED
    BY IdleIsOK DEF Sound, Owed
<1> QED
  BY <1>1, Soundness, PTL
=============================================================================
