------------------------ MODULE RuntimeSettingsProofs ------------------------
(***************************************************************************)
(* For any number of tabs, requests and settings: the types are kept, and  *)
(* the server is never Live unless the token was once sent, and a save     *)
(* changes only what its sender set unless another write is on record.     *)
(***************************************************************************)
EXTENDS RuntimeSettings, TLAPS

(* A PUT past its check has all its inputs, and asks for Live only with the *)
(* token or after somebody had sent it.                                     *)
CheckedSound == \A s \in Slot : call[s].stage = "checked" =>
    /\ call[s].data.plain \in Plain
    /\ call[s].data.dryRun \/ call[s].token \/ confirmed

IInv == TypeOK /\ CheckedSound

-----------------------------------------------------------------------------
(* Records of the model stay in their sets.                                 *)

LEMMA FreeTyped ==
    /\ Free \in Call
    /\ Free.tab = NoTab /\ Free.stage = "free"
    /\ Defaults \in Body
  BY DistinctMarks DEF Free, Call, Kind, Put, Settings, Body

LEMMA CurrentTyped ==
  ASSUME TypeOK PROVE Current \in Settings
  BY DistinctMarks DEF TypeOK, Current

(* What a tab sends is a call on its way.                                   *)
LEMMA SentTyped ==
  ASSUME NEW t \in Tab, NEW k \in Kind, NEW d \in Body, NEW b \in BOOLEAN
  PROVE  [Free EXCEPT !.tab = t, !.kind = k, !.data = d, !.token = b,
                      !.stage = "sent"] \in Call
  BY DistinctMarks DEF Free, Call, Kind, Put, Settings, Body

LEMMA AnsweredTyped ==
  ASSUME NEW c \in Call, c.tab # NoTab, NEW x \in Settings
  PROVE  /\ Answered(c, x) \in Call
         /\ Answered(c, x).stage = "answered" /\ Answered(c, x).tab = c.tab
  BY DistinctMarks DEF Answered, Free, Call, Kind, Put, Settings, Body

LEMMA FailedTyped ==
  ASSUME NEW c \in Call, c.tab # NoTab
  PROVE  Failed(c) \in Call /\ Failed(c).stage = "failed" /\ Failed(c).tab = c.tab
  BY DistinctMarks DEF Failed, Free, Call, Kind, Put, Settings, Body

LEMMA MergedTyped ==
  ASSUME NEW c \in Call, c.data.plain \in Plain
  PROVE  Merged(c) \in Settings /\ Merged(c).dryRun = c.data.dryRun
  BY DistinctMarks DEF Merged, Call, Settings, Body

(* Marking the others as overtaken changes nothing the invariant is about.  *)
LEMMA OvertakeTyped ==
  ASSUME TypeOK, NEW s \in Slot
  PROVE  /\ Overtake(s) \in [Slot -> Call]
         /\ \A o \in Slot : /\ Overtake(s)[o].stage = call[o].stage
                            /\ Overtake(s)[o].tab = call[o].tab
                            /\ Overtake(s)[o].data = call[o].data
                            /\ Overtake(s)[o].token = call[o].token
<1>1. ASSUME NEW o \in Slot
      PROVE  /\ Overtake(s)[o] \in Call
             /\ Overtake(s)[o].stage = call[o].stage
             /\ Overtake(s)[o].tab = call[o].tab
             /\ Overtake(s)[o].data = call[o].data
             /\ Overtake(s)[o].token = call[o].token
  <2>1. call[o] \in Call
    BY DEF TypeOK
  <2>2. CASE o = s
    BY <2>1, <2>2 DEF Overtake
  <2>3. CASE o # s
    <3>1. Overtake(s)[o] = [call[o] EXCEPT !.overtaken = @ \/ call[o].stage = "checked",
                                           !.outdated = @ \/ CarriesRead(call[o])]
      BY <2>3 DEF Overtake
    <3>2. /\ (call[o].overtaken \/ call[o].stage = "checked") \in BOOLEAN
          /\ (call[o].outdated \/ CarriesRead(call[o])) \in BOOLEAN
      OBVIOUS
    <3> QED BY <2>1, <3>1, <3>2 DEF Call
  <2> QED BY <2>2, <2>3
<1> QED BY <1>1 DEF Overtake

-----------------------------------------------------------------------------
LEMMA InitEstablishes == Init => IInv
<1> SUFFICES ASSUME Init PROVE IInv
  OBVIOUS
<1>1. \A s \in Slot : call[s] = Free
  BY DEF Init
<1>2. TypeOK
  BY <1>1, FreeTyped, DistinctMarks DEF Init, TypeOK, Settings, Current
<1> QED BY <1>1, <1>2, FreeTyped DEF IInv, CheckedSound

(* A call changed at one slot to a typed one of a tab that is not past its  *)
(* check, nothing else of the calls: both parts about calls survive.        *)
LEMMA OneCallChanged ==
  ASSUME IInv, NEW s \in Slot, NEW c \in Call,
         c.stage = "free" <=> c.tab = NoTab,
         c.stage = "checked" => /\ c.data.plain \in Plain
                                /\ c.data.dryRun \/ c.token \/ confirmed',
         call' = [call EXCEPT ![s] = c], confirmed => confirmed'
  PROVE  /\ call' \in [Slot -> Call]
         /\ \A o \in Slot : call'[o].stage = "free" <=> call'[o].tab = NoTab
         /\ CheckedSound'
  BY DEF IInv, TypeOK, CheckedSound

(* The tab's own variables and what it sends.                               *)
LEMMA SendKeeps ==
  ASSUME IInv, NEW t \in Tab, NEW s \in Slot, NEW k \in Kind, NEW d \in Body,
         NEW b \in BOOLEAN, Send(t, s, k, d, b)
  PROVE  /\ call' \in [Slot -> Call]
         /\ \A o \in Slot : call'[o].stage = "free" <=> call'[o].tab = NoTab
         /\ CheckedSound'
         /\ stored' = stored /\ confirmed' = confirmed
<1> DEFINE c == [Free EXCEPT !.tab = t, !.kind = k, !.data = d, !.token = b,
                             !.stage = "sent"]
<1>1. c \in Call
  BY SentTyped
<1>2. c.stage = "sent" /\ c.tab = t
  BY FreeTyped DEF Free
<1>3. call' = [call EXCEPT ![s] = c] /\ stored' = stored /\ confirmed' = confirmed
  BY DEF Send
<1> HIDE DEF c
<1>4. t # NoTab
  BY DistinctMarks
<1> QED BY <1>1, <1>2, <1>3, <1>4, OneCallChanged

LEMMA FormTyped ==
  ASSUME TypeOK, NEW t \in Tab
  PROVE  /\ settingsFromForm(t) \in Body
         /\ [settingsFromForm(t) EXCEPT !.dryRun = TRUE] \in Body
         /\ [settingsFromForm(t) EXCEPT !.dryRun = FALSE] \in Body
  BY DEF TypeOK, settingsFromForm, Body

LEMMA TabKeeps ==
  ASSUME IInv, NEW t \in Tab, TabStep(t)
  PROVE  IInv'
<1> USE DEF IInv
<1>1. TypeOK
  OBVIOUS
<1>2. ASSUME openLiveModal(t), form' \in [Tab -> [dryRun : BOOLEAN, plain : Plain \cup {Blank}]]
      PROVE  IInv'
  BY <1>2, <1>1 DEF openLiveModal, TypeOK, CheckedSound
<1>3. \A s \in Slot : backToDryRun(t, s) => IInv'
  <2> SUFFICES ASSUME NEW s \in Slot, backToDryRun(t, s) PROVE IInv'
    OBVIOUS
  <2>1. Send(t, s, "save", [settingsFromForm(t) EXCEPT !.dryRun = TRUE], FALSE)
    BY DEF backToDryRun
  <2>2. /\ call' \in [Slot -> Call]
        /\ \A o \in Slot : call'[o].stage = "free" <=> call'[o].tab = NoTab
        /\ CheckedSound' /\ stored' = stored /\ confirmed' = confirmed
    BY <2>1, FormTyped, SendKeeps, <1>1 DEF Kind, Put
  <2> QED BY <2>2, <1>1 DEF backToDryRun, TypeOK
<1>4. \A s \in Slot, k \in Kind, d \in Body, b \in BOOLEAN :
        Send(t, s, k, d, b) /\ UNCHANGED tabVars => IInv'
  <2> SUFFICES ASSUME NEW s \in Slot, NEW k \in Kind, NEW d \in Body, NEW b \in BOOLEAN,
                      Send(t, s, k, d, b), UNCHANGED tabVars
               PROVE  IInv'
    OBVIOUS
  <2>1. /\ call' \in [Slot -> Call]
        /\ \A o \in Slot : call'[o].stage = "free" <=> call'[o].tab = NoTab
        /\ CheckedSound' /\ stored' = stored /\ confirmed' = confirmed
    BY SendKeeps
  <2> QED BY <2>1, <1>1 DEF TypeOK, tabVars
<1>5. CASE closeLiveModal(t)
  BY <1>5, <1>1 DEF closeLiveModal, TypeOK, CheckedSound
<1>6. CASE EditForm(t)
  BY <1>6, <1>1 DEF EditForm, TypeOK, CheckedSound
<1>7. CASE setupEnableLive(t) \/ modeActionToLive(t) \/ submitOpensModal(t)
  BY <1>7, <1>2, <1>1 DEF setupEnableLive, modeActionToLive, submitOpensModal, TypeOK
<1>8. CASE SwitchOff(t)
  BY <1>8, <1>2, <1>1 DEF SwitchOff, TypeOK
<1>9. ASSUME NEW s \in Slot, SwitchOn(t, s) \/ modeActionToDry(t, s)
      PROVE  IInv'
  BY <1>9, <1>3 DEF SwitchOn, modeActionToDry
<1>10. ASSUME NEW s \in Slot, submitSettings(t, s) \/ toggleAutomaticUpdates(t, s)
       PROVE  IInv'
  BY <1>10, <1>4, <1>1, FormTyped DEF submitSettings, toggleAutomaticUpdates, Kind, Put
<1>11. ASSUME NEW s \in Slot, resetSettings(t, s) \/ loadRuntimeSettings(t, s)
       PROVE  IInv'
  BY <1>11, <1>4, FreeTyped DEF resetSettings, loadRuntimeSettings, Kind, Put
<1>12. ASSUME NEW s \in Slot, saveRetention(t, s)
       PROVE  IInv'
  <2>1. PICK days \in Retention :
          Send(t, s, "retainLoad", [Defaults EXCEPT !.retention = days], FALSE)
    BY <1>12 DEF saveRetention
  <2>2. [Defaults EXCEPT !.retention = days] \in Body
    BY FreeTyped DEF Body
  <2> QED BY <2>1, <2>2, <1>4, <1>12 DEF saveRetention, Kind, Put
<1>13. ASSUME NEW s \in Slot, liveModalConfirm(t, s)
       PROVE  IInv'
  BY <1>13, <1>4, <1>1, FormTyped DEF liveModalConfirm, Kind, Put
<1>14. ASSUME NEW s \in Slot, Script(t, s)
       PROVE  IInv'
  <2>1. PICK p \in Plain :
          Send(t, s, "script", [dryRun |-> FALSE, plain |-> p, retention |-> Keep], FALSE)
    BY <1>14 DEF Script
  <2>2. [dryRun |-> FALSE, plain |-> p, retention |-> Keep] \in Body
    BY DEF Body
  <2> QED BY <2>1, <2>2, <1>4, <1>14 DEF Script, Kind, Put
<1> QED
  BY <1>5, <1>6, <1>7, <1>8, <1>9, <1>10, <1>11, <1>12, <1>13, <1>14 DEF TabStep, OnPage

LEMMA ServerKeeps ==
  ASSUME IInv, LiveWasConfirmed, NEW s \in Slot, ServerStep(s)
  PROVE  IInv' /\ LiveWasConfirmed'
<1>1. TypeOK /\ CheckedSound /\ call[s] \in Call
  BY DEF IInv, TypeOK
<1>2. Current \in Settings
  BY <1>1, CurrentTyped
<1>3. call[s].stage # "free" => call[s].tab # NoTab
  BY <1>1 DEF TypeOK
<1>4. CASE Get(s)
  <2>1. /\ call' = [call EXCEPT ![s] = Answered(call[s], Current)]
        /\ UNCHANGED <<stored, form, current, modal, confirmed>>
        /\ call[s].tab # NoTab
    BY <1>4, <1>3 DEF Get
  <2>2. Answered(call[s], Current) \in Call
        /\ Answered(call[s], Current).stage = "answered"
        /\ Answered(call[s], Current).tab = call[s].tab
    BY <2>1, <1>1, <1>2, AnsweredTyped
  <2>3. /\ call' \in [Slot -> Call] /\ CheckedSound'
        /\ \A o \in Slot : call'[o].stage = "free" <=> call'[o].tab = NoTab
    BY <2>1, <2>2, OneCallChanged
  <2> QED BY <2>1, <2>3, <1>1 DEF IInv, TypeOK, LiveWasConfirmed, Current
<1>5. CASE PutCheck(s)
  <2>1. /\ UNCHANGED <<stored, form, current, modal, confirmed>>
        /\ call[s].tab # NoTab
    BY <1>5, <1>3 DEF PutCheck
  <2>2. CASE call[s].data.plain = Blank \/ NeedsToken(call[s])
    <3>1. call' = [call EXCEPT ![s] = Failed(call[s])]
      BY <1>5, <2>2 DEF PutCheck
    <3>2. /\ Failed(call[s]) \in Call
          /\ Failed(call[s]).stage = "failed" /\ Failed(call[s]).tab = call[s].tab
      BY <2>1, <1>1, FailedTyped
    <3>3. /\ call' \in [Slot -> Call] /\ CheckedSound'
          /\ \A o \in Slot : call'[o].stage = "free" <=> call'[o].tab = NoTab
      BY <2>1, <3>1, <3>2, OneCallChanged
    <3> QED BY <2>1, <3>3, <1>1 DEF IInv, TypeOK, LiveWasConfirmed, Current
  <2>3. CASE ~(call[s].data.plain = Blank \/ NeedsToken(call[s]))
    <3> DEFINE c == [call[s] EXCEPT !.stage = "checked",
                                    !.read.retention = Current.retention]
    <3>1. call' = [call EXCEPT ![s] = c]
      BY <1>5, <2>3 DEF PutCheck
    <3>2. c \in Call
      BY <1>1, <1>2 DEF Call, Settings
    <3>3. c.stage = "checked" /\ c.tab = call[s].tab /\ c.data = call[s].data
          /\ c.token = call[s].token
      BY <1>1 DEF Call
    <3>4. call[s].data.plain \in Plain
      BY <1>1, <2>3 DEF Call, Body
    <3>5. call[s].data.dryRun \/ call[s].token \/ confirmed
      BY <2>3 DEF NeedsToken, LiveWasConfirmed
    <3> HIDE DEF c
    <3>6. /\ call' \in [Slot -> Call] /\ CheckedSound'
          /\ \A o \in Slot : call'[o].stage = "free" <=> call'[o].tab = NoTab
      BY <2>1, <3>1, <3>2, <3>3, <3>4, <3>5, OneCallChanged
    <3> QED BY <2>1, <3>6, <1>1 DEF IInv, TypeOK, LiveWasConfirmed, Current
  <2> QED BY <2>2, <2>3
<1>6. CASE PutWrite(s)
  <2>1. /\ stored' = Merged(call[s])
        /\ call' = [Overtake(s) EXCEPT ![s] = Answered(call[s], Merged(call[s]))]
        /\ confirmed' = (confirmed \/ call[s].token)
        /\ UNCHANGED <<form, current, modal>>
        /\ call[s].stage = "checked" /\ call[s].tab # NoTab
    BY <1>6, <1>3 DEF PutWrite, tabVars
  <2>2. Merged(call[s]) \in Settings /\ Merged(call[s]).dryRun = call[s].data.dryRun
    BY <2>1, <1>1, MergedTyped DEF CheckedSound
  <2>3. /\ Answered(call[s], Merged(call[s])) \in Call
        /\ Answered(call[s], Merged(call[s])).stage = "answered"
        /\ Answered(call[s], Merged(call[s])).tab = call[s].tab
    BY <2>1, <2>2, <1>1, AnsweredTyped
  <2>4. TypeOK'
    BY <2>1, <2>2, <2>3, <1>1, OvertakeTyped DEF TypeOK
  <2>5. CheckedSound'
    BY <2>1, <2>3, <1>1, OvertakeTyped DEF CheckedSound
  <2>6. stored' # NoFile
    BY <2>1, <2>2, DistinctMarks
  <2>7. LiveWasConfirmed'
    BY <2>1, <2>2, <2>6, <1>1 DEF LiveWasConfirmed, Current, CheckedSound
  <2> QED BY <2>4, <2>5, <2>7 DEF IInv
<1>7. CASE Reset(s)
  <2>1. /\ stored' = NoFile
        /\ call' = [Overtake(s) EXCEPT ![s] = Answered(call[s], Defaults)]
        /\ confirmed' = (confirmed \/ ~Defaults.dryRun)
        /\ UNCHANGED <<form, current, modal>>
        /\ call[s].tab # NoTab
    BY <1>7, <1>3 DEF Reset, tabVars
  <2>2. /\ Answered(call[s], Defaults) \in Call
        /\ Answered(call[s], Defaults).stage = "answered"
        /\ Answered(call[s], Defaults).tab = call[s].tab
    BY <2>1, <1>1, AnsweredTyped, DistinctMarks
  <2>3. TypeOK'
    BY <2>1, <2>2, <1>1, OvertakeTyped DEF TypeOK
  <2>4. CheckedSound'
    BY <2>1, <2>2, <1>1, OvertakeTyped DEF CheckedSound
  <2>5. LiveWasConfirmed'
    BY <2>1 DEF LiveWasConfirmed, Current
  <2> QED BY <2>3, <2>4, <2>5 DEF IInv
<1>8. CASE Lose(s)
  <2>1. /\ call' = [call EXCEPT ![s] = Failed(call[s])]
        /\ UNCHANGED <<stored, form, current, modal, confirmed>>
        /\ call[s].tab # NoTab
    BY <1>8, <1>3 DEF Lose
  <2>2. /\ Failed(call[s]) \in Call
        /\ Failed(call[s]).stage = "failed" /\ Failed(call[s]).tab = call[s].tab
    BY <2>1, <1>1, FailedTyped
  <2>3. /\ call' \in [Slot -> Call] /\ CheckedSound'
        /\ \A o \in Slot : call'[o].stage = "free" <=> call'[o].tab = NoTab
    BY <2>1, <2>2, OneCallChanged
  <2> QED BY <2>1, <2>3, <1>1 DEF IInv, TypeOK, LiveWasConfirmed, Current
<1> QED BY <1>4, <1>5, <1>6, <1>7, <1>8 DEF ServerStep

LEMMA AnswerKeeps ==
  ASSUME IInv, NEW s \in Slot, AnswerStep(s)
  PROVE  IInv'
<1>1. TypeOK /\ CheckedSound /\ call[s] \in Call
  BY DEF IInv, TypeOK
<1>2. call[s].stage # "free" => call[s].tab \in Tab
  BY <1>1 DEF TypeOK, Call
<1>3. call[s].read \in Settings
  BY <1>1 DEF Call
(* The slot is freed or given a call that is typed and not past its check.  *)
<1>4. ASSUME NEW c \in Call, c.stage = "free" <=> c.tab = NoTab, c.stage # "checked",
             call' = [call EXCEPT ![s] = c],
             form' \in [Tab -> [dryRun : BOOLEAN, plain : Plain \cup {Blank}]],
             current' \in [Tab -> BOOLEAN \cup {Unloaded}],
             modal' \in [Tab -> BOOLEAN], UNCHANGED <<stored, confirmed>>
      PROVE  IInv'
  <2>1. /\ call' \in [Slot -> Call] /\ CheckedSound'
        /\ \A o \in Slot : call'[o].stage = "free" <=> call'[o].tab = NoTab
    BY <1>4, OneCallChanged
  <2> QED BY <2>1, <1>1, <1>4 DEF IInv, TypeOK
<1>5. ASSUME NEW t \in Tab, NEW x \in Settings, applySettingsToForm(t, x)
      PROVE  /\ form' \in [Tab -> [dryRun : BOOLEAN, plain : Plain \cup {Blank}]]
             /\ current' \in [Tab -> BOOLEAN \cup {Unloaded}]
  BY <1>1, <1>5 DEF applySettingsToForm, TypeOK, Settings
<1>6. CASE Loaded(s)
  <2>1. modal' \in [Tab -> BOOLEAN]
    BY <1>6, <1>1 DEF Loaded, TypeOK
  <2> QED BY <1>6, <1>2, <1>3, <1>4, <1>5, <2>1, FreeTyped DEF Loaded, Settled
<1>7. CASE Saved(s)
  <2> DEFINE c == [Free EXCEPT !.tab = call[s].tab, !.kind = call[s].kind,
                               !.stage = "settling"]
  <2>1. c \in Call /\ c.stage = "settling" /\ c.tab = call[s].tab
    BY <1>1, FreeTyped DEF Call, Free
  <2>2. call[s].tab \in Tab /\ call[s].tab # NoTab
    BY <1>7, <1>2, DistinctMarks DEF Saved
  <2>3. modal' \in [Tab -> BOOLEAN]
    BY <1>7, <1>1 DEF Saved, TypeOK
  <2>4. call' = [call EXCEPT ![s] = c] /\ UNCHANGED <<stored, confirmed>>
        /\ applySettingsToForm(call[s].tab, call[s].read)
    BY <1>7 DEF Saved
  <2> HIDE DEF c
  <2> QED BY <1>3, <1>4, <1>5, <2>1, <2>2, <2>3, <2>4
<1>8. CASE SavedSettles(s)
  <2>1. modal' \in [Tab -> BOOLEAN]
    BY <1>8, <1>1 DEF SavedSettles, TypeOK
  <2> QED BY <1>8, <1>1, <1>4, <2>1, FreeTyped DEF SavedSettles, Settled, TypeOK
<1>9. CASE SaveFails(s)
  <2> DEFINE c == [Free EXCEPT !.tab = call[s].tab, !.kind = "load",
                     !.stage = "sent", !.reopen = call[s].kind = "confirm"]
  <2>1. c \in Call /\ c.stage = "sent" /\ c.tab = call[s].tab
    BY <1>1, FreeTyped DEF Call, Free, Kind
  <2>2. call[s].tab # NoTab
    BY <1>9, <1>2, DistinctMarks DEF SaveFails
  <2>3. call' = [call EXCEPT ![s] = c] /\ UNCHANGED <<stored, form, current, modal, confirmed>>
    BY <1>9 DEF SaveFails
  <2> HIDE DEF c
  <2> QED BY <1>1, <1>4, <2>1, <2>2, <2>3 DEF TypeOK
<1>10. CASE OtherFails(s)
  <2>1. modal' \in [Tab -> BOOLEAN]
    BY <1>10, <1>1 DEF OtherFails, TypeOK
  <2> QED BY <1>10, <1>1, <1>4, <2>1, FreeTyped DEF OtherFails, Settled, TypeOK
<1>11. CASE RetentionLoaded(s)
  <2> DEFINE c == [Free EXCEPT !.tab = call[s].tab, !.kind = "retain",
                     !.data = [call[s].read EXCEPT !.retention = call[s].data.retention],
                     !.stage = "sent", !.outdated = call[s].outdated]
  <2>1. c \in Call /\ c.stage = "sent" /\ c.tab = call[s].tab
    <3> DEFINE d == [call[s].read EXCEPT !.retention = call[s].data.retention]
    <3>1. d \in Body
      BY <1>1 DEF Call, Body, Settings
    <3>2. c = [Free EXCEPT !.tab = call[s].tab, !.kind = "retain", !.data = d,
                           !.stage = "sent", !.outdated = call[s].outdated]
      OBVIOUS
    <3> HIDE DEF c, d
    <3> QED BY <1>1, <3>1, <3>2, FreeTyped DEF Call, Free, Kind, Put
  <2>2. call[s].tab # NoTab
    BY <1>11, <1>2, DistinctMarks DEF RetentionLoaded
  <2>3. call' = [call EXCEPT ![s] = c] /\ UNCHANGED <<stored, form, current, modal, confirmed>>
    BY <1>11 DEF RetentionLoaded
  <2> HIDE DEF c
  <2> QED BY <1>1, <1>4, <2>1, <2>2, <2>3 DEF TypeOK
<1>12. CASE OtherSaved(s)
  BY <1>12, <1>1, <1>4, FreeTyped DEF OtherSaved, Settled, TypeOK
<1> QED BY <1>6, <1>7, <1>8, <1>9, <1>10, <1>11, <1>12 DEF AnswerStep

-----------------------------------------------------------------------------
LEMMA StepKeeps == IInv /\ LiveWasConfirmed /\ [Next]_vars => IInv' /\ LiveWasConfirmed'
<1> SUFFICES ASSUME IInv, LiveWasConfirmed, [Next]_vars PROVE IInv' /\ LiveWasConfirmed'
  OBVIOUS
(* Only the server writes the settings, and confirmed is never taken back.  *)
<1>1. ASSUME UNCHANGED <<stored, confirmed>> PROVE LiveWasConfirmed'
  BY <1>1 DEF LiveWasConfirmed, Current
<1>2. ASSUME NEW t \in Tab, TabStep(t) PROVE UNCHANGED <<stored, confirmed>>
  BY <1>2 DEF TabStep, OnPage, EditForm, setupEnableLive, openLiveModal, SwitchOff,
     modeActionToLive, submitOpensModal, SwitchOn, modeActionToDry, backToDryRun,
     submitSettings, toggleAutomaticUpdates, resetSettings, saveRetention,
     closeLiveModal, loadRuntimeSettings, liveModalConfirm, Script, Send
<1>3. ASSUME NEW s \in Slot, AnswerStep(s) PROVE UNCHANGED <<stored, confirmed>>
  BY <1>3 DEF AnswerStep, Loaded, Saved, SavedSettles, SaveFails, OtherFails,
     RetentionLoaded, OtherSaved
<1>4. CASE UNCHANGED vars
  BY <1>4 DEF vars, IInv, TypeOK, CheckedSound, LiveWasConfirmed, Current
<1>5. CASE Next
  BY <1>5, <1>1, <1>2, <1>3, TabKeeps, ServerKeeps, AnswerKeeps DEF Next
<1> QED BY <1>4, <1>5

LEMMA InitConfirmed == Init => LiveWasConfirmed
  BY DEF Init, LiveWasConfirmed

(* Forms, requests in flight and settings keep their types.                 *)
THEOREM Typing == Spec => []TypeOK
<1>1. Spec => [](IInv /\ LiveWasConfirmed)
  BY InitEstablishes, InitConfirmed, StepKeeps, PTL DEF Spec
<1>2. IInv => TypeOK
  BY DEF IInv
<1> QED BY <1>1, <1>2, PTL

(* SettingsEndpoints: whatever tabs, scripts, stale forms, overlapping PUTs *)
(* and lost answers there are, a server that is Live was once confirmed.    *)
THEOREM NeverLiveUnconfirmed == Spec => []LiveWasConfirmed
  BY InitEstablishes, InitConfirmed, StepKeeps, PTL DEF Spec

-----------------------------------------------------------------------------
(* The window between the two halves of a PUT.                              *)

(* A PUT that asks for Live, has no token and was not overtaken since its    *)
(* check found the server Live, and the server still is.                    *)
Window == \A s \in Slot :
    (/\ call[s].stage = "checked" /\ ~call[s].data.dryRun
     /\ ~call[s].token /\ ~call[s].overtaken) => ~Current.dryRun

(* No step but the check of a PUT leaves a call past its check that was not  *)
(* there before.                                                            *)
NoneChecked == \A o \in Slot :
    call'[o].stage = "checked" => call'[o] = call[o]

LEMMA SendChecksNothing ==
  ASSUME TypeOK, NEW t \in Tab, NEW s \in Slot, NEW k, NEW d, NEW b, Send(t, s, k, d, b)
  PROVE  NoneChecked
<1> DEFINE c == [Free EXCEPT !.tab = t, !.kind = k, !.data = d, !.token = b,
                             !.stage = "sent"]
<1>1. c.stage = "sent"
  BY DEF Free
<1>2. call' = [call EXCEPT ![s] = c] /\ call \in [Slot -> Call]
  BY DEF Send, TypeOK
<1> HIDE DEF c
<1> QED BY <1>1, <1>2 DEF NoneChecked

LEMMA TabChecksNothing ==
  ASSUME TypeOK, NEW t \in Tab, TabStep(t)
  PROVE  NoneChecked
<1>1. CASE call' = call
  BY <1>1 DEF NoneChecked
<1>2. CASE \E s \in Slot : \E k, d, b : Send(t, s, k, d, b)
  BY <1>2, SendChecksNothing
<1>3. call' = call \/ \E s \in Slot : \E k, d, b : Send(t, s, k, d, b)
  <2>1. ASSUME EditForm(t) \/ setupEnableLive(t) \/ SwitchOff(t) \/ modeActionToLive(t)
               \/ submitOpensModal(t) \/ closeLiveModal(t)
        PROVE  call' = call
    BY <2>1 DEF EditForm, setupEnableLive, SwitchOff, modeActionToLive, submitOpensModal,
       closeLiveModal, openLiveModal
  <2>2. ASSUME NEW s \in Slot,
               SwitchOn(t, s) \/ modeActionToDry(t, s) \/ submitSettings(t, s)
               \/ toggleAutomaticUpdates(t, s) \/ resetSettings(t, s)
               \/ loadRuntimeSettings(t, s) \/ liveModalConfirm(t, s)
        PROVE  \E k, d, b : Send(t, s, k, d, b)
    BY <2>2 DEF SwitchOn, modeActionToDry, backToDryRun, submitSettings,
       toggleAutomaticUpdates, resetSettings, loadRuntimeSettings, liveModalConfirm
  <2>3. ASSUME NEW s \in Slot, saveRetention(t, s) \/ Script(t, s)
        PROVE  \E k, d, b : Send(t, s, k, d, b)
    BY <2>3 DEF saveRetention, Script
  <2> QED BY <2>1, <2>2, <2>3 DEF TabStep, OnPage
<1> QED BY <1>1, <1>2, <1>3

LEMMA AnswerChecksNothing ==
  ASSUME TypeOK, NEW s \in Slot, AnswerStep(s)
  PROVE  NoneChecked
<1>1. PICK c : call' = [call EXCEPT ![s] = c] /\ c.stage # "checked"
  <2>1. ASSUME Loaded(s) \/ SavedSettles(s) \/ OtherFails(s) \/ OtherSaved(s)
        PROVE  call' = [call EXCEPT ![s] = Free]
    BY <2>1 DEF Loaded, SavedSettles, OtherFails, OtherSaved, Settled
  <2>2. ASSUME Saved(s) \/ SaveFails(s) \/ RetentionLoaded(s)
        PROVE  \E c : call' = [call EXCEPT ![s] = c] /\ c.stage # "checked"
    <3>1. CASE Saved(s)
      <4> DEFINE c == [Free EXCEPT !.tab = call[s].tab, !.kind = call[s].kind,
                                   !.stage = "settling"]
      <4>1. c.stage = "settling"
        BY DEF Free
      <4>2. call' = [call EXCEPT ![s] = c]
        BY <3>1 DEF Saved
      <4> HIDE DEF c
      <4> QED BY <4>1, <4>2
    <3>2. CASE SaveFails(s)
      <4> DEFINE c == [Free EXCEPT !.tab = call[s].tab, !.kind = "load",
                     !.stage = "sent", !.reopen = call[s].kind = "confirm"]
      <4>1. c.stage = "sent"
        BY DEF Free
      <4>2. call' = [call EXCEPT ![s] = c]
        BY <3>2 DEF SaveFails
      <4> HIDE DEF c
      <4> QED BY <4>1, <4>2
    <3>3. CASE RetentionLoaded(s)
      <4> DEFINE c == [Free EXCEPT !.tab = call[s].tab, !.kind = "retain",
                     !.data = [call[s].read EXCEPT !.retention = call[s].data.retention],
                     !.stage = "sent", !.outdated = call[s].outdated]
      <4>1. c.stage = "sent"
        BY DEF Free
      <4>2. call' = [call EXCEPT ![s] = c]
        BY <3>3 DEF RetentionLoaded
      <4> HIDE DEF c
      <4> QED BY <4>1, <4>2
    <3> QED BY <2>2, <3>1, <3>2, <3>3
  <2> QED BY <2>1, <2>2, FreeTyped DEF AnswerStep
<1> QED BY <1>1 DEF NoneChecked, TypeOK

LEMMA WindowStep ==
  ASSUME IInv, Window, [Next]_vars
  PROVE  Window' /\ (Leaves => \/ stored' = NoFile
                               \/ \E s \in Slot : /\ PutWrite(s)
                                                  /\ call[s].token \/ call[s].overtaken)
<1>1. TypeOK /\ CheckedSound
  BY DEF IInv
<1>2. ASSUME NoneChecked, stored' = stored
      PROVE  Window' /\ ~Leaves
  BY <1>2 DEF NoneChecked, Window, Leaves, Current
<1>3. CASE UNCHANGED vars
  BY <1>3, <1>2 DEF vars, NoneChecked
<1>4. ASSUME NEW t \in Tab, TabStep(t) PROVE NoneChecked /\ stored' = stored
  <2>1. stored' = stored
    BY <1>4 DEF TabStep, OnPage, EditForm, setupEnableLive, openLiveModal, SwitchOff,
       modeActionToLive, submitOpensModal, SwitchOn, modeActionToDry, backToDryRun,
       submitSettings, toggleAutomaticUpdates, resetSettings, saveRetention,
       closeLiveModal, loadRuntimeSettings, liveModalConfirm, Script, Send
  <2> QED BY <2>1, <1>1, <1>4, TabChecksNothing
<1>5. ASSUME NEW s \in Slot, AnswerStep(s) PROVE NoneChecked /\ stored' = stored
  <2>1. stored' = stored
    BY <1>5 DEF AnswerStep, Loaded, Saved, SavedSettles, SaveFails, OtherFails,
       RetentionLoaded, OtherSaved
  <2> QED BY <2>1, <1>1, <1>5, AnswerChecksNothing
<1>6. ASSUME NEW s \in Slot, Get(s) \/ Lose(s) PROVE NoneChecked /\ stored' = stored
  <2>1. \A x : Answered(call[s], x).stage = "answered"
    BY DEF Answered, Free
  <2>2. Failed(call[s]).stage = "failed"
    BY DEF Failed, Free
  <2> QED BY <1>6, <1>1, <2>1, <2>2 DEF Get, Lose, NoneChecked, TypeOK
<1>7. ASSUME NEW s \in Slot, PutCheck(s) PROVE Window' /\ ~Leaves
  <2>1. stored' = stored /\ call \in [Slot -> Call] /\ call[s] \in Call
    BY <1>7, <1>1 DEF PutCheck, TypeOK
  <2>2. Failed(call[s]).stage = "failed"
    BY DEF Failed, Free
  <2>3. CASE call[s].data.plain = Blank \/ NeedsToken(call[s])
    <3>1. call' = [call EXCEPT ![s] = Failed(call[s])]
      BY <1>7, <2>3 DEF PutCheck
    <3> QED BY <1>2, <2>1, <2>2, <3>1 DEF NoneChecked
  <2>4. CASE ~(call[s].data.plain = Blank \/ NeedsToken(call[s]))
    <3> DEFINE c == [call[s] EXCEPT !.stage = "checked",
                                    !.read.retention = Current.retention]
    <3>1. call' = [call EXCEPT ![s] = c]
      BY <1>7, <2>4 DEF PutCheck
    <3>2. c.data = call[s].data /\ c.token = call[s].token
      BY <2>1 DEF Call
    <3> HIDE DEF c
    <3> QED BY <2>1, <2>4, <3>1, <3>2 DEF NeedsToken, Window, Leaves, Current
  <2> QED BY <2>3, <2>4
<1>8. ASSUME NEW s \in Slot, NEW x,
             call' = [Overtake(s) EXCEPT ![s] = Answered(call[s], x)]
      PROVE  Window'
  <2>1. Answered(call[s], x).stage = "answered"
    BY DEF Answered, Free
  <2>2. \A o \in Slot \ {s} :
          call[o].stage = "checked" => Overtake(s)[o].overtaken = TRUE
    <3> SUFFICES ASSUME NEW o \in Slot \ {s}, call[o].stage = "checked"
                 PROVE  Overtake(s)[o].overtaken = TRUE
      OBVIOUS
    <3>1. Overtake(s)[o] = [call[o] EXCEPT !.overtaken = @ \/ call[o].stage = "checked",
                                           !.outdated = @ \/ CarriesRead(call[o])]
      BY DEF Overtake
    <3>2. call[o] \in Call
      BY <1>1 DEF TypeOK
    <3>3. (call[o].overtaken \/ call[o].stage = "checked") = TRUE
      OBVIOUS
    <3> QED BY <3>1, <3>2, <3>3 DEF Call
  <2> QED BY <1>8, <1>1, <2>1, <2>2, OvertakeTyped DEF Window
<1>9. ASSUME NEW s \in Slot, PutWrite(s)
      PROVE  Window' /\ (Leaves => call[s].token \/ call[s].overtaken)
  <2>1. Window'
    BY <1>8, <1>9 DEF PutWrite
  <2>2. /\ stored' = Merged(call[s]) /\ call[s].stage = "checked"
        /\ call[s] \in Call /\ call[s].data.plain \in Plain
    BY <1>9, <1>1 DEF PutWrite, CheckedSound, TypeOK
  <2>3. stored' \in Settings /\ stored'.dryRun = call[s].data.dryRun
    BY <2>2, MergedTyped
  <2>4. Current' = stored'
    BY <2>3, DistinctMarks DEF Current
  <2> QED BY <2>1, <2>2, <2>3, <2>4 DEF Leaves, Window
<1>10. ASSUME NEW s \in Slot, Reset(s) PROVE Window' /\ stored' = NoFile
  BY <1>8, <1>10 DEF Reset
<1> QED
  BY <1>2, <1>3, <1>4, <1>5, <1>6, <1>7, <1>9, <1>10 DEF Next, ServerStep

(* SettingsEndpoints: leaving Dry Run without the token takes a write that  *)
(* came between the check of a PUT and its own write, or the reset.         *)
THEOREM OneWayOut == Spec => LeavesDryRunConfirmed
<1>1. Init => Window
  <2> SUFFICES ASSUME Init, NEW s \in Slot PROVE call[s].stage # "checked"
    BY DEF Window
  <2> QED BY FreeTyped DEF Init
<1>2. IInv /\ LiveWasConfirmed /\ Window /\ [Next]_vars =>
        [Leaves => \/ stored' = NoFile
                   \/ \E s \in Slot : /\ PutWrite(s)
                                      /\ call[s].token \/ call[s].overtaken]_vars
  BY WindowStep
<1>3. IInv /\ LiveWasConfirmed /\ Window /\ [Next]_vars => Window'
  BY WindowStep
<1> QED
  BY InitEstablishes, InitConfirmed, StepKeeps, <1>1, <1>2, <1>3, PTL
  DEF Spec, LeavesDryRunConfirmed

-----------------------------------------------------------------------------
(* What a save is based on.                                                 *)

(* A call that carries something it has read: unless another write is on     *)
(* record, it is still what the server has, and what it does not carry is    *)
(* left to the server.                                                       *)
BasedOn(c, settings) ==
    /\ c.stage = "checked" => c.kind \in Put
    /\ c.stage = "checked" /\ ~c.overtaken => c.read.retention = settings.retention
    /\ c.stage \in {"sent", "checked"} /\ c.kind \in Put \ {"retain"} => c.data.retention = Keep
    /\ c.kind \in {"retain", "retainLoad"} => c.data.retention \in Retention
    /\ c.kind = "retain" /\ CarriesRead(c) /\ ~c.outdated
         => c.data = [settings EXCEPT !.retention = c.data.retention]
    /\ c.kind = "retainLoad" /\ CarriesRead(c) /\ ~c.outdated => c.read = settings

Based == \A s \in Slot : BasedOn(call[s], Current)

(* A call that carries nothing it has read is based on whatever there is.    *)
LEMMA FreeBased == \A x : BasedOn(Free, x)
  BY FreeTyped DEF BasedOn, Free, CarriesRead, Put

LEMMA SentBased ==
  ASSUME NEW t \in Tab, NEW k \in Kind \ {"retain"}, NEW d \in Body, NEW b \in BOOLEAN, NEW x,
         k \in Put => d.retention = Keep,
         k = "retainLoad" => d.retention \in Retention
  PROVE  BasedOn([Free EXCEPT !.tab = t, !.kind = k, !.data = d, !.token = b,
                              !.stage = "sent"], x)
<1> DEFINE c == [Free EXCEPT !.tab = t, !.kind = k, !.data = d, !.token = b, !.stage = "sent"]
<1>1. c.stage = "sent" /\ c.kind = k /\ c.data = d
  BY DEF Free
<1> HIDE DEF c
<1>2. BasedOn(c, x)
  BY <1>1 DEF BasedOn, CarriesRead
<1> QED BY <1>2 DEF c

LEMMA AnsweredBased ==
  ASSUME NEW c \in Call, NEW x \in Settings,
         c.kind \in {"retain", "retainLoad"} => c.data.retention \in Retention
  PROVE  BasedOn(Answered(c, x), x)
<1>1. /\ Answered(c, x).stage = "answered" /\ Answered(c, x).kind = c.kind
      /\ Answered(c, x).read = x
  BY DEF Answered, Free
<1>2. Answered(c, x).data.retention
        = IF c.kind = "retainLoad" THEN c.data.retention ELSE Defaults.retention
  BY DistinctMarks DEF Answered, Free, Settings
<1>3. Defaults.retention \in Retention
  BY DistinctMarks DEF Settings
<1> QED BY <1>1, <1>2, <1>3 DEF BasedOn, CarriesRead

LEMMA FailedBased ==
  ASSUME NEW c \in Call, NEW x
  PROVE  BasedOn(Failed(c), x)
<1>1. Failed(c).stage = "failed" /\ Failed(c).data = Defaults
  BY DEF Failed, Free
<1>2. Defaults.retention \in Retention
  BY DistinctMarks DEF Settings
<1> QED BY <1>1, <1>2 DEF BasedOn, CarriesRead

(* A write puts every other call that carries something read on record.      *)
LEMMA OvertakenBased ==
  ASSUME TypeOK, Based, NEW s \in Slot, NEW o \in Slot \ {s}, NEW x
  PROVE  BasedOn(Overtake(s)[o], x)
<1> DEFINE c == call[o]
           d == Overtake(s)[o]
<1>1. c \in Call /\ BasedOn(c, Current)
  BY DEF TypeOK, Based
<1>2. d = [c EXCEPT !.overtaken = @ \/ c.stage = "checked", !.outdated = @ \/ CarriesRead(c)]
  BY DEF Overtake
<1>3. /\ d.stage = c.stage /\ d.kind = c.kind /\ d.data = c.data
      /\ c.stage = "checked" => d.overtaken
      /\ CarriesRead(c) => d.outdated
  BY <1>1, <1>2 DEF Call
<1> HIDE DEF c, d
<1>4. CarriesRead(d) <=> CarriesRead(c)
  BY <1>3 DEF CarriesRead
<1>5. BasedOn(d, x)
  BY <1>1, <1>3, <1>4 DEF BasedOn
<1> QED BY <1>5 DEF d

LEMMA SlotBased ==
  ASSUME TypeOK, Based, NEW s \in Slot, NEW c, call' = [call EXCEPT ![s] = c],
         stored' = stored, BasedOn(c, Current)
  PROVE  Based'
<1>1. Current' = Current
  BY DEF Current
<1>2. \A o \in Slot : call'[o] = IF o = s THEN c ELSE call[o]
  BY DEF TypeOK
<1> QED BY <1>1, <1>2 DEF Based

LEMMA SendBased ==
  ASSUME TypeOK, Based, NEW t \in Tab, NEW s \in Slot, NEW k \in Kind \ {"retain"}, NEW d \in Body,
         NEW b \in BOOLEAN, Send(t, s, k, d, b),
         k \in Put => d.retention = Keep,
         k = "retainLoad" => d.retention \in Retention
  PROVE  Based'
  BY SentBased, SlotBased DEF Send

LEMMA TabBased ==
  ASSUME TypeOK, Based, NEW t \in Tab, TabStep(t)
  PROVE  Based'
<1>1. ASSUME EditForm(t) \/ setupEnableLive(t) \/ SwitchOff(t) \/ modeActionToLive(t)
             \/ submitOpensModal(t) \/ closeLiveModal(t)
      PROVE  Based'
  <2>1. call' = call /\ stored' = stored
    BY <1>1 DEF EditForm, setupEnableLive, SwitchOff, modeActionToLive, submitOpensModal,
       closeLiveModal, openLiveModal
  <2> QED BY <2>1 DEF Based, Current
<1>2. /\ settingsFromForm(t).retention = Keep
      /\ [settingsFromForm(t) EXCEPT !.dryRun = TRUE].retention = Keep
      /\ [settingsFromForm(t) EXCEPT !.dryRun = FALSE].retention = Keep
  BY DEF settingsFromForm
<1>3. "save" \in Kind /\ "confirm" \in Kind /\ "script" \in Kind /\ "load" \in Kind
      /\ "reset" \in Kind /\ "retainLoad" \in Kind
  BY DEF Kind, Put
<1>4. ASSUME NEW s \in Slot, SwitchOn(t, s) \/ modeActionToDry(t, s) PROVE Based'
  <2>1. Send(t, s, "save", [settingsFromForm(t) EXCEPT !.dryRun = TRUE], FALSE)
    BY <1>4 DEF SwitchOn, modeActionToDry, backToDryRun
  <2> QED BY <1>2, <1>3, <2>1, FormTyped, SendBased
<1>5. ASSUME NEW s \in Slot, submitSettings(t, s) \/ toggleAutomaticUpdates(t, s) PROVE Based'
  <2>1. Send(t, s, "save", settingsFromForm(t), FALSE)
    BY <1>5 DEF submitSettings, toggleAutomaticUpdates
  <2> QED BY <1>2, <1>3, <2>1, FormTyped, SendBased
<1>6. ASSUME NEW s \in Slot, liveModalConfirm(t, s) PROVE Based'
  <2>1. Send(t, s, "confirm", [settingsFromForm(t) EXCEPT !.dryRun = FALSE], TRUE)
    BY <1>6 DEF liveModalConfirm
  <2> QED BY <1>2, <1>3, <2>1, FormTyped, SendBased
<1>7. ASSUME NEW s \in Slot, resetSettings(t, s) \/ loadRuntimeSettings(t, s) PROVE Based'
  <2>1. Send(t, s, "reset", Defaults, FALSE) \/ Send(t, s, "load", Defaults, FALSE)
    BY <1>7 DEF resetSettings, loadRuntimeSettings
  <2>2. "reset" \notin Put /\ "load" \notin Put
    BY DEF Put
  <2> QED BY <1>3, <2>1, <2>2, FreeTyped, SendBased
<1>8. ASSUME NEW s \in Slot, saveRetention(t, s) PROVE Based'
  <2>1. PICK days \in Retention :
          Send(t, s, "retainLoad", [Defaults EXCEPT !.retention = days], FALSE)
    BY <1>8 DEF saveRetention
  <2>2. /\ [Defaults EXCEPT !.retention = days] \in Body
        /\ [Defaults EXCEPT !.retention = days].retention = days
    BY FreeTyped DEF Body
  <2>3. "retainLoad" \notin Put
    BY DEF Put
  <2> QED BY <1>3, <2>1, <2>2, <2>3, SendBased
<1>9. ASSUME NEW s \in Slot, Script(t, s) PROVE Based'
  <2>1. PICK p \in Plain :
          Send(t, s, "script", [dryRun |-> FALSE, plain |-> p, retention |-> Keep], FALSE)
    BY <1>9 DEF Script
  <2>2. [dryRun |-> FALSE, plain |-> p, retention |-> Keep] \in Body
    BY DEF Body
  <2> QED BY <1>3, <2>1, <2>2, SendBased
<1> QED
  BY <1>1, <1>4, <1>5, <1>6, <1>7, <1>8, <1>9 DEF TabStep, OnPage

(* The check keeps what it reads; a write leaves nobody but itself current.  *)
LEMMA ServerBased ==
  ASSUME IInv, Based, NEW s \in Slot, ServerStep(s)
  PROVE  Based'
<1>1. TypeOK /\ call[s] \in Call /\ Current \in Settings /\ BasedOn(call[s], Current)
  BY CurrentTyped DEF IInv, TypeOK, Based
<1>2. call[s].kind \in {"retain", "retainLoad"} => call[s].data.retention \in Retention
  BY <1>1 DEF BasedOn
<1>3. CASE Get(s)
  BY <1>1, <1>2, <1>3, AnsweredBased, SlotBased DEF Get
<1>4. CASE Lose(s)
  BY <1>1, <1>4, FailedBased, SlotBased DEF Lose
<1>5. CASE PutCheck(s)
  <2>1. CASE call[s].data.plain = Blank \/ NeedsToken(call[s])
    BY <1>1, <1>5, <2>1, FailedBased, SlotBased DEF PutCheck
  <2>2. CASE ~(call[s].data.plain = Blank \/ NeedsToken(call[s]))
    <3> DEFINE c == [call[s] EXCEPT !.stage = "checked",
                                    !.read.retention = Current.retention]
    <3>1. call' = [call EXCEPT ![s] = c] /\ stored' = stored
      BY <1>5, <2>2 DEF PutCheck
    <3>2. call[s].stage = "sent" /\ call[s].kind \in Put
      BY <1>5 DEF PutCheck
    <3>3. /\ c.stage = "checked" /\ c.kind = call[s].kind /\ c.data = call[s].data
          /\ c.outdated = call[s].outdated /\ c.read.retention = Current.retention
      BY <1>1 DEF Call, Settings
    <3>4. CarriesRead(c) => CarriesRead(call[s])
      BY <3>2, <3>3 DEF CarriesRead
    <3>5. "retainLoad" \notin Put
      BY DEF Put
    <3> HIDE DEF c
    <3>6. BasedOn(c, Current)
      BY <1>1, <3>2, <3>3, <3>4, <3>5 DEF BasedOn
    <3> QED BY <1>1, <3>1, <3>6, SlotBased
  <2> QED BY <2>1, <2>2
<1>6. ASSUME NEW x \in Settings, Current' = x,
             call' = [Overtake(s) EXCEPT ![s] = Answered(call[s], x)]
      PROVE  Based'
  <2>1. \A o \in Slot : call'[o] = IF o = s THEN Answered(call[s], x) ELSE Overtake(s)[o]
    BY <1>1, <1>6, OvertakeTyped
  <2>2. BasedOn(Answered(call[s], x), x)
    BY <1>1, <1>2, AnsweredBased
  <2>3. \A o \in Slot \ {s} : BasedOn(Overtake(s)[o], x)
    BY <1>1, OvertakenBased
  <2> QED BY <1>6, <2>1, <2>2, <2>3 DEF Based
<1>7. CASE PutWrite(s)
  <2>1. Merged(call[s]) \in Settings
    BY <1>1, <1>7, MergedTyped DEF PutWrite, IInv, CheckedSound
  <2>2. Current' = Merged(call[s])
    BY <1>7, <2>1, DistinctMarks DEF PutWrite, Current
  <2> QED BY <1>6, <1>7, <2>1, <2>2 DEF PutWrite
<1>8. CASE Reset(s)
  BY <1>6, <1>8, DistinctMarks DEF Reset, Current
<1> QED BY <1>3, <1>4, <1>5, <1>7, <1>8 DEF ServerStep

(* The retention card sends back what it was answered.                      *)
LEMMA AnswerBased ==
  ASSUME IInv, Based, NEW s \in Slot, AnswerStep(s)
  PROVE  Based'
<1>1. TypeOK /\ call[s] \in Call /\ Current \in Settings /\ BasedOn(call[s], Current)
  BY CurrentTyped DEF IInv, TypeOK, Based
<1>2. ASSUME Loaded(s) \/ SavedSettles(s) \/ OtherFails(s) \/ OtherSaved(s)
      PROVE  Based'
  <2>1. call' = [call EXCEPT ![s] = Free] /\ stored' = stored
    BY <1>2 DEF Loaded, SavedSettles, OtherFails, OtherSaved, Settled
  <2> QED BY <1>1, <2>1, FreeBased, SlotBased
<1>3. CASE Saved(s)
  <2> DEFINE c == [Free EXCEPT !.tab = call[s].tab, !.kind = call[s].kind,
                               !.stage = "settling"]
  <2>1. c.stage = "settling" /\ c.kind = call[s].kind
    BY DEF Free
  <2>2. call' = [call EXCEPT ![s] = c] /\ stored' = stored
        /\ call[s].kind \in {"save", "confirm"}
    BY <1>3 DEF Saved
  <2> HIDE DEF c
  <2>3. BasedOn(c, Current)
    BY <2>1, <2>2 DEF BasedOn, CarriesRead
  <2> QED BY <1>1, <2>2, <2>3, SlotBased
<1>4. CASE SaveFails(s)
  <2> DEFINE c == [Free EXCEPT !.tab = call[s].tab, !.kind = "load",
                     !.stage = "sent", !.reopen = call[s].kind = "confirm"]
  <2>1. c.stage = "sent" /\ c.kind = "load"
    BY DEF Free
  <2>2. call' = [call EXCEPT ![s] = c] /\ stored' = stored
    BY <1>4 DEF SaveFails
  <2> HIDE DEF c
  <2>3. BasedOn(c, Current)
    BY <2>1 DEF BasedOn, CarriesRead, Put
  <2> QED BY <1>1, <2>2, <2>3, SlotBased
<1>5. CASE RetentionLoaded(s)
  <2> DEFINE d == [call[s].read EXCEPT !.retention = call[s].data.retention]
             c == [Free EXCEPT !.tab = call[s].tab, !.kind = "retain", !.data = d,
                     !.stage = "sent", !.outdated = call[s].outdated]
  <2>1. /\ c.stage = "sent" /\ c.kind = "retain" /\ c.data = d
        /\ c.outdated = call[s].outdated
    BY DEF Free
  <2>2. call' = [call EXCEPT ![s] = c] /\ stored' = stored
        /\ call[s].stage = "answered" /\ call[s].kind = "retainLoad"
    BY <1>5 DEF RetentionLoaded
  <2>3. call[s].data.retention \in Retention
    BY <1>1, <2>2 DEF BasedOn
  <2>4. d.retention = call[s].data.retention
    BY <1>1 DEF Call, Settings
  <2>5. ~call[s].outdated => d = [Current EXCEPT !.retention = d.retention]
    BY <1>1, <2>2, <2>4 DEF BasedOn, CarriesRead
  <2> HIDE DEF c, d
  <2>6. BasedOn(c, Current)
    BY <2>1, <2>3, <2>4, <2>5 DEF BasedOn
  <2> QED BY <1>1, <2>2, <2>6, SlotBased
<1> QED BY <1>2, <1>3, <1>4, <1>5 DEF AnswerStep

LEMMA BasedStep == IInv /\ Based /\ [Next]_vars => Based'
<1>1. ASSUME UNCHANGED vars, Based PROVE Based'
  BY <1>1 DEF vars, Based, Current
<1> QED
  BY <1>1, TabBased, ServerBased, AnswerBased DEF Next, IInv

LEMMA WriteKeepsOthers ==
  ASSUME IInv, Based, NEW s \in Slot, PutWrite(s), ~call[s].overtaken
  PROVE  IF call[s].kind = "retain"
         THEN \/ call[s].outdated
              \/ Current' = [Current EXCEPT !.retention = call[s].data.retention]
         ELSE Current'.retention = Current.retention
<1>1. /\ call[s] \in Call /\ BasedOn(call[s], Current) /\ call[s].stage = "checked"
      /\ stored' = Merged(call[s]) /\ call[s].data.plain \in Plain
  BY DEF IInv, TypeOK, CheckedSound, Based, PutWrite
<1>2. Merged(call[s]) \in Settings
  BY <1>1, MergedTyped
<1>3. Current' = Merged(call[s])
  BY <1>1, <1>2, DistinctMarks DEF Current
<1>4. CASE call[s].kind = "retain"
  <2>1. call[s].data.retention # Keep
    BY <1>1, <1>4, DistinctMarks DEF BasedOn
  <2>2. call[s].data \in Body
    BY <1>1 DEF Call
  <2>3. Merged(call[s]) = call[s].data
    BY <2>1, <2>2 DEF Merged, Body
  <2> QED BY <1>1, <1>3, <1>4, <2>3 DEF BasedOn, CarriesRead
<1>5. CASE call[s].kind # "retain"
  <2>1. call[s].data.retention = Keep /\ call[s].read.retention = Current.retention
    BY <1>1, <1>5 DEF BasedOn
  <2>2. Merged(call[s]).retention = call[s].read.retention
    BY <1>1, <2>1 DEF Merged, Call, Body
  <2> QED BY <1>3, <1>5, <2>1, <2>2
<1> QED BY <1>4, <1>5

(* SettingsEndpoints and the console's two cards: a save that no other write *)
(* came between changes only what its sender set.                           *)
THEOREM SavesKeepOthers == Spec => OthersKept
<1>1. Init => Based
  BY FreeBased DEF Init, Based
<1>2. IInv /\ Based /\ [Next]_vars =>
        [\A s \in Slot : PutWrite(s) /\ ~call[s].overtaken =>
           IF call[s].kind = "retain"
           THEN \/ call[s].outdated
                \/ Current' = [Current EXCEPT !.retention = call[s].data.retention]
           ELSE Current'.retention = Current.retention]_vars
  BY WriteKeepsOthers
<1> QED
  BY InitEstablishes, InitConfirmed, StepKeeps, BasedStep, <1>1, <1>2, PTL
  DEF Spec, OthersKept
=============================================================================
