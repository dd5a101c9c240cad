--------------------------- MODULE EditFormsProofs ---------------------------
(***************************************************************************)
(* Theorems about EditForms, for any records, presets, roles, clock change  *)
(* and bounds.                                                             *)
(*                                                                         *)
(* Sound, inductive: tables, forms and requests have their types, and what  *)
(* a form or a request under way says of a field its user left alone is     *)
(* what its record was filled in with, what a reload has put in or, for a   *)
(* new record, the default.  It says nothing of windows: WindowRests,       *)
(* inductive relative to Sound, says that the server keeps the window       *)
(* chosen, or that window after one trip through a form.  A second trip     *)
(* changes nothing (RoundTripSettles).                                      *)
(***************************************************************************)
EXTENDS EditForms, TLAPS

USE DEF MINUTE, DAY

-----------------------------------------------------------------------------
(* Instants and local time                                                 *)

\* Every multiple of a minute comes back from local time, as long as the clock
\* shows it with the offset it is read with.
LEMMA Minutes ==
  ASSUME NEW x \in Int, NEW b \in Int, b % 60 = 0
  PROVE  /\ ((x + b) \div 60) \in Int
         /\ ((x + b) \div 60) * 60 - b <= x
         /\ x <= ((x + b) \div 60) * 60 - b + 59
         /\ (((x + b) \div 60) * 60 - b) % 60 = 0
  OBVIOUS

\* The last full minute before an instant.
LEMMA FullMinute ==
  ASSUME NEW x \in Int, NEW y \in Int, NEW z \in Int,
         x % 60 = 0, x <= y, y <= x + 59, z % 60 = 0, z <= y
  PROVE  z <= x
  OBVIOUS

\* The instants of the clock.
LEMMA ClockTyping == Change \in Int /\ Before \in Int /\ After \in Int /\ Now \in Int
  BY ClockAssumption

\* Instants and local times are integers.
LEMMA LocalTyping ==
  ASSUME NEW x \in Int
  PROVE  toLocalInput(x) \in Int /\ fromLocalInput(x) \in Int /\ RoundTrip(x) \in Int
<1>1. \A y \in Int : toLocalInput(y) \in Int
  BY ClockTyping DEF toLocalInput, Offset
<1>2. \A y \in Int : fromLocalInput(y) \in Int
  BY ClockTyping DEF fromLocalInput
<1> QED
  BY <1>1, <1>2 DEF RoundTrip

\* A trip through a form loses at most Loss and changes nothing of what is shown.
LEMMA RoundTripNear ==
  ASSUME NEW x \in Int
  PROVE  /\ RoundTrip(x) <= x
         /\ x - RoundTrip(x) <= Loss
         /\ toLocalInput(RoundTrip(x)) = toLocalInput(x)
<1> DEFINE m == toLocalInput(x)
           early == m * 60 - Before
           late == m * 60 - After
<1>0. m \in Int /\ early \in Int /\ late \in Int /\ RoundTrip(x) \in Int
  <2>1. m \in Int /\ RoundTrip(x) \in Int
    BY LocalTyping
  <2> QED
    BY <2>1, ClockTyping
<1>1. RoundTrip(x) = IF early >= Change /\ late >= Change THEN late ELSE early
  <2>1. \A y : fromLocalInput(y) = IF y * 60 - Before >= Change /\ y * 60 - After >= Change
                                   THEN y * 60 - After ELSE y * 60 - Before
    BY DEF fromLocalInput
  <2> QED
    BY <2>1, Zenon DEF RoundTrip
<1>2. CASE x < Change
  <2>1. m = (x + Before) \div 60
    BY <1>2 DEF toLocalInput, Offset
  <2>2. early <= x /\ x <= early + 59 /\ early % 60 = 0
    BY <2>1, Minutes, ClockAssumption
  <2>3. RoundTrip(x) = early
    BY <1>0, <1>1, <1>2, <2>2, ClockTyping
  <2>4. early < Change
    BY <1>0, <1>2, <2>2, ClockTyping
  <2>5. toLocalInput(early) = (early + Before) \div 60
    BY <2>4 DEF toLocalInput, Offset
  <2>6. toLocalInput(early) = m
    BY <1>0, <2>5, ClockAssumption
  <2> QED
    BY <1>0, <1>1, <2>2, <2>3, <2>6, ClockTyping DEF Loss
<1>3. CASE x >= Change
  <2>1. m = (x + After) \div 60
    BY <1>3, ClockTyping DEF toLocalInput, Offset
  <2>2. late <= x /\ x <= late + 59 /\ late % 60 = 0
    BY <2>1, Minutes, ClockAssumption
  <2>3. late >= Change
    BY <1>0, <1>3, <2>2, FullMinute, ClockAssumption
  <2>4. CASE early >= Change
    <3>1. RoundTrip(x) = late
      BY <1>1, <2>3, <2>4
    <3>2. toLocalInput(late) = (late + After) \div 60
      BY <1>0, <2>3, ClockTyping DEF toLocalInput, Offset
    <3>3. toLocalInput(late) = m
      BY <1>0, <3>2, ClockAssumption
    <3> QED
      BY <1>0, <1>1, <2>2, <3>1, <3>3, ClockTyping DEF Loss
  <2>5. CASE early < Change
    <3>1. RoundTrip(x) = early
      BY <1>0, <1>1, <2>5, ClockTyping
    <3>2. toLocalInput(early) = (early + Before) \div 60
      BY <2>5 DEF toLocalInput, Offset
    <3>3. toLocalInput(early) = m
      BY <1>0, <3>2, ClockAssumption
    <3>4. late - early = Before - After
      BY <1>0, ClockTyping
    <3>5. early < late
      BY <1>0, <2>3, <2>5, ClockTyping
    <3>6. Loss = 59 + (Before - After)
      BY <1>0, <3>4, <3>5, ClockTyping DEF Loss
    <3> QED
      BY <1>0, <1>1, <2>2, <3>1, <3>3, <3>4, <3>5, <3>6, ClockTyping
  <2> QED
    BY <1>0, <2>4, <2>5, ClockTyping
<1> QED
  BY <1>2, <1>3, ClockTyping

\* However often a window goes through a form, it changes the first time only.
LEMMA RoundTripSettles ==
  ASSUME NEW x \in Int
  PROVE  RoundTrip(RoundTrip(x)) = RoundTrip(x)
  BY RoundTripNear DEF RoundTrip

-----------------------------------------------------------------------------
(* The invariant                                                           *)

USE NoneAssumption

ShareRecord == [enabled: BOOLEAN, preset: Preset \cup {None}, types: {"chosen", "default"}]
ShareBody == [enabled: BOOLEAN, preset: Preset \cup {None}]
GroupRecord == [members: SUBSET Share]
GroupOrigin == [members: SUBSET Share, offered: SUBSET Share]
EventRecord == [group: Group, destination: Share, start: Int, end: Int \cup {None}]
EventFields == [group: Group \cup {None}, destination: Share \cup {None},
                start: Int, end: Int \cup {None}]
Window == [start: Int, end: Int \cup {None}]

ShareForm == [open: BOOLEAN, id: Share \cup {None}, fields: ShareRecord,
              origin: ShareRecord \cup {None}, free: SUBSET {"enabled", "preset", "types"},
              redrawn: {{}}]
GroupForm == [open: BOOLEAN, id: Group \cup {None}, fields: GroupRecord,
              origin: GroupOrigin \cup {None}, free: SUBSET {"members"}, redrawn: {{}}]
EventForm == [open: BOOLEAN, id: Event \cup {None}, fields: EventFields,
              origin: EventRecord \cup {None},
              free: SUBSET {"group", "destination", "start", "end"},
              redrawn: SUBSET {"group", "destination"}]

Origin == ShareRecord \cup GroupOrigin \cup EventRecord \cup {None}
Said == ShareBody \cup GroupRecord \cup EventRecord \cup {None}
RequestType == [step: {"none", "sent", "saved", "reload"}, kind: Kind \cup {None},
             id: Share \cup Group \cup Event \cup {None}, body: Said, origin: Origin,
             free: SUBSET {"enabled", "preset", "types", "members",
                           "group", "destination", "start", "end"},
             redrawn: SUBSET {"group", "destination"}]

\* A preset shown for the record's: the same, or none because that one is gone.
PresetFollows(old, new, presets) == new = old \/ (new = None /\ old \notin presets)

\* What is said of the fields the user left alone, for the record origin or a new one.
ShareSays(id, said, origin, free, presets) ==
  id # None =>
    /\ origin \in ShareRecord
    /\ "enabled" \notin free => said.enabled = origin.enabled
    /\ "preset" \notin free => PresetFollows(origin.preset, said.preset, presets)
GroupSays(id, said, origin, free) ==
  /\ id # None => origin \in GroupOrigin
  /\ "members" \notin free =>
        \/ said.members = {}
        \/ id # None /\ said.members = origin.members \cap origin.offered
EventShows(id, said, origin, free, redrawn) ==
  /\ id = None =>
       /\ "start" \notin free => said.start = toLocalInput(Now)
       /\ "end" \notin free => said.end = None
  /\ id # None =>
       /\ origin \in EventRecord
       /\ "group" \notin free \cup redrawn => said.group \in {origin.group, None}
       /\ "destination" \notin free \cup redrawn => said.destination \in {origin.destination, None}
       /\ "start" \notin free => said.start = toLocalInput(origin.start)
       /\ "end" \notin free => said.end = Shown(origin.end)
EventSays(id, said, origin, free, redrawn) ==
  /\ id = None =>
       /\ "start" \notin free => said.start = RoundTrip(Now)
       /\ "end" \notin free => said.end = None
  /\ id # None =>
       /\ origin \in EventRecord
       /\ "group" \notin free \cup redrawn => said.group = origin.group
       /\ "destination" \notin free \cup redrawn => said.destination = origin.destination
       /\ "start" \notin free => said.start = RoundTrip(origin.start)
       /\ "end" \notin free => said.end = Meant(Shown(origin.end))

ShareFormOK(f, presets) ==
  /\ f \in ShareForm
  /\ f.open => f.id # None
  /\ ShareSays(f.id, f.fields, f.origin, f.free, presets)
GroupFormOK(f) == f \in GroupForm /\ GroupSays(f.id, f.fields, f.origin, f.free)
EventNew(f, t) ==
  f.id = None =>
    /\ "group" \notin f.free => f.fields.group = First(Groups(t), None)
    /\ "destination" \notin f.free => f.fields.destination = First(Destinations(t), None)
EventFormOK(f, t) ==
  /\ f \in EventForm
  /\ EventShows(f.id, f.fields, f.origin, f.free, f.redrawn)
  /\ EventNew(f, t)

ShareSent(u, presets) ==
  /\ u.id \in Share /\ u.body \in ShareBody
  /\ ShareSays(u.id, u.body, u.origin, u.free, presets)
GroupSent(u) ==
  /\ u.id \in Group \cup {None} /\ u.body \in GroupRecord
  /\ GroupSays(u.id, u.body, u.origin, u.free)
EventSent(u) ==
  /\ u.id \in Event \cup {None} /\ u.body \in EventRecord
  /\ EventSays(u.id, u.body, u.origin, u.free, u.redrawn)

RequestOK(u, presets) ==
  /\ u.step = "sent" => \/ u.kind = "share" /\ ShareSent(u, presets)
                        \/ u.kind = "group" /\ GroupSent(u)
                        \/ u.kind = "event" /\ EventSent(u)
  /\ u.step = "saved" => u.kind \in Kind

TablesOK ==
  /\ server \in Table /\ page \in Table
  /\ server.presets \subseteq page.presets
FormsOK ==
  /\ DOMAIN form = Kind
  /\ ShareFormOK(form["share"], server.presets)
  /\ GroupFormOK(form["group"])
  /\ EventFormOK(form["event"], page)
RequestsOK ==
  /\ under \in [Slot -> RequestType]
  /\ \A s \in Slot : RequestOK(under[s], server.presets)
RestOK ==
  /\ picker \in [input: {None, "start", "end"}, time: 0..DAY - 1]
  /\ wanted \in [Event -> Window]

\* The inductive invariant.
Sound == TablesOK /\ FormsOK /\ RequestsOK /\ RestOK

\* What there is in a table, and the first of it.
LEMMA TableParts ==
  ASSUME NEW t \in Table
  PROVE  /\ Groups(t) \subseteq Group /\ Events(t) \subseteq Event
         /\ Sources(t) \subseteq Share /\ Destinations(t) \subseteq Share
         /\ First(Groups(t), None) \in Group \cup {None}
         /\ First(Destinations(t), None) \in Share \cup {None}
<1>1. /\ Groups(t) \subseteq Group /\ Events(t) \subseteq Event
      /\ Sources(t) \subseteq Share /\ Destinations(t) \subseteq Share
  BY DEF Groups, Events, Sources, Destinations
<1>2. First(Groups(t), None) \in IF Groups(t) = {} THEN {None} ELSE Groups(t)
  BY <1>1, FirstAssumption
<1>3. First(Destinations(t), None) \in IF Destinations(t) = {} THEN {None} ELSE Destinations(t)
  BY <1>1, FirstAssumption
<1> QED
  BY <1>1, <1>2, <1>3

\* The defaults of the forms.
LEMMA Defaults ==
  ASSUME NEW t \in Table
  PROVE  /\ Reset("share", t) \in ShareRecord
         /\ Reset("group", t) = [members |-> {}]
         /\ Reset("event", t) \in EventFields
         /\ Reset("event", t).group = First(Groups(t), None)
         /\ Reset("event", t).destination = First(Destinations(t), None)
         /\ Reset("event", t).start = toLocalInput(Now)
         /\ Reset("event", t).end = None
<1>1. Reset("share", t) \in ShareRecord
  BY DEF Reset, resetShareForm, ShareRecord
<1>2. Reset("group", t) = [members |-> {}]
  BY DEF Reset, resetGroupForm, renderGroupChoices
<1>3. Reset("event", t) = [group |-> First(Groups(t), None),
                           destination |-> First(Destinations(t), None),
                           start |-> toLocalInput(Now), end |-> None]
  BY DEF Reset, resetEventForm, renderEventSelectors
<1>4. toLocalInput(Now) \in Int
  BY LocalTyping, ClockAssumption
<1> QED
  BY <1>1, <1>2, <1>3, <1>4, TableParts DEF EventFields

\* A form filled in with the defaults.
LEMMA NewForms ==
  ASSUME NEW t \in Table, NEW presets
  PROVE  /\ ShareFormOK([Filled(None, Reset("share", t), None) EXCEPT !.open = FALSE], presets)
         /\ GroupFormOK([Filled(None, Reset("group", t), None) EXCEPT !.open = FALSE])
         /\ GroupFormOK(Filled(None, Reset("group", t), None))
         /\ EventFormOK([Filled(None, Reset("event", t), None) EXCEPT !.open = FALSE], t)
         /\ EventFormOK(Filled(None, Reset("event", t), None), t)
<1> USE Defaults
<1>1. ShareFormOK([Filled(None, Reset("share", t), None) EXCEPT !.open = FALSE], presets)
  BY DEF ShareFormOK, ShareForm, Filled, ShareSays
<1>2. /\ GroupFormOK([Filled(None, [members |-> {}], None) EXCEPT !.open = FALSE])
      /\ GroupFormOK(Filled(None, [members |-> {}], None))
  BY DEF GroupFormOK, GroupForm, GroupRecord, Filled, GroupSays
<1>3. /\ EventFormOK([Filled(None, Reset("event", t), None) EXCEPT !.open = FALSE], t)
      /\ EventFormOK(Filled(None, Reset("event", t), None), t)
  <2>1. ASSUME NEW f \in EventFields, f.start = toLocalInput(Now), f.end = None,
               f.group = First(Groups(t), None), f.destination = First(Destinations(t), None)
        PROVE  /\ EventFormOK([Filled(None, f, None) EXCEPT !.open = FALSE], t)
               /\ EventFormOK(Filled(None, f, None), t)
    BY <2>1 DEF EventFormOK, EventForm, Filled, EventShows, EventNew
  <2> QED
    BY <2>1
<1> QED
  BY <1>1, <1>2, <1>3

\* A preset that is not there in the page's list is not there at the server.
LEMMA FewerPresets ==
  ASSUME NEW old, NEW new, NEW presets, NEW fewer, fewer \subseteq presets,
         PresetFollows(old, new, presets)
  PROVE  PresetFollows(old, new, fewer)
  BY DEF PresetFollows

\* What is shown and sent of a share stays right while presets go.
LEMMA FewerPresetsSay ==
  ASSUME NEW presets, NEW fewer, fewer \subseteq presets
  PROVE  /\ \A f : ShareFormOK(f, presets) => ShareFormOK(f, fewer)
         /\ \A u : RequestOK(u, presets) => RequestOK(u, fewer)
<1>1. ASSUME NEW id, NEW said, NEW origin, NEW free, ShareSays(id, said, origin, free, presets)
      PROVE  ShareSays(id, said, origin, free, fewer)
  BY <1>1, FewerPresets DEF ShareSays
<1> QED
  BY <1>1 DEF ShareFormOK, RequestOK, ShareSent

\* One form changes.
LEMMA FormChanges ==
  ASSUME FormsOK, server'.presets = server.presets, page' = page, NEW f
  PROVE  /\ ShareFormOK(f, server.presets) /\ form' = [form EXCEPT !["share"] = f] => FormsOK'
         /\ GroupFormOK(f) /\ form' = [form EXCEPT !["group"] = f] => FormsOK'
         /\ EventFormOK(f, page) /\ form' = [form EXCEPT !["event"] = f] => FormsOK'
<1>1. ASSUME ShareFormOK(f, server.presets), form' = [form EXCEPT !["share"] = f] PROVE FormsOK'
  <2>1. form'["share"] = f /\ form'["group"] = form["group"] /\ form'["event"] = form["event"]
    BY <1>1 DEF FormsOK, Kind
  <2>2. DOMAIN form' = Kind
    BY <1>1 DEF FormsOK
  <2> QED
    BY <1>1, <2>1, <2>2 DEF FormsOK
<1>2. ASSUME GroupFormOK(f), form' = [form EXCEPT !["group"] = f] PROVE FormsOK'
  <2>1. form'["share"] = form["share"] /\ form'["group"] = f /\ form'["event"] = form["event"]
    BY <1>2 DEF FormsOK, Kind
  <2>2. DOMAIN form' = Kind
    BY <1>2 DEF FormsOK
  <2> QED
    BY <1>2, <2>1, <2>2 DEF FormsOK
<1>3. ASSUME EventFormOK(f, page), form' = [form EXCEPT !["event"] = f] PROVE FormsOK'
  <2>1. form'["share"] = form["share"] /\ form'["group"] = form["group"] /\ form'["event"] = f
    BY <1>3 DEF FormsOK, Kind
  <2>2. DOMAIN form' = Kind
    BY <1>3 DEF FormsOK
  <2> QED
    BY <1>3, <2>1, <2>2 DEF FormsOK
<1> QED
  BY <1>1, <1>2, <1>3

-----------------------------------------------------------------------------
(* Filling in                                                              *)

LEMMA EditKeepsForms ==
  ASSUME TablesOK, FormsOK, Edit
  PROVE  FormsOK'
<1> USE DEF TablesOK
<1>0. server'.presets = server.presets /\ page' = page
  BY DEF Edit
<1>1. ASSUME NEW s \in Share,
             form' = [form EXCEPT !["share"] = Filled(s, editShare(s), page.share[s])]
      PROVE  FormsOK'
  <2> DEFINE f == Filled(s, editShare(s), page.share[s])
             shown == renderPresetChoices(page, page.share[s].preset)
  <2>1. page.share[s] \in ShareRecord
    BY DEF Table, ShareRecord
  <2>2. shown \in Preset \cup {None} /\ PresetFollows(page.share[s].preset, shown, server.presets)
    BY <2>1 DEF ShareRecord, renderPresetChoices, PresetFollows
  <2>3. editShare(s) = [page.share[s] EXCEPT !.preset = shown]
    BY DEF editShare
  <2> HIDE DEF shown
  <2>4. /\ editShare(s) \in ShareRecord
        /\ editShare(s).enabled = page.share[s].enabled
        /\ editShare(s).preset = shown
    BY <2>1, <2>2, <2>3 DEF ShareRecord
  <2>5. ShareFormOK(f, server.presets)
    BY <2>1, <2>2, <2>4 DEF ShareFormOK, ShareForm, ShareSays, Filled
  <2> QED
    BY <1>0, <1>1, <2>5, FormChanges
<1>2. ASSUME NEW g \in Groups(page),
             form' = [form EXCEPT !["group"] = Filled(g, editGroup(g), GroupRead(g))]
      PROVE  FormsOK'
  <2>1. g \in Group /\ g # None
    BY TableParts
  <2>2. GroupRead(g) \in GroupOrigin
    BY <2>1, TableParts DEF GroupRead, GroupOrigin, Table
  <2>3. /\ editGroup(g) \in GroupRecord
        /\ editGroup(g).members = GroupRead(g).members \cap GroupRead(g).offered
    BY TableParts DEF editGroup, renderGroupChoices, GroupRecord, GroupRead
  <2>4. GroupFormOK(Filled(g, editGroup(g), GroupRead(g)))
    BY <2>1, <2>2, <2>3 DEF GroupFormOK, GroupForm, GroupSays, Filled
  <2> QED
    BY <1>0, <1>2, <2>4, FormChanges
<1>3. ASSUME NEW e \in Events(page),
             form' = [form EXCEPT !["event"] = Filled(e, editEvent(e), page.event[e])]
      PROVE  FormsOK'
  <2> DEFINE r == page.event[e]
  <2>1. e \in Event /\ e # None
    BY TableParts
  <2>2. r \in EventRecord
    BY <2>1 DEF Events, Table, EventRecord
  <2>3. r.start \in Int /\ r.end \in Int \cup {None} /\ r.group \in Group /\ r.destination \in Share
    BY <2>2 DEF EventRecord
  <2>4. Shown(r.start) = toLocalInput(r.start) /\ toLocalInput(r.start) \in Int
    BY <2>3, LocalTyping DEF Shown
  <2>5. Shown(r.end) \in Int \cup {None}
    BY <2>3, LocalTyping DEF Shown
  <2>6. /\ editEvent(e) \in EventFields
        /\ editEvent(e).group \in {r.group, None}
        /\ editEvent(e).destination \in {r.destination, None}
        /\ editEvent(e).start = toLocalInput(r.start)
        /\ editEvent(e).end = Shown(r.end)
    BY <2>3, <2>4, <2>5 DEF editEvent, EventFields
  <2>7. EventFormOK(Filled(e, editEvent(e), r), page)
    BY <2>1, <2>2, <2>6 DEF EventFormOK, EventForm, EventShows, EventNew, Filled
  <2> QED
    BY <1>0, <1>3, <2>7, FormChanges
<1> QED
  BY <1>1, <1>2, <1>3 DEF Edit

LEMMA NewKeepsForms ==
  ASSUME TablesOK, FormsOK, New("group") \/ New("event")
  PROVE  FormsOK'
<1>1. server'.presets = server.presets /\ page' = page
  BY DEF New
<1>2. /\ GroupFormOK(Filled(None, Reset("group", page), None))
      /\ EventFormOK(Filled(None, Reset("event", page), None), page)
  BY NewForms DEF TablesOK
<1> QED
  BY <1>1, <1>2, FormChanges DEF New

LEMMA CloseKeepsForms ==
  ASSUME FormsOK, NEW k \in Kind, closeForm(k)
  PROVE  FormsOK'
<1> DEFINE f == [form[k] EXCEPT !.open = FALSE]
<1>0. server'.presets = server.presets /\ page' = page /\ form' = [form EXCEPT ![k] = f]
  BY DEF closeForm
<1>1. CASE k = "share"
  <2>1. ShareFormOK(f, server.presets)
    BY <1>1 DEF FormsOK, ShareFormOK, ShareForm
  <2> QED
    BY <1>0, <1>1, <2>1, FormChanges
<1>2. CASE k = "group"
  <2>1. GroupFormOK(f)
    BY <1>2 DEF FormsOK, GroupFormOK, GroupForm
  <2> QED
    BY <1>0, <1>2, <2>1, FormChanges
<1>3. CASE k = "event"
  <2>1. EventFormOK(f, page)
    BY <1>3 DEF FormsOK, EventFormOK, EventForm, EventNew
  <2> QED
    BY <1>0, <1>3, <2>1, FormChanges
<1> QED
  BY <1>1, <1>2, <1>3 DEF Kind

-----------------------------------------------------------------------------
(* What the user changes                                                   *)

\* A field of the share form, the group form, the event form is set.
LEMMA SetShare ==
  ASSUME FormsOK, server'.presets = server.presets, page' = page, NEW v,
         \/ Set("share", "enabled", v) /\ v \in BOOLEAN
         \/ Set("share", "preset", v) /\ v \in Preset \cup {None}
         \/ Set("share", "types", v) /\ v \in {"chosen", "default"}
  PROVE  FormsOK'
<1> DEFINE old == form["share"]
<1>1. old \in ShareForm /\ ShareFormOK(old, server.presets)
  BY DEF FormsOK, ShareFormOK
<1>2. ASSUME NEW field \in {"enabled", "preset", "types"}, Set("share", field, v),
             [old.fields EXCEPT ![field] = v] \in ShareRecord
      PROVE  FormsOK'
  <2> DEFINE f == [old EXCEPT !.fields = [old.fields EXCEPT ![field] = v],
                              !.free = old.free \cup {field}]
  <2>1. form' = [form EXCEPT !["share"] = f]
    BY <1>2, <1>1 DEF Set, ShareForm, ShareRecord
  <2>2. f \in ShareForm /\ f.open = old.open /\ f.id = old.id /\ f.origin = old.origin
    BY <1>1, <1>2 DEF ShareForm
  <2>3. f.free = old.free \cup {field} /\ f.fields = [old.fields EXCEPT ![field] = v]
    BY <1>1 DEF ShareForm
  <2>4. old.fields \in ShareRecord
    BY <1>1 DEF ShareForm
  <2> HIDE DEF f
  <2>5. ShareSays(f.id, f.fields, f.origin, f.free, server.presets)
    BY <1>1, <2>2, <2>3, <2>4 DEF ShareFormOK, ShareSays, ShareRecord
  <2> QED
    BY <1>1, <2>1, <2>2, <2>5, FormChanges DEF ShareFormOK
<1>3. old.fields \in ShareRecord
  BY <1>1 DEF ShareForm
<1>4. CASE Set("share", "enabled", v) /\ v \in BOOLEAN
  <2>1. [old.fields EXCEPT !["enabled"] = v] \in ShareRecord
    BY <1>3, <1>4 DEF ShareRecord
  <2> QED
    BY <1>2, <1>4, <2>1
<1>5. CASE Set("share", "preset", v) /\ v \in Preset \cup {None}
  <2>1. [old.fields EXCEPT !["preset"] = v] \in ShareRecord
    BY <1>3, <1>5 DEF ShareRecord
  <2> QED
    BY <1>2, <1>5, <2>1
<1>6. CASE Set("share", "types", v) /\ v \in {"chosen", "default"}
  <2>1. [old.fields EXCEPT !["types"] = v] \in ShareRecord
    BY <1>3, <1>6 DEF ShareRecord
  <2> QED
    BY <1>2, <1>6, <2>1
<1> QED
  BY <1>4, <1>5, <1>6

LEMMA SetGroup ==
  ASSUME FormsOK, server'.presets = server.presets, page' = page, NEW v \in SUBSET Share,
         Set("group", "members", v)
  PROVE  FormsOK'
<1> DEFINE old == form["group"]
           f == [old EXCEPT !.fields = [members |-> v], !.free = {"members"}]
<1>1. old \in GroupForm /\ GroupFormOK(old)
  BY DEF FormsOK, GroupFormOK
<1>2. [old.fields EXCEPT !["members"] = v] = [members |-> v]
  BY <1>1 DEF GroupForm, GroupRecord
<1>3. old.free \cup {"members"} = {"members"}
  BY <1>1 DEF GroupForm
<1>4. form' = [form EXCEPT !["group"] = f]
  BY <1>1, <1>2, <1>3 DEF Set, GroupForm
<1>5. GroupFormOK(f)
  BY <1>1 DEF GroupFormOK, GroupForm, GroupRecord, GroupSays
<1> QED
  BY <1>4, <1>5, FormChanges

LEMMA SetEvent ==
  ASSUME FormsOK, server'.presets = server.presets, page' = page,
         NEW field \in {"group", "destination", "start", "end"}, NEW v,
         v \in CASE field = "group" -> Group \cup {None}
                 [] field = "destination" -> Share \cup {None}
                 [] field = "start" -> Int
                 [] field = "end" -> Int \cup {None},
         Set("event", field, v)
  PROVE  FormsOK'
<1> DEFINE old == form["event"]
           fields == [old.fields EXCEPT ![field] = v]
           f == [old EXCEPT !.fields = fields, !.free = old.free \cup {field}]
<1>1. old \in EventForm /\ EventFormOK(old, page)
  BY DEF FormsOK, EventFormOK
<1>2. old.fields \in EventFields
  BY <1>1 DEF EventForm
<1>3. fields \in EventFields
  BY <1>2 DEF EventFields
<1>4. \A k \in {"group", "destination", "start", "end"} : k # field => fields[k] = old.fields[k]
  BY <1>2 DEF EventFields
<1>5. form' = [form EXCEPT !["event"] = f]
  BY <1>1 DEF Set, EventForm
<1> HIDE DEF fields
<1>6. /\ f \in EventForm /\ f.id = old.id /\ f.origin = old.origin /\ f.fields = fields
      /\ f.redrawn = old.redrawn
  BY <1>1, <1>3 DEF EventForm
<1>7. f.free = old.free \cup {field}
  BY <1>1 DEF EventForm
<1> HIDE DEF f
<1>8. EventShows(f.id, f.fields, f.origin, f.free, f.redrawn) /\ EventNew(f, page)
  <2>1. \A k \in {"group", "destination", "start", "end"} :
          k \notin f.free => k \notin old.free /\ f.fields[k] = old.fields[k]
    BY <1>4, <1>6, <1>7
  <2> QED
    BY <1>1, <1>6, <2>1 DEF EventFormOK, EventShows, EventNew
<1> QED
  BY <1>5, <1>6, <1>8, FormChanges DEF EventFormOK

LEMMA ChooseKeepsForms ==
  ASSUME TablesOK, FormsOK, Choose
  PROVE  FormsOK'
<1>0. server'.presets = server.presets /\ page' = page
  BY DEF Choose
<1>1. page \in Table /\ page.presets \subseteq Preset
  BY DEF TablesOK, Table
<1>2. Groups(page) \subseteq Group /\ Sources(page) \subseteq Share /\ Destinations(page) \subseteq Share
  BY <1>1, TableParts
<1>3. ASSUME NEW on \in BOOLEAN, Set("share", "enabled", on) PROVE FormsOK'
  BY <1>0, <1>3, SetShare
<1>4. ASSUME NEW p \in page.presets \cup {None}, Set("share", "preset", p) PROVE FormsOK'
  BY <1>0, <1>1, <1>4, SetShare
<1>5. ASSUME NEW chosen \in SUBSET Sources(page), Set("group", "members", chosen) PROVE FormsOK'
  BY <1>0, <1>2, <1>5, SetGroup
<1>6. ASSUME NEW g \in Groups(page), Set("event", "group", g) PROVE FormsOK'
  BY <1>0, <1>2, <1>6, SetEvent
<1>7. ASSUME NEW s \in Destinations(page), Set("event", "destination", s) PROVE FormsOK'
  BY <1>0, <1>2, <1>7, SetEvent
<1>8. ASSUME NEW types \in {"chosen", "default"}, Set("share", "types", types) PROVE FormsOK'
  BY <1>0, <1>8, SetShare
<1> QED
  BY <1>3, <1>4, <1>5, <1>6, <1>7, <1>8 DEF Choose

\* The time of day the picker shows.
LEMMA TimesOfDay ==
  ASSUME NEW v, v \in Int \/ v = None
  PROVE  TimeOf(v) \in 0..DAY - 1 /\ TimeOf(v) \in Int
<1>1. CASE v = None
  BY <1>1 DEF TimeOf
<1>2. CASE v \in Int
  BY <1>2 DEF TimeOf
<1> QED
  BY <1>1, <1>2

\* The window in the form.
LEMMA FormWindow ==
  ASSUME FormsOK, NEW input \in {"start", "end"}
  PROVE  \/ form["event"].fields[input] \in Int
         \/ form["event"].fields[input] = None
<1>1. form["event"].fields \in EventFields
  BY DEF FormsOK, EventFormOK, EventForm
<1> QED
  BY <1>1 DEF EventFields

\* The picker keeps forms and its own types.
LEMMA PickerKeepsForms ==
  ASSUME FormsOK, RestOK, Picker
  PROVE  FormsOK' /\ picker' \in [input: {None, "start", "end"}, time: 0..DAY - 1]
<1> DEFINE Type == [input: {None, "start", "end"}, time: 0..DAY - 1]
<1>0. server'.presets = server.presets /\ page' = page
  BY DEF Picker, openPicker, closePicker, PickMonth, PickNone, PickDate, PickClock
<1>1. picker \in Type
  BY DEF RestOK
<1>2. /\ picker.input \in {None, "start", "end"} /\ picker.time \in 0..DAY - 1
      /\ picker.time \in Int
  BY <1>1
<1>3. ASSUME NEW input \in {"start", "end"}, renderPicker(input) PROVE picker' \in Type
  <2> DEFINE v == form["event"].fields[input]
  <2>1. v \in Int \/ v = None
    BY FormWindow
  <2>2. picker' = [input |-> input, time |-> TimeOf(v)]
    BY <1>3 DEF renderPicker
  <2> HIDE DEF v
  <2>3. TimeOf(v) \in 0..DAY - 1
    BY <2>1, TimesOfDay
  <2> QED
    BY <2>2, <2>3
<1>4. ASSUME UNCHANGED form, UNCHANGED server PROVE FormsOK'
  BY <1>0, <1>4 DEF FormsOK
<1>5. CASE openPicker("start") \/ openPicker("end") \/ PickMonth
  BY <1>2, <1>3, <1>4, <1>5 DEF openPicker, PickMonth
<1>6. CASE closePicker
  BY <1>1, <1>4, <1>6 DEF closePicker
<1>7. CASE PickNone
  <2>1. FormsOK'
    BY <1>0, <1>7, SetEvent DEF PickNone
  <2> QED
    BY <1>1, <1>7, <2>1 DEF PickNone
<1>8. ASSUME NEW d \in PickDay, PickDate(d) PROVE FormsOK' /\ picker' \in Type
  <2>1. d * DAY + picker.time \in Int
    BY <1>2, ClockAssumption
  <2>2. CASE picker.input = "start"
    BY <1>0, <1>1, <1>8, <2>1, <2>2, SetEvent DEF PickDate
  <2>3. CASE picker.input = "end"
    BY <1>0, <1>1, <1>8, <2>1, <2>3, SetEvent DEF PickDate
  <2> QED
    BY <1>2, <1>8, <2>2, <2>3 DEF PickDate
<1>9. ASSUME NEW t \in PickTime, PickClock(t) PROVE FormsOK' /\ picker' \in Type
  <2> DEFINE new == pickerValue - TimeOf(pickerValue) + t
  <2>1. t \in 0..DAY - 1
    BY ClockAssumption
  <2>2. picker' \in Type
    BY <1>1, <1>9, <2>1 DEF PickClock
  <2>3. picker.input \in {"start", "end"}
    BY <1>2, <1>9 DEF PickClock
  <2>4. pickerValue # None => pickerValue \in Int
    BY <2>3, FormWindow DEF pickerValue
  <2>5. pickerValue # None => new \in Int
    <3>1. ASSUME NEW v \in Int PROVE v - TimeOf(v) + t \in Int
      BY <2>1, TimesOfDay
    <3> QED
      BY <2>4, <3>1
  <2>6. CASE pickerValue = None
    BY <1>4, <1>9, <2>2, <2>6 DEF PickClock
  <2>7. CASE pickerValue # None
    <3>1. new \in Int /\ Set("event", picker.input, new)
      BY <1>9, <2>5, <2>7 DEF PickClock
    <3> HIDE DEF new
    <3>2. FormsOK'
      BY <1>0, <2>3, <3>1, SetEvent
    <3> QED
      BY <2>2, <3>2
  <2> QED
    BY <2>6, <2>7
<1> QED
  BY <1>5, <1>6, <1>7, <1>8, <1>9 DEF Picker

-----------------------------------------------------------------------------
(* Requests                                                                *)

\* One request changes.
LEMMA RequestChanges ==
  ASSUME RequestsOK, server'.presets \subseteq server.presets,
         NEW s \in Slot, NEW u \in RequestType, RequestOK(u, server.presets),
         under' = [under EXCEPT ![s] = u]
  PROVE  RequestsOK'
<1>1. under' \in [Slot -> RequestType]
  BY DEF RequestsOK
<1>2. ASSUME NEW o \in Slot PROVE RequestOK(under'[o], server.presets)
  BY DEF RequestsOK
<1>3. ASSUME NEW o \in Slot PROVE RequestOK(under'[o], server'.presets)
  BY <1>2, FewerPresetsSay
<1> QED
  BY <1>1, <1>3 DEF RequestsOK

LEMMA SubmitKeepsRequests ==
  ASSUME FormsOK, RequestsOK, NEW s \in Slot, NEW k \in Kind, Submit(s, k)
  PROVE  RequestsOK'
<1> DEFINE f == form[k]
           u == [step |-> "sent", kind |-> k, id |-> f.id, body |-> Body(k),
                 origin |-> f.origin, free |-> f.free, redrawn |-> f.redrawn]
<1>0. under' = [under EXCEPT ![s] = u] /\ server'.presets = server.presets /\ f.open
  BY DEF Submit
<1>1. CASE k = "share"
  <2>1. f \in ShareForm /\ ShareFormOK(f, server.presets)
    BY <1>1 DEF FormsOK, ShareFormOK
  <2>2. f.fields \in ShareRecord /\ f.id \in Share
    BY <1>0, <2>1 DEF ShareForm, ShareFormOK
  <2>3. Body(k) = [enabled |-> f.fields.enabled, preset |-> f.fields.preset]
    BY <1>1 DEF Body
  <2>4. Body(k) \in ShareBody /\ Body(k).enabled = f.fields.enabled /\ Body(k).preset = f.fields.preset
    BY <2>2, <2>3 DEF ShareBody, ShareRecord
  <2> DEFINE body == Body(k)
  <2> HIDE DEF body
  <2>5. ShareSays(f.id, body, f.origin, f.free, server.presets)
    BY <2>1, <2>4 DEF ShareSays, ShareFormOK, body
  <2>6. RequestOK(u, server.presets)
    BY <1>1, <2>2, <2>4, <2>5 DEF RequestOK, ShareSent, body
  <2>7. u \in RequestType
    BY <1>1, <2>1, <2>2, <2>4 DEF RequestType, ShareForm, Said, Origin, Kind
  <2> QED
    BY <1>0, <2>6, <2>7, RequestChanges
<1>2. CASE k = "group"
  <2>1. f \in GroupForm /\ GroupFormOK(f)
    BY <1>2 DEF FormsOK, GroupFormOK
  <2>2. Body(k) = f.fields /\ f.fields \in GroupRecord /\ f.id \in Group \cup {None}
    BY <1>2, <2>1 DEF Body, GroupForm
  <2>3. RequestOK(u, server.presets)
    BY <1>2, <2>1, <2>2 DEF RequestOK, GroupSent, GroupFormOK
  <2>4. u \in RequestType
    BY <1>2, <2>1, <2>2 DEF RequestType, GroupForm, Said, Origin, Kind
  <2> QED
    BY <1>0, <2>3, <2>4, RequestChanges
<1>3. CASE k = "event"
  <2>1. f \in EventForm /\ EventFormOK(f, page)
    BY <1>3 DEF FormsOK, EventFormOK
  <2>2. f.fields \in EventFields /\ f.id \in Event \cup {None} /\ f.origin \in EventRecord \cup {None}
    BY <2>1 DEF EventForm
  <2>3. Body(k) = [f.fields EXCEPT !.start = Meant(@), !.end = Meant(@)]
    BY <1>3 DEF Body
  <2> DEFINE body == Body(k)
  <2>4. f.fields.start \in Int /\ f.fields.end \in Int \cup {None}
    BY <2>2 DEF EventFields
  <2>5. f.fields.group \in Group /\ f.fields.destination \in Share
    BY <1>3, <2>2 DEF EventFields, Submit
  <2>6. Meant(f.fields.start) = fromLocalInput(f.fields.start) /\ Meant(f.fields.start) \in Int
    BY <2>4, LocalTyping DEF Meant
  <2>7. Meant(f.fields.end) \in Int \cup {None}
    BY <2>4, LocalTyping DEF Meant
  <2>8. /\ body.group = f.fields.group /\ body.destination = f.fields.destination
        /\ body.start = fromLocalInput(f.fields.start) /\ body.end = Meant(f.fields.end)
    BY <2>2, <2>3, <2>6 DEF EventFields
  <2>9. body \in EventRecord
    BY <2>2, <2>3, <2>5, <2>6, <2>7 DEF EventFields, EventRecord
  <2> HIDE DEF body
  <2>10. EventShows(f.id, f.fields, f.origin, f.free, f.redrawn)
    BY <2>1 DEF EventFormOK
  <2>11. EventSays(f.id, body, f.origin, f.free, f.redrawn)
    <3>1. "start" \notin f.free /\ f.id = None => body.start = RoundTrip(Now)
      BY <2>8, <2>10 DEF EventShows, RoundTrip
    <3>2. "end" \notin f.free /\ f.id = None => body.end = None
      BY <2>8, <2>10 DEF EventShows, Meant
    <3>3. ASSUME f.id # None
          PROVE  /\ f.origin \in EventRecord
                 /\ "start" \notin f.free => body.start = RoundTrip(f.origin.start)
                 /\ "end" \notin f.free => body.end = Meant(Shown(f.origin.end))
      BY <2>8, <2>10, <3>3 DEF EventShows, RoundTrip
    <3>4. ASSUME f.id # None
          PROVE  /\ "group" \notin f.free \cup f.redrawn => body.group = f.origin.group
                 /\ "destination" \notin f.free \cup f.redrawn =>
                      body.destination = f.origin.destination
      BY <2>5, <2>8, <2>10, <3>4 DEF EventShows
    <3> QED
      BY <3>1, <3>2, <3>3, <3>4 DEF EventSays
  <2>12. RequestOK(u, server.presets)
    BY <1>3, <2>2, <2>9, <2>11 DEF RequestOK, EventSent, body
  <2>13. /\ f.free \in SUBSET {"group", "destination", "start", "end"}
         /\ f.redrawn \in SUBSET {"group", "destination"}
    BY <2>1 DEF EventForm
  <2>14. u \in RequestType
    BY <1>3, <2>2, <2>9, <2>13 DEF RequestType, Said, Origin, Kind, body
  <2> QED
    BY <1>0, <2>12, <2>14, RequestChanges
<1> QED
  BY <1>1, <1>2, <1>3 DEF Kind

\* The server's answer, a refusal, and what follows an answer.
LEMMA StepKeepsRequests ==
  ASSUME RequestsOK, server'.presets \subseteq server.presets,
         NEW s \in Slot,
         \/ under[s].step = "sent" /\ under' = [under EXCEPT ![s].step = "saved"]
         \/ under' = [under EXCEPT ![s] = Nothing]
         \/ /\ under[s].step = "saved"
            /\ under' = [under EXCEPT ![s] = [Nothing EXCEPT !.step = "reload", !.kind = under[s].kind]]
         \/ under[s] = Nothing /\ under' = [under EXCEPT ![s].step = "reload"]
  PROVE  RequestsOK'
<1>0. under[s] \in RequestType /\ RequestOK(under[s], server.presets)
  BY DEF RequestsOK
<1>1. Nothing \in RequestType /\ RequestOK(Nothing, server.presets)
  BY DEF Nothing, RequestType, Said, Origin, RequestOK
<1>2. CASE under[s].step = "sent" /\ under' = [under EXCEPT ![s].step = "saved"]
  <2> DEFINE u == [under[s] EXCEPT !.step = "saved"]
  <2>1. u \in RequestType
    BY <1>0 DEF RequestType
  <2>2. u.step = "saved" /\ u.kind = under[s].kind
    BY <1>0 DEF RequestType
  <2>3. RequestOK(u, server.presets)
    BY <1>0, <1>2, <2>2 DEF RequestOK, Kind
  <2>4. under' = [under EXCEPT ![s] = u]
    BY <1>2
  <2> QED
    BY <2>1, <2>3, <2>4, RequestChanges
<1>3. CASE under' = [under EXCEPT ![s] = Nothing]
  BY <1>1, <1>3, RequestChanges
<1>4. CASE /\ under[s].step = "saved"
           /\ under' = [under EXCEPT ![s] = [Nothing EXCEPT !.step = "reload", !.kind = under[s].kind]]
  <2> DEFINE u == [Nothing EXCEPT !.step = "reload", !.kind = under[s].kind]
  <2>1. u \in RequestType /\ u.step = "reload"
    BY <1>0, <1>1 DEF RequestType, Nothing
  <2>2. RequestOK(u, server.presets)
    BY <2>1 DEF RequestOK
  <2> QED
    BY <1>4, <2>1, <2>2, RequestChanges
<1>5. CASE under[s] = Nothing /\ under' = [under EXCEPT ![s].step = "reload"]
  <2> DEFINE u == [under[s] EXCEPT !.step = "reload"]
  <2>1. u \in RequestType /\ u.step = "reload"
    BY <1>0 DEF RequestType
  <2>2. RequestOK(u, server.presets)
    BY <2>1 DEF RequestOK
  <2>3. under' = [under EXCEPT ![s] = u]
    BY <1>5
  <2> QED
    BY <2>1, <2>2, <2>3, RequestChanges
<1> QED
  BY <1>2, <1>3, <1>4, <1>5

-----------------------------------------------------------------------------
(* Serving a request                                                       *)

\* The record a request for an event is for, and the window that is remembered.
LEMMA ChosenWindow ==
  ASSUME Sound, NEW s \in Slot, under[s].step = "sent", under[s].kind = "event",
         NEW r \in Targets("event", under[s].id)
  PROVE  /\ r \in Event /\ under[s].body \in EventRecord
         /\ Chosen(s, r) \in Window
         /\ \A f \in {"start", "end"} :
              \/ Chosen(s, r)[f] = under[s].body[f]
              \/ /\ r = under[s].id /\ r \in Events(server) /\ f \notin under[s].free
                 /\ under[s].origin[f] = server.event[r][f]
                 /\ Chosen(s, r)[f] = wanted[r][f]
<1> DEFINE u == under[s]
<1>1. EventSent(u)
  BY DEF Sound, RequestsOK, RequestOK
<1>2. u.body \in EventRecord
  BY <1>1 DEF EventSent
<1>3. r \in Event /\ (u.id # None => r = u.id /\ r \in Events(server))
  BY TableParts DEF Targets, Sound, TablesOK
<1>4. \A f \in {"start", "end"} :
        f \in Untouched(s) =>
          /\ u.id # None /\ f \notin u.free
          /\ u.origin[f] = server.event[u.id][f]
  BY DEF Untouched, Record
<1>5. \A f \in {"start", "end"} :
        Chosen(s, r)[f] = IF f \in Untouched(s) THEN wanted[r][f] ELSE u.body[f]
  BY DEF Chosen
<1>6. wanted[r] \in Window
  BY <1>3 DEF Sound, RestOK
<1>7. Chosen(s, r) \in Window
  <2>1. Chosen(s, r) = [start |-> Chosen(s, r)["start"], end |-> Chosen(s, r)["end"]]
    BY DEF Chosen
  <2>2. Chosen(s, r)["start"] \in Int
    BY <1>2, <1>5, <1>6 DEF Window, EventRecord
  <2>3. Chosen(s, r)["end"] \in Int \cup {None}
    BY <1>2, <1>5, <1>6 DEF Window, EventRecord
  <2> DEFINE c == Chosen(s, r)
  <2> HIDE DEF c
  <2>4. [start |-> c["start"], end |-> c["end"]] \in Window
    BY <2>2, <2>3 DEF Window, c
  <2> QED
    BY <2>1, <2>4 DEF c
<1> QED
  BY <1>2, <1>3, <1>4, <1>5, <1>7

\* The tables the server keeps after a request.
LEMMA ServeKeepsTables ==
  ASSUME Sound, NEW s \in Slot, Serve(s)
  PROVE  TablesOK' /\ server'.presets = server.presets /\ wanted' \in [Event -> Window]
<1> DEFINE u == under[s]
<1>0. u.step = "sent" /\ page' = page /\ server \in Table /\ RequestOK(u, server.presets)
  BY DEF Serve, Sound, TablesOK, RequestsOK
<1>1. PICK r \in Targets(u.kind, u.id) :
        /\ server' = [server EXCEPT ![u.kind][r] = ToDomain(u.kind, u.body)]
        /\ wanted' = IF u.kind = "event" THEN [wanted EXCEPT ![r] = Chosen(s, r)] ELSE wanted
  BY DEF Serve
<1>2. wanted \in [Event -> Window]
  BY DEF Sound, RestOK
<1>3. CASE u.kind = "share"
  <2>1. u.id \in Share /\ u.body \in ShareBody /\ r = u.id
    BY <1>0, <1>3 DEF RequestOK, ShareSent, Targets
  <2>2. ToDomain(u.kind, u.body) \in ShareRecord
    BY <1>3, <2>1 DEF ToDomain, ToShare, ShareBody, ShareRecord
  <2> DEFINE table == [server.share EXCEPT ![r] = ToDomain(u.kind, u.body)]
  <2>3. table \in [Share -> ShareRecord]
    BY <1>0, <2>1, <2>2 DEF Table, ShareRecord
  <2>4. server' = [server EXCEPT !.share = table]
    BY <1>1, <1>3
  <2> HIDE DEF table
  <2>5. server' \in Table /\ server'.presets = server.presets
    BY <1>0, <2>3, <2>4 DEF Table, ShareRecord
  <2> QED
    BY <1>0, <1>1, <1>2, <1>3, <2>5 DEF Sound, TablesOK
<1>4. CASE u.kind = "group"
  <2>1. u.body \in GroupRecord /\ r \in Group
    BY <1>0, <1>4, TableParts DEF RequestOK, GroupSent, Targets
  <2>2. ToDomain(u.kind, u.body) \in SUBSET Share
    BY <1>4, <2>1 DEF ToDomain, GroupRecord
  <2> DEFINE table == [server.group EXCEPT ![r] = ToDomain(u.kind, u.body)]
  <2>3. table \in [Group -> SUBSET Share]
    BY <1>0, <2>1, <2>2 DEF Table
  <2>4. server' = [server EXCEPT !.group = table]
    BY <1>1, <1>4
  <2> HIDE DEF table
  <2>5. server' \in Table /\ server'.presets = server.presets
    BY <1>0, <2>3, <2>4 DEF Table
  <2> QED
    BY <1>0, <1>1, <1>2, <1>4, <2>5 DEF Sound, TablesOK
<1>5. CASE u.kind = "event"
  <2>1. u.body \in EventRecord /\ r \in Event /\ Chosen(s, r) \in Window
    BY <1>0, <1>5, ChosenWindow
  <2>2. ToDomain(u.kind, u.body) = u.body
    BY <1>5 DEF ToDomain
  <2> DEFINE table == [server.event EXCEPT ![r] = u.body]
  <2>3. table \in [Event -> EventRecord \cup {None}]
    BY <1>0, <2>1 DEF Table, EventRecord
  <2>4. server' = [server EXCEPT !.event = table]
    BY <1>1, <1>5, <2>2
  <2> HIDE DEF table
  <2>5. server' \in Table /\ server'.presets = server.presets
    BY <1>0, <2>3, <2>4 DEF Table, EventRecord
  <2>6. wanted' \in [Event -> Window]
    BY <1>1, <1>2, <1>5, <2>1
  <2> QED
    BY <1>0, <2>5, <2>6 DEF Sound, TablesOK
<1> QED
  BY <1>0, <1>3, <1>4, <1>5 DEF RequestOK

\* A share is switched or a preset goes.
LEMMA ElsewhereKeepsTables ==
  ASSUME TablesOK, Elsewhere
  PROVE  /\ TablesOK' /\ server'.presets \subseteq server.presets
         /\ server'.event = server.event
<1>0. server \in Table /\ page \in Table /\ server.presets \subseteq page.presets /\ page' = page
  BY DEF TablesOK, Elsewhere
<1>1. ASSUME NEW s \in Share, server' = [server EXCEPT !.share[s].enabled = ~@]
      PROVE  /\ server' \in Table /\ server'.presets = server.presets
             /\ server'.event = server.event
  <2> DEFINE switched == [server.share[s] EXCEPT !.enabled = ~server.share[s].enabled]
             table == [server.share EXCEPT ![s] = switched]
  <2>1. server.share \in [Share -> ShareRecord]
    BY <1>0 DEF Table, ShareRecord
  <2>2. switched \in ShareRecord
    BY <2>1 DEF ShareRecord
  <2>3. table \in [Share -> ShareRecord]
    BY <2>1, <2>2
  <2>4. server' = [server EXCEPT !.share = table]
    BY <1>1
  <2> HIDE DEF table
  <2> QED
    BY <1>0, <2>3, <2>4 DEF Table, ShareRecord
<1>2. ASSUME NEW p \in server.presets,
             server' = [server EXCEPT
                !.presets = @ \ {p},
                !.share = [s \in Share |-> IF @[s].preset = p THEN [@[s] EXCEPT !.preset = None] ELSE @[s]]]
      PROVE  /\ server' \in Table /\ server'.presets \subseteq server.presets
             /\ server'.event = server.event
  <2> DEFINE table == [s \in Share |-> IF server.share[s].preset = p
                                       THEN [server.share[s] EXCEPT !.preset = None]
                                       ELSE server.share[s]]
  <2>1. server.share \in [Share -> ShareRecord]
    BY <1>0 DEF Table, ShareRecord
  <2>2. ASSUME NEW s \in Share PROVE table[s] \in ShareRecord
    <3>1. server.share[s] \in ShareRecord
      BY <2>1
    <3>2. [server.share[s] EXCEPT !.preset = None] \in ShareRecord
      BY <3>1 DEF ShareRecord
    <3> QED
      BY <3>1, <3>2
  <2>3. table \in [Share -> ShareRecord]
    BY <2>2
  <2>4. server' = [server EXCEPT !.presets = server.presets \ {p}, !.share = table]
    BY <1>2
  <2> HIDE DEF table
  <2> QED
    BY <1>0, <2>3, <2>4 DEF Table, ShareRecord
<1> QED
  BY <1>0, <1>1, <1>2 DEF Elsewhere, TablesOK

-----------------------------------------------------------------------------
(* Answers and reloads                                                     *)

LEMMA SavedKeepsForms ==
  ASSUME TablesOK, FormsOK, RequestsOK, NEW s \in Slot, Saved(s)
  PROVE  FormsOK'
<1> DEFINE k == under[s].kind
           f == [Filled(None, Reset(k, page), None) EXCEPT !.open = FALSE]
<1>1. form' = [form EXCEPT ![k] = f] /\ server'.presets = server.presets /\ page' = page
  BY DEF Saved
<1>2. k \in Kind
  BY DEF Saved, RequestsOK, RequestOK
<1>3. CASE k = "share"
  <2>1. ShareFormOK(f, server.presets)
    BY <1>3, NewForms DEF TablesOK
  <2> HIDE DEF f
  <2> QED
    BY <1>1, <1>3, <2>1, FormChanges
<1>4. CASE k = "group"
  <2>1. GroupFormOK(f)
    BY <1>4, NewForms DEF TablesOK
  <2> HIDE DEF f
  <2> QED
    BY <1>1, <1>4, <2>1, FormChanges
<1>5. CASE k = "event"
  <2>1. EventFormOK(f, page)
    BY <1>5, NewForms DEF TablesOK
  <2> HIDE DEF f
  <2> QED
    BY <1>1, <1>5, <2>1, FormChanges
<1> QED
  BY <1>2, <1>3, <1>4, <1>5 DEF Kind

\* The lists are drawn again: a preset stays unless it is gone, no member is left
\* ticked, and an event form shows the first group and destination.
LEMMA RedrawKeepsForms ==
  ASSUME TablesOK, FormsOK, form' = Redrawn(server), UNCHANGED server, page' = server
  PROVE  FormsOK'
<1> DEFINE share == form["share"]
           group == form["group"]
           event == form["event"]
           shown == renderPresetChoices(server, share.fields.preset)
           first == renderEventSelectors(server)
           put == {f \in {"group", "destination"} : event.fields[f] # first[f]}
           newShare == [share EXCEPT !.fields = [share.fields EXCEPT !.preset = shown]]
           newGroup == [group EXCEPT !.fields = [members |-> {}]]
           newEvent == [event EXCEPT !.fields = [event.fields EXCEPT
                                          !.group = first.group, !.destination = first.destination],
                                     !.redrawn = event.redrawn \cup put]
<1>1. /\ share \in ShareForm /\ ShareFormOK(share, server.presets)
      /\ group \in GroupForm /\ GroupFormOK(group)
      /\ event \in EventForm /\ EventFormOK(event, page)
  BY DEF FormsOK, ShareFormOK, GroupFormOK, EventFormOK
<1>2. /\ share.fields \in ShareRecord /\ group.fields \in GroupRecord
      /\ event.fields \in EventFields
  BY <1>1 DEF ShareForm, GroupForm, EventForm
<1>3. shown \in Preset \cup {None}
  BY <1>2 DEF renderPresetChoices, ShareRecord
<1>4. /\ first.group = First(Groups(server), None)
      /\ first.destination = First(Destinations(server), None)
      /\ first.group \in Group \cup {None} /\ first.destination \in Share \cup {None}
  BY TableParts DEF TablesOK, renderEventSelectors
<1>5. form'["share"] = newShare
  BY <1>1, <1>2 DEF Redrawn, FormsOK, Kind, ShareForm, ShareRecord
<1>6. form'["group"] = newGroup
  <2>1. [group.fields EXCEPT !.members = {}] = [members |-> {}]
    BY <1>2 DEF GroupRecord
  <2>2. renderGroupChoices(server, {}) = {}
    BY DEF renderGroupChoices
  <2> QED
    BY <1>1, <1>2, <2>1, <2>2 DEF Redrawn, FormsOK, Kind, GroupForm
<1>7. form'["event"] = newEvent
  BY <1>1, <1>2 DEF Redrawn, FormsOK, Kind, EventForm, EventFields
<1>8. DOMAIN form' = Kind
  BY DEF Redrawn, FormsOK
<1>9. ShareFormOK(newShare, server.presets)
  <2> DEFINE fields == [share.fields EXCEPT !.preset = shown]
  <2>1. /\ fields \in ShareRecord /\ fields.enabled = share.fields.enabled
        /\ fields.preset = shown
    BY <1>2, <1>3 DEF ShareRecord
  <2> HIDE DEF fields
  <2>2. /\ newShare \in ShareForm /\ newShare.open = share.open /\ newShare.id = share.id
        /\ newShare.fields = fields /\ newShare.origin = share.origin
        /\ newShare.free = share.free
    BY <1>1, <2>1 DEF ShareForm, fields
  <2>3. \/ shown = share.fields.preset
        \/ shown = None /\ share.fields.preset \notin server.presets
    BY DEF renderPresetChoices
  <2>4. ASSUME NEW old, PresetFollows(old, share.fields.preset, server.presets)
        PROVE  PresetFollows(old, shown, server.presets)
    BY <2>3, <2>4 DEF PresetFollows
  <2> HIDE DEF newShare, shown
  <2> QED
    BY <1>1, <2>1, <2>2, <2>4 DEF ShareFormOK, ShareSays
<1>10. GroupFormOK(newGroup)
  BY <1>1 DEF GroupFormOK, GroupForm, GroupRecord, GroupSays
<1>11. EventFormOK(newEvent, server)
  <2> DEFINE fields == [event.fields EXCEPT !.group = first.group, !.destination = first.destination]
  <2>1. /\ fields \in EventFields /\ fields.start = event.fields.start
        /\ fields.end = event.fields.end
        /\ fields.group = first.group /\ fields.destination = first.destination
    BY <1>2, <1>4 DEF EventFields
  <2>2. /\ "group" \notin put => first.group = event.fields.group
        /\ "destination" \notin put => first.destination = event.fields.destination
    OBVIOUS
  <2>3. put \subseteq {"group", "destination"}
    OBVIOUS
  <2> HIDE DEF fields, put
  <2>4. /\ newEvent \in EventForm /\ newEvent.id = event.id /\ newEvent.fields = fields
        /\ newEvent.origin = event.origin /\ newEvent.free = event.free
        /\ newEvent.redrawn = event.redrawn \cup put
    BY <1>1, <2>1, <2>3 DEF EventForm, fields
  <2> HIDE DEF newEvent
  <2>5. EventShows(newEvent.id, newEvent.fields, newEvent.origin, newEvent.free, newEvent.redrawn)
    BY <1>1, <2>1, <2>2, <2>4 DEF EventFormOK, EventShows
  <2>6. EventNew(newEvent, server)
    BY <1>4, <2>1, <2>4 DEF EventNew
  <2> QED
    BY <2>4, <2>5, <2>6 DEF EventFormOK
<1> HIDE DEF newShare, newGroup, newEvent
<1> QED
  BY <1>5, <1>6, <1>7, <1>8, <1>9, <1>10, <1>11 DEF FormsOK

-----------------------------------------------------------------------------
(* Every step                                                              *)

LEMMA SoundInit == Init => Sound
<1> SUFFICES ASSUME Init PROVE Sound
  OBVIOUS
<1>1. TablesOK
  BY InitialAssumption DEF Init, TablesOK
<1>2. FormsOK
  <2> DEFINE f(k) == [Filled(None, Reset(k, Initial), None) EXCEPT !.open = FALSE]
  <2>1. \A k \in Kind : Blank(k) = Reset(k, Initial)
    <3>1. Blank("share") = Reset("share", Initial)
      BY DEF Blank, Reset, resetShareForm
    <3>2. Blank("group") = Reset("group", Initial)
      BY Defaults, InitialAssumption DEF Blank
    <3>3. Blank("event") = Reset("event", Initial)
      BY DEF Blank, Reset, resetEventForm, renderEventSelectors
    <3> QED
      BY <3>1, <3>2, <3>3 DEF Kind
  <2>2. \A k \in Kind : form[k] = f(k)
    BY <2>1 DEF Init
  <2>3. DOMAIN form = Kind
    BY DEF Init
  <2>4. /\ ShareFormOK(f("share"), server.presets) /\ GroupFormOK(f("group"))
        /\ EventFormOK(f("event"), page)
    BY NewForms, InitialAssumption DEF Init
  <2> HIDE DEF f
  <2> QED
    BY <2>2, <2>3, <2>4 DEF FormsOK, Kind
<1>3. RequestsOK
  BY DEF Init, RequestsOK, RequestOK, Nothing, RequestType, Said, Origin
<1>4. RestOK
  <2>1. ASSUME NEW e \in Event
        PROVE  (IF Initial.event[e] = None THEN [start |-> Now, end |-> None]
                ELSE [start |-> Initial.event[e].start, end |-> Initial.event[e].end]) \in Window
    <3>1. Initial.event[e] \in EventRecord \cup {None}
      BY InitialAssumption DEF Table, EventRecord
    <3> QED
      BY <3>1, ClockAssumption DEF EventRecord, Window
  <2>2. wanted \in [Event -> Window]
    BY <2>1 DEF Init
  <2>3. picker \in [input: {None, "start", "end"}, time: 0..DAY - 1]
    BY DEF Init
  <2> QED
    BY <2>2, <2>3 DEF RestOK
<1> QED
  BY <1>1, <1>2, <1>3, <1>4 DEF Sound

LEMMA SoundStep == Sound /\ [Next]_vars => Sound'
<1> SUFFICES ASSUME Sound, [Next]_vars PROVE Sound'
  OBVIOUS
<1> USE DEF Sound
<1>1. ASSUME UNCHANGED <<server, page>> PROVE TablesOK'
  BY <1>1 DEF TablesOK
<1>2. ASSUME UNCHANGED <<under, server>> PROVE RequestsOK'
  BY <1>2 DEF RequestsOK
<1>3. ASSUME UNCHANGED <<picker, wanted>> PROVE RestOK'
  BY <1>3 DEF RestOK
<1>4. ASSUME UNCHANGED <<form, server, page>> PROVE FormsOK'
  BY <1>4 DEF FormsOK
<1>5. ASSUME UNCHANGED <<form, page>>, server'.presets \subseteq server.presets PROVE FormsOK'
  BY <1>5, FewerPresetsSay DEF FormsOK
<1>6. CASE Edit
  BY <1>1, <1>2, <1>3, <1>6, EditKeepsForms DEF Edit
<1>7. CASE Choose
  BY <1>1, <1>2, <1>3, <1>7, ChooseKeepsForms DEF Choose
<1>8. CASE Elsewhere
  <2>1. TablesOK' /\ server'.presets \subseteq server.presets
    BY <1>8, ElsewhereKeepsTables
  <2>2. UNCHANGED <<form, page, under, picker, wanted>>
    BY <1>8 DEF Elsewhere
  <2>3. RequestsOK'
    BY <2>1, <2>2, FewerPresetsSay DEF RequestsOK
  <2> QED
    BY <1>3, <1>5, <2>1, <2>2, <2>3
<1>9. CASE New("group") \/ New("event")
  BY <1>1, <1>2, <1>3, <1>9, NewKeepsForms DEF New
<1>10. ASSUME NEW k \in Kind, closeForm(k) PROVE Sound'
  BY <1>1, <1>2, <1>3, <1>10, CloseKeepsForms DEF closeForm
<1>11. ASSUME NEW s \in Slot, NEW k \in Kind, Submit(s, k) PROVE Sound'
  BY <1>1, <1>3, <1>4, <1>11, SubmitKeepsRequests DEF Submit
<1>12. CASE Picker
  <2>1. UNCHANGED <<server, page, under, wanted>>
    BY <1>12 DEF Picker, openPicker, closePicker, PickMonth, PickNone, PickDate, PickClock
  <2>2. FormsOK' /\ picker' \in [input: {None, "start", "end"}, time: 0..DAY - 1]
    BY <1>12, PickerKeepsForms
  <2>3. RestOK'
    BY <2>1, <2>2 DEF RestOK
  <2> QED
    BY <1>1, <1>2, <2>1, <2>2, <2>3
<1>13. ASSUME NEW s \in Slot, Serve(s) PROVE Sound'
  <2>1. TablesOK' /\ server'.presets = server.presets /\ wanted' \in [Event -> Window]
    BY <1>13, ServeKeepsTables
  <2>2. UNCHANGED <<form, page, picker>>
    BY <1>13 DEF Serve
  <2>3. under[s].step = "sent" /\ under' = [under EXCEPT ![s].step = "saved"]
    BY <1>13 DEF Serve
  <2>4. RequestsOK'
    BY <2>1, <2>3, StepKeepsRequests
  <2>5. RestOK'
    BY <2>1, <2>2 DEF RestOK
  <2> QED
    BY <1>5, <2>1, <2>2, <2>4, <2>5
<1>14. ASSUME NEW s \in Slot, Refuse(s) PROVE Sound'
  <2>1. RequestsOK'
    BY <1>14, StepKeepsRequests DEF Refuse
  <2> QED
    BY <1>1, <1>3, <1>4, <1>14, <2>1 DEF Refuse
<1>15. ASSUME NEW s \in Slot, Saved(s) PROVE Sound'
  <2>1. RequestsOK'
    BY <1>15, StepKeepsRequests DEF Saved
  <2> QED
    BY <1>1, <1>3, <1>15, <2>1, SavedKeepsForms DEF Saved
<1>16. ASSUME NEW s \in Slot, reloadConfiguration(s) PROVE Sound'
  <2>1. RequestsOK'
    BY <1>16, StepKeepsRequests DEF reloadConfiguration
  <2>2. TablesOK'
    BY <1>16 DEF reloadConfiguration, TablesOK
  <2> QED
    BY <1>3, <1>16, <2>1, <2>2, RedrawKeepsForms DEF reloadConfiguration
<1>17. ASSUME NEW s \in Slot, reloadEvents(s) PROVE Sound'
  <2>1. RequestsOK'
    BY <1>17, StepKeepsRequests DEF reloadEvents
  <2>2. TablesOK'
    BY <1>17 DEF reloadEvents, TablesOK, Table
  <2>3. Groups(page') = Groups(page) /\ Destinations(page') = Destinations(page)
    <3>1. page'.group = page.group /\ page'.share = page.share
      BY <1>17 DEF reloadEvents, TablesOK, Table
    <3> QED
      BY <3>1 DEF Groups, Destinations
  <2>4. FormsOK'
    BY <1>17, <2>3 DEF reloadEvents, FormsOK, EventFormOK, EventNew
  <2> QED
    BY <1>3, <1>17, <2>1, <2>2, <2>4 DEF reloadEvents
<1>18. ASSUME NEW s \in Slot, Reload(s) PROVE Sound'
  <2>1. RequestsOK'
    BY <1>18, StepKeepsRequests DEF Reload
  <2> QED
    BY <1>1, <1>3, <1>4, <1>18, <2>1 DEF Reload
<1>19. CASE UNCHANGED vars
  BY <1>1, <1>2, <1>3, <1>4, <1>19 DEF vars
<1> QED
  BY <1>6, <1>7, <1>8, <1>9, <1>10, <1>11, <1>12, <1>13, <1>14, <1>15, <1>16, <1>17, <1>18,
     <1>19 DEF Next, User, Request

LEMMA Soundness == Spec => []Sound
  BY SoundInit, SoundStep, PTL DEF Spec

\* Tables, forms and requests under way keep their types, for any records, roles
\* and presets (the forms of app.js, ToShare and ToDomain of the requests).
THEOREM Typing == Spec => []TypeOK
<1>1. Sound => TypeOK
  <2> SUFFICES ASSUME Sound PROVE TypeOK
    OBVIOUS
  <2>1. server \in Table /\ page \in Table
    BY DEF Sound, TablesOK
  <2>2. form["share"] \in ShareForm /\ form["group"] \in GroupForm /\ form["event"] \in EventForm
    BY DEF Sound, FormsOK, ShareFormOK, GroupFormOK, EventFormOK
  <2>3. /\ form["share"].fields \in ShareRecord /\ form["group"].fields \in GroupRecord
        /\ form["event"].fields \in EventFields
    BY <2>2 DEF ShareForm, GroupForm, EventForm
  <2>4. ASSUME NEW k \in Kind
        PROVE  /\ form[k].open \in BOOLEAN
               /\ DOMAIN form[k].fields = Fields(k)
               /\ form[k].free \subseteq Fields(k)
               /\ form[k].redrawn \subseteq {"group", "destination"} \cap Fields(k)
    <3>1. CASE k = "share"
      BY <2>2, <2>3, <3>1 DEF ShareForm, ShareRecord, Fields
    <3>2. CASE k = "group"
      BY <2>2, <2>3, <3>2 DEF GroupForm, GroupRecord, Fields
    <3>3. CASE k = "event"
      BY <2>2, <2>3, <3>3 DEF EventForm, EventFields, Fields
    <3> QED
      BY <3>1, <3>2, <3>3 DEF Kind
  <2>5. form["group"].fields.members \subseteq Share
    BY <2>3 DEF GroupRecord
  <2>6. picker \in [input: {None, "start", "end"}, time: 0..DAY - 1]
    BY DEF Sound, RestOK
  <2>7. \A e \in Event : wanted[e] \in [start: Int, end: Int \cup {None}]
    BY DEF Sound, RestOK, Window
  <2>8. \A s \in Slot : under[s].step \in {"none", "sent", "saved", "reload"}
    BY DEF Sound, RequestsOK, RequestType
  <2> QED
    BY <2>1, <2>3, <2>4, <2>5, <2>6, <2>7, <2>8 DEF TypeOK, ShareRecord, EventFields
<1> QED
  BY <1>1, Soundness, PTL

\* The form for a new group or event shows the defaults where its user set nothing,
\* for any records and whatever was edited in it before (resetGroupForm and
\* resetEventForm leave nothing behind, reloads put the first options in).
THEOREM NewRecordsAreFresh == Spec => []NewFromDefaults
<1>1. Sound => NewFromDefaults
  <2> SUFFICES ASSUME Sound PROVE NewFromDefaults
    OBVIOUS
  <2> DEFINE group == form["group"]
             event == form["event"]
  <2>1. GroupFormOK(group) /\ EventFormOK(event, page)
    BY DEF Sound, FormsOK
  <2>2. group.id = None /\ "members" \notin group.free => group.fields.members = {}
    BY <2>1 DEF GroupFormOK, GroupSays
  <2>3. ASSUME event.id = None, NEW f \in Fields("event") \ event.free
        PROVE  event.fields[f] = Fresh[f]
    <3>1. f \in {"group", "destination", "start", "end"}
      BY <2>3 DEF Fields
    <3>2. CASE f = "group"
      BY <2>1, <2>3, <3>2 DEF EventFormOK, EventNew, Fresh
    <3>3. CASE f = "destination"
      BY <2>1, <2>3, <3>3 DEF EventFormOK, EventNew, Fresh
    <3>4. CASE f = "start"
      BY <2>1, <2>3, <3>4 DEF EventFormOK, EventShows, Fresh
    <3>5. CASE f = "end"
      BY <2>1, <2>3, <3>5 DEF EventFormOK, EventShows, Fresh
    <3> QED
      BY <3>1, <3>2, <3>3, <3>4, <3>5
  <2> QED
    BY <2>2, <2>3 DEF NewFromDefaults
<1> QED
  BY <1>1, Soundness, PTL

-----------------------------------------------------------------------------
(* Windows                                                                 *)

\* An instant after a trip through a form, and after a second one.
LEMMA Trips ==
  ASSUME NEW x, x \in Int \/ x = None
  PROVE  /\ x \in Int => Meant(Shown(x)) = RoundTrip(x)
         /\ Meant(Shown(x)) \in Int \/ Meant(Shown(x)) = None
         /\ Meant(Shown(Meant(Shown(x)))) = Meant(Shown(x))
         /\ Near(x, x) /\ Near(Meant(Shown(x)), x)
<1>1. CASE x = None
  BY <1>1 DEF Shown, Meant, Near
<1>2. CASE x \in Int
  <2>1. ASSUME NEW y \in Int PROVE Meant(Shown(y)) = RoundTrip(y)
    <3>1. Shown(y) = toLocalInput(y) /\ Shown(y) \in Int
      BY LocalTyping DEF Shown
    <3> QED
      BY <3>1 DEF Meant, RoundTrip
  <2>2. RoundTrip(x) \in Int
    BY <1>2, LocalTyping
  <2>3. RoundTrip(RoundTrip(x)) = RoundTrip(x)
    BY <1>2, RoundTripSettles
  <2>4. Loss \in Nat
    BY ClockAssumption DEF Loss
  <2>5. Near(x, x)
    BY <1>2, <2>4 DEF Near
  <2>6. Near(RoundTrip(x), x)
    BY <1>2, <2>2, RoundTripNear DEF Near
  <2> QED
    BY <1>2, <2>1, <2>2, <2>3, <2>5, <2>6
<1> QED
  BY <1>1, <1>2

\* The instant kept for one chosen: that one, or what one trip makes of it.
Rests(kept, chosen) == kept = chosen \/ kept = Meant(Shown(chosen))

\* The window kept is the one last chosen, or one trip away from it.
WindowRests ==
  \A e \in Events(server) :
    /\ Rests(server.event[e].start, wanted[e].start)
    /\ Rests(server.event[e].end, wanted[e].end)

\* A request that leaves an end of the window alone takes it through a form once.
LEMMA TripRests ==
  ASSUME NEW chosen, chosen \in Int \/ chosen = None, NEW kept, Rests(kept, chosen)
  PROVE  Rests(Meant(Shown(kept)), chosen)
  BY Trips DEF Rests

LEMMA ServeRests ==
  ASSUME Sound, WindowRests, NEW s \in Slot, Serve(s)
  PROVE  WindowRests'
<1> DEFINE u == under[s]
<1>0. u.step = "sent" /\ RequestOK(u, server.presets) /\ server \in Table
  BY DEF Serve, Sound, RequestsOK, TablesOK
<1>1. PICK r \in Targets(u.kind, u.id) :
        /\ server' = [server EXCEPT ![u.kind][r] = ToDomain(u.kind, u.body)]
        /\ wanted' = IF u.kind = "event" THEN [wanted EXCEPT ![r] = Chosen(s, r)] ELSE wanted
  BY DEF Serve
<1>2. CASE u.kind # "event"
  <2>1. server'.event = server.event
    BY <1>0, <1>1, <1>2 DEF Table, RequestOK
  <2>2. wanted' = wanted
    BY <1>1, <1>2
  <2> QED
    BY <2>1, <2>2 DEF WindowRests, Events
<1>3. CASE u.kind = "event"
  <2> DEFINE body == u.body
             c == Chosen(s, r)
  <2>1. /\ r \in Event /\ body \in EventRecord /\ c \in Window
        /\ \A f \in {"start", "end"} :
              \/ c[f] = body[f]
              \/ /\ r = u.id /\ r \in Events(server) /\ f \notin u.free
                 /\ u.origin[f] = server.event[r][f]
                 /\ c[f] = wanted[r][f]
    BY <1>0, <1>1, <1>3, ChosenWindow
  <2>2. EventSays(u.id, u.body, u.origin, u.free, u.redrawn)
    BY <1>0, <1>3 DEF RequestOK, EventSent
  <2>3. wanted[r] \in Window
    BY <2>1 DEF Sound, RestOK
  <2> HIDE DEF c, body
  <2>4. Rests(body.start, c.start)
    <3>1. CASE c.start = body.start
      BY <3>1 DEF Rests
    <3>2. CASE c.start # body.start
      <4>1. /\ r = u.id /\ r # None /\ "start" \notin u.free
            /\ u.origin.start = server.event[r].start /\ c.start = wanted[r].start
            /\ r \in Events(server)
        BY <2>1, <3>2
      <4>2. body.start = RoundTrip(u.origin.start) /\ u.origin.start \in Int
        BY <2>2, <4>1 DEF EventSays, EventRecord, body
      <4>3. body.start = Meant(Shown(server.event[r].start))
        BY <4>1, <4>2, Trips
      <4>4. Rests(server.event[r].start, wanted[r].start)
        BY <4>1 DEF WindowRests
      <4>5. wanted[r].start \in Int
        BY <2>3 DEF Window
      <4> QED
        BY <4>1, <4>3, <4>4, <4>5, TripRests
    <3> QED
      BY <3>1, <3>2
  <2>5. Rests(body.end, c.end)
    <3>1. CASE c.end = body.end
      BY <3>1 DEF Rests
    <3>2. CASE c.end # body.end
      <4>1. /\ r = u.id /\ r # None /\ "end" \notin u.free
            /\ u.origin.end = server.event[r].end /\ c.end = wanted[r].end
            /\ r \in Events(server)
        BY <2>1, <3>2
      <4>2. body.end = Meant(Shown(server.event[r].end))
        BY <2>2, <4>1 DEF EventSays, body
      <4>3. Rests(server.event[r].end, wanted[r].end)
        BY <4>1 DEF WindowRests
      <4>4. wanted[r].end \in Int \/ wanted[r].end = None
        BY <2>3 DEF Window
      <4> QED
        BY <4>1, <4>2, <4>3, <4>4, TripRests
    <3> QED
      BY <3>1, <3>2
  <2>6. ToDomain(u.kind, u.body) = body
    BY <1>3 DEF ToDomain, body
  <2>7. server'.event = [server.event EXCEPT ![r] = body]
    BY <1>0, <1>1, <1>3, <2>6 DEF Table
  <2>8. wanted' = [wanted EXCEPT ![r] = c]
    BY <1>1, <1>3 DEF c
  <2>9. DOMAIN server.event = Event /\ DOMAIN wanted = Event
    BY <1>0 DEF Table, Sound, RestOK
  <2>10. ASSUME NEW e \in Events(server)'
         PROVE  /\ Rests(server'.event[e].start, wanted'[e].start)
                /\ Rests(server'.event[e].end, wanted'[e].end)
    <3>1. CASE e = r
      BY <2>1, <2>4, <2>5, <2>7, <2>8, <2>9, <3>1
    <3>2. CASE e # r
      <4>1. e \in Event /\ server'.event[e] = server.event[e] /\ wanted'[e] = wanted[e]
        BY <2>7, <2>8, <2>9, <3>2 DEF Events
      <4>2. e \in Events(server)
        BY <4>1 DEF Events
      <4> QED
        BY <4>1, <4>2 DEF WindowRests
    <3> QED
      BY <3>1, <3>2
  <2> QED
    BY <2>10 DEF WindowRests
<1> QED
  BY <1>2, <1>3

LEMMA RestsStep == Sound /\ WindowRests /\ [Next]_vars => WindowRests'
<1> SUFFICES ASSUME Sound, WindowRests, [Next]_vars PROVE WindowRests'
  OBVIOUS
<1>1. ASSUME server'.event = server.event, wanted' = wanted PROVE WindowRests'
  BY <1>1 DEF WindowRests, Events
<1>2. ASSUME NEW s \in Slot, Serve(s) PROVE WindowRests'
  BY <1>2, ServeRests
<1>3. CASE Elsewhere
  BY <1>1, <1>3, ElsewhereKeepsTables DEF Sound, Elsewhere
<1>4. ASSUME UNCHANGED <<server, wanted>> PROVE WindowRests'
  BY <1>1, <1>4
<1>5. CASE \/ Edit \/ Choose \/ New("group") \/ New("event")
           \/ \E k \in Kind : closeForm(k)
           \/ \E s \in Slot, k \in Kind : Submit(s, k)
  BY <1>4, <1>5 DEF Edit, Choose, New, closeForm, Submit
<1>6. CASE Picker
  BY <1>4, <1>6 DEF Picker, openPicker, closePicker, PickMonth, PickNone, PickDate, PickClock
<1>7. ASSUME NEW s \in Slot,
             Refuse(s) \/ Saved(s) \/ reloadConfiguration(s) \/ reloadEvents(s) \/ Reload(s)
      PROVE  WindowRests'
  BY <1>4, <1>7 DEF Refuse, Saved, reloadConfiguration, reloadEvents, Reload
<1>8. CASE UNCHANGED vars
  BY <1>4, <1>8 DEF vars
<1> QED
  BY <1>2, <1>3, <1>5, <1>6, <1>7, <1>8 DEF Next, User, Request

\* However often an event is saved with its window untouched, and wherever the
\* clock changes: the window is the chosen one but for Loss (toLocalInput and
\* fromLocalInput of app.js do not drift).
THEOREM WindowsDoNotDrift == Spec => []WindowHolds
<1>1. Init => WindowRests
  <2> SUFFICES ASSUME Init, NEW e \in Events(server)
               PROVE  server.event[e].start = wanted[e].start /\ server.event[e].end = wanted[e].end
    BY DEF WindowRests, Rests
  <2> QED
    BY DEF Init, Events
<1>2. Sound /\ WindowRests => WindowHolds
  <2> SUFFICES ASSUME Sound, WindowRests, NEW e \in Events(server)
               PROVE  /\ Near(server.event[e].start, wanted[e].start)
                      /\ Near(server.event[e].end, wanted[e].end)
    BY DEF WindowHolds
  <2>1. wanted[e] \in Window
    BY TableParts DEF Sound, TablesOK, RestOK
  <2>2. wanted[e].start \in Int /\ (wanted[e].end \in Int \/ wanted[e].end = None)
    BY <2>1 DEF Window
  <2>3. Rests(server.event[e].start, wanted[e].start) /\ Rests(server.event[e].end, wanted[e].end)
    BY DEF WindowRests
  <2> QED
    BY <2>2, <2>3, Trips DEF Rests
<1> QED
  BY <1>1, <1>2, Soundness, RestsStep, PTL DEF Spec

\* A save changes of its record what the user set in the form, and of the rest only
\* what MayBecome names: the trip of a window through local time, a preset that is
\* gone, a share's file types, members that were not on offer, and a group and
\* destination put in by a reload.  For any interleaving of edits, reloads, submits
\* and other clients' changes.
THEOREM SavesAreMeant == Spec => SavesWhatWasMeant
<1>1. Sound /\ [Next]_vars =>
        [\A s \in Slot : Serve(s) => \A f \in Untouched(s) :
           MayBecome(s, f, Record(under[s].kind, under[s].id)[f],
                     Record(under[s].kind, under[s].id)'[f])]_vars
  <2> SUFFICES ASSUME Sound, NEW s \in Slot, Serve(s), NEW f \in Untouched(s)
               PROVE  MayBecome(s, f, Record(under[s].kind, under[s].id)[f],
                                Record(under[s].kind, under[s].id)'[f])
    OBVIOUS
  <2> DEFINE u == under[s]
             old == Record(u.kind, u.id)
  <2>0. u.step = "sent" /\ RequestOK(u, server.presets) /\ server \in Table
    BY DEF Serve, Sound, RequestsOK, TablesOK
  <2>1. u.id # None /\ f \in Fields(u.kind) /\ f \notin u.free /\ u.origin[f] = old[f]
    BY DEF Untouched
  <2>2. PICK r \in Targets(u.kind, u.id) :
          server' = [server EXCEPT ![u.kind][r] = ToDomain(u.kind, u.body)]
    BY DEF Serve
  <2>3. r = u.id /\ u.kind' = u.kind /\ u.id' = u.id
    <3>1. r = u.id
      BY <2>0, <2>1, <2>2 DEF Targets, RequestOK
    <3>2. under[s] \in RequestType /\ under' = [under EXCEPT ![s].step = "saved"]
      BY DEF Serve, Sound, RequestsOK
    <3> QED
      BY <3>1, <3>2 DEF RequestType, Sound, RequestsOK
  <2>4. CASE u.kind = "share"
    <3>1. u.id \in Share /\ u.body \in ShareBody /\ ShareSays(u.id, u.body, u.origin, u.free, server.presets)
      BY <2>0, <2>4 DEF RequestOK, ShareSent
    <3>2. server'.share[r] = ToShare(u.body)
      BY <2>0, <2>2, <2>3, <2>4, <3>1 DEF Table, ToDomain
    <3>3. f \in {"enabled", "preset", "types"} /\ old = server.share[r]
      BY <2>1, <2>3, <2>4, <3>1 DEF Fields, Record
    <3>4. Record(u.kind, u.id)' = ToShare(u.body)
      BY <2>3, <2>4, <3>2 DEF Record
    <3>5. /\ ToShare(u.body).enabled = u.body.enabled
          /\ ToShare(u.body).preset = u.body.preset
          /\ ToShare(u.body).types = "default"
      BY DEF ToShare
    <3>6. CASE f = "enabled"
      BY <2>1, <3>1, <3>4, <3>5, <3>6 DEF ShareSays, MayBecome
    <3>7. CASE f = "preset"
      BY <2>1, <3>1, <3>4, <3>5, <3>7 DEF ShareSays, PresetFollows, MayBecome
    <3>8. CASE f = "types"
      BY <3>4, <3>5, <3>8 DEF MayBecome
    <3> QED
      BY <3>3, <3>6, <3>7, <3>8
  <2>5. CASE u.kind = "group"
    <3>1. u.id \in Group /\ u.body \in GroupRecord /\ GroupSays(u.id, u.body, u.origin, u.free)
      BY <2>0, <2>1, <2>5 DEF RequestOK, GroupSent
    <3>2. f = "members" /\ u.body.members # {}
      BY <2>1, <2>5 DEF Fields, Serve, Valid
    <3>3. u.body.members = u.origin.members \cap u.origin.offered
      BY <2>1, <3>1, <3>2 DEF GroupSays
    <3>4. server'.group[r] = u.body.members
      BY <2>0, <2>2, <2>3, <2>5, <3>1 DEF Table, ToDomain
    <3>5. Record(u.kind, u.id)' = [members |-> u.body.members]
      BY <2>3, <2>5, <3>4 DEF Record
    <3> QED
      BY <2>1, <3>2, <3>3, <3>5 DEF MayBecome
  <2>6. CASE u.kind = "event"
    <3>1. u.id \in Event /\ u.body \in EventRecord /\ EventSays(u.id, u.body, u.origin, u.free, u.redrawn)
      BY <2>0, <2>1, <2>6 DEF RequestOK, EventSent
    <3>2. f \in {"group", "destination", "start", "end"} /\ u.origin \in EventRecord
      BY <2>1, <2>6, <3>1 DEF Fields, EventSays
    <3>3. server'.event[r] = u.body
      BY <2>0, <2>2, <2>3, <2>6, <3>1 DEF Table, ToDomain
    <3>4. Record(u.kind, u.id)' = u.body
      BY <2>3, <2>6, <3>3 DEF Record
    <3>5. CASE f \in {"group", "destination"}
      BY <2>1, <3>1, <3>4, <3>5 DEF EventSays, MayBecome
    <3>6. CASE f = "start"
      <4>1. u.origin.start \in Int /\ u.body.start = RoundTrip(u.origin.start)
        BY <2>1, <3>1, <3>2, <3>6 DEF EventSays, EventRecord
      <4>2. Near(u.body.start, u.origin.start)
        BY <4>1, Trips
      <4> QED
        BY <2>1, <3>4, <3>6, <4>2 DEF MayBecome
    <3>7. CASE f = "end"
      <4>1. u.origin.end \in Int \/ u.origin.end = None
        BY <3>2 DEF EventRecord
      <4>2. u.body.end = Meant(Shown(u.origin.end))
        BY <2>1, <3>1, <3>7 DEF EventSays
      <4>3. Near(u.body.end, u.origin.end)
        BY <4>1, <4>2, Trips
      <4> QED
        BY <2>1, <3>4, <3>7, <4>3 DEF MayBecome
    <3> QED
      BY <3>2, <3>5, <3>6, <3>7
  <2> QED
    BY <2>0, <2>4, <2>5, <2>6 DEF RequestOK
<1> QED
  BY <1>1, Soundness, PTL DEF Spec, SavesWhatWasMeant

=============================================================================
