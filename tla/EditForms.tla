------------------------------ MODULE EditForms ------------------------------
(***************************************************************************)
(* The edit forms of the console for shares, source groups and events: what *)
(* is filled in from the lists the page has read, what the user changes,    *)
(* what another handler's reload does to the form meanwhile, and what a     *)
(* submit finally sends.  There is no version on a record: a PUT replaces   *)
(* all of it.                                                               *)
(*                                                                         *)
(* Of the fields of a record those are kept that a form treats differently: *)
(*   share   enabled (an input), preset (a select that renderPresetChoices  *)
(*           restores), types (file types and subfolders: inputs that the   *)
(*           form shows and the request leaves out)                         *)
(*   group   members (checkboxes of the shares on offer)                    *)
(*   event   group, destination (selects), start, end (minutes of local     *)
(*           time, for instants the server keeps in seconds)                *)
(***************************************************************************)
EXTENDS Integers, FiniteSets

CONSTANTS Share, Group, Event, Preset,  \* what the server may keep
          Role,                 \* of a share
          First(_, _),          \* First(S, none): the first option of a list, or none
          None,                 \* nothing chosen, no end, no preset, no record
          Now,                  \* the instant a new event starts with
          Change, Before, After,\* the clock changes at Change, from one offset to another
          PickDay, PickTime,    \* bound: days and times of day the user picks
          Slot,                 \* submits and reloads that may be under way at once
          MaxInputs             \* bound: what users do in one behaviour

MINUTE == 60
DAY == 1440     \* in minutes

ASSUME RoleAssumption == Role \in [Share -> {"Source", "Destination", "Both"}]
ASSUME FirstAssumption ==
    \A S \in (SUBSET Share) \cup (SUBSET Group) :
        First(S, None) \in IF S = {} THEN {None} ELSE S
ASSUME NoneAssumption == None \notin Share \cup Group \cup Event \cup Preset \cup Int
ASSUME ClockAssumption ==
    /\ Now \in Int /\ PickDay \subseteq Int /\ PickTime \subseteq 0..DAY - 1
    /\ Change \in Int /\ Change % MINUTE = 0  \* clocks change on the minute
    /\ Before \in Int /\ Before % MINUTE = 0
    /\ After \in Int /\ After % MINUTE = 0
ASSUME InputsBounded == MaxInputs \in Nat

-----------------------------------------------------------------------------
(* Instants and local time                                                 *)

Offset(instant) == IF instant < Change THEN Before ELSE After

(* Mistake: the digits of the UTC time are shown.                           *)
toLocalInputUtc(instant) == instant \div MINUTE

(* Seconds are cut off.                                                     *)
toLocalInput(instant) == (instant + Offset(instant)) \div MINUTE

(* Of a local time that comes twice the first is meant; one that is skipped *)
(* is read with the offset before the change.                               *)
fromLocalInput(minutes) ==
    LET early == minutes * MINUTE - Before
        late == minutes * MINUTE - After
    IN  IF early >= Change /\ late >= Change THEN late ELSE early

RoundTrip(instant) == fromLocalInput(toLocalInput(instant))

Shown(instant) == IF instant = None THEN None ELSE toLocalInput(instant)
Meant(minutes) == IF minutes = None THEN None ELSE fromLocalInput(minutes)

-----------------------------------------------------------------------------
VARIABLES
    server,   \* what the server keeps: shares, groups, events, presets
    page,     \* the same as the page has read it
    form,     \* the three forms: open, id, fields, and for the properties origin, free, redrawn
    picker,   \* the date picker: the input it is for and the time of day it shows
    under,    \* submits and reloads under way
    wanted,   \* for the properties: the window last chosen for an event
    inputs    \* how often a user acted

vars == <<server, page, form, picker, under, wanted, inputs>>

Kind == {"share", "group", "event"}

Table == [share: [Share -> [enabled: BOOLEAN, preset: Preset \cup {None}, types: {"chosen", "default"}]],
          group: [Group -> SUBSET Share],
          event: [Event -> [group: Group, destination: Share, start: Int, end: Int \cup {None}]
                           \cup {None}],
          presets: SUBSET Preset]

(* A group without members does not exist.                                  *)
Groups(t) == {g \in Group : t.group[g] # {}}
Events(t) == {e \in Event : t.event[e] # None}
Sources(t) == {s \in Share : t.share[s].enabled /\ Role[s] # "Destination"}
Destinations(t) == {s \in Share : t.share[s].enabled /\ Role[s] # "Source"}

Fields(kind) == CASE kind = "share" -> {"enabled", "preset", "types"}
                  [] kind = "group" -> {"members"}
                  [] kind = "event" -> {"group", "destination", "start", "end"}

(* A form filled in with fields for the record origin.  The user has set    *)
(* nothing yet (free), no reload has put anything else in (redrawn).        *)
Filled(id, fields, origin) ==
    [open |-> TRUE, id |-> id, fields |-> fields, origin |-> origin, free |-> {}, redrawn |-> {}]

-----------------------------------------------------------------------------
(* Filling the forms in                                                    *)

(* Mistake: the shares are ticked by their place in the list.               *)
renderGroupChoicesByIndex(t, selected) == {Cardinality(selected)}

renderGroupChoices(t, selected) == selected \cap Sources(t)

renderEventSelectors(t) ==
    [group |-> First(Groups(t), None), destination |-> First(Destinations(t), None)]

(* Mistake: the selection is not restored.                                  *)
renderPresetChoicesAnew(t, current) == None

renderPresetChoices(t, current) == IF current \in t.presets THEN current ELSE None

resetShareForm(t) == [enabled |-> TRUE, preset |-> None, types |-> "default"]
resetGroupForm(t) == [members |-> renderGroupChoices(t, {})]

(* Mistake: reset() of the form is relied upon, which keeps data-value.     *)
resetEventFormKeepingEnd(t) ==
    [group |-> renderEventSelectors(t).group, destination |-> renderEventSelectors(t).destination,
     start |-> toLocalInput(Now), end |-> form["event"].fields.end]

resetEventForm(t) ==
    [group |-> renderEventSelectors(t).group, destination |-> renderEventSelectors(t).destination,
     start |-> toLocalInput(Now), end |-> None]

Reset(kind, t) == CASE kind = "share" -> resetShareForm(t)
                    [] kind = "group" -> resetGroupForm(t)
                    [] kind = "event" -> resetEventForm(t)

editShare(s) == [page.share[s] EXCEPT !.preset = renderPresetChoices(page, @)]
editGroup(g) == [members |-> renderGroupChoices(page, page.group[g])]

(* The group as the page has read it, and the shares the form offers.       *)
GroupRead(g) == [members |-> page.group[g], offered |-> Sources(page)]

editEvent(e) ==
    LET event == page.event[e] IN
    [group |-> IF event.group \in Groups(page) THEN event.group ELSE None,
     destination |-> IF event.destination \in Destinations(page) THEN event.destination ELSE None,
     start |-> Shown(event.start), end |-> Shown(event.end)]

Input ==
    /\ inputs < MaxInputs
    /\ inputs' = inputs + 1

Edit ==
    /\ \/ \E s \in Share : form' = [form EXCEPT !["share"] = Filled(s, editShare(s), page.share[s])]
       \/ \E g \in Groups(page) : form' = [form EXCEPT !["group"] = Filled(g, editGroup(g), GroupRead(g))]
       \/ \E e \in Events(page) : form' = [form EXCEPT !["event"] = Filled(e, editEvent(e), page.event[e])]
    /\ Input
    /\ UNCHANGED <<server, page, picker, under, wanted>>

(* New group, new event.  A new share is left out: its path and role cannot *)
(* be told from another's here.                                             *)
New(kind) ==
    /\ Input
    /\ form' = [form EXCEPT ![kind] = Filled(None, Reset(kind, page), None)]
    /\ UNCHANGED <<server, page, picker, under, wanted>>

closeForm(kind) ==
    /\ form[kind].open
    /\ Input
    /\ form' = [form EXCEPT ![kind].open = FALSE]
    /\ UNCHANGED <<server, page, picker, under, wanted>>

-----------------------------------------------------------------------------
(* What the user changes                                                   *)

Set(kind, field, value) ==
    form' = [form EXCEPT ![kind].fields[field] = value, ![kind].free = @ \cup {field}]

Choose ==
    /\ Input
    /\ \/ /\ form["share"].open
          /\ \/ \E on \in BOOLEAN : Set("share", "enabled", on)
             \/ \E p \in page.presets \cup {None} : Set("share", "preset", p)
             \/ \E types \in {"chosen", "default"} : Set("share", "types", types)
       \/ /\ form["group"].open
          /\ \E chosen \in SUBSET Sources(page) : Set("group", "members", chosen)
       \/ /\ form["event"].open
          /\ \/ \E g \in Groups(page) : Set("event", "group", g)
             \/ \E s \in Destinations(page) : Set("event", "destination", s)
    /\ UNCHANGED <<server, page, picker, under, wanted>>

pickerValue == form["event"].fields[picker.input]
TimeOf(minutes) == IF minutes = None THEN 0 ELSE minutes % DAY

(* The time of day of the value is selected, of no value the first option.  *)
renderPicker(input) == picker' = [input |-> input, time |-> TimeOf(form["event"].fields[input])]

openPicker(input) ==
    /\ form["event"].open /\ picker.input = None
    /\ Input
    /\ renderPicker(input)
    /\ UNCHANGED <<server, page, form, under, wanted>>

(* Done, Escape, or a click beside it.                                      *)
closePicker ==
    /\ picker.input # None
    /\ picker' = [picker EXCEPT !.input = None]
    /\ UNCHANGED <<server, page, form, under, wanted, inputs>>

(* The month before or after: the time shown falls back to the value's.     *)
PickMonth ==
    /\ picker.input # None
    /\ Input
    /\ renderPicker(picker.input)
    /\ UNCHANGED <<server, page, form, under, wanted>>

(* A day, with the time of day that is shown.                               *)
PickDate(day) ==
    /\ picker.input # None
    /\ Input
    /\ Set("event", picker.input, day * DAY + picker.time)
    /\ UNCHANGED <<server, page, picker, under, wanted>>

(* An hour or a minute: only where there is a value already.                *)
PickClock(time) ==
    /\ picker.input # None
    /\ Input
    /\ picker' = [picker EXCEPT !.time = time]
    /\ IF pickerValue = None THEN UNCHANGED form
       ELSE Set("event", picker.input, pickerValue - TimeOf(pickerValue) + time)
    /\ UNCHANGED <<server, page, under, wanted>>

(* Only the end may be cleared.                                             *)
PickNone ==
    /\ picker.input = "end"
    /\ Input
    /\ Set("event", "end", None)
    /\ picker' = [picker EXCEPT !.input = None]
    /\ UNCHANGED <<server, page, under, wanted>>

-----------------------------------------------------------------------------
(* Submit                                                                  *)

(* What the request says of a form, and what the properties remember of it. *)
Body(kind) ==
    LET f == form[kind].fields IN
    CASE kind = "share" -> [enabled |-> f.enabled, preset |-> f.preset]
      [] kind = "group" -> f
      [] kind = "event" -> [f EXCEPT !.start = Meant(@), !.end = Meant(@)]

Nothing == [step |-> "none", kind |-> None, id |-> None, body |-> None, origin |-> None,
            free |-> {}, redrawn |-> {}]

(* The selects of the event form are required.                              *)
Submit(s, kind) ==
    /\ under[s] = Nothing
    /\ form[kind].open
    /\ kind = "event" => None \notin {form[kind].fields.group, form[kind].fields.destination}
    /\ Input
    /\ under' = [under EXCEPT ![s] = [step |-> "sent", kind |-> kind, id |-> form[kind].id,
                                      body |-> Body(kind), origin |-> form[kind].origin,
                                      free |-> form[kind].free, redrawn |-> form[kind].redrawn]]
    /\ UNCHANGED <<server, page, form, picker, wanted>>

(* The server's checks.                                                     *)
Valid(kind, body) ==
    CASE kind = "share" -> TRUE
      [] kind = "group" -> body.members # {} /\ body.members \subseteq Sources(server)
      [] kind = "event" ->
            /\ body.end # None => body.start <= body.end
            /\ body.group \in Groups(server)
            /\ body.destination \in Destinations(server)
            /\ body.destination \notin server.group[body.group]

(* ToShare: what a request leaves out takes its default.                    *)
ToShare(body) == [enabled |-> body.enabled, preset |-> body.preset, types |-> "default"]
ToDomain(kind, body) == CASE kind = "share" -> ToShare(body)
                          [] kind = "group" -> body.members
                          [] kind = "event" -> body

(* The record a request is for: that of its id, or a new one.               *)
Targets(kind, id) ==
    CASE kind = "share" -> {id}
      [] kind = "group" -> IF id = None THEN Group \ Groups(server) ELSE {id} \cap Groups(server)
      [] kind = "event" -> IF id = None THEN Event \ Events(server) ELSE {id} \cap Events(server)

(* What nobody asked a save to change: the fields of the record, in the     *)
(* request or not, that the user left alone and the server still keeps as   *)
(* the page had read them when the form was filled in.                      *)
Record(kind, r) == IF kind = "group" THEN [members |-> server.group[r]] ELSE server[kind][r]
Untouched(s) ==
    IF under[s].id = None THEN {}
    ELSE {f \in Fields(under[s].kind) \ under[s].free :
            under[s].origin[f] = Record(under[s].kind, under[s].id)[f]}

Chosen(s, r) ==
    [f \in {"start", "end"} |-> IF f \in Untouched(s) THEN wanted[r][f] ELSE under[s].body[f]]

Serve(s) ==
    /\ under[s].step = "sent"
    /\ Valid(under[s].kind, under[s].body)
    /\ \E r \in Targets(under[s].kind, under[s].id) :
         /\ server' = [server EXCEPT ![under[s].kind][r] = ToDomain(under[s].kind, under[s].body)]
         /\ wanted' = IF under[s].kind = "event" THEN [wanted EXCEPT ![r] = Chosen(s, r)] ELSE wanted
    /\ under' = [under EXCEPT ![s].step = "saved"]
    /\ UNCHANGED <<page, form, picker, inputs>>

(* Refused, or lost on the way: the form stays and shows the message.       *)
Refuse(s) ==
    /\ under[s].step # "none"
    /\ under' = [under EXCEPT ![s] = Nothing]
    /\ UNCHANGED <<server, page, form, picker, wanted, inputs>>

(* The answer resets and closes the form, whatever it holds by now.         *)
Saved(s) ==
    /\ under[s].step = "saved"
    /\ form' = [form EXCEPT ![under[s].kind] =
                    [Filled(None, Reset(under[s].kind, page), None) EXCEPT !.open = FALSE]]
    /\ under' = [under EXCEPT ![s] = [Nothing EXCEPT !.step = "reload", !.kind = under[s].kind]]
    /\ UNCHANGED <<server, page, picker, wanted, inputs>>

-----------------------------------------------------------------------------
(* Reloads                                                                 *)

(* The choices are drawn again under an open form: the preset is restored,  *)
(* the members are unticked, group and destination are the first on offer.  *)
Redrawn(t) ==
    LET first == renderEventSelectors(t) IN
    [form EXCEPT
        !["share"].fields.preset = renderPresetChoices(t, @),
        !["group"].fields.members = renderGroupChoices(t, {}),
        !["event"].fields.group = first.group,
        !["event"].fields.destination = first.destination,
        !["event"].redrawn = @ \cup {f \in {"group", "destination"} :
                                        form["event"].fields[f] # first[f]}]

reloadConfiguration(s) ==
    /\ under[s].step = "reload" /\ under[s].kind # "event"
    /\ page' = server
    /\ form' = Redrawn(server)
    /\ under' = [under EXCEPT ![s] = Nothing]
    /\ UNCHANGED <<server, picker, wanted, inputs>>

reloadEvents(s) ==
    /\ under[s].step = "reload" /\ under[s].kind = "event"
    /\ page' = [page EXCEPT !.event = server.event]
    /\ under' = [under EXCEPT ![s] = Nothing]
    /\ UNCHANGED <<server, form, picker, wanted, inputs>>

(* Another handler of the page asks for the configuration again.            *)
Reload(s) ==
    /\ under[s] = Nothing
    /\ Input
    /\ under' = [under EXCEPT ![s].step = "reload"]
    /\ UNCHANGED <<server, page, form, picker, wanted>>

(* Another client switches a share on or off or removes a naming preset.    *)
Elsewhere ==
    /\ Input
    /\ \/ \E s \in Share : server' = [server EXCEPT !.share[s].enabled = ~@]
       \/ \E p \in server.presets :
            server' = [server EXCEPT
                !.presets = @ \ {p},
                !.share = [s \in Share |-> IF @[s].preset = p THEN [@[s] EXCEPT !.preset = None] ELSE @[s]]]
    /\ UNCHANGED <<page, form, picker, under, wanted>>

-----------------------------------------------------------------------------
CONSTANT Initial        \* what the server keeps at first

ASSUME InitialAssumption == Initial \in Table

(* The forms before they are first opened, after the first load.            *)
Blank(kind) ==
    CASE kind = "share" -> [enabled |-> TRUE, preset |-> None, types |-> "default"]
      [] kind = "group" -> [members |-> {}]
      [] kind = "event" -> [group |-> First(Groups(Initial), None),
                            destination |-> First(Destinations(Initial), None),
                            start |-> toLocalInput(Now), end |-> None]

Init ==
    /\ server = Initial
    /\ page = Initial
    /\ form = [k \in Kind |-> [Filled(None, Blank(k), None) EXCEPT !.open = FALSE]]
    /\ picker = [input |-> None, time |-> 0]
    /\ under = [s \in Slot |-> Nothing]
    /\ wanted = [e \in Event |-> IF Initial.event[e] = None THEN [start |-> Now, end |-> None]
                                 ELSE [start |-> Initial.event[e].start, end |-> Initial.event[e].end]]
    /\ inputs = 0

User ==
    \/ Edit \/ Choose \/ Elsewhere
    \/ New("group") \/ New("event")
    \/ \E k \in Kind : closeForm(k)
    \/ \E s \in Slot, k \in Kind : Submit(s, k)

Picker ==
    \/ openPicker("start") \/ openPicker("end") \/ closePicker
    \/ PickMonth \/ PickNone
    \/ \E d \in PickDay : PickDate(d)
    \/ \E t \in PickTime : PickClock(t)

Request(s) ==
    Serve(s) \/ Refuse(s) \/ Saved(s) \/ reloadConfiguration(s) \/ reloadEvents(s) \/ Reload(s)

Next == User \/ Picker \/ \E s \in Slot : Request(s)

Spec == Init /\ [][Next]_vars

-----------------------------------------------------------------------------
(* Tables, forms and requests keep their shape.                             *)
TypeOK ==
    /\ server \in Table /\ page \in Table
    /\ \A k \in Kind :
         /\ form[k].open \in BOOLEAN
         /\ DOMAIN form[k].fields = Fields(k)
         /\ form[k].free \subseteq Fields(k)
         /\ form[k].redrawn \subseteq {"group", "destination"} \cap Fields(k)
    /\ form["share"].fields \in [enabled: BOOLEAN, preset: Preset \cup {None}, types: {"chosen", "default"}]
    /\ form["group"].fields.members \subseteq Share
    /\ form["event"].fields \in
         [group: Group \cup {None}, destination: Share \cup {None}, start: Int, end: Int \cup {None}]
    /\ picker \in [input: {None, "start", "end"}, time: 0..DAY - 1]
    /\ \A e \in Event : wanted[e] \in [start: Int, end: Int \cup {None}]
    /\ \A s \in Slot : under[s].step \in {"none", "sent", "saved", "reload"}

(* What an instant may lose on its way through a form, once and for all.    *)
Loss == MINUTE - 1 + IF Before > After THEN Before - After ELSE 0
Near(kept, chosen) ==
    IF None \in {kept, chosen} THEN kept = chosen ELSE kept <= chosen /\ chosen - kept <= Loss

(* However often an event is edited, nobody touching its window, the window *)
(* never starts later and loses less than a minute, and the hour that comes *)
(* twice: toLocalInput and fromLocalInput do not drift.                     *)
WindowHolds ==
    \A e \in Events(server) :
        /\ Near(server.event[e].start, wanted[e].start)
        /\ Near(server.event[e].end, wanted[e].end)

(* What a save may make of a field its user left alone.  A window goes      *)
(* through local time (WindowHolds), a preset that is gone goes.  The other *)
(* three are what the form does to a record behind its user's back, and no  *)
(* more than that: every save of a share drops its file types and           *)
(* subfolders (app.js:2018-2032 sends neither, against README.md:86 and     *)
(* CHANGELOG.md:259), a save of a group drops members that were not on      *)
(* offer when it was opened (app.js:1043), and a reload under the open      *)
(* event form puts the first group and destination in (app.js:1088-1097).   *)
MayBecome(s, f, old, new) ==
    \/ new = old
    \/ f \in {"start", "end"} /\ Near(new, old)
    \/ f = "preset" /\ new = None /\ old \notin server.presets
    \/ f = "types" /\ new = "default"
    \/ f = "members" /\ new = old \cap under[s].origin.offered
    \/ f \in under[s].redrawn

(* However forms, submits, reloads and other clients interleave: a save     *)
(* changes of its record what its user set in the form, and beyond that     *)
(* only what MayBecome names.  Members unticked by a reload are never saved *)
(* away, and a preset is never lost to a reload that still offers it.       *)
SavesWhatWasMeant ==
    [][\A s \in Slot : Serve(s) => \A f \in Untouched(s) :
         MayBecome(s, f, Record(under[s].kind, under[s].id)[f],
                   Record(under[s].kind, under[s].id)'[f])]_vars

(* The form for a new group or event shows the defaults, as of the lists    *)
(* the page holds, in every field its user has not set, whatever record was *)
(* edited in it before and whatever reload came meanwhile.                  *)
Fresh ==
    [group |-> First(Groups(page), None), destination |-> First(Destinations(page), None),
     start |-> toLocalInput(Now), end |-> None]
NewFromDefaults ==
    /\ form["group"].id = None /\ "members" \notin form["group"].free =>
         form["group"].fields.members = {}
    /\ form["event"].id = None =>
         \A f \in Fields("event") \ form["event"].free : form["event"].fields[f] = Fresh[f]

=============================================================================
