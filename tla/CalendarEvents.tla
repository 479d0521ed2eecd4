--------------------------- MODULE CalendarEvents ---------------------------
(***************************************************************************)
(* One calendar event, mostly a series, while requests edit and delete it. *)
(*                                                                         *)
(* The table calendar_events holds a master row and a row for every        *)
(* occurrence that was edited on its own, an override that names the       *)
(* occurrence by the start the series gave it.  The handlers of            *)
(* calendar-events.ts read a row, decide, and write it back whole, one     *)
(* await at a time, and nothing keeps two requests apart; a request may be *)
(* evicted at any await.  Of the content of a row only its times matter    *)
(* here: who may edit is in Permissions, attachments are in Attachments    *)
(* and what CalDAV makes of the rows is in CaldavSync.                     *)
(***************************************************************************)
EXTENDS Recurrence

CONSTANTS
    EventRequests, \* requests that may be under way at once
    Plans,         \* a stored event, and how many requests reach it
    NewRules,      \* rules an edit may give the series
    Shifts,        \* by how much an edit may move what it edits, Null for not
    Ranges,        \* ranges a client asks for
    Named,         \* bound: instants a client names, occurrences or not
    LeftOut        \* a rule an edit leaves out

ASSUME CalendarEventsAssumption ==
    /\ \A p \in Plans : p.event \in EventRows /\ p.requests \in Nat
    /\ NewRules \subseteq Rules \cup {Null} /\ Shifts \subseteq Int \cup {Null}
    /\ Named \subseteq Int
    /\ \A range \in Ranges :
        /\ range.start \in Int /\ range.end \in Int /\ range.start < range.end
        /\ range.start <= Max(Days) * SlotsPerDay
    /\ Null \notin EventRows

VARIABLES
    master,        \* the master's row, Null when there is none
    overrides,     \* the rows of the overrides
    calls,         \* the requests under way
    left,          \* bound: how many requests may still come
    \* History, read by no action:
    gone,          \* occurrences a request deleted
    placed         \* overrides a request wrote

rows == <<master, overrides>>
history == <<gone, placed>>
calendarVars == <<master, overrides, calls, left, history>>

---------------------------------------------------------------------------
(* Rows. *)

Override(id, of, at, m) ==
    [id |-> id, of |-> of, at |-> at, length |-> m.length, zone |-> m.zone,
     rule |-> Null, exdates |-> {}]

Moved(row, shift) == IF shift = Null THEN row ELSE [row EXCEPT !.at = @ + shift]

\* patchEvent: everything an edit leaves out stays as it was read.
Patched(row, call) ==
    LET moved == Moved(row, call.shift)
    IN  IF call.rule = LeftOut THEN moved ELSE [moved EXCEPT !.rule = call.rule]

\* Fault: the exclusion replaces the earlier ones.
ExcludingOnly(row, of) == [row EXCEPT !.exdates = {of}]
Excluding(row, of) == [row EXCEPT !.exdates = @ \cup {of}]

\* The override an edit of one occurrence creates; an all-day one without a
\* time of its own gets the master's.
NewOverride(call) ==
    LET m == call.held
        at == IF call.shift # Null THEN call.of + call.shift
              ELSE IF m.allDay THEN m.at ELSE call.of
    IN  Override(call.id, call.of, at, m)

\* Fault: no unique index.
MayDuplicate(row) == master # Null
\* An override is written only if its series stands (the foreign key) and no
\* other row is of its occurrence (the unique index).
MayWrite(row) ==
    /\ master # Null
    /\ \A o \in overrides : o.of = row.of => o.id = row.id

OverrideOf(of) == {o \in overrides : o.of = of}
Upsert(row) == {o \in overrides : o.id # row.id} \cup {row}

---------------------------------------------------------------------------
(* The client names an occurrence by its start, any instant or date: that  *)
(* the series has an occurrence there is not asked (toOccurrenceStart).    *)

Nameable == {of \in Named : master.allDay => of % SlotsPerDay = 0} \cup gone

NoCall == [pc |-> "idle"]
InProgress == {r \in EventRequests : calls[r] # NoCall}

Forgets(of) ==
    /\ gone' = gone \ {of}
    /\ placed' = {p \in placed : p.of # of}

(* A request arrives and reads the row it is about.  Requests that overlap *)
(* are marked, for the history's sake.                                     *)
MayArrive(r) == left > 0 /\ calls[r] = NoCall

Arrive(r, call) ==
    /\ left' = left - 1
    /\ calls' = [q \in EventRequests |->
                    IF q = r THEN [call EXCEPT !.id = left, !.alone = (InProgress = {})]
                    ELSE IF calls[q] # NoCall THEN [calls[q] EXCEPT !.alone = FALSE]
                    ELSE calls[q]]
    /\ UNCHANGED rows

Call(pc, held, of, row, shift, rule) ==
    [pc |-> pc, held |-> held, of |-> of, row |-> row, shift |-> shift, rule |-> rule,
     id |-> 0, alone |-> TRUE]

\* All-day events move by days.
Moves ==
    {shift \in Shifts :
        Null \notin {shift, master} /\ master.allDay => shift % SlotsPerDay = 0}

\* Editing the master itself, all of the series.
EditSeries(r) ==
    /\ MayArrive(r) /\ master # Null
    /\ \E shift \in Moves, rule \in NewRules \cup {LeftOut} :
        /\ Arrive(r, Call("save", master, Null, Null, shift, rule))
        /\ UNCHANGED history

\* The same, aimed at an override: its series is looked up first.
EditSeriesOfOverride(r) ==
    /\ MayArrive(r)
    /\ overrides # {}
    /\ \E shift \in Moves, rule \in NewRules \cup {LeftOut} :
           /\ Arrive(r, Call("master to edit", Null, Null, Null, shift, rule))
           /\ UNCHANGED history

\* One occurrence; without a rule there is only the row to edit.
EditOccurrence(r) ==
    /\ MayArrive(r) /\ master # Null
    /\ \E of \in Nameable, shift \in Moves :
        /\ Arrive(r, Call(IF master.rule = Null THEN "save" ELSE "overrides to edit",
                          master, of, Null, shift, LeftOut))
        /\ Forgets(of)

\* An override, on its own.
EditOverride(r) ==
    /\ MayArrive(r)
    /\ \E o \in overrides, shift \in Moves :
           /\ Arrive(r, Call("save override", Null, o.of, Moved(o, shift), shift, LeftOut))
           /\ Forgets(o.of)

DeleteSeries(r) ==
    /\ MayArrive(r) /\ master # Null
    /\ Arrive(r, Call("delete", master, Null, Null, Null, LeftOut))
    /\ UNCHANGED history

DeleteSeriesOfOverride(r) ==
    /\ MayArrive(r)
    /\ overrides # {}
    /\ Arrive(r, Call("master to delete", Null, Null, Null, Null, LeftOut))
    /\ UNCHANGED history

\* One occurrence; without a rule the whole row goes.
DeleteOccurrence(r) ==
    /\ MayArrive(r) /\ master # Null
    /\ \E of \in Nameable :
           /\ Arrive(r, Call(IF master.rule = Null THEN "delete" ELSE "overrides to delete",
                             master, of, Null, Null, LeftOut))
           /\ Forgets(of)

DeleteOverride(r) ==
    /\ MayArrive(r)
    /\ \E o \in overrides :
           /\ Arrive(r, Call("master of occurrence", Null, o.of, Null, Null, LeftOut))
           /\ Forgets(o.of)

---------------------------------------------------------------------------
(* The steps of a request. *)

Goes(r, pc) == calls' = [calls EXCEPT ![r].pc = pc]
Ends(r) == calls' = [calls EXCEPT ![r] = NoCall]
Awaits(r, pc) == calls[r].pc = pc

\* An answer that nothing overlapped is what the history remembers.
Deleted(call) ==
    IF call.alone THEN gone' = gone \cup {call.of} /\ UNCHANGED placed ELSE UNCHANGED history
Placed(call, row) ==
    IF call.alone THEN placed' = placed \cup {row} /\ UNCHANGED gone
    ELSE UNCHANGED history

\* requireSeriesMaster: an override's series must still be there.
ReadMaster(r) ==
    \E next \in {<<"master to edit", "save">>, <<"master to delete", "delete">>,
                 <<"master of occurrence", "overrides to delete">>} :
        /\ Awaits(r, next[1])
        /\ IF master = Null THEN Ends(r)
           ELSE calls' = [calls EXCEPT ![r].pc = next[2], ![r].held = master]
        /\ UNCHANGED <<rows, left, history>>

\* updateEvent of the master: an upsert, so it also restores a deleted row.
SaveMaster(r) ==
    /\ Awaits(r, "save")
    /\ master' = Patched(calls[r].held, calls[r])
    /\ Ends(r)
    /\ UNCHANGED <<overrides, left, history>>

\* deleteEvent of the master takes its overrides with it.
DeleteMaster(r) ==
    /\ Awaits(r, "delete")
    /\ master' = Null /\ overrides' = {}
    /\ gone' = {} /\ placed' = {}
    /\ Ends(r)
    /\ UNCHANGED left

\* updateSingleOccurrence: the override there is, or a new one.
FindOverride(r) ==
    LET call == calls[r]
        existing == OverrideOf(call.of)
    IN  /\ Awaits(r, "overrides to edit")
        /\ \E row \in IF existing = {} THEN {NewOverride(call)}
                      ELSE {Moved(o, call.shift) : o \in existing} :
              calls' = [calls EXCEPT ![r].pc = "save override", ![r].row = row]
        /\ UNCHANGED <<rows, left, history>>

\* createEvent or updateEvent of an override, or the error of a constraint.
SaveOverride(r) ==
    LET call == calls[r]
        timeLeftOut == call.row.id = call.id /\ call.held.allDay /\ call.shift = Null
    IN  /\ Awaits(r, "save override")
        /\ IF MayWrite(call.row)
           THEN /\ overrides' = Upsert(call.row)
                /\ IF timeLeftOut THEN UNCHANGED history ELSE Placed(call, call.row)
           ELSE UNCHANGED <<overrides, history>>
        /\ Ends(r)
        /\ UNCHANGED <<master, left>>

\* deleteSingleOccurrence: first the override, if there is one ...
ListOverrides(r) ==
    LET existing == OverrideOf(calls[r].of)
    IN  /\ Awaits(r, "overrides to delete")
        /\ IF existing = {} THEN Goes(r, "exclude")
           ELSE \E o \in existing :
                   calls' = [calls EXCEPT ![r].pc = "delete override", ![r].row = o]
        /\ UNCHANGED <<rows, left, history>>

DeleteRow(r) ==
    /\ Awaits(r, "delete override")
    /\ overrides' = {o \in overrides : o.id # calls[r].row.id}
    /\ Goes(r, "exclude")
    /\ UNCHANGED <<master, left, history>>

\* ... then the exclusion, written into the master as it was read.
Exclude(r) ==
    /\ Awaits(r, "exclude")
    /\ master' = Excluding(calls[r].held, calls[r].of)
    /\ Deleted(calls[r])
    /\ Ends(r)
    /\ UNCHANGED <<overrides, left>>

\* The isolate is evicted at an await.
Evict(r) ==
    /\ calls[r] # NoCall
    /\ Ends(r)
    /\ UNCHANGED <<rows, left, history>>

---------------------------------------------------------------------------
CalendarInit ==
    \E p \in Plans :
        /\ master = p.event
        /\ overrides = {}
        /\ calls = [r \in EventRequests |-> NoCall]
        /\ left = p.requests
        /\ gone = {} /\ placed = {}

CalendarNext ==
    \E r \in EventRequests :
        \/ EditSeries(r) \/ EditSeriesOfOverride(r) \/ EditOccurrence(r) \/ EditOverride(r)
        \/ DeleteSeries(r) \/ DeleteSeriesOfOverride(r) \/ DeleteOccurrence(r) \/ DeleteOverride(r)
        \/ ReadMaster(r) \/ SaveMaster(r) \/ DeleteMaster(r)
        \/ FindOverride(r) \/ SaveOverride(r)
        \/ ListOverrides(r) \/ DeleteRow(r) \/ Exclude(r)
        \/ Evict(r)

CalendarSpec == CalendarInit /\ [][CalendarNext]_calendarVars

---------------------------------------------------------------------------
(* Properties. *)

CallRecords ==
    [pc : {"save", "delete", "master to edit", "master to delete", "master of occurrence",
           "overrides to edit", "save override",
           "overrides to delete", "delete override", "exclude"},
     held : EventRows \cup {Null}, of : Int \cup {Null}, row : OverrideRows \cup {Null},
     shift : Int \cup {Null}, rule : Rules \cup {Null, LeftOut}, id : Nat, alone : BOOLEAN]

CalendarTypeOK ==
    /\ master \in EventRows \cup {Null}
    /\ overrides \subseteq OverrideRows /\ IsFiniteSet(overrides)
    /\ calls \in [EventRequests -> CallRecords \cup {NoCall}] /\ left \in Nat
    /\ gone \subseteq Int /\ placed \subseteq OverrideRows

\* What a request does, by the step it waits for: it has read the master, it
\* is about one occurrence, it has an override in hand.
HasMaster == {"save", "delete", "overrides to edit", "overrides to delete",
              "delete override", "exclude"}
HasOverride == {"save override", "delete override"}
AboutOne == {"master of occurrence", "overrides to edit", "overrides to delete", "exclude"}
                \cup HasOverride

\* An override has a series and no occurrence has two (the foreign key and the
\* unique index of migration 0006); an occurrence that was deleted is excluded
\* and has no override, and the override of an edited one is there.
RowsInv ==
    /\ overrides # {} => master # Null
    /\ \A o, w \in overrides : o.of = w.of \/ o.id = w.id => o = w
    /\ gone # {} => master # Null /\ gone \subseteq master.exdates
    /\ \A o \in overrides : o.of \notin gone
    /\ placed \subseteq overrides

\* An id is one occurrence's for good, in the table and in every hand, and a
\* request that may create an override has an id that is nobody else's.
InHand == {calls[r].row : r \in {q \in InProgress : calls[q].pc \in HasOverride}}
IdsInv ==
    /\ \A o, w \in overrides \cup InHand : o.id = w.id => o.of = w.of
    /\ \A o \in overrides \cup InHand : o.id > left
    /\ \A r \in InProgress : calls[r].id > left
    /\ \A r, s \in InProgress : calls[r].id = calls[s].id => r = s
    /\ \A r \in InProgress : Awaits(r, "overrides to edit") =>
           \A o \in overrides \cup InHand : o.id # calls[r].id

\* What a request has in hand excludes what was deleted before, and neither
\* deletes nor rewrites what another placed; one that is alone knows whether
\* its occurrence has an override.
CallInv(r) ==
    LET call == calls[r] IN
    /\ call.pc \in HasMaster => call.held # Null
    /\ call.held # Null => gone \subseteq call.held.exdates
    /\ call.pc \in AboutOne =>
           call.of # Null /\ call.of \notin gone /\ \A p \in placed : p.of # call.of
    /\ call.pc \in HasOverride => call.row \in OverrideRows /\ call.row.of = call.of
    /\ call.alone =>
           /\ InProgress = {r}
           /\ call.pc = "delete override" => OverrideOf(call.of) \subseteq {call.row}
           /\ call.pc = "exclude" => OverrideOf(call.of) = {}

\* The inductive invariant of one event and its requests.
CalendarInv ==
    /\ CalendarTypeOK /\ RowsInv /\ IdsInv
    /\ \A r \in InProgress : CallInv(r)

(* What a series promises, said without a walk: its days are those of      *)
(* every interval-th period from the seed on that its rule selects, up to  *)
(* UNTIL and at most COUNT of them, each at the instant that reads as the  *)
(* seed's time of day, the earlier one of two; a time the clocks skip      *)
(* moves forward by the gap (wallClockToUtc's comment).                    *)
ShownAt(naive, z) ==
    {t \in {naive - Zones[z].std, naive - Zones[z].std - 1} : Reading(t, z) = naive}
InstantOf(naive, z) ==
    IF ShownAt(naive, z) # {} THEN Min(ShownAt(naive, z)) ELSE naive - Zones[z].std

PeriodOf(rule, d) ==
    CASE rule.freq = "DAILY"   -> d
      [] rule.freq = "WEEKLY"  -> (d - rule.weekStart + DaysPerWeek) \div DaysPerWeek
      [] rule.freq = "MONTHLY" -> MonthOf[d]
      [] rule.freq = "YEARLY"  -> Year(d)

Selected(e) ==
    {d \in Days :
        /\ d >= SeedDay(e)
        /\ (PeriodOf(e.rule, d) - PeriodOf(e.rule, SeedDay(e))) % e.rule.interval = 0
        /\ MatchesByRules(e.rule, d)
        /\ MatchesFrequencyAnchor(e.rule, SeedDay(e), d)}
Counted(e) == IF e.rule.count = Null THEN Selected(e) ELSE FirstFew(Selected(e), e.rule.count)

InstantOn(e, d) == InstantOf(d * SlotsPerDay + WallTime(e), e.zone)
Starts(e) ==
    IF e.rule = Null THEN {InstantOn(e, SeedDay(e))}
    ELSE {s \in {InstantOn(e, d) : d \in Counted(e)} :
             e.rule.until # Null => s <= e.rule.until}

\* The conversion does as its comment says in a zone behind UTC.  In another
\* it takes the later instant of a repeated time and moves a skipped time
\* back, so there it keeps its word only about times shown once.
ShownOnce(naive, z) == \E t \in ShownAt(naive, z) : ShownAt(naive, z) = {t}
KeepsWord(naive, z) == Zones[z].std < 0 \/ ShownOnce(naive, z)

\* The conversion keeps its word about every day of the row, and the row does
\* not start at the later of two instants that read the same, which the
\* conversion of its own start misses.
Dependable(e) ==
    /\ InstantOf(Reading(e.at, e.zone), e.zone) = e.at
    /\ \A d \in {SeedDay(e)} \cup (IF e.rule = Null THEN {} ELSE Selected(e)) :
           KeepsWord(d * SlotsPerDay + WallTime(e), e.zone)

\* A range shows the first occurrences of the series that overlap it and
\* are not excluded, at most so many, and every override that overlaps it,
\* once, in the place of its occurrence.
Promised(range) ==
    LET due == {s \in Starts(master) \ master.exdates : Overlaps(s, s + master.length, range)}
        edited == IF master.rule = Null THEN {} ELSE {o.of : o \in overrides}
    IN  [views |-> {<<s, s, s + master.length, FALSE>> :
                        s \in FirstFew(due, MaxOccurrences) \ edited}
              \cup {<<o.of, o.at, o.at + o.length, TRUE>> :
                        o \in {w \in overrides : Overlaps(w.at, w.at + w.length, range)}},
         truncated |-> Cardinality(due) > MaxOccurrences]

\* Whatever was edited and deleted, an expanded range query answers what the
\* series promises: the query's candidates, the jump to the range, the end of
\* the walk, every clock change and moved overrides lose nothing and add
\* nothing.  (The series must begin on a day of the calendar, and its rows be
\* Dependable: what the others show is not what the comments promise, and
\* neither is an unexpanded series, listed at its first occurrence in the
\* range where calendar-events.ts has it at its own start.)
ListsTheSeries ==
    /\ InProgress = {} /\ master # Null /\ SeedDay(master) \in Days
    /\ \A e \in overrides \cup {master} : Dependable(e)
    =>
        \A range \in Ranges, expand \in BOOLEAN : expand \/ master.rule = Null =>
            LET listing == Listing(master, overrides, range, expand)
                promised == Promised(range)
            IN  /\ {<<v.of, v.start, v.end, v.from # "series">> : v \in listing.views} = promised.views
                /\ Cardinality(listing.views) = Cardinality(promised.views)
                /\ listing.truncated = promised.truncated

Whole == [start |-> 0, end |-> (Max(Days) - 2) * SlotsPerDay]

\* Both where the row says an override is and where its zone's clocks put it.
Shows(range, o) == IsCandidate(o, range) /\ InRange(OwnView(o, "moved in"), range)

\* In every range, an occurrence a request deleted is never shown again, and
\* one a request edited is shown where the edit put it, once if that is in the
\* range and nowhere else, until a request is about the same occurrence or the
\* series loses its rule; requests about the rest of the series, overlapping or
\* evicted, change neither.  (Not for requests that overlapped another, nor for
\* an edit that leaves out the time of an all-day occurrence.)
EditsStand ==
    master # Null /\ (gone # {} \/ placed # {}) =>
        \A range \in Ranges \cup {Whole} :
            LET views == Listing(master, overrides, range, TRUE).views
            IN  /\ \A v \in views : v.of \notin gone
                /\ \A p \in placed : master.rule # Null =>
                        LET its == {v \in views : v.of = p.of}
                        IN  /\ p \in overrides
                            /\ its \subseteq {OwnView(p, "in place"), OwnView(p, "moved in")}
                            /\ Shows(range, p) => \E v \in views : its = {v}
=============================================================================
