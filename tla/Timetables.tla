----------------------------- MODULE Timetables -----------------------------
(***************************************************************************)
(* Classes with their weekly schedules, rooms and teachers: creating and   *)
(* updating a class, the check for double bookings, and the sessions to    *)
(* come that a class has planned.  Requests run one after another.  Names  *)
(* and codes, which must be new, and the year of the course are left out.  *)
(* A time is twice the hour, less one for a text without seconds, which is *)
(* how a request writes it and how it compares with a stored one.          *)
(***************************************************************************)
EXTENDS Integers, FiniteSets

CONSTANTS
  ClassId,     \* ids of classes
  Timetable,   \* sets of weekly lessons that requests ask for
  ClassRange,  \* pairs of first and last date, NULL or a number
  Instructor,  \* teachers and assistants, NULL
  Room,        \* rooms, NULL
  Request,     \* updates: fields to change
  Unasked,     \* "the field is not in the request"
  Null

WeeklySlot == [weekday : Nat, start : Nat, end : Nat, room : Room]

ASSUME TimetableConstants ==
  /\ Null \notin Nat
  /\ Timetable \subseteq SUBSET WeeklySlot
  /\ ClassRange \subseteq (Nat \union {Null}) \X (Nat \union {Null})
  /\ \A new \in Request : /\ new.slots \in Timetable \union {Unasked}
                          /\ new.range \in ClassRange \union {Unasked}

VARIABLES
  class,       \* classes with class_schedules, NoClass if there is no row
  planned,     \* sessions to come that are not locked, marked or paid
  unseen,      \* classes opened again without a check
  textDates    \* do raw queries hand dates over as text?

timetableVars == <<class, planned, unseen, textDates>>

NoClass == [status |-> "none", teacher |-> Null, assistant |-> Null,
            range |-> <<Null, Null>>, slots |-> {}]
Open == {"Planning", "Active"}

TimetableInit ==
  /\ class = [c \in ClassId |-> NoClass]
  /\ planned = [c \in ClassId |-> {}]
  /\ unseen = {} /\ textDates \in BOOLEAN

-----------------------------------------------------------------------------
(* The checks.                                                              *)

Overlap(a, b) == a.start < b.end /\ b.start < a.end

\* validateSchedules, hasScheduleOverlap
ValidSlots(slots) ==
  /\ slots # {}
  /\ \A a \in slots : a.start < a.end
  /\ \A a, b \in slots : a # b /\ a.weekday = b.weekday => ~Overlap(a, b)

ValidRange(range) == Null \notin {range[1], range[2]} => range[1] <= range[2]

\* dateRangesOverlap: a missing date is open.  The existing dates come from a raw
\* query: as Date objects they are neither before nor after a text.
RangesOverlap(new, old) ==
  /\ old[2] = Null \/ (textDates /\ (new[1] = Null \/ new[1] <= old[2]))
  /\ old[1] = Null \/ (textDates /\ (new[2] = Null \/ old[1] <= new[2]))

\* findConflict compares the texts.
TimesOverlap(a, b) == a.start < b.end /\ b.start < a.end

Same(x, y) == x # Null /\ x = y

\* CheckRecurringScheduleConflictsUseCase: rooms and main teachers of classes
\* that are planned or active, but for the class itself.  Assistants are not
\* looked at.
Conflict(c, slots, teacher, range) ==
  \E d \in ClassId \ {c} :
    /\ class[d].status \in Open
    /\ RangesOverlap(range, class[d].range)
    /\ \E a \in slots, b \in class[d].slots :
         /\ a.weekday = b.weekday /\ TimesOverlap(a, b)
         /\ Same(a.room, b.room) \/ Same(teacher, class[d].teacher)

\* The time columns add the seconds.
Stored(slots) ==
  {[s EXCEPT !.start = @ + (@ % 2), !.end = @ + (@ % 2)] : s \in slots}

-----------------------------------------------------------------------------
(* The sessions to come (SessionHandlers has how each of them is kept).     *)

Sessions(row) ==
  IF row.status = "Active" /\ row.range[1] # Null
  THEN {[slot |-> s, range |-> row.range, teacher |-> row.teacher, assistant |-> row.assistant] :
          s \in row.slots}
  ELSE {}

-----------------------------------------------------------------------------
(* Requests.                                                                *)

\* create
CreateClass(c, row) ==
  /\ class[c] = NoClass
  /\ ValidSlots(row.slots) /\ ValidRange(row.range)
  /\ ~Conflict(c, row.slots, row.teacher, row.range)
  /\ LET saved == [row EXCEPT !.slots = Stored(@)]
     IN class' = [class EXCEPT ![c] = saved] /\ planned' = [planned EXCEPT ![c] = Sessions(saved)]
  /\ UNCHANGED <<unseen, textDates>>

Asked(new, f) == new[f] # Unasked
Value(new, old, f) == IF Asked(new, f) THEN new[f] ELSE old[f]

\* The row an update saves
Updated(old, new) ==
  [f \in DOMAIN old |-> IF f = "slots" /\ Asked(new, f) THEN Stored(new[f]) ELSE Value(new, old, f)]

\* Mutant: only a new timetable is checked.
Checks_Slots(new) == Asked(new, "slots")

\* update checks again if the timetable, the teacher or a date was asked for.
Checks(new) == \E f \in {"slots", "teacher", "range"} : Asked(new, f)

\* Mutant: sessions keep the assistant.
Resync_Teacher(s, new, f) == IF f = "teacher" THEN Value(new, s, f) ELSE s[f]

\* Sessions that are not made again get the teacher and the assistant asked for.
Resync(s, new, f) == Value(new, s, f)

UpdateClass(c, new) ==
  LET old == class[c]
      row == Updated(old, new)
      \* a new timetable or status, or a date of a class that is active or has sessions
      regenerate == \/ Asked(new, "slots") \/ row.status # old.status
                    \/ Asked(new, "range") /\ (row.status = "Active" \/ planned[c] # {})
  IN /\ old # NoClass
     /\ Asked(new, "slots") => ValidSlots(new.slots)
     /\ ValidRange(row.range)
     /\ Checks(new) => ~Conflict(c, Value(new, old, "slots"), row.teacher, row.range)
     /\ class' = [class EXCEPT ![c] = row]
     /\ planned' = [planned EXCEPT ![c] =
          IF regenerate THEN Sessions(row)
          ELSE {[s EXCEPT !.teacher = Resync(s, new, "teacher"),
                          !.assistant = Resync(s, new, "assistant")] : s \in @}]
     /\ unseen' = IF Checks(new) THEN unseen \ {c}
                  ELSE IF old.status \notin Open /\ row.status \in Open THEN unseen \union {c}
                  ELSE unseen
     /\ UNCHANGED textDates

TimetableNext ==
  \/ \E c \in ClassId, slots \in Timetable, teacher, assistant \in Instructor,
        range \in ClassRange, status \in Open :
       CreateClass(c, [status |-> status, teacher |-> teacher, assistant |-> assistant,
                       range |-> range, slots |-> slots])
  \/ \E c \in ClassId, new \in Request : UpdateClass(c, new)

TimetableSpec == TimetableInit /\ [][TimetableNext]_timetableVars

-----------------------------------------------------------------------------
Meet(r, q) ==
  /\ r[1] = Null \/ q[2] = Null \/ r[1] <= q[2]
  /\ q[1] = Null \/ r[2] = Null \/ q[1] <= r[2]

\* Two classes that are planned or active at the same time share neither a room
\* nor a main teacher in any hour, whatever has been changed in either, unless
\* one was opened again by its status alone; with dates only where the driver
\* hands them over as text.
NoDoubleBooking ==
  \A c, d \in {e \in ClassId : class[e].status \in Open} :
    c # d /\ {c, d} \cap unseen = {} /\ Meet(class[c].range, class[d].range)
    /\ (textDates \/ {class[c].range, class[d].range} = {<<Null, Null>>})
      => \A a \in class[c].slots, b \in class[d].slots :
           a.weekday = b.weekday /\ Overlap(a, b) =>
             ~Same(a.room, b.room) /\ ~Same(class[c].teacher, class[d].teacher)

\* The open sessions to come are those of the class as it is now: its timetable,
\* dates, teacher and assistant, and none once it is not active.
SessionsFollowClass == \A c \in ClassId : planned[c] = Sessions(class[c])
=============================================================================
