---------------------------- MODULE ScreensProof -----------------------------
(***************************************************************************)
(* Timetables, courses, monthly bills, dashboards, notices and assignments: *)
(* what the requests of their screens keep, whatever the order they are    *)
(* served in.                                                              *)
(***************************************************************************)
EXTENDS Notifications, SumsProof, Timetables, Courses, MonthlyBills, Dashboards,
        Assignments, SequenceTheorems, TLAPS

-----------------------------------------------------------------------------
(* Timetables                                                              *)

DateRange == (Nat \union {Null}) \X (Nat \union {Null})

\* A class, whoever teaches it; its stored times have their seconds.
ClassTyped(row) ==
  /\ row = [status |-> row.status, teacher |-> row.teacher, assistant |-> row.assistant,
            range |-> row.range, slots |-> row.slots]
  /\ row.range \in DateRange
  /\ row.slots \subseteq WeeklySlot
  /\ \A s \in row.slots : s.start % 2 = 0 /\ s.end % 2 = 0

TimetableTyped ==
  /\ class = [c \in ClassId |-> class[c]] /\ \A c \in ClassId : ClassTyped(class[c])
  /\ planned = [c \in ClassId |-> planned[c]]

TimetableInv == TimetableTyped /\ SessionsFollowClass /\ NoDoubleBooking

\* Storing rounds a time up to the next even number.
LEMMA StoredTime ==
  ASSUME NEW t \in Nat
  PROVE  /\ t + (t % 2) \in Nat /\ (t + (t % 2)) % 2 = 0 /\ t <= t + (t % 2)
         /\ \A u \in Nat : u % 2 = 0 /\ u < t + (t % 2) => u < t
<1>1. CASE t % 2 = 0
  BY <1>1
<1>2. CASE t % 2 = 1
  BY <1>2
<1> QED
  BY <1>1, <1>2

\* What is stored of a lesson that is asked for overlaps no stored lesson that
\* the lesson itself does not overlap.
LEMMA StoredSlots ==
  ASSUME NEW slots \in Timetable
  PROVE  /\ Stored(slots) \subseteq WeeklySlot
         /\ \A s \in Stored(slots) : s.start % 2 = 0 /\ s.end % 2 = 0
         /\ \A s \in Stored(slots) : \E a \in slots :
              /\ a.weekday = s.weekday /\ a.room = s.room
              /\ \A b \in WeeklySlot :
                   b.start % 2 = 0 /\ b.end % 2 = 0 /\ Overlap(s, b) => TimesOverlap(a, b)
<1> SUFFICES ASSUME NEW a \in slots, NEW s, s = [a EXCEPT !.start = @ + (@ % 2), !.end = @ + (@ % 2)]
             PROVE  /\ s \in WeeklySlot /\ s.start % 2 = 0 /\ s.end % 2 = 0
                    /\ a.weekday = s.weekday /\ a.room = s.room
                    /\ \A b \in WeeklySlot :
                         b.start % 2 = 0 /\ b.end % 2 = 0 /\ Overlap(s, b) => TimesOverlap(a, b)
  BY DEF Stored
<1>1. a \in WeeklySlot
  BY TimetableConstants
<1>2. PICK start \in Nat : start = a.start + (a.start % 2) /\ start % 2 = 0 /\ a.start <= start
  BY <1>1, StoredTime DEF WeeklySlot
<1>3. PICK end \in Nat : /\ end = a.end + (a.end % 2) /\ end % 2 = 0
                         /\ \A u \in Nat : u % 2 = 0 /\ u < end => u < a.end
  BY <1>1, StoredTime DEF WeeklySlot
<1>4. s = [a EXCEPT !.start = start, !.end = end]
  BY <1>1, <1>2, <1>3 DEF WeeklySlot
<1>5. /\ s \in WeeklySlot /\ s.start = start /\ s.end = end
      /\ s.weekday = a.weekday /\ s.room = a.room
  BY <1>1, <1>4 DEF WeeklySlot
<1>6. ASSUME NEW b \in WeeklySlot, b.start % 2 = 0, b.end % 2 = 0, Overlap(s, b)
      PROVE  TimesOverlap(a, b)
  <2>1. /\ a.start \in Nat /\ a.end \in Nat /\ b.start \in Nat /\ b.end \in Nat
        /\ start < b.end /\ b.start < end
    BY <1>1, <1>5, <1>6 DEF WeeklySlot, Overlap
  <2> QED
    BY <1>2, <1>3, <1>6, <2>1 DEF TimesOverlap
<1> QED
  BY <1>2, <1>3, <1>5, <1>6

\* Rows r and q do not meet in a room or with a teacher.
RowsApart(r, q, dated) ==
  Meet(r.range, q.range) /\ (dated \/ {r.range, q.range} = {<<Null, Null>>})
  => \A a \in r.slots, b \in q.slots :
       a.weekday = b.weekday /\ Overlap(a, b) =>
         ~Same(a.room, b.room) /\ ~Same(r.teacher, q.teacher)

\* Which of the two is looked at first makes no difference.
LEMMA ApartBoth ==
  ASSUME NEW r, NEW q, NEW dated, RowsApart(r, q, dated)
  PROVE  RowsApart(q, r, dated)
<1>1. Meet(r.range, q.range) <=> Meet(q.range, r.range)
  BY DEF Meet
<1>2. {r.range, q.range} = {q.range, r.range}
  OBVIOUS
<1>3. \A a, b : Overlap(a, b) <=> Overlap(b, a)
  BY DEF Overlap
<1>4. \A x, y : Same(x, y) <=> Same(y, x)
  BY DEF Same
<1> QED
  BY <1>1, <1>2, <1>3, <1>4 DEF RowsApart

\* Of two open classes that are not left out, as NoDoubleBooking says it
LEMMA Pair ==
  ASSUME NoDoubleBooking, NEW c \in ClassId, NEW d \in ClassId, c # d,
         class[c].status \in Open, class[d].status \in Open, c \notin unseen, d \notin unseen
  PROVE  RowsApart(class[c], class[d], textDates)
<1>1. {c, d} \cap unseen = {}
  OBVIOUS
<1> QED
  BY <1>1 DEF NoDoubleBooking, RowsApart

\* What the check finds no conflict for is apart from every other open class.
\* slots is what is asked for, or what the class has.
LEMMA CheckedApart ==
  ASSUME TimetableTyped, TimetableTyped', NEW c \in ClassId, NEW d \in ClassId, d # c,
         NEW slots,
         \/ slots \in Timetable /\ class'[c].slots = Stored(slots)
         \/ slots = class[c].slots /\ class'[c].slots = slots,
         class[d].status \in Open,
         ~Conflict(c, slots, class'[c].teacher, class'[c].range)
  PROVE  RowsApart(class'[c], class[d], textDates)
<1> DEFINE new == class'[c]
           old == class[d]
<1>1. ClassTyped(old) /\ ClassTyped(new) /\ new.range \in DateRange /\ old.range \in DateRange
  BY DEF TimetableTyped, ClassTyped
<1>2. SUFFICES ASSUME Meet(new.range, old.range),
                      textDates \/ {new.range, old.range} = {<<Null, Null>>},
                      NEW s \in new.slots, NEW b \in old.slots,
                      s.weekday = b.weekday, Overlap(s, b),
                      Same(s.room, b.room) \/ Same(new.teacher, old.teacher)
               PROVE  FALSE
  BY DEF RowsApart
<1>3. RangesOverlap(new.range, old.range)
  <2>1. CASE textDates
    BY <1>1, <1>2, <2>1 DEF RangesOverlap, Meet, DateRange
  <2>2. CASE {new.range, old.range} = {<<Null, Null>>}
    <3>1. old.range = <<Null, Null>>
      BY <2>2
    <3> QED
      BY <3>1 DEF RangesOverlap
  <2> QED
    BY <1>2, <2>1, <2>2
<1>4. /\ b \in WeeklySlot /\ b.start % 2 = 0 /\ b.end % 2 = 0
  BY <1>1, <1>2 DEF ClassTyped
<1>5. PICK a \in slots : a.weekday = s.weekday /\ a.room = s.room /\ TimesOverlap(a, b)
  <2>1. CASE slots \in Timetable /\ new.slots = Stored(slots)
    BY <1>2, <1>4, <2>1, StoredSlots
  <2>2. CASE new.slots = slots
    BY <1>2, <2>2 DEF Overlap, TimesOverlap
  <2> QED
    BY <2>1, <2>2
<1>6. Same(a.room, b.room) \/ Same(new.teacher, old.teacher)
  BY <1>2, <1>5
<1> QED
  BY <1>2, <1>3, <1>5, <1>6 DEF Conflict

\* A session with another teacher and another assistant
LEMMA Restaffed ==
  ASSUME NEW t, NEW r, NEW a, NEW b, NEW p, NEW q, NEW x,
         x = [[slot |-> t, range |-> r, teacher |-> a, assistant |-> b] EXCEPT
                !.teacher = p, !.assistant = q]
  PROVE  x = [slot |-> t, range |-> r, teacher |-> p, assistant |-> q]
<1>1. x \in [slot : {t}, range : {r}, teacher : {a, p}, assistant : {b, q}]
  OBVIOUS
<1>2. x.slot = t /\ x.range = r /\ x.teacher = p /\ x.assistant = q
  OBVIOUS
<1> QED
  BY <1>1, <1>2

\* The sessions a class plans are its lessons, with what it has beside them.
LEMMA SameSessions ==
  ASSUME NEW c \in ClassId, NEW row, planned[c] = Sessions(class[c]),
         ClassTyped(class[c]), ClassTyped(row),
         row.status = class[c].status, row.slots = class[c].slots,
         row.range = class[c].range \/ (row.status # "Active" /\ planned[c] = {}),
         NEW new, row.teacher = Value(new, class[c], "teacher"),
         row.assistant = Value(new, class[c], "assistant")
  PROVE  {[s EXCEPT !.teacher = Resync(s, new, "teacher"),
                    !.assistant = Resync(s, new, "assistant")] : s \in planned[c]} = Sessions(row)
<1> DEFINE old == class[c]
           Next(s) == [s EXCEPT !.teacher = Resync(s, new, "teacher"),
                                !.assistant = Resync(s, new, "assistant")]
<1>1. CASE row.status = "Active" /\ row.range[1] # Null
  <2>1. row.range = old.range
    BY <1>1
  <2>2. planned[c] = {[slot |-> s, range |-> old.range, teacher |-> old.teacher,
                       assistant |-> old.assistant] : s \in old.slots}
    BY <1>1, <2>1 DEF Sessions
  <2> DEFINE Was(t) == [slot |-> t, range |-> old.range, teacher |-> old.teacher,
                        assistant |-> old.assistant]
             Is(t) == [slot |-> t, range |-> row.range, teacher |-> row.teacher,
                       assistant |-> row.assistant]
  <2>3. ASSUME NEW t PROVE Next(Was(t)) = Is(t)
    <3>1. Resync(Was(t), new, "teacher") = row.teacher /\ Resync(Was(t), new, "assistant") = row.assistant
      BY DEF Resync, Value
    <3>2. Next(Was(t)) = [Was(t) EXCEPT !.teacher = row.teacher, !.assistant = row.assistant]
      BY <3>1
    <3>3. ASSUME NEW x, x = [Was(t) EXCEPT !.teacher = row.teacher, !.assistant = row.assistant]
          PROVE  x = Is(t)
      BY <2>1, <3>3, Restaffed
    <3> QED
      BY <3>2, <3>3
  <2>4. Sessions(row) = {Is(t) : t \in row.slots} /\ planned[c] = {Was(t) : t \in row.slots}
    BY <1>1, <2>2 DEF Sessions
  <2> HIDE DEF Next, Was, Is
  <2>5. ASSUME NEW s \in planned[c] PROVE Next(s) \in Sessions(row)
    BY <2>3, <2>4
  <2>6. ASSUME NEW x \in Sessions(row) PROVE \E s \in planned[c] : x = Next(s)
    BY <2>3, <2>4
  <2>7. {Next(s) : s \in planned[c]} = Sessions(row)
    BY <2>5, <2>6
  <2> QED
    BY <2>7 DEF Next
<1>2. CASE ~(row.status = "Active" /\ row.range[1] # Null)
  <2>1. planned[c] = {} /\ Sessions(row) = {}
    BY <1>2 DEF Sessions
  <2> QED
    BY <2>1
<1> QED
  BY <1>1, <1>2

\* A request that changes class c to row keeps the invariant if the sessions of
\* c are made again or changed along, and the check finds nothing, or it was
\* neither needed nor missed.
LEMMA RowSaved ==
  ASSUME TimetableInv, NEW c \in ClassId, NEW row, ClassTyped(row),
         class' = [class EXCEPT ![c] = row],
         planned' = [planned EXCEPT ![c] = Sessions(row)], UNCHANGED textDates,
         unseen \ {c} \subseteq unseen',
         \/ \E slots : /\ \/ slots \in Timetable /\ row.slots = Stored(slots)
                          \/ slots = class[c].slots /\ row.slots = slots
                       /\ ~Conflict(c, slots, row.teacher, row.range)
         \/ c \in unseen' \/ row.status \notin Open
         \/ /\ row.slots = class[c].slots /\ row.teacher = class[c].teacher
            /\ row.range = class[c].range /\ class[c].status \in Open
            /\ c \notin unseen
  PROVE  TimetableInv'
<1>1. /\ class'[c] = row /\ \A d \in ClassId \ {c} : class'[d] = class[d]
      /\ class' = [d \in ClassId |-> class'[d]]
      /\ planned'[c] = Sessions(row) /\ \A d \in ClassId \ {c} : planned'[d] = planned[d]
      /\ planned' = [d \in ClassId |-> planned'[d]]
  BY DEF TimetableInv, TimetableTyped
<1>2. TimetableTyped'
  <2>1. \A d \in ClassId : ClassTyped(class'[d])
    BY <1>1 DEF TimetableInv, TimetableTyped
  <2> QED
    BY <1>1, <2>1 DEF TimetableTyped
<1>3. SessionsFollowClass'
  BY <1>1 DEF TimetableInv, SessionsFollowClass
<1>4. ASSUME NEW d \in ClassId \ {c}, row.status \in Open, class[d].status \in Open,
             c \notin unseen', d \notin unseen'
      PROVE  RowsApart(row, class[d], textDates)
  <2>1. ASSUME NEW slots,
               \/ slots \in Timetable /\ row.slots = Stored(slots)
               \/ slots = class[c].slots /\ row.slots = slots,
               ~Conflict(c, slots, row.teacher, row.range)
        PROVE  RowsApart(row, class[d], textDates)
    <3>1. d \in ClassId /\ d # c
      OBVIOUS
    <3> QED
      BY <1>1, <1>2, <1>4, <2>1, <3>1, CheckedApart DEF TimetableInv
  <2>2. CASE /\ row.slots = class[c].slots /\ row.teacher = class[c].teacher
             /\ row.range = class[c].range /\ class[c].status \in Open
             /\ c \notin unseen
    <3>1. d \notin unseen
      BY <1>4
    <3>2. RowsApart(class[c], class[d], textDates)
      BY <1>4, <2>2, <3>1, Pair DEF TimetableInv
    <3> QED
      BY <2>2, <3>2 DEF RowsApart
  <2>3. CASE \E slots : /\ \/ slots \in Timetable /\ row.slots = Stored(slots)
                           \/ slots = class[c].slots /\ row.slots = slots
                        /\ ~Conflict(c, slots, row.teacher, row.range)
    <3>1. PICK slots : /\ \/ slots \in Timetable /\ row.slots = Stored(slots)
                          \/ slots = class[c].slots /\ row.slots = slots
                       /\ ~Conflict(c, slots, row.teacher, row.range)
      BY <2>3
    <3> QED
      BY <2>1, <3>1
  <2> QED
    BY <1>4, <2>2, <2>3
<1>5. NoDoubleBooking'
  <2>1. ASSUME NEW e \in ClassId, NEW d \in ClassId, e # d,
               class'[e].status \in Open, class'[d].status \in Open,
               e \notin unseen', d \notin unseen'
        PROVE  RowsApart(class'[e], class'[d], textDates)
    <3>1. CASE e = c
      BY <1>1, <1>4, <2>1, <3>1
    <3>2. CASE d = c
      <4>1. RowsApart(class'[d], class'[e], textDates)
        BY <1>1, <1>4, <2>1, <3>2
      <4> QED
        BY <4>1, ApartBoth
    <3>3. CASE e # c /\ d # c
      BY <1>1, <2>1, <3>3, Pair DEF TimetableInv
    <3> QED
      BY <3>1, <3>2, <3>3
  <2>2. \A e, d : {e, d} \cap unseen' = {} => e \notin unseen' /\ d \notin unseen'
    OBVIOUS
  <2> QED
    BY <2>1, <2>2 DEF NoDoubleBooking, RowsApart
<1> QED
  BY <1>2, <1>3, <1>5 DEF TimetableInv

\* A class is created.
LEMMA CreateClassKeeps ==
  ASSUME TimetableInv, NEW c \in ClassId, NEW slots \in Timetable, NEW teacher, NEW assistant,
         NEW range \in ClassRange, NEW status,
         CreateClass(c, [status |-> status, teacher |-> teacher, assistant |-> assistant,
                         range |-> range, slots |-> slots])
  PROVE  TimetableInv'
<1> DEFINE asked == [status |-> status, teacher |-> teacher, assistant |-> assistant,
                     range |-> range, slots |-> slots]
           row == [asked EXCEPT !.slots = Stored(@)]
<1>1. /\ row = [status |-> status, teacher |-> teacher, assistant |-> assistant,
                range |-> range, slots |-> Stored(slots)]
      /\ row.status = status /\ row.teacher = teacher /\ row.range = range
      /\ row.slots = Stored(slots) /\ row.assistant = assistant
  OBVIOUS
<1>2. ClassTyped(row)
  BY <1>1, StoredSlots, TimetableConstants DEF ClassTyped, DateRange
<1>3. /\ class' = [class EXCEPT ![c] = row] /\ planned' = [planned EXCEPT ![c] = Sessions(row)]
      /\ UNCHANGED <<unseen, textDates>> /\ ~Conflict(c, slots, teacher, range)
  BY DEF CreateClass
<1> HIDE DEF row
<1> QED
  BY <1>1, <1>2, <1>3, RowSaved

\* The row an update saves
LEMMA UpdatedRow ==
  ASSUME NEW old, ClassTyped(old), NEW new \in Request
  PROVE  /\ ClassTyped(Updated(old, new))
         /\ Updated(old, new).slots =
              IF Asked(new, "slots") THEN Stored(new.slots) ELSE old.slots
         /\ \A f \in {"status", "teacher", "assistant", "range"} :
              Updated(old, new)[f] = Value(new, old, f)
<1> DEFINE row == Updated(old, new)
<1>1. DOMAIN old = {"status", "teacher", "assistant", "range", "slots"}
  BY DEF ClassTyped
<1>2. row = [f \in {"status", "teacher", "assistant", "range", "slots"} |->
               IF f = "slots" /\ Asked(new, f) THEN Stored(new[f]) ELSE Value(new, old, f)]
  BY <1>1 DEF Updated
<1> HIDE DEF row
<1>3. /\ row.slots = IF Asked(new, "slots") THEN Stored(new.slots) ELSE old.slots
      /\ \A f \in {"status", "teacher", "assistant", "range"} : row[f] = Value(new, old, f)
  BY <1>2 DEF Value
<1>4. row = [status |-> row.status, teacher |-> row.teacher, assistant |-> row.assistant,
             range |-> row.range, slots |-> row.slots]
  BY <1>2
<1>5. row.range \in DateRange
  <2>1. row.range = IF Asked(new, "range") THEN new.range ELSE old.range
    BY <1>3 DEF Value
  <2> QED
    BY <2>1, TimetableConstants DEF Asked, ClassTyped, DateRange
<1>6. row.slots \subseteq WeeklySlot /\ \A s \in row.slots : s.start % 2 = 0 /\ s.end % 2 = 0
  <2>1. CASE Asked(new, "slots")
    <3>1. new.slots \in Timetable
      BY <2>1, TimetableConstants DEF Asked
    <3> QED
      BY <1>3, <2>1, <3>1, StoredSlots
  <2>2. CASE ~Asked(new, "slots")
    BY <1>3, <2>2 DEF ClassTyped
  <2> QED
    BY <2>1, <2>2
<1>7. ClassTyped(row)
  BY <1>4, <1>5, <1>6 DEF ClassTyped
<1> QED
  BY <1>3, <1>7 DEF row

\* A class is updated.
LEMMA UpdateClassKeeps ==
  ASSUME TimetableInv, NEW c \in ClassId, NEW new \in Request, UpdateClass(c, new)
  PROVE  TimetableInv'
<1> DEFINE old == class[c]
           row == Updated(old, new)
           again == \/ Asked(new, "slots") \/ row.status # old.status
                    \/ Asked(new, "range") /\ (row.status = "Active" \/ planned[c] # {})
<1>1. ClassTyped(old) /\ planned[c] = Sessions(old) /\ planned = [d \in ClassId |-> planned[d]]
  BY DEF TimetableInv, TimetableTyped, SessionsFollowClass
<1>2. /\ ClassTyped(row)
      /\ row.slots = IF Asked(new, "slots") THEN Stored(new.slots) ELSE old.slots
      /\ row.status = Value(new, old, "status") /\ row.teacher = Value(new, old, "teacher")
      /\ row.assistant = Value(new, old, "assistant") /\ row.range = Value(new, old, "range")
  BY <1>1, UpdatedRow
<1>3. /\ class' = [class EXCEPT ![c] = row] /\ UNCHANGED textDates
      /\ planned' = [planned EXCEPT ![c] =
           IF again THEN Sessions(row)
           ELSE {[s EXCEPT !.teacher = Resync(s, new, "teacher"),
                           !.assistant = Resync(s, new, "assistant")] : s \in @}]
      /\ Checks(new) => ~Conflict(c, Value(new, old, "slots"), row.teacher, row.range)
      /\ unseen' = IF Checks(new) THEN unseen \ {c}
                   ELSE IF old.status \notin Open /\ row.status \in Open THEN unseen \union {c}
                   ELSE unseen
  BY DEF UpdateClass
<1> HIDE DEF row
<1>4. planned' = [planned EXCEPT ![c] = Sessions(row)]
  <2>1. CASE again
    BY <1>3, <2>1
  <2>2. CASE ~again
    <3>1. /\ row.status = old.status /\ row.slots = old.slots
          /\ row.range = old.range \/ (row.status # "Active" /\ planned[c] = {})
      BY <1>2, <2>2 DEF Value
    <3>2. {[s EXCEPT !.teacher = Resync(s, new, "teacher"),
                     !.assistant = Resync(s, new, "assistant")] : s \in planned[c]} = Sessions(row)
      BY <1>1, <1>2, <3>1, SameSessions
    <3>3. planned' = [planned EXCEPT ![c] =
            {[s EXCEPT !.teacher = Resync(s, new, "teacher"),
                       !.assistant = Resync(s, new, "assistant")] : s \in planned[c]}]
      BY <1>1, <1>3, <2>2
    <3> QED
      BY <3>2, <3>3
  <2> QED
    BY <2>1, <2>2
<1>5. unseen \ {c} \subseteq unseen'
  BY <1>3
<1>6. CASE Checks(new)
  <2> DEFINE slots == Value(new, old, "slots")
  <2>1. \/ slots \in Timetable /\ row.slots = Stored(slots)
        \/ slots = old.slots /\ row.slots = slots
    BY <1>2, TimetableConstants DEF Value, Asked
  <2>2. ~Conflict(c, slots, row.teacher, row.range)
    BY <1>3, <1>6
  <2> HIDE DEF slots
  <2>3. \E t : /\ \/ t \in Timetable /\ row.slots = Stored(t)
                  \/ t = old.slots /\ row.slots = t
               /\ ~Conflict(c, t, row.teacher, row.range)
    BY <2>1, <2>2
  <2> QED
    BY <1>2, <1>3, <1>4, <1>5, <2>3, RowSaved
<1>7. CASE ~Checks(new)
  <2>1. row.slots = old.slots /\ row.teacher = old.teacher /\ row.range = old.range
    BY <1>2, <1>7 DEF Checks, Value
  <2>2. unseen' = IF old.status \notin Open /\ row.status \in Open THEN unseen \union {c} ELSE unseen
    BY <1>3, <1>7
  <2>3. c \in unseen' \/ row.status \notin Open \/ (old.status \in Open /\ c \notin unseen)
    BY <2>2
  <2> QED
    BY <1>2, <1>3, <1>4, <1>5, <2>1, <2>3, RowSaved
<1> QED
  BY <1>6, <1>7

\* The invariant holds at first.
LEMMA TimetableStarts == TimetableInit => TimetableInv
<1> SUFFICES ASSUME TimetableInit PROVE TimetableInv
  OBVIOUS
<1>1. /\ class = [c \in ClassId |-> NoClass] /\ planned = [c \in ClassId |-> {}]
  BY DEF TimetableInit
<1>2. NoClass.status = "none" /\ ClassTyped(NoClass) /\ Sessions(NoClass) = {}
  BY DEF NoClass, ClassTyped, DateRange, Sessions
<1>3. TimetableTyped /\ SessionsFollowClass
  BY <1>1, <1>2 DEF TimetableTyped, SessionsFollowClass
<1>4. NoDoubleBooking
  BY <1>1, <1>2 DEF NoDoubleBooking, Open
<1> QED
  BY <1>3, <1>4 DEF TimetableInv

\* Every request keeps it.
LEMMA TimetableKeeps == TimetableInv /\ [TimetableNext]_timetableVars => TimetableInv'
<1> SUFFICES ASSUME TimetableInv, [TimetableNext]_timetableVars PROVE TimetableInv'
  OBVIOUS
<1>1. CASE TimetableNext
  BY <1>1, CreateClassKeeps, UpdateClassKeeps DEF TimetableNext
<1>2. CASE UNCHANGED timetableVars
  BY <1>2 DEF timetableVars, TimetableInv, TimetableTyped, SessionsFollowClass, NoDoubleBooking
<1> QED
  BY <1>1, <1>2

\* NoDoubleBooking: for any classes, timetables, rooms and requests, classes that
\* are open at the same time share neither a room nor a main teacher.
THEOREM NothingBookedTwice == TimetableSpec => []NoDoubleBooking
<1>1. TimetableInv => NoDoubleBooking
  BY DEF TimetableInv
<1> QED
  BY <1>1, TimetableStarts, TimetableKeeps, PTL DEF TimetableSpec

\* SessionsFollowClass: for any classes and requests, the sessions to come are
\* those of the class as it is now.
THEOREM PlanFollowsClass == TimetableSpec => []SessionsFollowClass
<1>1. TimetableInv => SessionsFollowClass
  BY DEF TimetableInv
<1> QED
  BY <1>1, TimetableStarts, TimetableKeeps, PTL DEF TimetableSpec

-----------------------------------------------------------------------------
(* Courses                                                                 *)

\* What a request holds at the steps that use it.  A level that is being deleted
\* had no class when the request began.
DeskHolds(d) ==
  /\ DOMAIN desk[d] = DOMAIN FreeDesk
  /\ desk[d].step \in {"levels", "purge", "rewrite"} => desk[d].course \in CourseId
  /\ desk[d].step = "prices" => desk[d].prices \subseteq PriceKind
  /\ desk[d].step \in {"sessions", "unprice", "unlevel"} => desk[d].level \notin desk[d].used

CourseInv ==
  /\ courses \subseteq CourseId
  /\ level \in [LevelId -> LevelRow \union {NoCourse}]
  /\ desk = [d \in Desk |-> desk[d]] /\ \A d \in Desk : DeskHolds(d)

Rest(row) ==
  /\ row.step \in {"levels", "purge", "rewrite"} => row.course \in CourseId
  /\ row.step = "prices" => row.prices \subseteq PriceKind
  /\ row.step \in {"sessions", "unprice", "unlevel"} => row.level \notin row.used

\* A request goes on with a row that holds what its step uses.
LEMMA DeskKeeps ==
  ASSUME CourseInv, NEW d \in Desk, NEW row, DOMAIN row = DOMAIN FreeDesk, Rest(row),
         desk' = [desk EXCEPT ![d] = row], courses' \subseteq CourseId,
         level' \in [LevelId -> LevelRow \union {NoCourse}]
  PROVE  CourseInv'
<1>1. desk'[d] = row /\ \A e \in Desk \ {d} : desk'[e] = desk[e]
  BY DEF CourseInv
<1>2. desk' = [e \in Desk |-> desk'[e]]
  BY DEF CourseInv
<1>3. \A e \in Desk : DeskHolds(e)'
  BY <1>1 DEF CourseInv, DeskHolds, Rest
<1> QED
  BY <1>2, <1>3 DEF CourseInv

\* A request that ends
LEMMA EndKeeps ==
  ASSUME CourseInv, NEW d \in Desk, End(d), courses' \subseteq CourseId,
         level' \in [LevelId -> LevelRow \union {NoCourse}]
  PROVE  CourseInv'
<1>1. Rest(FreeDesk)
  BY DEF Rest, FreeDesk
<1> QED
  BY <1>1, DeskKeeps DEF End

\* The fields of a row a request begins or goes on with
LEMMA DeskFields ==
  ASSUME NEW fields, NEW old, DOMAIN old = DOMAIN FreeDesk, NEW row,
         row = [f \in DOMAIN FreeDesk |-> IF f \in DOMAIN fields THEN fields[f] ELSE old[f]]
  PROVE  /\ DOMAIN row = DOMAIN FreeDesk
         /\ \A f \in {"step", "course", "level", "more", "prices", "used"} :
              row[f] = IF f \in DOMAIN fields THEN fields[f] ELSE old[f]
  BY DEF FreeDesk

\* The fields of a request that begins
LEMMA BeginFields ==
  ASSUME NEW fields, NEW row,
         row = [f \in DOMAIN FreeDesk |->
                  IF f = "used" THEN InUse
                  ELSE IF f \in DOMAIN fields THEN fields[f] ELSE FreeDesk[f]]
  PROVE  /\ DOMAIN row = DOMAIN FreeDesk /\ row.used = InUse
         /\ \A f \in {"step", "course", "level", "more", "prices"} :
              row[f] = IF f \in DOMAIN fields THEN fields[f] ELSE FreeDesk[f]
  BY DEF FreeDesk

\* A request that begins
LEMMA BeginKeeps ==
  ASSUME CourseInv, NEW d \in Desk, NEW fields, Begin(d, fields), "step" \in DOMAIN fields,
         fields.step \in {"levels", "purge", "rewrite"} =>
           "course" \in DOMAIN fields /\ fields.course \in CourseId,
         fields.step = "prices" => "prices" \in DOMAIN fields /\ fields.prices \subseteq PriceKind,
         fields.step \in {"sessions", "unprice", "unlevel"} =>
           "level" \in DOMAIN fields /\ fields.level \notin InUse,
         courses' \subseteq CourseId, level' \in [LevelId -> LevelRow \union {NoCourse}]
  PROVE  CourseInv'
<1> DEFINE row == [f \in DOMAIN FreeDesk |->
                     IF f = "used" THEN InUse
                     ELSE IF f \in DOMAIN fields THEN fields[f] ELSE FreeDesk[f]]
<1>1. desk' = [desk EXCEPT ![d] = row]
  BY DEF Begin
<1>2. /\ DOMAIN row = DOMAIN FreeDesk /\ row.used = InUse
      /\ \A f \in {"step", "course", "level", "more", "prices"} :
           row[f] = IF f \in DOMAIN fields THEN fields[f] ELSE FreeDesk[f]
  BY BeginFields
<1> HIDE DEF row
<1>3. /\ row.step = fields.step
      /\ "course" \in DOMAIN fields => row.course = fields.course
      /\ "prices" \in DOMAIN fields => row.prices = fields.prices
      /\ "level" \in DOMAIN fields => row.level = fields.level
  BY <1>2
<1>4. Rest(row)
  BY <1>2, <1>3 DEF Rest
<1> QED
  BY <1>1, <1>2, <1>4, DeskKeeps

\* A request that goes on with its next step
LEMMA StepKeeps ==
  ASSUME CourseInv, NEW d \in Desk, NEW next, Step(d, [step |-> next]),
         next \in {"levels", "purge", "rewrite"} => desk[d].course \in CourseId,
         next = "prices" => desk[d].prices \subseteq PriceKind,
         next \in {"sessions", "unprice", "unlevel"} => desk[d].level \notin desk[d].used,
         courses' \subseteq CourseId, level' \in [LevelId -> LevelRow \union {NoCourse}]
  PROVE  CourseInv'
<1> DEFINE fields == [step |-> next]
           row == [f \in DOMAIN FreeDesk |-> IF f \in DOMAIN fields THEN fields[f] ELSE desk[d][f]]
<1>1. desk' = [desk EXCEPT ![d] = row]
  BY DEF Step
<1>2. /\ DOMAIN row = DOMAIN FreeDesk
      /\ \A f \in {"step", "course", "level", "more", "prices", "used"} :
           row[f] = IF f \in DOMAIN fields THEN fields[f] ELSE desk[d][f]
  BY DeskFields DEF CourseInv, DeskHolds
<1> HIDE DEF row
<1>3. /\ row.step = next /\ row.course = desk[d].course /\ row.prices = desk[d].prices
      /\ row.level = desk[d].level /\ row.used = desk[d].used
  BY <1>2
<1>4. Rest(row)
  BY <1>3 DEF Rest
<1> QED
  BY <1>1, <1>2, <1>4, DeskKeeps

\* A request that saves one more level
LEMMA CountdownKeeps ==
  ASSUME CourseInv, NEW d \in Desk, NEW n, Step(d, [more |-> n]),
         courses' \subseteq CourseId, level' \in [LevelId -> LevelRow \union {NoCourse}]
  PROVE  CourseInv'
<1> DEFINE fields == [more |-> n]
           row == [f \in DOMAIN FreeDesk |-> IF f \in DOMAIN fields THEN fields[f] ELSE desk[d][f]]
<1>1. desk' = [desk EXCEPT ![d] = row]
  BY DEF Step
<1>2. /\ DOMAIN row = DOMAIN FreeDesk
      /\ \A f \in {"step", "course", "level", "more", "prices", "used"} :
           row[f] = IF f \in DOMAIN fields THEN fields[f] ELSE desk[d][f]
  BY DeskFields DEF CourseInv, DeskHolds
<1> HIDE DEF row
<1>3. /\ row.step = desk[d].step /\ row.course = desk[d].course /\ row.prices = desk[d].prices
      /\ row.level = desk[d].level /\ row.used = desk[d].used
  BY <1>2
<1>4. Rest(row)
  BY <1>3 DEF Rest, CourseInv, DeskHolds
<1> QED
  BY <1>1, <1>2, <1>4, DeskKeeps

\* Whether the level's rows are those the tables can hold
LEMMA LevelsTyped ==
  ASSUME CourseInv, NEW l \in LevelId, NEW row \in LevelRow \union {NoCourse},
         level' = [level EXCEPT ![l] = row]
  PROVE  level' \in [LevelId -> LevelRow \union {NoCourse}]
  BY DEF CourseInv

\* An id in use is the id of a saved level.
LEMMA SavedRow ==
  ASSUME CourseInv, NEW l \in SavedLevels
  PROVE  l \in LevelId /\ level[l] \in LevelRow
  BY DEF CourseInv, SavedLevels

\* Creating a course: its levels follow
LEMMA CreateCourseKeeps ==
  ASSUME CourseInv, NEW d \in Desk, NEW q \in CourseId, NEW more \in 0..2,
         CreateCourse(d, q, more)
  PROVE  CourseInv'
<1>1. /\ courses' \subseteq CourseId /\ level' \in [LevelId -> LevelRow \union {NoCourse}]
      /\ Begin(d, [step |-> "levels", course |-> q, more |-> more])
  BY DEF CreateCourse, CourseInv
<1> QED
  BY <1>1, BeginKeeps

\* Updating a course: its levels are rewritten
LEMMA UpdateCourseKeeps ==
  ASSUME CourseInv, NEW d \in Desk, NEW q \in CourseId, NEW more \in 0..2,
         UpdateCourse(d, q, more)
  PROVE  CourseInv'
<1>1. /\ courses' \subseteq CourseId /\ level' \in [LevelId -> LevelRow \union {NoCourse}]
      /\ Begin(d, [step |-> "purge", course |-> q, more |-> more])
  BY DEF UpdateCourse, CourseInv
<1> QED
  BY <1>1, BeginKeeps

\* Deleting the levels of a course that is updated
LEMMA PurgeLevelsKeeps ==
  ASSUME CourseInv, NEW d \in Desk, PurgeLevels(d)
  PROVE  CourseInv'
<1>1. courses' \subseteq CourseId /\ level' \in [LevelId -> LevelRow \union {NoCourse}]
  BY DEF PurgeLevels, CourseInv
<1>2. desk[d].course \in CourseId
  BY DEF PurgeLevels, CourseInv, DeskHolds
<1>3. Step(d, [step |-> "levels"]) \/ End(d)
  BY DEF PurgeLevels
<1> QED
  BY <1>1, <1>2, <1>3, StepKeeps, EndKeeps

\* Saving the next level of a course
LEMMA SaveLevelKeeps ==
  ASSUME CourseInv, NEW d \in Desk, NEW l \in LevelId, SaveLevel(d, l)
  PROVE  CourseInv'
<1>1. [course |-> desk[d].course, prices |-> {}] \in LevelRow
  BY DEF SaveLevel, CourseInv, DeskHolds, LevelRow
<1>2. courses' \subseteq CourseId /\ level' \in [LevelId -> LevelRow \union {NoCourse}]
  BY <1>1, LevelsTyped DEF SaveLevel, CourseInv
<1> QED
  BY <1>2, CountdownKeeps DEF SaveLevel

\* Adding a level to a course
LEMMA AddLevelKeeps ==
  ASSUME CourseInv, NEW d \in Desk, NEW q \in CourseId, NEW l \in LevelId,
         NEW prices \in SUBSET PriceKind, AddLevel(d, q, l, prices)
  PROVE  CourseInv'
<1>1. [course |-> q, prices |-> {}] \in LevelRow
  BY DEF LevelRow
<1>2. courses' \subseteq CourseId /\ level' \in [LevelId -> LevelRow \union {NoCourse}]
  BY <1>1, LevelsTyped DEF AddLevel, CourseInv
<1>3. CASE prices = {}
  BY <1>2, <1>3 DEF AddLevel, CourseInv, DeskHolds
<1>4. CASE Begin(d, [step |-> "prices", level |-> l, prices |-> prices])
  BY <1>2, <1>4, BeginKeeps
<1> QED
  BY <1>3, <1>4 DEF AddLevel

\* Saving the prices of a level
LEMMA SavePricesKeeps ==
  ASSUME CourseInv, NEW d \in Desk, SavePrices(d)
  PROVE  CourseInv'
<1>1. desk[d].prices \subseteq PriceKind
  BY DEF SavePrices, CourseInv, DeskHolds
<1>2. ASSUME NEW l \in SavedLevels
      PROVE  [level[l] EXCEPT !.prices = @ \union desk[d].prices] \in LevelRow
  BY <1>1, SavedRow DEF LevelRow
<1>3. courses' \subseteq CourseId /\ level' \in [LevelId -> LevelRow \union {NoCourse}]
  BY <1>2 DEF SavePrices, CourseInv
<1> QED
  BY <1>3, EndKeeps DEF SavePrices

\* Updating a level
LEMMA UpdateLevelKeeps ==
  ASSUME CourseInv, NEW d \in Desk, NEW l \in LevelId, UpdateLevel(d, l)
  PROVE  CourseInv'
<1>1. level[l].course \in CourseId
  BY SavedRow DEF UpdateLevel, LevelRow
<1>2. /\ courses' \subseteq CourseId /\ level' \in [LevelId -> LevelRow \union {NoCourse}]
      /\ Begin(d, [step |-> "rewrite", level |-> l, course |-> level[l].course])
  BY DEF UpdateLevel, CourseInv
<1> QED
  BY <1>1, <1>2, BeginKeeps

\* Rewriting the row of a level that is updated
LEMMA RewriteLevelKeeps ==
  ASSUME CourseInv, NEW d \in Desk, RewriteLevel(d)
  PROVE  CourseInv'
<1>1. [course |-> desk[d].course, prices |-> {}] \in LevelRow
  BY DEF RewriteLevel, CourseInv, DeskHolds, LevelRow
<1>2. courses' \subseteq CourseId /\ level' \in [LevelId -> LevelRow \union {NoCourse}]
  BY <1>1 DEF RewriteLevel, CourseInv, SavedLevels
<1> QED
  BY <1>2, EndKeeps DEF RewriteLevel

\* A deletion begins when no class has the level.
LEMMA DeleteLevelKeeps ==
  ASSUME CourseInv, NEW d \in Desk, NEW l \in LevelId, DeleteLevel(d, l)
  PROVE  CourseInv'
<1>1. l \notin InUse
  BY DEF DeleteLevel, NoClassUses, InUse
<1>2. /\ courses' \subseteq CourseId /\ level' \in [LevelId -> LevelRow \union {NoCourse}]
      /\ Begin(d, [step |-> "sessions", level |-> l])
  BY DEF DeleteLevel, CourseInv
<1> QED
  BY <1>1, <1>2, BeginKeeps

\* Looking for the sessions of a level that is to be deleted
LEMMA CountSessionsKeeps ==
  ASSUME CourseInv, NEW d \in Desk, CountSessions(d)
  PROVE  CourseInv'
<1>1. courses' \subseteq CourseId /\ level' \in [LevelId -> LevelRow \union {NoCourse}]
  BY DEF CountSessions, CourseInv
<1>2. desk[d].level \notin desk[d].used
  BY DEF CountSessions, CourseInv, DeskHolds
<1> QED
  BY <1>1, <1>2, StepKeeps, EndKeeps DEF CountSessions

\* Deleting the prices of a level, which no class had
LEMMA DeletePricesKeeps ==
  ASSUME CourseInv, NEW d \in Desk, DeletePrices(d)
  PROVE  CourseInv'
<1>1. ASSUME NEW l \in SavedLevels
      PROVE  [level[l] EXCEPT !.prices = {}] \in LevelRow
  BY SavedRow DEF LevelRow
<1>2. courses' \subseteq CourseId /\ level' \in [LevelId -> LevelRow \union {NoCourse}]
  BY <1>1 DEF DeletePrices, CourseInv
<1>3. desk[d].level \notin desk[d].used
  BY DEF DeletePrices, CourseInv, DeskHolds
<1> QED
  BY <1>2, <1>3, StepKeeps DEF DeletePrices

\* Deleting the level itself
LEMMA DropLevelKeeps ==
  ASSUME CourseInv, NEW d \in Desk, DropLevel(d)
  PROVE  CourseInv'
<1>1. courses' \subseteq CourseId /\ level' \in [LevelId -> LevelRow \union {NoCourse}]
  BY DEF DropLevel, CourseInv
<1> QED
  BY <1>1, EndKeeps DEF DropLevel

\* The first state
LEMMA CourseStarts == CourseInit => CourseInv
<1> SUFFICES ASSUME CourseInit PROVE CourseInv
  OBVIOUS
<1>1. \A d \in Desk : desk[d] = FreeDesk
  BY DEF CourseInit
<1>2. \A d \in Desk : DeskHolds(d)
  BY <1>1 DEF DeskHolds, FreeDesk
<1> QED
  BY <1>2 DEF CourseInit, CourseInv

\* Every step of the course screens
LEMMA CourseKeeps == CourseInv /\ [CourseNext]_courseVars => CourseInv'
<1> SUFFICES ASSUME CourseInv, [CourseNext]_courseVars PROVE CourseInv'
  OBVIOUS
<1>1. ASSUME NEW d \in Desk, NEW q \in CourseId, NEW more \in 0..2,
             CreateCourse(d, q, more) \/ UpdateCourse(d, q, more)
      PROVE  CourseInv'
  BY <1>1, CreateCourseKeeps, UpdateCourseKeeps
<1>2. ASSUME NEW d \in Desk, NEW q \in CourseId, NEW l \in LevelId,
             NEW prices \in SUBSET PriceKind, AddLevel(d, q, l, prices)
      PROVE  CourseInv'
  BY <1>2, AddLevelKeeps
<1>3. ASSUME NEW d \in Desk, NEW l \in LevelId,
             SaveLevel(d, l) \/ UpdateLevel(d, l) \/ DeleteLevel(d, l)
      PROVE  CourseInv'
  BY <1>3, SaveLevelKeeps, UpdateLevelKeeps, DeleteLevelKeeps
<1>4. ASSUME NEW d \in Desk, LevelsSaved(d)
      PROVE  CourseInv'
  <2>1. courses' \subseteq CourseId /\ level' \in [LevelId -> LevelRow \union {NoCourse}]
    BY <1>4 DEF LevelsSaved, CourseInv
  <2> QED
    BY <1>4, <2>1, EndKeeps DEF LevelsSaved
<1>5. ASSUME NEW d \in Desk,
             \/ PurgeLevels(d) \/ SavePrices(d) \/ RewriteLevel(d)
             \/ CountSessions(d) \/ DeletePrices(d) \/ DropLevel(d)
      PROVE  CourseInv'
  BY <1>5, PurgeLevelsKeeps, SavePricesKeeps, RewriteLevelKeeps,
     CountSessionsKeeps, DeletePricesKeeps, DropLevelKeeps
<1>6. CASE UNCHANGED <<courses, level, desk>>
  BY <1>6 DEF CourseInv, DeskHolds
<1>7. ASSUME NEW c \in RoomClass, PlanLessons(c) \/ \E l \in LevelId : UseLevel(c, l)
      PROVE  CourseInv'
  BY <1>7, <1>6 DEF PlanLessons, UseLevel
<1> QED
  BY <1>1, <1>2, <1>3, <1>4, <1>5, <1>6, <1>7 DEF CourseNext, courseVars

\* Whose prices a statement takes
LEMMA PricesTaken ==
  ASSUME CourseInv, [CourseNext]_courseVars, NEW l \in LevelId, ~(Prices(l) \subseteq Prices(l)')
  PROVE  \E d \in Desk :
           \/ desk[d].step = "purge" /\ l \notin InUse
           \/ desk[d].step \in {"unprice", "unlevel"} /\ l \notin desk[d].used
<1>1. /\ level[l] # NoCourse
      /\ ~(/\ level'[l] # NoCourse
           /\ level[l].prices \subseteq level'[l].prices)
  BY DEF Prices, SavedLevels
<1>2. level[l] \in LevelRow
  BY <1>1 DEF CourseInv
<1>3. ASSUME level'[l] = level[l] PROVE FALSE
  BY <1>1, <1>3
<1>4. ASSUME NEW d \in Desk, PurgeLevels(d)
      PROVE  desk[d].step = "purge" /\ l \notin InUse
  BY <1>3, <1>4 DEF PurgeLevels
<1>5. ASSUME NEW d \in Desk, NEW k \in LevelId, SaveLevel(d, k)
      PROVE  FALSE
  BY <1>1, <1>3, <1>5 DEF SaveLevel, NewLevel, CourseInv
<1>6. ASSUME NEW d \in Desk, NEW q \in CourseId, NEW k \in LevelId,
             NEW prices \in SUBSET PriceKind, AddLevel(d, q, k, prices)
      PROVE  FALSE
  BY <1>1, <1>3, <1>6 DEF AddLevel, NewLevel, CourseInv
<1>7. ASSUME NEW d \in Desk, SavePrices(d)
      PROVE  FALSE
  <2> DEFINE row == [level[l] EXCEPT !.prices = @ \union desk[d].prices]
  <2>1. row.prices = level[l].prices \union desk[d].prices /\ row \in LevelRow
    BY <1>2, <1>7 DEF LevelRow, SavePrices, CourseInv, DeskHolds
  <2>2. level'[l] = row
    BY <1>3, <1>7 DEF SavePrices
  <2> HIDE DEF row
  <2> QED
    BY <1>1, <2>1, <2>2, CourseConstants
<1>8. ASSUME NEW d \in Desk, RewriteLevel(d)
      PROVE  FALSE
  BY <1>1, <1>3, <1>8 DEF RewriteLevel, SavedLevels, CourseInv
<1>9. ASSUME NEW d \in Desk, DeletePrices(d)
      PROVE  desk[d].step = "unprice" /\ l \notin desk[d].used
  BY <1>3, <1>9 DEF DeletePrices, CourseInv, DeskHolds
<1>10. ASSUME NEW d \in Desk, DropLevel(d)
       PROVE  desk[d].step = "unlevel" /\ l \notin desk[d].used
  BY <1>3, <1>10 DEF DropLevel, CourseInv, DeskHolds
<1>11. ASSUME UNCHANGED level PROVE FALSE
  BY <1>3, <1>11
<1> QED
  BY <1>4, <1>5, <1>6, <1>7, <1>8, <1>9, <1>10, <1>11
     DEF CourseNext, courseVars, CreateCourse, UpdateCourse, UpdateLevel, DeleteLevel,
         LevelsSaved, CountSessions, PlanLessons, UseLevel

\* The prices of a level in use survive every request that did not find the level
\* without classes: course.controller's updates and deletions, statement by statement.
THEOREM UsedLevelsKeepPrices == CourseSpec => UsedLevelKeepsPrices
<1>1. CourseSpec => []CourseInv
  BY CourseStarts, CourseKeeps, PTL DEF CourseSpec
<1>2. CourseInv /\ [CourseNext]_courseVars =>
        [\A l \in LevelId :
           ~(Prices(l) \subseteq Prices(l)') =>
             \E d \in Desk :
               \/ desk[d].step = "purge" /\ l \notin InUse
               \/ desk[d].step \in {"unprice", "unlevel"} /\ l \notin desk[d].used]_courseVars
  BY PricesTaken
<1> QED
  BY <1>1, <1>2, PTL DEF CourseSpec, UsedLevelKeepsPrices

-----------------------------------------------------------------------------
(* Monthly bills                                                           *)

\* The rows of this screen, while it settles the months in their order: the dates
\* of a row end in its month, a payee has one row of a month, and a later month
\* starts after the dates of every earlier one.
OwnSlips == {w \in slip : ~w.period}

SlipDated(w) ==
  /\ w.month \in SlipMonth
  /\ IF w.to = Unknown THEN w.lessons = {}
     ELSE /\ w.to \in LessonDay /\ MonthOf[w.to] = w.month /\ w.from \in Nat
          /\ \A l \in w.lessons : l.day \in w.from..w.to

MonthsInOrder ==
  orderly =>
    /\ \A w \in OwnSlips : SlipDated(w)
    /\ \A v, w \in OwnSlips : v.who = w.who /\ v.month = w.month => v = w
    /\ \A v, w \in OwnSlips :
         v.month < w.month /\ v.to # Unknown /\ w.to # Unknown => v.to < w.from

MonthInv == clock \in LessonDay /\ MonthsInOrder

\* A set of numbers has a least one,
LEMMA LeastOne ==
  ASSUME NEW T, T \subseteq Nat, T # {}
  PROVE  Min(T) \in T /\ \A x \in T : Min(T) <= x
<1>1. PICK x \in T : \A y \in T : <<y, x>> \notin OpToRel(<, Nat)
  BY WFMin, NatLessThanWellFounded, Zenon
<1>2. x \in Nat /\ \A y \in T : y \in Nat /\ ~(y < x)
  BY <1>1, Zenon DEF OpToRel
<1>3. \A y \in T : x <= y
  BY <1>2
<1> QED
  BY <1>3 DEF Min

\* and one that is bounded a greatest one.
LEMMA GreatestOne ==
  ASSUME NEW T, T \subseteq Nat, T # {}, NEW last \in Nat, \A x \in T : x <= last
  PROVE  Max(T) \in T /\ \A x \in T : x <= Max(T)
<1>1. \A x \in T : x \in Nat
  OBVIOUS
<1> DEFINE D == {last - x : x \in T}
<1>2. D \subseteq Nat /\ D # {}
  <2>1. \A x \in T : last - x \in Nat
    BY <1>1
  <2> QED
    BY <2>1
<1>3. PICK n \in D : \A k \in D : n <= k
  <2> HIDE DEF D
  <2> QED
    BY <1>2, LeastOne
<1>4. PICK x \in T : n = last - x
  BY <1>3
<1>5. \A y \in T : x >= y
  BY <1>1, <1>3, <1>4
<1>6. Max(T) \in T /\ \A y \in T : Max(T) >= y
  BY <1>5 DEF Max
<1> QED
  BY <1>1, <1>6

\* So a set of days has.
LEMMA GreatestDay ==
  ASSUME NEW T, T \subseteq LessonDay, T # {}
  PROVE  Max(T) \in T /\ \A x \in T : x <= Max(T)
<1>1. PICK last \in LessonDay : \A d \in LessonDay : d <= last
  BY MonthConstants
<1>2. last \in Nat /\ \A x \in T : x \in Nat /\ x <= last
  BY <1>1, MonthConstants
<1> QED
  BY <1>2, GreatestOne

\* The first and the last lesson day of a month are days of it.
LEMMA FirstOfMonth ==
  ASSUME NEW m \in SlipMonth
  PROVE  FirstOf(m) \in LessonDay /\ LastOf(m) \in LessonDay /\ MonthOf[LastOf(m)] = m
<1> DEFINE T == {d \in LessonDay : MonthOf[d] = m}
<1>1. T \subseteq LessonDay /\ T \subseteq Nat /\ T # {}
  BY MonthConstants
<1>2. Min(T) \in T /\ Max(T) \in T
  <2> HIDE DEF T
  <2> QED
    BY <1>1, LeastOne, GreatestDay
<1> QED
  BY <1>2 DEF FirstOf, LastOf

\* A month is settled up to one of its days.
LEMMA EndOfMonthIn ==
  ASSUME clock \in LessonDay, NEW m \in SlipMonth
  PROVE  EndOf(m) \in LessonDay /\ MonthOf[EndOf(m)] = m
  BY FirstOfMonth DEF EndOf

\* The dates found for month m when every row is of it or of an earlier one:
\* they end in m and start after the dates of every earlier month.
WaveFits(wave, m) ==
  /\ wave.to \in LessonDay /\ MonthOf[wave.to] = m /\ wave.from \in Nat
  /\ \A v \in slip : v.month < m /\ v.to # Unknown => v.to < wave.from

\* A new wave of a month starts after all the earlier months.
LEMMA NewWaveFits ==
  ASSUME clock \in LessonDay, NEW m \in SlipMonth,
         \A w \in slip : w.month <= m /\ SlipDated(w)
  PROVE  WaveFits(NewWave(m, EndOf(m)), m)
<1> DEFINE end == EndOf(m)
           S == {w.to : w \in {v \in slip : v.to # Unknown /\ v.to < end}}
           wave == NewWave(m, end)
<1>1. end \in LessonDay /\ MonthOf[end] = m
  BY EndOfMonthIn
<1>2. /\ S \subseteq LessonDay /\ m \in Nat
      /\ \A d \in LessonDay : d \in Nat /\ MonthOf[d] \in Nat
      /\ \A d, e \in LessonDay : d <= e => MonthOf[d] <= MonthOf[e]
  <2>1. S \subseteq LessonDay
    BY DEF SlipDated
  <2>2. /\ m \in Nat
        /\ \A d \in LessonDay : d \in Nat /\ MonthOf[d] \in Nat
        /\ \A d, e \in LessonDay : d <= e => MonthOf[d] <= MonthOf[e]
    <3> HIDE DEF S, end, wave
    <3> QED
      BY MonthConstants
  <2> QED
    BY <2>1, <2>2
<1>3. ASSUME NEW v \in slip, v.month < m, v.to # Unknown
      PROVE  v.to \in S
  <2>1. v.to \in LessonDay /\ MonthOf[v.to] = v.month
    BY <1>3 DEF SlipDated
  <2> HIDE DEF end, S, wave
  <2>2. ~(end <= v.to)
    BY <1>1, <1>2, <1>3, <2>1
  <2>3. v.to < end
    BY <1>1, <1>2, <2>1, <2>2
  <2> QED
    BY <1>3, <2>3 DEF S
<1>4. wave.to = end /\ wave.from = IF S = {} THEN FirstOf(m) ELSE DayAfter(Max(S))
  BY DEF NewWave
<1>5. wave.from \in Nat /\ \A x \in S : x < wave.from
  <2>1. CASE S = {}
    BY <1>2, <1>4, <2>1, FirstOfMonth
  <2>2. CASE S # {}
    <3> HIDE DEF S, wave
    <3>1. Max(S) \in S /\ \A x \in S : x <= Max(S)
      BY <1>2, <2>2, GreatestDay
    <3>2. wave.from = Max(S) + 1
      BY <1>4, <2>2 DEF DayAfter
    <3> QED
      BY <1>2, <3>1, <3>2
  <2> QED
    BY <2>1, <2>2
<1> HIDE DEF S, wave, end
<1>6. WaveFits(wave, m)
  BY <1>1, <1>3, <1>4, <1>5 DEF WaveFits
<1> QED
  BY <1>6 DEF wave, end

\* Dates of a row of the month were fit for it, and still are.
LEMMA PayWaveFits ==
  ASSUME MonthInv, orderly, NEW m \in SlipMonth, \A w \in slip : w.month <= m /\ ~w.period,
         NEW wave \in PayWaves(m)
  PROVE  WaveFits(wave, m)
<1>1. OwnSlips = slip /\ \A w \in slip : SlipDated(w)
  BY DEF OwnSlips, MonthInv, MonthsInOrder
<1>2. CASE wave = NewWave(m, EndOf(m))
  BY <1>1, <1>2, NewWaveFits DEF MonthInv
<1>3. ASSUME NEW w \in slip, w.month = m, w.to # Unknown, wave = Dates(w)
      PROVE  WaveFits(wave, m)
  BY <1>1, <1>3 DEF WaveFits, Dates, SlipDated, MonthInv, MonthsInOrder
<1> QED
  BY <1>2, <1>3 DEF PayWaves, RowsOf

\* A payee's row for the month, new or in the place of his old one
LEMMA SettleKeeps ==
  ASSUME MonthInv, orderly, NEW p, NEW m \in SlipMonth, NEW wave, WaveFits(wave, m),
         \A w \in slip : w.month <= m /\ ~w.period, Settle(p, m, wave)
  PROVE  MonthInv'
<1> DEFINE own == {w \in RowsOf(m) : w.who = p}
<1>1. PICK old \in IF own = {} THEN {{}} ELSE {{w} : w \in {v \in own : ~v.period}} :
        \E new \in Slips(p, m, wave) : slip' = (slip \ old) \union {new}
  BY DEF Settle
<1>2. PICK new \in Slips(p, m, wave) : slip' = (slip \ old) \union {new}
  BY <1>1
<1>3. /\ new.who = p /\ new.month = m /\ new.from = wave.from /\ new.to = wave.to
      /\ ~new.period /\ new.lessons = LessonsIn(p, wave)
  BY <1>2 DEF Slips
<1>4. OwnSlips = slip /\ OwnSlips' = (slip \ old) \union {new}
  BY <1>2, <1>3 DEF OwnSlips
<1>5. \A v, w \in slip : v.who = w.who /\ v.month = w.month => v = w
  BY <1>4 DEF MonthInv, MonthsInOrder
<1>6. \A v \in slip \ old : ~(v.who = p /\ v.month = m)
  BY <1>1, <1>5 DEF RowsOf
<1>7. SlipDated(new)
  <2>1. /\ new.month \in SlipMonth /\ new.to \in LessonDay /\ MonthOf[new.to] = new.month
        /\ new.from \in Nat
    BY <1>3 DEF WaveFits
  <2>2. \A l \in new.lessons : l.day \in new.from..new.to
    BY <1>3 DEF LessonsIn
  <2>3. LessonDay \subseteq Nat /\ Unknown \notin Nat
    BY MonthConstants
  <2>4. new.to # Unknown
    BY <2>1, <2>3
  <2> QED
    BY <2>1, <2>2, <2>4 DEF SlipDated
<1>8. \A v \in slip \ old : v.month \in Nat /\ v.month <= m
  BY <1>4, MonthConstants DEF MonthInv, MonthsInOrder, SlipDated
<1>9. \A w \in OwnSlips' : SlipDated(w)
  BY <1>4, <1>7 DEF MonthInv, MonthsInOrder
<1>10. \A v, w \in OwnSlips' : v.who = w.who /\ v.month = w.month => v = w
  BY <1>3, <1>4, <1>5, <1>6
<1>11. \A v, w \in OwnSlips' :
         v.month < w.month /\ v.to # Unknown /\ w.to # Unknown => v.to < w.from
  <2>1. ASSUME NEW v \in OwnSlips', NEW w \in OwnSlips',
               v.month < w.month, v.to # Unknown, w.to # Unknown
        PROVE  v.to < w.from
    <3>1. v # new
      BY <1>3, <1>4, <1>8, <2>1, MonthConstants
    <3>2. CASE w = new
      BY <1>3, <1>4, <2>1, <3>1, <3>2 DEF WaveFits
    <3>3. CASE w # new
      BY <1>4, <2>1, <3>1, <3>3 DEF MonthInv, MonthsInOrder
    <3> QED
      BY <3>2, <3>3
  <2> QED
    BY <2>1
<1>12. clock' \in LessonDay
  BY DEF Settle, MonthInv
<1> QED
  BY <1>9, <1>10, <1>11, <1>12 DEF MonthInv, MonthsInOrder, SlipDated

\* Settling a payee for a month
LEMMA PayMonthKeeps ==
  ASSUME MonthInv, NEW p \in Payee, NEW m \in SlipMonth, PayMonth(p, m)
  PROVE  MonthInv'
<1>1. PICK wave \in PayWaves(m) : Settle(p, m, wave)
  BY DEF PayMonth
<1>2. clock' \in LessonDay
  BY <1>1 DEF Settle, MonthInv
<1>3. CASE ~orderly'
  BY <1>2, <1>3 DEF MonthInv, MonthsInOrder
<1>4. CASE orderly'
  <2>1. orderly /\ \A w \in slip : w.month <= m /\ ~w.period
    BY <1>4 DEF PayMonth
  <2>2. WaveFits(wave, m)
    BY <1>1, <2>1, PayWaveFits
  <2> QED
    BY <1>1, <2>1, <2>2, SettleKeeps
<1> QED
  BY <1>3, <1>4

\* Rows of periods, withdrawn rows, lessons and prices
LEMMA RestKeeps ==
  ASSUME MonthInv, OwnSlips' \subseteq OwnSlips, clock' \in LessonDay, orderly' => orderly
  PROVE  MonthInv'
  BY DEF MonthInv, MonthsInOrder, SlipDated

\* The first state
LEMMA MonthStarts == MonthInit => MonthInv
  BY MonthConstants DEF MonthInit, MonthInv, MonthsInOrder, SlipDated, OwnSlips

\* Every step of the monthly bills
LEMMA MonthKeeps == MonthInv /\ [MonthNext]_monthVars => MonthInv'
<1> SUFFICES ASSUME MonthInv, [MonthNext]_monthVars PROVE MonthInv'
  OBVIOUS
<1>1. ASSUME NEW p \in Payee, NEW m \in SlipMonth, PayMonth(p, m) PROVE MonthInv'
  BY <1>1, PayMonthKeeps
<1>2. ASSUME NEW p \in Payee, NEW m \in SlipMonth, WithdrawMonth(p, m) PROVE MonthInv'
  <2>1. OwnSlips' \subseteq OwnSlips /\ clock' \in LessonDay /\ orderly' = orderly
    BY <1>2 DEF WithdrawMonth, OwnSlips, MonthInv
  <2> QED
    BY <2>1, RestKeeps
<1>3. ASSUME NEW p \in Payee, NEW m \in SlipMonth, NEW wave \in GivenDates, PayDates(p, m, wave)
      PROVE  MonthInv'
  BY <1>3 DEF PayDates, Settle, MonthInv, MonthsInOrder
<1>4. ASSUME NEW p \in Payee, NEW m \in SlipMonth, NEW L \in SUBSET given, BillInPeriod(p, m, L)
      PROVE  MonthInv'
  <2> DEFINE price == [k \in Lecture \X LessonDay |-> tariff[k[2]]]
             At(c, r) == {l \in L : l.class = c /\ tariff[l.day] = r}
             items == {[class |-> l.class, rate |-> tariff[l.day],
                        total |-> Amount(At(l.class, tariff[l.day]), price)] : l \in L}
             total == Amount(L, price)
             row == [who |-> p, month |-> m, from |-> FirstOf(m), to |-> LastOf(m),
                     period |-> TRUE, items |-> items, total |-> total, lessons |-> L,
                     flat |-> FALSE]
  <2>1. slip' = slip \union {row}
    BY <1>4, Zenon DEF BillInPeriod
  <2> HIDE DEF items, total
  <2>2. row.period
    OBVIOUS
  <2> HIDE DEF row
  <2>3. clock' \in LessonDay /\ orderly' = orderly
    BY <1>4, Zenon DEF BillInPeriod, MonthInv
  <2>4. OwnSlips' \subseteq OwnSlips
    BY <2>1, <2>2 DEF OwnSlips
  <2> QED
    BY <2>3, <2>4, RestKeeps
<1>5. CASE UNCHANGED <<slip, orderly>> /\ clock' \in LessonDay
  BY <1>5, RestKeeps DEF OwnSlips
<1>6. ASSUME NEW l \in HeldLesson, LockLesson(l) PROVE MonthInv'
  BY <1>5, <1>6 DEF LockLesson, MonthInv
<1>7. ASSUME NEW new \in Tariff, ChangeTariff(new) PROVE MonthInv'
  BY <1>5, <1>7 DEF ChangeTariff, MonthInv
<1>8. CASE NextDate
  BY <1>5, <1>8 DEF NextDate, MonthInv
<1>9. CASE UNCHANGED monthVars
  BY <1>5, <1>9 DEF monthVars, MonthInv
<1> QED
  BY <1>1, <1>2, <1>3, <1>4, <1>6, <1>7, <1>8, <1>9 DEF MonthNext

\* Rows of different months have different dates.
LEMMA OrderSeparates == MonthInv => MonthsDoNotOverlap
<1> SUFFICES ASSUME MonthInv, orderly, NEW v \in slip, NEW w \in slip, v # w,
                    v.who = w.who, ~v.period, ~w.period
             PROVE  v.lessons \cap w.lessons = {}
  BY DEF MonthsDoNotOverlap
<1>1. v \in OwnSlips /\ w \in OwnSlips /\ SlipDated(v) /\ SlipDated(w)
  BY DEF OwnSlips, MonthInv, MonthsInOrder
<1>2. v.month \in Nat /\ w.month \in Nat /\ v.month # w.month
  BY <1>1, MonthConstants DEF SlipDated, MonthInv, MonthsInOrder
<1>3. CASE v.to = Unknown \/ w.to = Unknown
  BY <1>1, <1>3 DEF SlipDated
<1>4. CASE v.to # Unknown /\ w.to # Unknown
  <2>1. v.to < w.from \/ w.to < v.from
    BY <1>1, <1>2, <1>4 DEF MonthInv, MonthsInOrder
  <2>2. /\ v.to \in Nat /\ w.to \in Nat /\ v.from \in Nat /\ w.from \in Nat
        /\ \A l \in v.lessons : l.day \in v.from..v.to
        /\ \A l \in w.lessons : l.day \in w.from..w.to
    BY <1>1, <1>4, MonthConstants DEF SlipDated
  <2> QED
    BY <2>1, <2>2
<1> QED
  BY <1>3, <1>4

\* Settling the months in order on the dates monthly-bills and monthly-wages find
\* puts no lesson on two rows of a payee.
THEOREM MonthsSettledOnce == MonthSpec => []MonthsDoNotOverlap
<1>1. MonthSpec => []MonthInv
  BY MonthStarts, MonthKeeps, PTL DEF MonthSpec
<1> QED
  BY <1>1, OrderSeparates, PTL

-----------------------------------------------------------------------------
\* The rates of lessons by class and date
RateTable == [Lecture \X LessonDay -> Int]

\* A row of one price for each class has the items and the total of such rates.
FlatSlip(w) ==
  w.flat =>
    /\ w.lessons \subseteq HeldLesson
    /\ \E rate \in RateTable :
         /\ Flat(w.lessons, rate, w.month)
         /\ w.items = ItemsAt(w.lessons, rate) /\ w.total = Amount(w.lessons, rate)

SlipKept(w) == w.who \in Payee /\ FlatSlip(w) /\ \A i \in w.items : i.rate \in Int

SlipInv ==
  tariff \in [LessonDay -> Int] /\ given \subseteq HeldLesson /\ \A w \in slip : SlipKept(w)

\* A lesson has a class and a date, and costs a number.
LEMMA LessonCosts ==
  ASSUME NEW L, L \subseteq HeldLesson, NEW rate \in RateTable
  PROVE  /\ IsFiniteSet(L) /\ Amount(L, rate) \in Int
         /\ \A l \in L : /\ l.class \in Lecture /\ l.day \in LessonDay
                         /\ l.there \in BOOLEAN /\ LessonAmount(l, rate) \in Int
<1>1. IsFiniteSet(L)
  BY MonthConstants, FS_Subset
<1>2. ASSUME NEW l \in L
      PROVE  l.class \in Lecture /\ l.day \in LessonDay /\ l.there \in BOOLEAN /\ LessonAmount(l, rate) \in Int
  <2>1. l \in [who : Payee, class : Lecture, day : LessonDay, there : BOOLEAN]
    BY MonthConstants
  <2>2. l.class \in Lecture /\ l.day \in LessonDay /\ l.there \in BOOLEAN
    BY <2>1
  <2>3. rate[<<l.class, l.day>>] \in Int
    BY <2>2 DEF RateTable
  <2> QED
    BY <2>2, <2>3 DEF LessonAmount
<1> DEFINE f == [l \in L |-> LessonAmount(l, rate)]
<1>3. \A l \in L : f[l] \in Int
  BY <1>2
<1>4. Amount(L, rate) = Sum(L, f)
  BY DEF Amount
<1> HIDE DEF f
<1>5. Sum(L, f) \in Int
  BY <1>1, <1>3, SumInt
<1> QED
  BY <1>1, <1>2, <1>4, <1>5

\* The latest of some lessons
LEMMA LatestOf ==
  ASSUME NEW K, K \subseteq HeldLesson, K # {}
  PROVE  \E k \in K : k.day = Max({l.day : l \in K})
<1> DEFINE T == {l.day : l \in K}
<1>1. \A l \in K : l.day \in LessonDay
  <2>1. \A l \in K : l \in [who : Payee, class : Lecture, day : LessonDay, there : BOOLEAN]
    BY MonthConstants
  <2> QED
    BY <2>1
<1>2. T \subseteq LessonDay /\ T # {}
  BY <1>1
<1>3. Max(T) \in T
  <2> HIDE DEF T
  <2> QED
    BY <1>2, GreatestDay
<1> QED
  BY <1>3

\* There are rates, and the kept one is taken where there is one.
LEMMA RatesAre ==
  ASSUME SlipInv, NEW p
  PROVE  /\ Rates(p) # {}
         /\ \A r \in Rates(p) :
              /\ r \in RateTable
              /\ \A c \in Lecture, d \in LessonDay : KeptRates(p, c, MonthOf[d]) # {} =>
                   r[<<c, d>>] \in KeptRates(p, c, MonthOf[d])
<1> DEFINE Keys == Lecture \X SlipMonth
           Kept == [k \in Keys |-> KeptRates(p, k[1], k[2])]
           Key(x) == <<x[1], MonthOf[x[2]]>>
           Read == {f \in [Keys -> {0} \union UNION {Kept[k] : k \in Keys}] :
                      \A k \in Keys : f[k] \in Kept[k] \/ (Kept[k] = {} /\ f[k] = 0)}
           At(last) == [x \in Lecture \X LessonDay |->
                          IF Kept[Key(x)] = {} THEN tariff[x[2]] ELSE last[Key(x)]]
<1>1. Rates(p) = {At(last) : last \in Read}
  BY DEF Rates
<1>2. \A k \in Keys : Kept[k] \subseteq Int
  <2>1. \A w \in slip : \A i \in w.items : i.rate \in Int
    BY DEF SlipInv, SlipKept
  <2> QED
    BY <2>1 DEF KeptRates, RowsOf
<1>3. Read # {}
  <2> DEFINE f == [k \in Keys |-> IF Kept[k] = {} THEN 0 ELSE CHOOSE r \in Kept[k] : TRUE]
  <2> HIDE DEF Kept
  <2>1. \A k \in Keys : f[k] \in Kept[k] \/ (Kept[k] = {} /\ f[k] = 0)
    OBVIOUS
  <2> DEFINE All == {Kept[k] : k \in Keys}
             U == {0} \union UNION All
  <2>4. \A k \in Keys : f[k] \in U
    <3> TAKE k \in Keys
    <3>1. Kept[k] \subseteq U /\ 0 \in U
      <4>1. Kept[k] \in All
        OBVIOUS
      <4> HIDE DEF All
      <4> QED
        BY <4>1
    <3>2. f[k] \in Kept[k] \/ f[k] = 0
      BY <2>1
    <3> HIDE DEF f, U
    <3> QED
      BY <3>1, <3>2
  <2>5. f = [k \in Keys |-> f[k]]
    OBVIOUS
  <2>2. f \in [Keys -> U]
    <3> HIDE DEF f, U
    <3> QED
      BY <2>4, <2>5
  <2>3. f \in Read
    BY <2>1, <2>2
  <2> QED
    BY <2>3
<1>4. ASSUME NEW c \in Lecture, NEW d \in LessonDay
      PROVE  /\ <<c, MonthOf[d]>> \in Keys
             /\ Kept[<<c, MonthOf[d]>>] = KeptRates(p, c, MonthOf[d])
  BY MonthConstants
<1>5. ASSUME NEW last \in Read
      PROVE  /\ At(last) \in RateTable
             /\ \A c \in Lecture, d \in LessonDay : KeptRates(p, c, MonthOf[d]) # {} =>
                  At(last)[<<c, d>>] \in KeptRates(p, c, MonthOf[d])
  <2>1. ASSUME NEW c \in Lecture, NEW d \in LessonDay
        PROVE  /\ At(last)[<<c, d>>] \in Int
               /\ KeptRates(p, c, MonthOf[d]) # {} =>
                    At(last)[<<c, d>>] \in KeptRates(p, c, MonthOf[d])
    <3> DEFINE k == <<c, MonthOf[d]>>
    <3>1. k \in Keys /\ Kept[k] = KeptRates(p, c, MonthOf[d])
      BY <1>4
    <3>2. At(last)[<<c, d>>] = IF Kept[k] = {} THEN tariff[d] ELSE last[k]
      OBVIOUS
    <3>3. tariff[d] \in Int
      BY DEF SlipInv
    <3>4. last[k] \in Kept[k] \/ Kept[k] = {}
      BY <3>1
    <3> HIDE DEF k, Kept, At, Read
    <3> QED
      BY <1>2, <3>1, <3>2, <3>3, <3>4
  <2>2. At(last) \in RateTable
    <3>1. At(last) = [x \in Lecture \X LessonDay |-> At(last)[x]]
      OBVIOUS
    <3>2. \A x \in Lecture \X LessonDay : At(last)[x] \in Int
      <4> HIDE DEF At
      <4> QED
        BY <2>1
    <3> HIDE DEF At
    <3> QED
      BY <3>1, <3>2 DEF RateTable
  <2> HIDE DEF At
  <2> QED
    BY <2>1, <2>2
<1> HIDE DEF Read, At
<1> QED
  BY <1>1, <1>3, <1>5

LecturesOf(L) == {l.class : l \in L}
LectureCosts(L, rate) == [c \in LecturesOf(L) |-> Amount(InLecture(L, c), rate)]

\* The amount of lessons is that of their classes,
LEMMA ByLecture ==
  ASSUME NEW L, L \subseteq HeldLesson, NEW rate \in RateTable
  PROVE  IsFiniteSet(LecturesOf(L)) /\ Sum(LecturesOf(L), LectureCosts(L, rate)) = Amount(L, rate)
<1> DEFINE C == LecturesOf(L)
           g == LectureCosts(L, rate)
           f == [l \in L |-> LessonAmount(l, rate)]
           part == [c \in C |-> InLecture(L, c)]
<1>1. IsFiniteSet(L) /\ \A l \in L : f[l] \in Int
  BY LessonCosts
<1>2. \A l \in L : l.class \in C
  BY DEF LecturesOf
<1>3. IsFiniteSet(C)
  <2> DEFINE classOf == [l \in L |-> l.class]
  <2>1. \A c \in C : \E l \in L : classOf[l] = c
    BY DEF LecturesOf
  <2> HIDE DEF C, classOf
  <2> QED
    BY <1>1, <2>1, ImageFinite
<1>4. \A l \in L : f[l] \in Int /\ \E c \in C : l \in part[c]
  <2>1. \A l \in L : l \in part[l.class]
    BY <1>2 DEF InLecture
  <2> HIDE DEF C, f, part
  <2> QED
    BY <1>1, <1>2, <2>1
<1>5. \A c, d \in C : c # d => part[c] \cap part[d] = {}
  BY DEF InLecture
<1>6. \A c \in C : part[c] \subseteq L /\ g[c] = Sum(part[c], f)
  <2> TAKE c \in C
  <2> DEFINE K == InLecture(L, c)
             h == [l \in K |-> LessonAmount(l, rate)]
  <2>1. K \subseteq L /\ part[c] = K /\ IsFiniteSet(K)
    BY <1>1, FS_Subset DEF InLecture
  <2>2. g[c] = Sum(K, h)
    BY DEF Amount, LectureCosts
  <2>3. \A l \in K : h[l] = f[l]
    BY <2>1
  <2> HIDE DEF K, h, f, g, part
  <2>4. Sum(K, h) = Sum(K, f)
    BY <2>1, <2>3, SumSame
  <2> QED
    BY <2>1, <2>2, <2>4
<1>7. Amount(L, rate) = Sum(L, f)
  BY DEF Amount
<1> HIDE DEF part, f, g, C
<1>8. Sum(L, f) = Sum(C, g)
  BY <1>1, <1>3, <1>4, <1>5, <1>6, SumParts
<1> QED
  BY <1>3, <1>7, <1>8 DEF C, g

\* and that of the items, one for every class with a lesson that counts.
LEMMA ItemsSum ==
  ASSUME NEW L, L \subseteq HeldLesson, NEW rate \in RateTable, NEW I, I = ItemsAt(L, rate)
  PROVE  Sum(I, [i \in I |-> i.total]) = Amount(L, rate)
<1> DEFINE C == LecturesOf(L)
           There == {k \in L : k.there}
           D == {l.class : l \in There}
           g == LectureCosts(L, rate)
           f == [i \in I |-> i.total]
           part == [c \in D |-> {ItemOf(L, rate, c)}]
<1>1. IsFiniteSet(L) /\ \A l \in L : l.class \in Lecture /\ l.there \in BOOLEAN
  BY LessonCosts
<1>2. IsFiniteSet(C) /\ D \subseteq C /\ IsFiniteSet(D) /\ IsFiniteSet(C \ D)
  <2>1. IsFiniteSet(C)
    BY ByLecture
  <2>2. D \subseteq C
    BY DEF LecturesOf
  <2> HIDE DEF C, D
  <2> QED
    BY <2>1, <2>2, FS_Subset
<1>3. \A c \in C : g[c] \in Int
  <2> TAKE c \in C
  <2>1. InLecture(L, c) \subseteq HeldLesson
    BY DEF InLecture
  <2> QED
    BY <2>1, LessonCosts DEF LectureCosts
<1>4. \A c \in C \ D : g[c] = 0
  <2> TAKE c \in C \ D
  <2> DEFINE K == InLecture(L, c)
             h == [l \in K |-> LessonAmount(l, rate)]
  <2>1. \A l \in K : h[l] = 0
    <3>1. \A l \in K : l \in L /\ l.class = c
      BY DEF InLecture
    <3>2. \A l \in K : ~l.there
      BY <3>1
    <3> QED
      BY <3>2 DEF LessonAmount
  <2>2. IsFiniteSet(K)
    BY <1>1, FS_Subset DEF InLecture
  <2>3. g[c] = Sum(K, h)
    BY DEF Amount, LectureCosts
  <2> HIDE DEF K, h
  <2>4. Sum(K, h) = 0
    BY <2>1, <2>2, SumZeros
  <2> QED
    BY <2>3, <2>4
<1>5. Sum(C, g) = Amount(L, rate)
  BY ByLecture
<1>6. Sum(C, g) = Sum(D, g)
  <2> DEFINE rest == C \ D
             all == D \union rest
  <2>1. all = C
    BY <1>2
  <2>2. D \cap rest = {} /\ IsFiniteSet(rest) /\ IsFiniteSet(D)
    BY <1>2
  <2>3. (\A c \in all : g[c] \in Int) /\ \A c \in rest : g[c] = 0
    BY <1>3, <1>4, <2>1
  <2> HIDE DEF C, D, g, rest
  <2>4. Sum(all, g) = Sum(D, g) + Sum(rest, g)
    BY <2>2, <2>3, SumUnion
  <2>5. Sum(rest, g) = 0
    BY <2>2, <2>3, SumZeros
  <2>6. Sum(D, g) \in Int
    BY <2>2, <2>3, SumInt
  <2> HIDE DEF all
  <2> QED
    BY <2>1, <2>4, <2>5, <2>6
<1>7. Sum(I, f) = Sum(D, g)
  <2>1. I = {ItemOf(L, rate, c) : c \in D}
    BY DEF ItemsAt
  <2>2. \A c \in D : ItemOf(L, rate, c).class = c /\ ItemOf(L, rate, c).total = g[c]
    BY <1>2 DEF ItemOf, LectureCosts
  <2>3. IsFiniteSet(I)
    <3> DEFINE itemOf == [c \in D |-> ItemOf(L, rate, c)]
    <3>1. \A i \in I : \E c \in D : itemOf[c] = i
      BY <2>1
    <3> HIDE DEF D, itemOf
    <3> QED
      BY <1>2, <3>1, ImageFinite
  <2>4. \A i \in I : f[i] \in Int /\ \E c \in D : i \in part[c]
    <3>1. \A i \in I : \E c \in D : i = ItemOf(L, rate, c)
      BY <2>1
    <3> HIDE DEF D, C, g
    <3> QED
      BY <1>2, <1>3, <2>2, <3>1
  <2>5. ASSUME NEW c \in D PROVE part[c] \subseteq I /\ g[c] = Sum(part[c], f)
    <3> DEFINE x == ItemOf(L, rate, c)
    <3>1. x \in I /\ f[x] = g[c] /\ g[c] \in Int
      BY <1>2, <1>3, <2>1, <2>2
    <3>2. part[c] = {x}
      OBVIOUS
    <3> HIDE DEF x, f, g, part, D
    <3>3. Sum({x}, f) = f[x]
      BY <3>1, SumSingle
    <3> QED
      BY <3>1, <3>2, <3>3
  <2>6. \A c, d \in D : c # d => part[c] \cap part[d] = {}
    <3>1. \A c \in D : part[c] = {ItemOf(L, rate, c)} /\ ItemOf(L, rate, c).class = c
      BY <2>2
    <3> HIDE DEF part, D
    <3> QED
      BY <3>1
  <2>7. \A c \in D : part[c] \subseteq I /\ g[c] = Sum(part[c], f)
    BY <2>5
  <2>8. IsFiniteSet(D)
    BY <1>2
  <2> HIDE DEF part, f, g, D, C
  <2> QED
    BY <2>3, <2>4, <2>6, <2>7, <2>8, SumParts
<1> QED
  BY <1>5, <1>6, <1>7

\* The only row of a payee for a month is counted again at the rates it has kept.
LEMMA CountedAgain ==
  ASSUME SlipInv, NEW w \in slip, w.flat, {v \in RowsOf(w.month) : v.who = w.who} = {w},
         NEW r \in Rates(w.who)
  PROVE  /\ w.lessons \subseteq HeldLesson /\ r \in RateTable
         /\ Amount(w.lessons, r) = w.total
<1> DEFINE L == w.lessons
           m == w.month
<1>1. PICK rate \in RateTable : /\ Flat(L, rate, m) /\ w.items = ItemsAt(L, rate)
                                /\ w.total = Amount(L, rate)
  BY DEF SlipInv, SlipKept, FlatSlip
<1>2. L \subseteq HeldLesson
  BY DEF SlipInv, SlipKept, FlatSlip
<1>3. /\ r \in RateTable
      /\ \A c \in Lecture, d \in LessonDay : KeptRates(w.who, c, MonthOf[d]) # {} =>
           r[<<c, d>>] \in KeptRates(w.who, c, MonthOf[d])
  BY RatesAre
<1>4. \A c : KeptRates(w.who, c, m) = {i.rate : i \in {j \in w.items : j.class = c}}
  BY DEF KeptRates
<1>5. ASSUME NEW l \in L, l.there PROVE LessonAmount(l, r) = LessonAmount(l, rate)
  <2> DEFINE c == l.class
             K == InLecture(L, c)
             last == Max({x.day : x \in K})
             kept == rate[<<c, last>>]
  <2>1. c \in Lecture /\ l.day \in LessonDay /\ MonthOf[l.day] = m
    BY <1>1, <1>2, LessonCosts DEF Flat
  <2>2. l \in K /\ K \subseteq L
    BY DEF InLecture
  <2>3. K # {} /\ K \subseteq HeldLesson
    BY <1>2, <2>2
  <2>4. PICK k \in K : k.day = last
    <3> HIDE DEF K
    <3> QED
      BY <2>3, LatestOf
  <2>5. k \in L /\ k.class = c
    BY DEF InLecture
  <2>6. kept = rate[<<c, l.day>>]
    BY <1>1, <2>4, <2>5 DEF Flat
  <2>7. ItemOf(L, rate, c) \in w.items
    BY <1>1, <1>5 DEF ItemsAt
  <2>8. ItemOf(L, rate, c).class = c /\ ItemOf(L, rate, c).rate = kept
    BY DEF ItemOf
  <2>9. \A i \in w.items : i.class = c => i = ItemOf(L, rate, c)
    <3>1. \A i \in w.items : \E d : i = ItemOf(L, rate, d)
      BY <1>1 DEF ItemsAt
    <3>2. \A d : ItemOf(L, rate, d).class = d
      BY DEF ItemOf
    <3> HIDE DEF c
    <3> QED
      BY <3>1, <3>2
  <2>10. KeptRates(w.who, c, m) = {kept}
    <3>1. {j \in w.items : j.class = c} = {ItemOf(L, rate, c)}
      BY <2>7, <2>8, <2>9
    <3> HIDE DEF c, kept, L, m
    <3> QED
      BY <1>4, <2>8, <3>1
  <2>11. r[<<c, l.day>>] = kept
    <3> DEFINE S == KeptRates(w.who, c, MonthOf[l.day])
    <3>1. S # {} => r[<<c, l.day>>] \in S
      BY <1>3, <2>1
    <3>2. S = {kept}
      BY <2>1, <2>10
    <3> HIDE DEF S, kept
    <3> QED
      BY <3>1, <3>2
  <2> QED
    BY <2>6, <2>11 DEF LessonAmount
<1>6. ASSUME NEW l \in L, ~l.there PROVE LessonAmount(l, r) = LessonAmount(l, rate)
  BY <1>6 DEF LessonAmount
<1>7. \A l \in L : LessonAmount(l, r) = LessonAmount(l, rate)
  BY <1>5, <1>6
<1>8. [l \in L |-> LessonAmount(l, r)] = [l \in L |-> LessonAmount(l, rate)]
  BY <1>7
<1> QED
  BY <1>1, <1>2, <1>3, <1>8 DEF Amount

\* What the screens show of a settled row
LEMMA RowShown ==
  ASSUME SlipInv PROVE SettledAmountKept
<1> SUFFICES ASSUME NEW w \in slip, w.flat, w.lessons = LessonsIn(w.who, Dates(w)),
                    {v \in RowsOf(w.month) : v.who = w.who} = {w}
             PROVE  /\ Reported(w.who, w.from, w.to) \union Listed(w.who, w.month) = {w.total}
                    /\ Bulk(w.from, w.to)[w.who] = {w.total}
                    /\ \A v \in History(w.who) : v.month = w.month =>
                         Sum(v.items, [i \in v.items |-> i.total]) = v.total
  BY DEF SettledAmountKept
<1> DEFINE L == w.lessons
           C == LecturesOf(L)
<1>1. LessonsIn(w.who, [from |-> w.from, to |-> w.to]) = L
  BY DEF Dates
<1>2. Rates(w.who) # {}
  BY RatesAre
<1>3. ASSUME NEW r \in Rates(w.who)
      PROVE  /\ L \subseteq HeldLesson /\ r \in RateTable /\ Amount(L, r) = w.total
             /\ Sum(C, LectureCosts(L, r)) = w.total
  <2>1. L \subseteq HeldLesson /\ r \in RateTable /\ Amount(L, r) = w.total
    BY CountedAgain
  <2> QED
    BY <2>1, ByLecture
<1>4. Reported(w.who, w.from, w.to) = {w.total}
  <2>1. Reported(w.who, w.from, w.to) = {Amount(L, r) : r \in Rates(w.who)}
    BY <1>1 DEF Reported
  <2> QED
    BY <1>2, <1>3, <2>1
<1>5. Listed(w.who, w.month) = {w.total}
  BY DEF Listed
<1>6. Bulk(w.from, w.to)[w.who] = {w.total}
  <2>1. w.who \in Payee
    BY DEF SlipInv, SlipKept
  <2> DEFINE Totals(M) == {Sum(LecturesOf(M), LectureCosts(M, r)) : r \in Rates(w.who)}
  <2>2. Bulk(w.from, w.to)[w.who] = Totals(LessonsIn(w.who, [from |-> w.from, to |-> w.to]))
    BY <2>1 DEF Bulk, LecturesOf, LectureCosts
  <2>3. Bulk(w.from, w.to)[w.who] = Totals(L)
    <3> HIDE DEF Totals
    <3> QED
      BY <1>1, <2>2
  <2>4. Totals(L) = {w.total}
    BY <1>2, <1>3
  <2> QED
    BY <2>3, <2>4
<1>7. \A v \in History(w.who) : v.month = w.month => Sum(v.items, [i \in v.items |-> i.total]) = v.total
  <2> SUFFICES ASSUME NEW v \in History(w.who), v.month = w.month
               PROVE  Sum(v.items, [i \in v.items |-> i.total]) = v.total
    OBVIOUS
  <2>1. v = w
    BY DEF History, RowsOf
  <2>2. PICK rate \in RateTable : w.items = ItemsAt(L, rate) /\ w.total = Amount(L, rate)
    BY DEF SlipInv, SlipKept, FlatSlip
  <2>3. L \subseteq HeldLesson
    BY DEF SlipInv, SlipKept, FlatSlip
  <2> DEFINE I == w.items
  <2>4. I = ItemsAt(L, rate) /\ w.total = Amount(L, rate)
    BY <2>2
  <2> HIDE DEF I, L
  <2>5. Sum(I, [i \in I |-> i.total]) = Amount(L, rate)
    BY <2>3, <2>4, ItemsSum
  <2> QED
    BY <2>1, <2>4, <2>5 DEF I
<1> QED
  BY <1>4, <1>5, <1>6, <1>7

\* The price of an item is that of its last lesson.
LEMMA ItemRates ==
  ASSUME NEW L, L \subseteq HeldLesson, NEW rate \in RateTable, NEW i \in ItemsAt(L, rate)
  PROVE  i.rate \in Int
<1>1. PICK l \in L : i = ItemOf(L, rate, l.class)
  BY DEF ItemsAt
<1> DEFINE c == l.class
           K == InLecture(L, c)
           last == Max({x.day : x \in K})
<1>2. K \subseteq HeldLesson /\ K # {} /\ c \in Lecture
  BY LessonCosts DEF InLecture
<1>3. PICK k \in K : k.day = last
  <2> HIDE DEF K
  <2> QED
    BY <1>2, LatestOf
<1>4. k.day \in LessonDay
  <2>1. k \in L
    BY DEF InLecture
  <2> QED
    BY <2>1, LessonCosts
<1>5. i.rate = rate[<<c, last>>]
  BY <1>1 DEF ItemOf
<1> HIDE DEF c, last, K
<1> QED
  BY <1>2, <1>3, <1>4, <1>5 DEF RateTable

\* Settling a payee
LEMMA SettleSlipKeeps ==
  ASSUME SlipInv, NEW p \in Payee, NEW m \in SlipMonth, NEW wave, Settle(p, m, wave)
  PROVE  SlipInv'
<1> DEFINE L == LessonsIn(p, wave)
<1>1. tariff' = tariff /\ given' = given
  BY DEF Settle
<1>2. PICK rows, new : new \in Slips(p, m, wave) /\ slip' = (slip \ rows) \union {new}
  BY DEF Settle
<1>3. PICK rate \in Rates(p) :
        new = [who |-> p, month |-> m, from |-> wave.from, to |-> wave.to, period |-> FALSE,
               items |-> ItemsAt(L, rate), total |-> Amount(L, rate),
               lessons |-> L, flat |-> Flat(L, rate, m)]
  BY <1>2 DEF Slips
<1>4. L \subseteq HeldLesson /\ rate \in RateTable
  BY RatesAre DEF SlipInv, LessonsIn
<1>5. /\ new.who = p /\ new.month = m /\ new.items = ItemsAt(L, rate)
      /\ new.total = Amount(L, rate) /\ new.lessons = L /\ new.flat = Flat(L, rate, m)
  BY <1>3
<1>6. SlipKept(new)
  <2> HIDE DEF L
  <2>1. FlatSlip(new)
    BY <1>4, <1>5 DEF FlatSlip
  <2>2. \A i \in new.items : i.rate \in Int
    BY <1>4, <1>5, ItemRates
  <2> QED
    BY <1>5, <2>1, <2>2 DEF SlipKept
<1>7. \A w \in slip' : SlipKept(w)
  BY <1>2, <1>6 DEF SlipInv
<1> QED
  BY <1>1, <1>7 DEF SlipInv, SlipKept, FlatSlip

\* A row that a period makes
LEMMA PeriodKeeps ==
  ASSUME SlipInv, NEW p \in Payee, NEW m \in SlipMonth, NEW L, BillInPeriod(p, m, L)
  PROVE  SlipInv'
<1> DEFINE price == [k \in Lecture \X LessonDay |-> tariff[k[2]]]
           At(c, r) == {l \in L : l.class = c /\ tariff[l.day] = r}
           item(l) == [class |-> l.class, rate |-> tariff[l.day],
                       total |-> Amount(At(l.class, tariff[l.day]), price)]
           new == [who |-> p, month |-> m, from |-> FirstOf(m), to |-> LastOf(m), period |-> TRUE,
                   items |-> {item(l) : l \in L},
                   total |-> Amount(L, price), lessons |-> L, flat |-> FALSE]
<1>1. tariff' = tariff /\ given' = given /\ slip' = slip \union {new}
  BY DEF BillInPeriod
<1>2. \A l \in L : l.day \in LessonDay
  <2>1. L \subseteq HeldLesson
    BY DEF BillInPeriod, SlipInv
  <2>2. \A l \in L : l \in [who : Payee, class : Lecture, day : LessonDay, there : BOOLEAN]
    BY <2>1, MonthConstants
  <2> QED
    BY <2>2
<1>3. \A l \in L : tariff[l.day] \in Int
  BY <1>2 DEF SlipInv
<1>4. \A i \in new.items : i.rate \in Int
  <2>1. \A l : item(l).rate = tariff[l.day]
    OBVIOUS
  <2> HIDE DEF item
  <2>2. new.items = {item(l) : l \in L}
    OBVIOUS
  <2> HIDE DEF new
  <2> QED
    BY <1>3, <2>1, <2>2
<1>5. new.who = p /\ ~new.flat
  OBVIOUS
<1> HIDE DEF new
<1>6. SlipKept(new)
  BY <1>4, <1>5 DEF SlipKept, FlatSlip
<1>7. \A w \in slip' : SlipKept(w)
  BY <1>1, <1>6 DEF SlipInv
<1> QED
  BY <1>1, <1>7 DEF SlipInv, SlipKept, FlatSlip

\* The first rows
LEMMA SlipStarts == MonthInit => SlipInv
<1> SUFFICES ASSUME MonthInit PROVE SlipInv
  OBVIOUS
<1>1. \A w \in slip : w.who \in Payee /\ ~w.flat /\ \A i \in w.items : i.rate \in Int
  BY MonthConstants DEF MonthInit
<1>2. tariff \in [LessonDay -> Int] /\ given \subseteq HeldLesson
  BY MonthConstants DEF MonthInit
<1> QED
  BY <1>1, <1>2 DEF SlipInv, SlipKept, FlatSlip

\* Every step keeps the rows.
LEMMA SlipKeeps == SlipInv /\ [MonthNext]_monthVars => SlipInv'
<1> SUFFICES ASSUME SlipInv, [MonthNext]_monthVars PROVE SlipInv'
  OBVIOUS
<1>1. ASSUME NEW p \in Payee, NEW m \in SlipMonth, PayMonth(p, m) PROVE SlipInv'
  BY <1>1, SettleSlipKeeps DEF PayMonth
<1>2. ASSUME NEW p \in Payee, NEW m \in SlipMonth, NEW wave \in GivenDates, PayDates(p, m, wave)
      PROVE  SlipInv'
  BY <1>2, SettleSlipKeeps DEF PayDates
<1>3. ASSUME NEW p \in Payee, NEW m \in SlipMonth, WithdrawMonth(p, m) PROVE SlipInv'
  <2>1. tariff' = tariff /\ given' = given /\ slip' \subseteq slip
    BY <1>3 DEF WithdrawMonth
  <2> QED
    BY <2>1 DEF SlipInv, SlipKept, FlatSlip
<1>4. ASSUME NEW p \in Payee, NEW m \in SlipMonth, NEW L, BillInPeriod(p, m, L) PROVE SlipInv'
  BY <1>4, PeriodKeeps
<1>5. ASSUME NEW l \in HeldLesson, LockLesson(l) PROVE SlipInv'
  BY <1>5 DEF LockLesson, SlipInv, SlipKept, FlatSlip
<1>6. ASSUME NEW new \in Tariff, ChangeTariff(new) PROVE SlipInv'
  <2>1. tariff' \in [LessonDay -> Int] /\ given' = given /\ slip' = slip
    BY <1>6, MonthConstants DEF ChangeTariff
  <2> QED
    BY <2>1 DEF SlipInv, SlipKept, FlatSlip
<1>7. CASE NextDate
  BY <1>7 DEF NextDate, SlipInv, SlipKept, FlatSlip
<1>8. CASE UNCHANGED monthVars
  BY <1>8 DEF monthVars, SlipInv, SlipKept, FlatSlip
<1> QED
  BY <1>1, <1>2, <1>3, <1>4, <1>5, <1>6, <1>7, <1>8 DEF MonthNext

(* calculateStudentBillingItems, calculateTeacherWageItems: a row keeps its         *)
(* amount in the list, in every report and in its items whatever the price becomes, *)
(* while its dates have the same lessons, the lessons of a class had one price, and *)
(* the payee has no other row of the month - the sums by lesson, by class and by    *)
(* item are the same number.                                                        *)
THEOREM SettledAmountsKept == MonthSpec => []SettledAmountKept
<1>1. SlipInv => SettledAmountKept
  BY RowShown
<1> QED
  BY <1>1, SlipStarts, SlipKeeps, PTL DEF MonthSpec

-----------------------------------------------------------------------------
(* Dashboards                                                              *)

EnrolmentRow == [status : {"none", "Active", "Dropped"}, joined : Nat, changed : Nat]

\* Types
DashInv ==
  /\ member \in [Attendee \X Course -> EnrolmentRow]
  /\ mark = [l \in Meeting \X Attendee |-> mark[l]]
  /\ handedIn \in SUBSET (Attendee \X Homework)
  /\ date \in Nat

\* What the lists of the past show of an enrolment and of a lesson
InStats(row, k) ==
  /\ row.status # "none" /\ row.joined <= EndOfMonth(k)
  /\ ~(row.status = "Dropped" /\ row.changed < StartOfMonth(k))

StatusThen(row, k) ==
  IF row.status = "Dropped" /\ LeftAfter(row, k) THEN "Active" ELSE row.status

InSchedule(row, there, d) ==
  \/ row.status = "Active" /\ d >= row.joined
  \/ row.status = "Dropped" /\ (there \/ (d >= row.joined /\ Attended(d, row)))

\* A month has days, the first of which is not after the last.
LEMMA MonthDays ==
  ASSUME NEW k \in CalendarMonth
  PROVE  StartOfMonth(k) \in Nat /\ EndOfMonth(k) \in Nat /\ StartOfMonth(k) <= EndOfMonth(k)
<1> DEFINE T == {d \in CalendarDay : MonthOfDay[d] = k}
<1>1. T \subseteq Nat /\ T # {}
  BY DashConstants
<1>2. PICK last \in CalendarDay : \A d \in CalendarDay : d <= last
  BY DashConstants
<1>3. last \in Nat /\ \A x \in T : x <= last
  BY <1>2, DashConstants
<1>4. Min(T) \in T /\ Max(T) \in T /\ Min(T) <= Max(T)
  <2> HIDE DEF T
  <2>1. Max(T) \in T
    BY <1>1, <1>3, GreatestOne
  <2> QED
    BY <1>1, <2>1, LeastOne
<1>5. Min(T) \in Nat /\ Max(T) \in Nat
  <2> HIDE DEF T
  <2> QED
    BY <1>1, <1>4
<1> QED
  BY <1>4, <1>5 DEF StartOfMonth, EndOfMonth

\* What a step does to one enrolment while its joined date stays: a new member
\* joins today, one leaves today, or nothing happens to it.
LEMMA EnrolmentStays ==
  ASSUME DashInv, [DashNext]_dashVars,
         NEW p \in Attendee, NEW c \in Course, ~Rejoins(p, c)
  PROVE  LET old == member[<<p, c>>]
             new == member'[<<p, c>>]
         IN \/ new = old
            \/ /\ old.status # "Active" /\ old.status # "Dropped"
               /\ new = [status |-> "Active", joined |-> date, changed |-> 0]
            \/ /\ old.status = "Active"
               /\ new = [old EXCEPT !.status = "Dropped", !.changed = date]
<1> DEFINE old == member[<<p, c>>]
           new == member'[<<p, c>>]
           Goal == \/ new = old
                   \/ /\ old.status # "Active" /\ old.status # "Dropped"
                      /\ new = [status |-> "Active", joined |-> date, changed |-> 0]
                   \/ /\ old.status = "Active"
                      /\ new = [old EXCEPT !.status = "Dropped", !.changed = date]
<1>1. CASE UNCHANGED member
  BY <1>1
<1>2. ASSUME NEW q \in Attendee, NEW b \in Course, Enrol(q, b)
      PROVE  Goal
  <2>1. /\ member[<<q, b>>].status # "Active"
        /\ member' = [member EXCEPT ![<<q, b>>] =
                         [status |-> "Active", joined |-> date, changed |-> 0]]
    BY <1>2 DEF Enrol, Enrolled
  <2>2. CASE q = p /\ b = c
    BY <2>1, <2>2 DEF DashInv, EnrolmentRow, Rejoins
  <2>3. CASE <<q, b>> # <<p, c>>
    BY <2>1, <2>3 DEF DashInv
  <2> QED
    BY <2>2, <2>3
<1>3. ASSUME NEW q \in Attendee, NEW b \in Course, RemoveStudent(q, b)
      PROVE  Goal
  <2>1. /\ member[<<q, b>>].status = "Active"
        /\ member' = [member EXCEPT ![<<q, b>>].status = "Dropped", ![<<q, b>>].changed = date]
    BY <1>3 DEF RemoveStudent, Enrolled
  <2>2. CASE q = p /\ b = c
    BY <2>1, <2>2 DEF DashInv, EnrolmentRow
  <2>3. CASE <<q, b>> # <<p, c>>
    BY <2>1, <2>3 DEF DashInv
  <2> QED
    BY <2>2, <2>3
<1>4. ASSUME NEW q \in Attendee, NEW b \in Course, NEW from \in CalendarDay,
             MoveJoined(q, b, from)
      PROVE  Goal
  <2>1. /\ member[<<q, b>>].status = "Active"
        /\ member' = [member EXCEPT ![<<q, b>>].joined = from]
    BY <1>4 DEF MoveJoined, Enrolled
  <2>2. CASE q = p /\ b = c
    BY <2>1, <2>2 DEF DashInv, EnrolmentRow, Rejoins
  <2>3. CASE <<q, b>> # <<p, c>>
    BY <2>1, <2>3 DEF DashInv
  <2> QED
    BY <2>2, <2>3
<1>5. \/ UNCHANGED member
      \/ \E q \in Attendee, b \in Course :
           Enrol(q, b) \/ RemoveStudent(q, b) \/ \E from \in CalendarDay : MoveJoined(q, b, from)
  BY DEF DashNext, dashVars, MarkStudent, FinishMeeting, SetStage, HandIn, NextDay
<1> QED
  BY <1>1, <1>2, <1>3, <1>4, <1>5

\* A row of attendance of a class is only deleted for one who is in the class.
LEMMA RowStays ==
  ASSUME DashInv, [DashNext]_dashVars, NEW p \in Attendee, NEW m \in Meeting,
         mark[<<m, p>>] # "none", mark'[<<m, p>>] = "none"
  PROVE  Enrolled(p, CourseOf[m])
<1>1. ASSUME NEW q, NEW M \in SUBSET Meeting, NEW N, Rows(q, M, N)
      PROVE  q = p /\ m \in M
  BY <1>1 DEF Rows
<1>2. ASSUME NEW q \in Attendee, NEW b \in Course, Enrol(q, b)
      PROVE  FALSE
  <2>1. m \in {}
    BY <1>1, <1>2 DEF Enrol
  <2> QED
    BY <2>1
<1>3. ASSUME NEW q \in Attendee, NEW b \in Course, RemoveStudent(q, b)
      PROVE  Enrolled(p, CourseOf[m])
  <2> DEFINE M == {n \in MeetingsIn(b) : DateOf[n] >= date /\ Disposable(n, q)}
  <2>1. M \in SUBSET Meeting /\ \A n \in M : CourseOf[n] = b
    BY DEF MeetingsIn
  <2>2. Enrolled(q, b) /\ Rows(q, M, {})
    BY <1>3 DEF RemoveStudent
  <2> HIDE DEF M
  <2> QED
    BY <1>1, <2>1, <2>2
<1>4. ASSUME NEW q \in Attendee, NEW b \in Course, NEW from \in CalendarDay,
             MoveJoined(q, b, from)
      PROVE  Enrolled(p, CourseOf[m])
  <2> DEFINE M == {n \in MeetingsIn(b) : DateOf[n] < from}
  <2>1. M \in SUBSET Meeting /\ \A n \in M : CourseOf[n] = b
    BY DEF MeetingsIn
  <2>2. Enrolled(q, b) /\ Rows(q, M, MeetingsIn(b) \ M)
    BY <1>4 DEF MoveJoined
  <2> HIDE DEF M
  <2> QED
    BY <1>1, <2>1, <2>2
<1>5. ASSUME NEW n \in Meeting, NEW q \in Attendee, NEW v \in {"present", "absent"},
             MarkStudent(n, q, v)
      PROVE  FALSE
  BY <1>5 DEF MarkStudent, DashInv
<1>6. mark' # mark
  OBVIOUS
<1> QED
  BY <1>2, <1>3, <1>4, <1>5, <1>6
  DEF DashNext, dashVars, FinishMeeting, SetStage, HandIn, NextDay

\* The first state
LEMMA DashStarts == DashInit => DashInv
  BY DashConstants DEF DashInit, DashInv, EnrolmentRow, NotMember

\* Every step of the tables behind the dashboards
LEMMA DashKeeps == DashInv /\ [DashNext]_dashVars => DashInv'
<1> SUFFICES ASSUME DashInv, [DashNext]_dashVars PROVE DashInv'
  OBVIOUS
<1>1. date' \in Nat
  BY DashConstants DEF DashInv, DashNext, dashVars, Enrol, RemoveStudent, MoveJoined, MarkStudent,
     SetStage, FinishMeeting, HandIn, NextDay
<1>2. member' \in [Attendee \X Course -> EnrolmentRow]
  <2>1. ASSUME NEW e \in Attendee \X Course, NEW new \in EnrolmentRow,
               member' = [member EXCEPT ![e] = new]
        PROVE  member' \in [Attendee \X Course -> EnrolmentRow]
    BY <2>1 DEF DashInv
  <2>2. ASSUME NEW p \in Attendee, NEW c \in Course, Enrol(p, c)
        PROVE  member' \in [Attendee \X Course -> EnrolmentRow]
    <3>1. [status |-> "Active", joined |-> date, changed |-> 0] \in EnrolmentRow
      BY DEF DashInv, EnrolmentRow
    <3> QED
      BY <2>1, <2>2, <3>1 DEF Enrol
  <2>3. ASSUME NEW p \in Attendee, NEW c \in Course, RemoveStudent(p, c)
        PROVE  member' \in [Attendee \X Course -> EnrolmentRow]
    <3> DEFINE new == [member[<<p, c>>] EXCEPT !.status = "Dropped", !.changed = date]
    <3>1. new \in EnrolmentRow
      <4>1. ASSUME NEW old \in EnrolmentRow
            PROVE  [old EXCEPT !.status = "Dropped", !.changed = date] \in EnrolmentRow
        BY DEF DashInv, EnrolmentRow
      <4>2. member[<<p, c>>] \in EnrolmentRow
        BY DEF DashInv
      <4> QED
        BY <4>1, <4>2
    <3>2. member' = [member EXCEPT ![<<p, c>>] = new]
      BY <2>3 DEF RemoveStudent, DashInv, EnrolmentRow
    <3> HIDE DEF new
    <3> QED
      BY <2>1, <3>1, <3>2
  <2>4. ASSUME NEW p \in Attendee, NEW c \in Course, NEW from \in CalendarDay,
               MoveJoined(p, c, from)
        PROVE  member' \in [Attendee \X Course -> EnrolmentRow]
    <3> DEFINE new == [member[<<p, c>>] EXCEPT !.joined = from]
    <3>1. new \in EnrolmentRow
      BY DashConstants DEF DashInv, EnrolmentRow
    <3>2. member' = [member EXCEPT ![<<p, c>>] = new]
      BY <2>4 DEF MoveJoined, DashInv, EnrolmentRow
    <3> HIDE DEF new
    <3> QED
      BY <2>1, <3>1, <3>2
  <2> QED
    BY <2>2, <2>3, <2>4
    DEF DashInv, DashNext, dashVars, MarkStudent, SetStage, FinishMeeting, HandIn, NextDay
<1>3. mark' = [l \in Meeting \X Attendee |-> mark'[l]]
  BY DEF DashInv, DashNext, dashVars, Enrol, RemoveStudent, MoveJoined, MarkStudent,
     SetStage, FinishMeeting, HandIn, NextDay, Rows
<1>4. handedIn' \in SUBSET (Attendee \X Homework)
  <2>1. CASE UNCHANGED handedIn
    BY <2>1 DEF DashInv
  <2>2. ASSUME NEW p \in Attendee, NEW w \in Homework, handedIn' = handedIn \union {<<p, w>>}
        PROVE  handedIn' \in SUBSET (Attendee \X Homework)
    BY <2>2 DEF DashInv
  <2> QED
    BY <2>1, <2>2 DEF DashNext, dashVars, Enrol, RemoveStudent, MoveJoined, MarkStudent,
       SetStage, FinishMeeting, HandIn, NextDay
<1> QED
  BY <1>1, <1>2, <1>3, <1>4 DEF DashInv

\* The list of a month that is over keeps its members and their status then.
LEMMA StatsStay ==
  ASSUME DashInv, [DashNext]_dashVars, NEW c \in Course, NEW k \in CalendarMonth,
         EndOfMonth(k) < date, \A p \in Attendee : ~Rejoins(p, c)
  PROVE  StatsOf(c, k)' = StatsOf(c, k)
<1>1. ASSUME NEW p \in Attendee
      PROVE  /\ InStats(member[<<p, c>>], k) <=> InStats(member'[<<p, c>>], k)
             /\ InStats(member[<<p, c>>], k) =>
                  StatusThen(member[<<p, c>>], k) = StatusThen(member'[<<p, c>>], k)
  <2> DEFINE old == member[<<p, c>>]
             new == member'[<<p, c>>]
  <2>1. /\ StartOfMonth(k) \in Nat /\ EndOfMonth(k) \in Nat /\ date \in Nat
        /\ StartOfMonth(k) <= EndOfMonth(k) /\ EndOfMonth(k) < date
    BY MonthDays DEF DashInv
  <2>2. \/ new = old
        \/ /\ old.status # "Active" /\ old.status # "Dropped"
           /\ new = [status |-> "Active", joined |-> date, changed |-> 0]
        \/ /\ old.status = "Active"
           /\ new = [old EXCEPT !.status = "Dropped", !.changed = date]
    BY EnrolmentStays
  <2>3. old \in EnrolmentRow
    BY DEF DashInv
  <2> HIDE DEF old, new
  <2>4. InStats(old, k) <=> InStats(new, k)
    <3>1. CASE new = old
      BY <3>1
    <3>2. CASE /\ old.status # "Active" /\ old.status # "Dropped"
               /\ new = [status |-> "Active", joined |-> date, changed |-> 0]
      <4>1. old.status = "none" /\ new.joined = date /\ ~(date <= EndOfMonth(k))
        BY <2>1, <2>3, <3>2 DEF EnrolmentRow
      <4> QED
        BY <4>1 DEF InStats
    <3>3. CASE /\ old.status = "Active"
               /\ new = [old EXCEPT !.status = "Dropped", !.changed = date]
      <4>1. /\ new.status = "Dropped" /\ new.changed = date /\ new.joined = old.joined
            /\ ~(date < StartOfMonth(k))
        BY <2>1, <2>3, <3>3 DEF EnrolmentRow
      <4> QED
        BY <3>3, <4>1 DEF InStats
    <3> QED
      BY <2>2, <3>1, <3>2, <3>3
  <2>5. InStats(old, k) => StatusThen(old, k) = StatusThen(new, k)
    BY <2>1, <2>2, <2>3 DEF InStats, StatusThen, LeftAfter, EnrolmentRow
  <2> QED
    BY <2>4, <2>5 DEF old, new
<1>2. StatsOf(c, k) = {[student |-> p, status |-> StatusThen(member[<<p, c>>], k)] :
                         p \in {q \in Attendee : InStats(member[<<q, c>>], k)}}
  BY DEF StatsOf, StatusThen, InStats
<1>3. StatsOf(c, k)' = {[student |-> p, status |-> StatusThen(member'[<<p, c>>], k)] :
                         p \in {q \in Attendee : InStats(member'[<<q, c>>], k)}}
  BY DEF StatsOf, StatusThen, InStats, LeftAfter
<1> QED
  BY <1>1, <1>2, <1>3

\* A lesson of the past stays in the schedule of a student.
LEMMA ScheduleStays ==
  ASSUME DashInv, [DashNext]_dashVars, NEW p \in Attendee, NEW m \in Meeting,
         m \in ScheduleOf(p), DateOf[m] < date, ~Rejoins(p, CourseOf[m])
  PROVE  m \in ScheduleOf(p)'
<1> DEFINE c == CourseOf[m]
           old == member[<<p, c>>]
           new == member'[<<p, c>>]
<1>1. c \in Course /\ DateOf[m] \in Nat /\ date \in Nat
  BY DashConstants DEF DashInv
<1>2. \/ new = old
      \/ /\ old.status # "Active" /\ old.status # "Dropped"
         /\ new = [status |-> "Active", joined |-> date, changed |-> 0]
      \/ /\ old.status = "Active"
         /\ new = [old EXCEPT !.status = "Dropped", !.changed = date]
  BY <1>1, EnrolmentStays
<1>3. InSchedule(old, mark[<<m, p>>] # "none", DateOf[m])
  BY DEF ScheduleOf, InSchedule
<1>4. InSchedule(new, mark'[<<m, p>>] # "none", DateOf[m])
  <2>1. old.status = "Dropped" /\ mark[<<m, p>>] # "none" => mark'[<<m, p>>] # "none"
    BY RowStays DEF Enrolled
  <2>2. old \in EnrolmentRow
    BY <1>1 DEF DashInv
  <2> HIDE DEF c, old, new
  <2> QED
    BY <1>1, <1>2, <1>3, <2>1, <2>2 DEF EnrolmentRow, InSchedule, Attended
<1> QED
  BY <1>4 DEF ScheduleOf, InSchedule, Attended

\* The lists of a month that is over and the lessons a student has had are not
\* changed by who joins, leaves, is marked or hands in later (class-read and
\* student screens); only a new joined date or enrolment changes them.
THEOREM ViewsOfPastStay == DashSpec => PastViewsKept
<1>1. DashInv /\ [DashNext]_dashVars =>
        [/\ \A c \in Course, k \in CalendarMonth :
              EndOfMonth(k) < date /\ (\A p \in Attendee : ~Rejoins(p, c))
                => StatsOf(c, k)' = StatsOf(c, k)
         /\ \A p \in Attendee, m \in Meeting :
              m \in ScheduleOf(p) /\ DateOf[m] < date /\ ~Rejoins(p, CourseOf[m])
                => m \in ScheduleOf(p)']_dashVars
  BY StatsStay, ScheduleStays
<1> QED
  BY <1>1, DashStarts, DashKeeps, PTL DEF DashSpec, PastViewsKept

\* Rows of marks, counted part by part
LEMMA RowsInParts ==
  ASSUME NEW M \in SUBSET Meeting, NEW P \in SUBSET Attendee, NEW v, NEW C, IsFiniteSet(C),
         NEW N, NEW g, \A c \in C : N[c] \subseteq M /\ g[c] = Cardinality(MarkedRows(N[c], P, v)),
         \A m \in M : \E c \in C : m \in N[c],
         \A c, d \in C : c # d => N[c] \cap N[d] = {}
  PROVE  Cardinality(MarkedRows(M, P, v)) = Sum(C, g)
<1> DEFINE part == [c \in C |-> MarkedRows(N[c], P, v)]
           S == MarkedRows(M, P, v)
<1>1. IsFiniteSet(S)
  <2>1. IsFiniteSet(M) /\ IsFiniteSet(P)
    BY FS_Subset, DashConstants
  <2> QED
    BY <2>1, FS_Product, FS_Subset DEF MarkedRows
<1>2. \A l \in S : \E c \in C : l \in part[c]
  BY DEF MarkedRows
<1>3. \A c \in C : part[c] \subseteq S /\ g[c] = Cardinality(part[c])
  BY DEF MarkedRows
<1>4. \A c, d \in C : c # d => part[c] \cap part[d] = {}
  BY DEF MarkedRows
<1> HIDE DEF part
<1> QED
  BY <1>1, <1>2, <1>3, <1>4, CountParts

\* The sums of the attendance reports by class and by month
LEMMA ReportsAgree ==
  ASSUME NEW v
  PROVE  /\ Summary(v) = Sum(Course, [c \in Course |-> ByClass(c, v)])
         /\ Summary(v) = Sum(CalendarMonth, [k \in CalendarMonth |-> ByMonth(k, v)])
<1> DEFINE M == {m \in Meeting : InReport(m)}
           P == Attendee
<1>1. Cardinality(MarkedRows(M, P, v)) = Sum(Course, [c \in Course |-> ByClass(c, v)])
  <2> DEFINE N == [c \in Course |-> {m \in MeetingsIn(c) : InReport(m)}]
             g == [c \in Course |-> ByClass(c, v)]
  <2>1. \A c \in Course : N[c] \subseteq M /\ g[c] = Cardinality(MarkedRows(N[c], P, v))
    BY DEF MeetingsIn, ByClass
  <2>2. \A m \in M : \E c \in Course : m \in N[c]
    BY DashConstants DEF MeetingsIn
  <2>3. \A c, d \in Course : c # d => N[c] \cap N[d] = {}
    BY DEF MeetingsIn
  <2>4. M \in SUBSET Meeting /\ P \in SUBSET Attendee /\ IsFiniteSet(Course)
    BY DashConstants
  <2> HIDE DEF M, N, P, g
  <2>5. Cardinality(MarkedRows(M, P, v)) = Sum(Course, g)
    BY <2>1, <2>2, <2>3, <2>4, RowsInParts
  <2> QED
    BY <2>5 DEF g
<1>2. Cardinality(MarkedRows(M, P, v)) =
        Sum(CalendarMonth, [k \in CalendarMonth |-> ByMonth(k, v)])
  <2> DEFINE N == [k \in CalendarMonth |-> {m \in InMonth(k) : InReport(m)}]
             g == [k \in CalendarMonth |-> ByMonth(k, v)]
  <2>1. \A k \in CalendarMonth : N[k] \subseteq M /\ g[k] = Cardinality(MarkedRows(N[k], P, v))
    BY DEF InMonth, ByMonth
  <2>2. \A m \in M : \E k \in CalendarMonth : m \in N[k]
    BY DashConstants DEF InMonth
  <2>3. \A c, d \in CalendarMonth : c # d => N[c] \cap N[d] = {}
    BY DEF InMonth
  <2>4. M \in SUBSET Meeting /\ P \in SUBSET Attendee /\ IsFiniteSet(CalendarMonth)
    BY DashConstants
  <2> HIDE DEF M, N, P, g
  <2>5. Cardinality(MarkedRows(M, P, v)) = Sum(CalendarMonth, g)
    BY <2>1, <2>2, <2>3, <2>4, RowsInParts
  <2> QED
    BY <2>5 DEF g
<1> HIDE DEF M, P
<1> QED
  BY <1>1, <1>2 DEF Summary, M, P

\* A student's reports by class sum up to his rank,
LEMMA RankAgrees ==
  ASSUME NEW p \in Attendee, NEW v
  PROVE  Ranked(p, v) = Sum(Course, [c \in Course |-> StudentReport(p, c, v)])
<1> DEFINE P == {p}
           M == {m \in Meeting : InReport(m)}
           N == [c \in Course |-> {m \in MeetingsIn(c) : InStudentReport(m)}]
           g == [c \in Course |-> StudentReport(p, c, v)]
<1>1. \A c \in Course : N[c] \subseteq M /\ g[c] = Cardinality(MarkedRows(N[c], P, v))
  BY DEF MeetingsIn, StudentReport, InReport, InStudentReport
<1>2. \A m \in M : \E c \in Course : m \in N[c]
  BY DashConstants DEF MeetingsIn, InReport, InStudentReport
<1>3. \A c, d \in Course : c # d => N[c] \cap N[d] = {}
  BY DEF MeetingsIn
<1>4. M \in SUBSET Meeting /\ P \in SUBSET Attendee /\ IsFiniteSet(Course)
  BY DashConstants
<1> HIDE DEF M, N, g, P
<1>5. Cardinality(MarkedRows(M, P, v)) = Sum(Course, g)
  BY <1>1, <1>2, <1>3, <1>4, RowsInParts
<1> QED
  BY <1>5 DEF Ranked, g, M, P

\* and those of all students to the report of the class.
LEMMA ClassAgrees ==
  ASSUME NEW c \in Course, NEW v
  PROVE  ByClass(c, v) = Sum(Attendee, [p \in Attendee |-> StudentReport(p, c, v)])
<1> DEFINE M == {m \in MeetingsIn(c) : InReport(m)}
           S == MarkedRows(M, Attendee, v)
           part == [p \in Attendee |-> MarkedRows(M, {p}, v)]
           g == [p \in Attendee |-> StudentReport(p, c, v)]
<1>1. IsFiniteSet(S)
  <2>1. M \in SUBSET Meeting
    BY DEF MeetingsIn
  <2> HIDE DEF M
  <2>2. IsFiniteSet(M)
    BY <2>1, FS_Subset, DashConstants
  <2> QED
    BY <2>2, DashConstants, FS_Product, FS_Subset DEF MarkedRows
<1>2. \A l \in S : \E p \in Attendee : l \in part[p]
  <2> HIDE DEF M
  <2> QED
    BY DEF MarkedRows
<1>3. \A p \in Attendee : part[p] \subseteq S
  <2> HIDE DEF M
  <2> QED
    BY DEF MarkedRows
<1>4. \A p, q \in Attendee : p # q => part[p] \cap part[q] = {}
  <2> HIDE DEF M
  <2> QED
    BY DEF MarkedRows
<1>5. \A p \in Attendee : g[p] = Cardinality(part[p])
  <2>1. M = {m \in MeetingsIn(c) : InStudentReport(m)}
    BY DEF InReport, InStudentReport
  <2> QED
    BY <2>1 DEF StudentReport
<1>6. \A p \in Attendee : part[p] \subseteq S /\ g[p] = Cardinality(part[p])
  BY <1>3, <1>5
<1> HIDE DEF part, S, g
<1>7. Cardinality(S) = Sum(Attendee, g)
  <2>1. IsFiniteSet(Attendee)
    BY DashConstants
  <2> QED
    BY <1>1, <1>2, <1>4, <1>6, <2>1, CountParts
<1> QED
  BY <1>7 DEF S, ByClass, g

\* The office counts what members were to hand in less what was handed in, a
\* student what he was to hand in and did not: what nobody misses it does not miss.
LEMMA HomeworkAgrees ==
  ASSUME handedIn \in SUBSET (Attendee \X Homework)
  PROVE  OfficeMissing <= Sum(Attendee, [p \in Attendee |-> PortalMissing(p)])
<1> DEFINE due == {l \in Attendee \X Homework : Enrolled(l[1], HomeworkOf[l[2]])}
           missed == due \ handedIn
           byWork == [w \in Homework |-> Cardinality({p \in Attendee : Enrolled(p, HomeworkOf[w])})]
           takersOf == [w \in Homework |-> {p \in Attendee : <<p, w>> \in due}]
           missedBy == [p \in Attendee |-> PortalMissing(p)]
           leftOf == [p \in Attendee |-> {w \in Homework : <<p, w>> \in missed}]
<1>1. due \in SUBSET (Attendee \X Homework) /\ missed \in SUBSET (Attendee \X Homework)
  OBVIOUS
<1>2. ASSUME NEW w \in Homework
      PROVE  byWork[w] = Cardinality(takersOf[w])
  <2>1. {p \in Attendee : Enrolled(p, HomeworkOf[w])} = takersOf[w]
    OBVIOUS
  <2> QED
    BY <2>1
<1>3. ASSUME NEW p \in Attendee
      PROVE  missedBy[p] = Cardinality(leftOf[p])
  <2> DEFINE W == {w \in Homework : Enrolled(p, HomeworkOf[w])}
             done == {w \in W : <<p, w>> \in handedIn}
  <2>1. IsFiniteSet(W)
    BY FS_Subset, DashConstants
  <2>2. W \cap done = done /\ W \ done = {w \in Homework : <<p, w>> \in missed}
    OBVIOUS
  <2>3. PortalMissing(p) = Pos(Cardinality(W) - Cardinality(done))
    BY DEF PortalMissing
  <2> DEFINE rest == W \ done
             both == W \cap done
  <2>4. IsFiniteSet(rest) /\ Cardinality(rest) = Cardinality(W) - Cardinality(both)
    <3> HIDE DEF W, done
    <3> QED
      BY <2>1, FS_Difference
  <2>5. Cardinality(rest) \in Nat
    <3> HIDE DEF rest
    <3> QED
      BY <2>4, FS_CardinalityType
  <2>6. both = done
    BY <2>2
  <2>7. rest = leftOf[p]
    BY <2>2
  <2>8. missedBy[p] = Cardinality(rest)
    <3> HIDE DEF rest, both, W, done
    <3>1. PortalMissing(p) = Cardinality(rest)
      BY <2>3, <2>4, <2>5, <2>6 DEF Pos
    <3> QED
      BY <3>1
  <2> HIDE DEF rest, missedBy, leftOf
  <2> QED
    BY <2>7, <2>8
<1>4. IsFiniteSet(due) /\ Cardinality(due) = Sum(Homework, byWork)
  <2>1. \A w \in Homework : takersOf[w] \subseteq Attendee
    OBVIOUS
  <2>2. \A p \in Attendee, w \in Homework : p \in takersOf[w] <=> <<p, w>> \in due
    OBVIOUS
  <2>3. IsFiniteSet(Attendee) /\ IsFiniteSet(Homework)
    BY DashConstants
  <2> HIDE DEF due, byWork, takersOf
  <2>4. \A w \in Homework : takersOf[w] \subseteq Attendee /\ byWork[w] = Cardinality(takersOf[w])
    BY <1>2, <2>1
  <2> QED
    BY <1>1, <2>2, <2>3, <2>4, CountColumns
<1>5. Cardinality(missed) = Sum(Attendee, missedBy)
  <2>1. \A p \in Attendee : leftOf[p] \subseteq Homework
    OBVIOUS
  <2>2. \A p \in Attendee, w \in Homework : w \in leftOf[p] <=> <<p, w>> \in missed
    OBVIOUS
  <2>3. IsFiniteSet(Attendee) /\ IsFiniteSet(Homework)
    BY DashConstants
  <2> HIDE DEF missed, missedBy, leftOf
  <2>4. \A p \in Attendee : leftOf[p] \subseteq Homework /\ missedBy[p] = Cardinality(leftOf[p])
    BY <1>3, <2>1
  <2> QED
    BY <1>1, <2>2, <2>3, <2>4, CountRows
<1>6. Cardinality(missed) \in Nat /\ Cardinality(missed) >= Cardinality(due) - Cardinality(handedIn)
  <2>1. IsFiniteSet(handedIn)
    BY DashConstants, FS_Product, FS_Subset
  <2> DEFINE both == due \cap handedIn
  <2>2. both \in SUBSET handedIn
    OBVIOUS
  <2>3. IsFiniteSet(both) /\ Cardinality(both) <= Cardinality(handedIn)
    <3> HIDE DEF both
    <3> QED
      BY <2>1, <2>2, FS_Subset
  <2>4. IsFiniteSet(missed) /\ Cardinality(missed) = Cardinality(due) - Cardinality(both)
    <3> HIDE DEF due
    <3> QED
      BY <1>4, FS_Difference
  <2> HIDE DEF both, missed, due
  <2>5. /\ Cardinality(missed) \in Nat /\ Cardinality(due) \in Nat
        /\ Cardinality(both) \in Nat /\ Cardinality(handedIn) \in Nat
    BY <1>4, <2>1, <2>3, <2>4, FS_CardinalityType
  <2> QED
    BY <2>3, <2>4, <2>5
<1>7. OfficeMissing = Pos(Cardinality(due) - Cardinality(handedIn))
  <2>1. OfficeMissing = Pos(Sum(Homework, byWork) - Cardinality(handedIn))
    BY DEF OfficeMissing
  <2> HIDE DEF due, byWork
  <2> QED
    BY <1>4, <2>1
<1>8. OfficeMissing <= Sum(Attendee, missedBy)
  <2> HIDE DEF due, missed, missedBy
  <2>1. Cardinality(due) \in Nat /\ Cardinality(handedIn) \in Nat
    <3>1. IsFiniteSet(handedIn)
      BY DashConstants, FS_Product, FS_Subset
    <3> QED
      BY <1>4, <3>1, FS_CardinalityType
  <2> DEFINE a == Cardinality(due)
             b == Cardinality(handedIn)
             c == Cardinality(missed)
  <2>2. a \in Nat /\ b \in Nat /\ c \in Nat /\ c >= a - b
    BY <1>6, <2>1
  <2>3. OfficeMissing = Pos(a - b) /\ Sum(Attendee, missedBy) = c
    BY <1>5, <1>7
  <2> HIDE DEF a, b, c
  <2>4. Pos(a - b) <= c
    BY <2>2 DEF Pos
  <2> QED
    BY <2>3, <2>4
<1> QED
  BY <1>8

\* What the lists show of one lesson
LEMMA LessonViewsAgree ==
  ASSUME date \in Nat, NEW m \in Meeting
  PROVE  /\ \A p \in Attendee :
              /\ m \in RiskRows(p) => InReport(m)
              /\ PortalColor(m, p) = "green" /\ DateOf[m] <= date /\ meeting[m].status \in {"Scheduled", "Completed"}
                   => InStudentReport(m)
         /\ DateOf[m] < date =>
              /\ m \in Finished(CourseOf[m]) \/ Unlocked(m) \/ meeting[m].status = "Cancelled"
              /\ TeacherColor(m) = "red" => Unlocked(m) \/ meeting[m].status = "Cancelled"
<1>1. ASSUME DateOf[m] < date
      PROVE  /\ m \in Finished(CourseOf[m]) \/ Unlocked(m) \/ meeting[m].status = "Cancelled"
             /\ TeacherColor(m) = "red" => Unlocked(m) \/ meeting[m].status = "Cancelled"
  <2>1. DateOf[m] \in Nat
    BY DashConstants
  <2>2. DateOf[m] <= date
    BY <1>1, <2>1
  <2> QED
    BY <1>1, <2>2 DEF Finished, MeetingsIn, Unlocked, TeacherColor
<1>2. ASSUME NEW p \in Attendee
      PROVE  /\ m \in RiskRows(p) => InReport(m)
             /\ PortalColor(m, p) = "green" /\ DateOf[m] <= date /\ meeting[m].status \in {"Scheduled", "Completed"}
                   => InStudentReport(m)
  BY DEF RiskRows, InReport, InStudentReport
<1> QED
  BY <1>1, <1>2

\* The views of any state
LEMMA ViewsOfState == DashInv => ViewsAgree
<1> SUFFICES ASSUME DashInv PROVE ViewsAgree
  OBVIOUS
<1>1. ASSUME NEW v \in {"present", "absent"}
      PROVE  /\ Summary(v) = Sum(Course, [c \in Course |-> ByClass(c, v)])
             /\ Summary(v) = Sum(CalendarMonth, [k \in CalendarMonth |-> ByMonth(k, v)])
             /\ \A p \in Attendee : Ranked(p, v) = Sum(Course, [c \in Course |-> StudentReport(p, c, v)])
             /\ \A c \in Course :
                  ByClass(c, v) = Sum(Attendee, [p \in Attendee |-> StudentReport(p, c, v)])
  BY ReportsAgree, RankAgrees, ClassAgrees
<1>2. ASSUME NEW p \in Attendee
      PROVE  /\ \A m \in RiskRows(p) : InReport(m)
             /\ \A m \in PortalLessons(p) :
                  PortalColor(m, p) = "green" /\ DateOf[m] <= date /\ meeting[m].status \in {"Scheduled", "Completed"}
                    => InStudentReport(m)
  <2>1. (\A m \in RiskRows(p) : m \in Meeting) /\ (\A m \in PortalLessons(p) : m \in Meeting)
    BY DEF RiskRows, PortalLessons
  <2> QED
    BY <2>1, LessonViewsAgree DEF DashInv
<1>3. ASSUME NEW m \in Meeting, DateOf[m] < date
      PROVE  /\ m \in Finished(CourseOf[m]) \/ Unlocked(m) \/ meeting[m].status = "Cancelled"
             /\ TeacherColor(m) = "red" => Unlocked(m) \/ meeting[m].status = "Cancelled"
  BY <1>3, LessonViewsAgree DEF DashInv
<1>4. OfficeMissing <= Sum(Attendee, [p \in Attendee |-> PortalMissing(p)])
  BY HomeworkAgrees DEF DashInv
<1> QED
  BY <1>1, <1>2, <1>3, <1>4 DEF ViewsAgree

\* However many classes, months and students there are: the attendance reports
\* of the office have the same sums, a lesson of the past is open for the office
\* or finished for the teacher or cancelled, and the office misses no homework
\* that no student misses (dashboard and attendance-report queries).
THEOREM ViewsTellTheSame == DashSpec => []ViewsAgree
<1> QED
  BY DashStarts, DashKeeps, ViewsOfState, PTL DEF DashSpec

-----------------------------------------------------------------------------
(* Notices                                                                 *)

NoticeRow == [owner : User, read : BOOLEAN, archived : BOOLEAN]
LogRow == [Event \X BOOLEAN -> Nat]

Held ==
  [op : {"save", "readAll", "archiveAll", "logREAD", "logARCHIVED"}, user : User,
   rows : SUBSET Nat, copy : NoticeRow \union {Nobody}, stale : BOOLEAN]

NoticeTyped ==
  /\ notice \in Seq(NoticeRow) /\ log \in Seq(LogRow) /\ Len(log) = Len(notice)
  /\ tab \in [Tab -> Held \union {Nobody}]
  /\ \A t \in Tab : tab[t] # Nobody => tab[t].rows \subseteq Ids

\* While no other request of the account has written, what a request found is
\* what there is.
StillTrue(t) ==
  /\ tab[t].op = "save" =>
       \E n \in Ids, how \in {"read", "unread", "archive"} :
         /\ tab[t].rows = {n} /\ FoundFor(n, tab[t].user)
         /\ tab[t].copy = Changed(notice[n], how)
  /\ tab[t].op = "readAll" => tab[t].rows \subseteq Unread(tab[t].user)
  /\ tab[t].op = "archiveAll" => tab[t].rows \subseteq ReadOnes(tab[t].user)

Fresh == \A t \in Tab : tab[t] # Nobody /\ ~tab[t].stale => StillTrue(t)

\* The requests that are to log event e of notice n a second time
LogOf(e) == CASE e = "READ" -> "logREAD" [] e = "ARCHIVED" -> "logARCHIVED" [] OTHER -> "none"
ToLog(n, e) == {t \in Tab : tab[t] # Nobody /\ tab[t].op = LogOf(e) /\ n \in tab[t].rows}

Bit(b) == IF b THEN 1 ELSE 0

\* The log of a notice; entries still to be repeated count as repeated.
LogTells(n) ==
  /\ log[n][<<"READ", FALSE>>] - log[n][<<"UNREAD", FALSE>>] = Bit(notice[n].read)
  /\ log[n][<<"ARCHIVED", FALSE>>] = Bit(notice[n].archived)
  /\ \A e \in Event : log[n][<<e, TRUE>>] + Cardinality(ToLog(n, e)) <= log[n][<<e, FALSE>>]

NoticeInv == ~crossed => NoticeTyped /\ Fresh /\ \A n \in Ids : LogTells(n)

\* Two sequences of one length
LEMMA RowsOfBoth ==
  ASSUME NoticeTyped
  PROVE  /\ Len(notice) \in Nat /\ Ids = 1..Len(notice)
         /\ notice \in [Ids -> NoticeRow] /\ log \in [Ids -> LogRow]
  BY LenProperties DEF NoticeTyped, Ids

\* A change that the trigger logs as what it is: no row is taken out of the
\* archive, and none is archived and marked at once.
Tidy(old, new) ==
  /\ new \in NoticeRow /\ new.owner = old.owner
  /\ old.archived => new.archived
  /\ new.archived # old.archived => new.read = old.read

\* The one event logged of a change tells the change.
LEMMA TriggerTells ==
  ASSUME NEW old \in NoticeRow, NEW new, Tidy(old, new)
  PROVE  /\ One("READ", EventOf(old, new)) - One("UNREAD", EventOf(old, new))
              = Bit(new.read) - Bit(old.read)
         /\ One("ARCHIVED", EventOf(old, new)) = Bit(new.archived) - Bit(old.archived)
  BY DEF Tidy, NoticeRow, One, EventOf, Bit

\* The requests that are to log an event can be counted.
LEMMA ToLogFinite ==
  ASSUME NEW n, NEW e
  PROVE  IsFiniteSet(ToLog(n, e)) /\ Cardinality(ToLog(n, e)) \in Nat
<1>1. ToLog(n, e) \subseteq Tab
  BY DEF ToLog
<1> QED
  BY <1>1, NoticeConstants, FS_Subset, FS_CardinalityType

\* What a write makes of the rows and their log
LEMMA WriteLogs ==
  ASSUME NoticeTyped, NEW new \in [Ids -> NoticeRow], NEW also, NEW batch \in BOOLEAN,
         Write(new, also, batch)
  PROVE  /\ Ids' = Ids /\ notice' \in Seq(NoticeRow)
         /\ log' \in Seq(LogRow) /\ Len(log') = Len(notice')
         /\ \A n \in Ids :
              /\ notice'[n] = new[n]
              /\ \A e \in Event, b \in BOOLEAN :
                   log'[n][<<e, b>>] =
                     log[n][<<e, b>>] + (IF b THEN 0 ELSE One(e, EventOf(notice[n], new[n])))
                                      + (IF b = batch THEN One(e, also[n]) ELSE 0)
<1>1. /\ Len(notice) \in Nat /\ Ids = 1..Len(notice) /\ log \in [Ids -> LogRow]
  BY RowsOfBoth
<1>2. notice' = new /\ Ids' = Ids /\ notice' \in Seq(NoticeRow) /\ Len(notice') = Len(notice)
  BY <1>1 DEF Write, Ids
<1> DEFINE entry(n) == [k \in Event \X BOOLEAN |->
                          log[n][k] + (IF k[2] THEN 0 ELSE One(k[1], EventOf(notice[n], new[n])))
                                    + (IF k[2] = batch THEN One(k[1], also[n]) ELSE 0)]
<1>3. log' = [n \in Ids |-> entry(n)]
  BY DEF Write
<1>4. \A n \in Ids : entry(n) \in LogRow
  BY <1>1 DEF LogRow, One
<1>5. \A n \in Ids : \A e \in Event, b \in BOOLEAN :
        entry(n)[<<e, b>>] =
          log[n][<<e, b>>] + (IF b THEN 0 ELSE One(e, EventOf(notice[n], new[n])))
                           + (IF b = batch THEN One(e, also[n]) ELSE 0)
  OBVIOUS
<1> HIDE DEF entry
<1>6. log' \in Seq(LogRow) /\ Len(log') = Len(notice) /\ \A n \in Ids : log'[n] = entry(n)
  BY <1>1, <1>3, <1>4
<1> QED
  BY <1>2, <1>5, <1>6

\* The log goes on telling a notice's story, if a request repeats only what is there.
LEMMA WriteTells ==
  ASSUME NoticeTyped, NEW new \in [Ids -> NoticeRow], NEW also, NEW batch \in BOOLEAN,
         Write(new, also, batch), NEW n \in Ids, LogTells(n), Tidy(notice[n], new[n]),
         batch \/ also[n] = {},
         \A e \in Event :
           Cardinality(ToLog(n, e)') + One(e, also[n])
             <= Cardinality(ToLog(n, e)) + One(e, EventOf(notice[n], new[n]))
  PROVE  LogTells(n)'
<1> DEFINE trigger(e) == One(e, EventOf(notice[n], new[n]))
           added(e) == One(e, also[n])
           before(e) == Cardinality(ToLog(n, e))
           after(e) == Cardinality(ToLog(n, e)')
<1>1. /\ notice'[n] = new[n]
      /\ \A e \in Event, b \in BOOLEAN :
           log'[n][<<e, b>>] = log[n][<<e, b>>] + (IF b THEN 0 ELSE trigger(e))
                                                + (IF b = batch THEN added(e) ELSE 0)
  BY WriteLogs
<1>2. \A e \in Event, b \in BOOLEAN : log[n][<<e, b>>] \in Nat
  BY RowsOfBoth DEF LogRow
<1>3. \A e \in Event : trigger(e) \in Nat /\ added(e) \in Nat /\ (~batch => added(e) = 0)
  BY DEF One
<1>4. \A e \in Event : before(e) \in Nat
  BY ToLogFinite
<1>5. \A e \in Event : after(e) \in Nat
  <2>1. ASSUME NEW e \in Event PROVE ToLog(n, e)' \subseteq Tab
    BY DEF ToLog
  <2> QED
    BY <2>1, NoticeConstants, FS_Subset, FS_CardinalityType
<1>6. /\ trigger("READ") - trigger("UNREAD") = Bit(new[n].read) - Bit(notice[n].read)
      /\ trigger("ARCHIVED") = Bit(new[n].archived) - Bit(notice[n].archived)
  BY TriggerTells, RowsOfBoth
<1>7. \A b : Bit(b) \in Nat
  BY DEF Bit
<1>8. \A e \in Event : after(e) + added(e) <= before(e) + trigger(e)
  OBVIOUS
<1>9. /\ log[n][<<"READ", FALSE>>] - log[n][<<"UNREAD", FALSE>>] = Bit(notice[n].read)
      /\ log[n][<<"ARCHIVED", FALSE>>] = Bit(notice[n].archived)
      /\ \A e \in Event : log[n][<<e, TRUE>>] + before(e) <= log[n][<<e, FALSE>>]
  BY DEF LogTells
<1> HIDE DEF trigger, added, before, after
<1>10. "READ" \in Event /\ "UNREAD" \in Event /\ "ARCHIVED" \in Event
  BY DEF Event
<1>11. ASSUME NEW e \in Event
       PROVE  /\ log'[n][<<e, TRUE>>] = log[n][<<e, TRUE>>] + added(e)
              /\ log'[n][<<e, FALSE>>] = log[n][<<e, FALSE>>] + trigger(e)
  <2> DEFINE x == log[n][<<e, TRUE>>]
             y == log[n][<<e, FALSE>>]
             newX == log'[n][<<e, TRUE>>]
             newY == log'[n][<<e, FALSE>>]
  <2>1. /\ newX = x + 0 + (IF TRUE = batch THEN added(e) ELSE 0)
        /\ newY = y + trigger(e) + (IF FALSE = batch THEN added(e) ELSE 0)
    BY <1>1
  <2>2. x \in Nat /\ y \in Nat /\ added(e) \in Nat /\ trigger(e) \in Nat
    BY <1>2, <1>3
  <2> HIDE DEF x, y, newX, newY
  <2>3. ASSUME batch = TRUE PROVE newX = x + added(e) /\ newY = y + trigger(e)
    BY <2>1, <2>2, <2>3
  <2>4. ASSUME batch = FALSE PROVE newX = x + added(e) /\ newY = y + trigger(e)
    BY <1>3, <2>1, <2>2, <2>4
  <2>5. newX = x + added(e) /\ newY = y + trigger(e)
    BY <2>3, <2>4
  <2> QED
    BY <2>5 DEF x, y, newX, newY
<1> DEFINE read == log[n][<<"READ", FALSE>>]
           unread == log[n][<<"UNREAD", FALSE>>]
           archived == log[n][<<"ARCHIVED", FALSE>>]
           r == trigger("READ")
           u == trigger("UNREAD")
           a == trigger("ARCHIVED")
<1>12. /\ read \in Nat /\ unread \in Nat /\ archived \in Nat
       /\ r \in Nat /\ u \in Nat /\ a \in Nat
       /\ log'[n][<<"READ", FALSE>>] = read + r /\ log'[n][<<"UNREAD", FALSE>>] = unread + u
       /\ log'[n][<<"ARCHIVED", FALSE>>] = archived + a
       /\ read - unread = Bit(notice[n].read) /\ r - u = Bit(new[n].read) - Bit(notice[n].read)
       /\ archived = Bit(notice[n].archived) /\ a = Bit(new[n].archived) - Bit(notice[n].archived)
  BY <1>2, <1>3, <1>6, <1>9, <1>10, <1>11
<1> HIDE DEF read, unread, archived, r, u, a
<1>13. /\ (read + r) - (unread + u) = Bit(new[n].read)
       /\ archived + a = Bit(new[n].archived)
  BY <1>7, <1>12
<1>14. ASSUME NEW e \in Event
       PROVE  log'[n][<<e, TRUE>>] + after(e) <= log'[n][<<e, FALSE>>]
  <2> DEFINE x == log[n][<<e, TRUE>>]
             y == log[n][<<e, FALSE>>]
  <2>1. /\ x \in Nat /\ y \in Nat /\ added(e) \in Nat /\ trigger(e) \in Nat
        /\ before(e) \in Nat /\ after(e) \in Nat
        /\ x + before(e) <= y /\ after(e) + added(e) <= before(e) + trigger(e)
    BY <1>2, <1>3, <1>4, <1>5, <1>8, <1>9
  <2>2. log'[n][<<e, TRUE>>] = x + added(e) /\ log'[n][<<e, FALSE>>] = y + trigger(e)
    BY <1>11
  <2> HIDE DEF x, y
  <2>3. (x + added(e)) + after(e) <= y + trigger(e)
    BY <2>1
  <2> QED
    BY <2>2, <2>3
<1>15. /\ log'[n][<<"READ", FALSE>>] - log'[n][<<"UNREAD", FALSE>>] = Bit(notice'[n].read)
       /\ log'[n][<<"ARCHIVED", FALSE>>] = Bit(notice'[n].archived)
  BY <1>1, <1>12, <1>13
<1> QED
  BY <1>14, <1>15 DEF LogTells, after

\* A write of t's account leaves the rows of the others, and t itself goes on to
\* log what it found, or ends.
LEMMA UsedKeepsFresh ==
  ASSUME NoticeTyped, Fresh, NEW t \in Tab, tab[t] # Nobody, NEW next, Used(t, next),
         \/ next = Nobody
         \/ next \in Held /\ next.op \in {"logREAD", "logARCHIVED"} /\ next.rows \subseteq Ids,
         Ids' = Ids,
         \A n \in Ids : notice[n].owner # tab[t].user => notice'[n] = notice[n]
  PROVE  /\ tab' \in [Tab -> Held \union {Nobody}]
         /\ \A s \in Tab : tab'[s] # Nobody => tab'[s].rows \subseteq Ids'
         /\ Fresh'
<1>1. tab \in [Tab -> Held \union {Nobody}]
  BY DEF NoticeTyped
<1>2. ASSUME NEW s \in Tab
      PROVE  tab'[s] = IF s = t THEN next
                       ELSE IF tab[s] # Nobody /\ tab[s].user = tab[t].user
                         THEN [tab[s] EXCEPT !.stale = TRUE]
                       ELSE tab[s]
  BY DEF Used
<1>3. ASSUME NEW s \in Tab, tab[s] # Nobody
      PROVE  LET late == [tab[s] EXCEPT !.stale = TRUE]
             IN late \in Held /\ late.stale /\ late.rows = tab[s].rows
  BY <1>1, <1>3 DEF Held
<1>4. tab' \in [Tab -> Held \union {Nobody}]
  BY <1>1, <1>2, <1>3 DEF Used
<1>5. \A s \in Tab : tab'[s] # Nobody => tab'[s].rows \subseteq Ids'
  BY <1>2, <1>3 DEF NoticeTyped
<1>6. ASSUME NEW s \in Tab, tab'[s] # Nobody, ~tab'[s].stale
      PROVE  StillTrue(s)'
  <2>1. CASE s = t
    BY <1>2, <1>6, <2>1 DEF StillTrue
  <2>2. CASE s # t
    <3>1. tab[s] # Nobody /\ tab'[s] = tab[s] /\ tab[s].user # tab[t].user /\ StillTrue(s)
      BY <1>2, <1>3, <1>6, <2>2 DEF Fresh
    <3>2. \A n \in Ids : notice[n].owner = tab[s].user => notice'[n] = notice[n]
      BY <3>1
    <3>3. ASSUME tab[s].op = "save"
          PROVE  \E n \in Ids', how \in {"read", "unread", "archive"} :
                   /\ tab'[s].rows = {n} /\ FoundFor(n, tab[s].user)'
                   /\ tab'[s].copy = Changed(notice'[n], how)
      BY <3>1, <3>2, <3>3 DEF StillTrue, FoundFor
    <3>4. /\ tab[s].op = "readAll" => tab'[s].rows \subseteq Unread(tab[s].user)'
          /\ tab[s].op = "archiveAll" => tab'[s].rows \subseteq ReadOnes(tab[s].user)'
      BY <3>1, <3>2 DEF StillTrue, FoundFor, Unread, ReadOnes
    <3> QED
      BY <3>1, <3>3, <3>4 DEF StillTrue
  <2> QED
    BY <2>1, <2>2
<1> QED
  BY <1>4, <1>5, <1>6 DEF Fresh

\* A finite set that gains at most one element, or loses one
LEMMA OneMore ==
  ASSUME NEW A, IsFiniteSet(A), NEW t, NEW B, B \subseteq A \union {t}
  PROVE  Cardinality(B) <= Cardinality(A) + 1
<1>1. /\ IsFiniteSet(A \union {t}) /\ Cardinality(A) \in Nat
      /\ Cardinality(A \union {t}) = IF t \in A THEN Cardinality(A) ELSE Cardinality(A) + 1
  BY FS_AddElement, FS_CardinalityType
<1>2. IsFiniteSet(B) /\ Cardinality(B) \in Nat /\ Cardinality(B) <= Cardinality(A \union {t})
  BY <1>1, FS_Subset, FS_CardinalityType
<1> QED
  BY <1>1, <1>2

\* What is left without an element is fewer by one.
LEMMA OneLess ==
  ASSUME NEW A, IsFiniteSet(A), NEW t \in A, NEW B, B \subseteq A \ {t}
  PROVE  Cardinality(B) + 1 <= Cardinality(A)
<1>1. /\ IsFiniteSet(A \ {t}) /\ Cardinality(A) \in Nat
      /\ Cardinality(A \ {t}) = Cardinality(A) - 1
  BY FS_RemoveElement, FS_CardinalityType
<1>2. IsFiniteSet(B) /\ Cardinality(B) \in Nat /\ Cardinality(B) <= Cardinality(A \ {t})
  BY <1>1, FS_Subset, FS_CardinalityType
<1> QED
  BY <1>1, <1>2

\* A part is no more than the whole.
LEMMA NoMore ==
  ASSUME NEW A, IsFiniteSet(A), NEW B, B \subseteq A
  PROVE  Cardinality(B) <= Cardinality(A)
  BY FS_Subset

\* Requests that will log something: those that would, and t from now on
LEMMA UsedToLog ==
  ASSUME NoticeTyped, NEW t \in Tab, tab[t] # Nobody, NEW next, Used(t, next), NEW n, NEW e
  PROVE  /\ ToLog(n, e)' \subseteq ToLog(n, e) \union {t}
         /\ (next = Nobody \/ next.op # LogOf(e) \/ n \notin next.rows)
              => ToLog(n, e)' \subseteq ToLog(n, e)
<1>1. ASSUME NEW s \in Tab
      PROVE  tab'[s] = IF s = t THEN next
                       ELSE IF tab[s] # Nobody /\ tab[s].user = tab[t].user
                         THEN [tab[s] EXCEPT !.stale = TRUE]
                       ELSE tab[s]
  BY DEF Used
<1>2. ASSUME NEW s \in Tab, tab[s] # Nobody
      PROVE  LET late == [tab[s] EXCEPT !.stale = TRUE]
             IN late.op = tab[s].op /\ late.rows = tab[s].rows
  BY <1>2 DEF NoticeTyped, Held
<1>3. ASSUME NEW s \in ToLog(n, e)', s # t
      PROVE  s \in ToLog(n, e)
  BY <1>1, <1>2, <1>3 DEF ToLog
<1> QED
  BY <1>1, <1>3 DEF ToLog

\* The rest of what is stated of the log, of a step that writes
LEMMA StoryGoesOn ==
  ASSUME NoticeInv, ~crossed, NEW new \in [Ids -> NoticeRow], NEW also, NEW batch \in BOOLEAN,
         Write(new, also, batch),
         \A n \in Ids :
           /\ Tidy(notice[n], new[n]) /\ (batch \/ also[n] = {})
           /\ \A e \in Event :
                Cardinality(ToLog(n, e)') + One(e, also[n])
                  <= Cardinality(ToLog(n, e)) + One(e, EventOf(notice[n], new[n])),
         tab' \in [Tab -> Held \union {Nobody}],
         \A s \in Tab : tab'[s] # Nobody => tab'[s].rows \subseteq Ids',
         Fresh'
  PROVE  NoticeInv'
<1>1. NoticeTyped /\ \A n \in Ids : LogTells(n)
  BY DEF NoticeInv
<1>2. /\ Ids' = Ids /\ notice' \in Seq(NoticeRow)
      /\ log' \in Seq(LogRow) /\ Len(log') = Len(notice')
  BY <1>1, WriteLogs
<1>3. ASSUME NEW n \in Ids PROVE LogTells(n)'
  BY <1>1, <1>3, WriteTells
<1> QED
  BY <1>2, <1>3 DEF NoticeInv, NoticeTyped

\* A copy that is still true is the row with one change.
LEMMA SaveNoticeKeeps ==
  ASSUME NoticeInv, NEW t \in Tab, SaveNotice(t)
  PROVE  NoticeInv'
<1>1. SUFFICES ASSUME ~crossed' PROVE NoticeInv'
  BY DEF NoticeInv
<1>2. tab[t] # Nobody /\ ~crossed /\ ~tab[t].stale /\ Used(t, Nobody)
  BY <1>1 DEF SaveNotice, Used
<1>3. NoticeTyped /\ Fresh /\ tab[t].op = "save"
  BY <1>2 DEF NoticeInv, SaveNotice
<1>4. PICK n \in Ids, how \in {"read", "unread", "archive"} :
        /\ tab[t].rows = {n} /\ FoundFor(n, tab[t].user)
        /\ tab[t].copy = Changed(notice[n], how)
  BY <1>2, <1>3 DEF Fresh, StillTrue
<1> DEFINE copy == tab[t].copy
           new == [notice EXCEPT ![n] = copy]
           also == [m \in Ids |-> IF m = n THEN EventOf(copy, copy) ELSE {}]
<1>5. Write(new, also, FALSE)
  BY <1>4 DEF SaveNotice, ToOrm
<1>6. notice \in [Ids -> NoticeRow] /\ notice[n] \in NoticeRow
  BY <1>3, RowsOfBoth
<1>7. Tidy(notice[n], copy) /\ ~notice[n].archived
  BY <1>4, <1>6 DEF Changed, Tidy, NoticeRow, FoundFor
<1>8. also = [m \in Ids |-> {}]
  BY DEF EventOf
<1> HIDE DEF copy
<1>9. new \in [Ids -> NoticeRow] /\ \A m \in Ids : new[m] = IF m = n THEN copy ELSE notice[m]
  BY <1>6, <1>7 DEF Tidy
<1> HIDE DEF new, also
<1>10. ASSUME NEW m \in Ids
       PROVE  Tidy(notice[m], new[m]) /\ also[m] = {}
  BY <1>6, <1>7, <1>8, <1>9 DEF Tidy
<1>11. ASSUME NEW m \in Ids, NEW e \in Event
       PROVE  Cardinality(ToLog(m, e)') + One(e, also[m])
                <= Cardinality(ToLog(m, e)) + One(e, EventOf(notice[m], new[m]))
  <2>1. ToLog(m, e)' \subseteq ToLog(m, e)
    BY <1>2, <1>3, UsedToLog
  <2>2. /\ Cardinality(ToLog(m, e)') <= Cardinality(ToLog(m, e))
        /\ Cardinality(ToLog(m, e)) \in Nat /\ Cardinality(ToLog(m, e)') \in Nat
    <3>1. IsFiniteSet(ToLog(m, e)) /\ Cardinality(ToLog(m, e)) \in Nat
      BY ToLogFinite
    <3>2. IsFiniteSet(ToLog(m, e)')
      BY <2>1, <3>1, FS_Subset
    <3> QED
      BY <2>1, <3>1, <3>2, NoMore, FS_CardinalityType
  <2>3. One(e, also[m]) = 0 /\ One(e, EventOf(notice[m], new[m])) \in Nat
    BY <1>10 DEF One
  <2> QED
    BY <2>2, <2>3
<1>12. Ids' = Ids /\ \A m \in Ids : notice'[m] = new[m]
  BY <1>3, <1>5, <1>9, WriteLogs
<1>13. \A m \in Ids : notice[m].owner # tab[t].user => notice'[m] = notice[m]
  BY <1>4, <1>9, <1>12 DEF FoundFor
<1>14. /\ tab' \in [Tab -> Held \union {Nobody}]
       /\ \A s \in Tab : tab'[s] # Nobody => tab'[s].rows \subseteq Ids'
       /\ Fresh'
  BY <1>2, <1>3, <1>12, <1>13, UsedKeepsFresh
<1> QED
  BY <1>2, <1>5, <1>9, <1>10, <1>11, <1>14, StoryGoesOn

\* One statement for many rows, of which those found before will be logged again
LEMMA AllAtOnceKeeps ==
  ASSUME NoticeInv, ~crossed', NEW t \in Tab, tab[t] # Nobody,
         NEW event \in {"READ", "ARCHIVED"}, NEW op, op = LogOf(event), Used(t, ThenLog(t, op)),
         NEW new \in [Ids -> NoticeRow], Write(new, Silent, TRUE),
         \A n \in Ids : /\ Tidy(notice[n], new[n])
                        /\ notice[n].owner # tab[t].user => new[n] = notice[n],
         \A n \in tab[t].rows : EventOf(notice[n], new[n]) = {event}
  PROVE  NoticeInv'
<1> DEFINE next == ThenLog(t, op)
<1>1. ~crossed /\ NoticeTyped /\ Fresh
  BY DEF Used, NoticeInv
<1>2. op \in {"logREAD", "logARCHIVED"}
  BY DEF LogOf
<1>3. tab[t] \in Held /\ tab[t].rows \subseteq Ids
  BY <1>1 DEF NoticeTyped
<1>4. next = Nobody \/ (next \in Held /\ next.op = op /\ next.rows = tab[t].rows)
  <2> DEFINE row == [tab[t] EXCEPT !.op = op]
  <2>1. row \in Held /\ row.op = op /\ row.rows = tab[t].rows
    BY <1>2, <1>3 DEF Held
  <2>2. next = Nobody \/ next = row
    BY DEF ThenLog
  <2> HIDE DEF next, row
  <2> QED
    BY <2>1, <2>2
<1> HIDE DEF next
<1>5. Used(t, next)
  BY DEF next
<1>6. Silent \in [Ids -> {{}}]
  BY DEF Silent
<1>7. ASSUME NEW n \in Ids, NEW e \in Event
      PROVE  Cardinality(ToLog(n, e)') + One(e, Silent[n])
               <= Cardinality(ToLog(n, e)) + One(e, EventOf(notice[n], new[n]))
  <2>1. IsFiniteSet(ToLog(n, e)) /\ Cardinality(ToLog(n, e)) \in Nat
    BY ToLogFinite
  <2>2. /\ ToLog(n, e)' \subseteq ToLog(n, e) \union {t}
        /\ (next = Nobody \/ next.op # LogOf(e) \/ n \notin next.rows)
             => ToLog(n, e)' \subseteq ToLog(n, e)
    BY <1>1, <1>5, UsedToLog
  <2>3. IsFiniteSet(ToLog(n, e)')
    BY <2>1, <2>2, FS_AddElement, FS_Subset
  <2>4. One(e, Silent[n]) = 0 /\ One(e, EventOf(notice[n], new[n])) \in Nat
    BY <1>6 DEF One
  <2>5. CASE ToLog(n, e)' \subseteq ToLog(n, e)
    <3>1. Cardinality(ToLog(n, e)') <= Cardinality(ToLog(n, e))
      BY <2>1, <2>5, NoMore
    <3> QED
      BY <2>1, <2>3, <2>4, <3>1, FS_CardinalityType
  <2>6. CASE ~(ToLog(n, e)' \subseteq ToLog(n, e))
    <3>1. LogOf(e) = LogOf(event) /\ n \in tab[t].rows
      BY <1>4, <2>2, <2>6
    <3>2. e = event
      BY <3>1 DEF LogOf, Event
    <3>3. One(e, EventOf(notice[n], new[n])) = 1
      BY <3>1, <3>2 DEF One
    <3>4. Cardinality(ToLog(n, e)') <= Cardinality(ToLog(n, e)) + 1
      BY <2>1, <2>2, OneMore
    <3> QED
      BY <2>1, <2>3, <2>4, <3>3, <3>4, FS_CardinalityType
  <2> QED
    BY <2>5, <2>6
<1>8. Ids' = Ids /\ \A n \in Ids : notice'[n] = new[n]
  BY <1>1, WriteLogs
<1>9. /\ tab' \in [Tab -> Held \union {Nobody}]
      /\ \A s \in Tab : tab'[s] # Nobody => tab'[s].rows \subseteq Ids'
      /\ Fresh'
  BY <1>1, <1>2, <1>3, <1>4, <1>5, <1>8, UsedKeepsFresh
<1>10. \A n \in Ids : Silent[n] = {}
  BY <1>6
<1> QED
  BY <1>1, <1>7, <1>9, <1>10, StoryGoesOn

\* The unread notices found are among those marked now, and were unread till now.
LEMMA MarkAllReadKeeps ==
  ASSUME NoticeInv, NEW t \in Tab, MarkAllRead(t)
  PROVE  NoticeInv'
<1>1. SUFFICES ASSUME ~crossed' PROVE NoticeInv'
  BY DEF NoticeInv
<1>2. /\ tab[t] # Nobody /\ ~crossed /\ ~tab[t].stale /\ tab[t].op = "readAll"
      /\ Used(t, ThenLog(t, "logREAD"))
  BY <1>1 DEF MarkAllRead, Used
<1>3. NoticeTyped /\ tab[t].rows \subseteq Unread(tab[t].user)
  BY <1>2 DEF NoticeInv, Fresh, StillTrue
<1>4. notice \in [Ids -> NoticeRow]
  BY <1>3, RowsOfBoth
<1> DEFINE all == Unread(tab[t].user)
           row(n) == [notice[n] EXCEPT !.read = @ \/ n \in all]
           new == [n \in Ids |-> row(n)]
<1>5. Write(new, Silent, TRUE)
  BY DEF MarkAllRead
<1>6. ASSUME NEW n \in Ids
      PROVE  /\ row(n) \in NoticeRow /\ row(n).owner = notice[n].owner
             /\ row(n).archived = notice[n].archived
             /\ row(n).read = (notice[n].read \/ n \in all)
  BY <1>4 DEF NoticeRow
<1>7. ASSUME NEW n \in Ids, n \notin all
      PROVE  row(n) = notice[n]
  BY <1>4, <1>7 DEF NoticeRow
<1>8. \A n \in all : ~notice[n].read /\ ~notice[n].archived /\ notice[n].owner = tab[t].user
  BY DEF Unread, FoundFor
<1> HIDE DEF all, row
<1>9. new \in [Ids -> NoticeRow] /\ \A n \in Ids : new[n] = row(n)
  BY <1>6
<1> HIDE DEF new
<1>10. ASSUME NEW n \in Ids
       PROVE  /\ Tidy(notice[n], new[n])
              /\ notice[n].owner # tab[t].user => new[n] = notice[n]
  BY <1>6, <1>7, <1>8, <1>9 DEF Tidy
<1>11. ASSUME NEW n \in tab[t].rows
       PROVE  EventOf(notice[n], new[n]) = {"READ"}
  <2>1. n \in Ids /\ n \in all
    BY <1>3, <1>11 DEF all, Unread
  <2> QED
    BY <1>6, <1>8, <1>9, <2>1 DEF EventOf
<1> QED
  BY <1>1, <1>2, <1>5, <1>9, <1>10, <1>11, AllAtOnceKeeps DEF LogOf

\* Archiving all the read notices of an account
LEMMA ArchiveAllReadKeeps ==
  ASSUME NoticeInv, NEW t \in Tab, ArchiveAllRead(t)
  PROVE  NoticeInv'
<1>1. SUFFICES ASSUME ~crossed' PROVE NoticeInv'
  BY DEF NoticeInv
<1>2. /\ tab[t] # Nobody /\ ~crossed /\ ~tab[t].stale /\ tab[t].op = "archiveAll"
      /\ Used(t, ThenLog(t, "logARCHIVED"))
  BY <1>1 DEF ArchiveAllRead, Used
<1>3. NoticeTyped /\ tab[t].rows \subseteq ReadOnes(tab[t].user)
  BY <1>2 DEF NoticeInv, Fresh, StillTrue
<1>4. notice \in [Ids -> NoticeRow]
  BY <1>3, RowsOfBoth
<1> DEFINE all == {n \in Ids : FoundFor(n, tab[t].user) /\ notice[n].read}
           row(n) == [notice[n] EXCEPT !.archived = @ \/ n \in all]
           new == [n \in Ids |-> row(n)]
<1>5. Write(new, Silent, TRUE)
  BY DEF ArchiveAllRead
<1>6. ASSUME NEW n \in Ids
      PROVE  /\ row(n) \in NoticeRow /\ row(n).owner = notice[n].owner
             /\ row(n).archived = (notice[n].archived \/ n \in all)
             /\ row(n).read = notice[n].read
  BY <1>4 DEF NoticeRow
<1>7. ASSUME NEW n \in Ids, n \notin all
      PROVE  row(n) = notice[n]
  BY <1>4, <1>7 DEF NoticeRow
<1>8. \A n \in all : ~notice[n].archived /\ notice[n].owner = tab[t].user
  BY DEF FoundFor
<1>9. ReadOnes(tab[t].user) = all
  BY DEF ReadOnes
<1> HIDE DEF all, row
<1>10. new \in [Ids -> NoticeRow] /\ \A n \in Ids : new[n] = row(n)
  BY <1>6
<1> HIDE DEF new
<1>11. ASSUME NEW n \in Ids
       PROVE  /\ Tidy(notice[n], new[n])
              /\ notice[n].owner # tab[t].user => new[n] = notice[n]
  BY <1>4, <1>6, <1>7, <1>8, <1>10 DEF Tidy, NoticeRow
<1>12. ASSUME NEW n \in tab[t].rows
       PROVE  EventOf(notice[n], new[n]) = {"ARCHIVED"}
  <2>1. n \in Ids /\ n \in all
    BY <1>2, <1>3, <1>9, <1>12 DEF NoticeTyped
  <2> QED
    BY <1>6, <1>8, <1>10, <2>1 DEF EventOf
<1> QED
  BY <1>1, <1>2, <1>5, <1>10, <1>11, <1>12, AllAtOnceKeeps DEF LogOf

\* What is logged a second time is no longer to be logged.
LEMMA LogBatchKeeps ==
  ASSUME NoticeInv, NEW t \in Tab, LogBatch(t)
  PROVE  NoticeInv'
<1>1. SUFFICES ASSUME ~crossed' PROVE NoticeInv'
  BY DEF NoticeInv
<1>2. PICK event \in {"READ", "ARCHIVED"} :
        /\ tab[t].op = IF event = "READ" THEN "logREAD" ELSE "logARCHIVED"
        /\ Write(notice, [n \in Ids |-> IF n \in tab[t].rows THEN {event} ELSE {}], TRUE)
  BY DEF LogBatch
<1> DEFINE also == [n \in Ids |-> IF n \in tab[t].rows THEN {event} ELSE {}]
<1>3. /\ tab[t] # Nobody /\ ~crossed /\ tab' = [tab EXCEPT ![t] = Nobody]
      /\ tab[t].op = LogOf(event)
  BY <1>1, <1>2 DEF LogBatch, LogOf
<1>4. NoticeTyped /\ Fresh /\ notice \in [Ids -> NoticeRow]
  BY <1>3, RowsOfBoth DEF NoticeInv
<1>5. \A s \in Tab : tab'[s] = IF s = t THEN Nobody ELSE tab[s]
  BY <1>3, <1>4 DEF NoticeTyped
<1>6. \A n \in Ids : also[n] = IF n \in tab[t].rows THEN {event} ELSE {}
  OBVIOUS
<1>7. notice' = notice
  BY <1>2 DEF Write
<1>8. Write(notice, also, TRUE)
  BY <1>2
<1> HIDE DEF also
<1>9. ASSUME NEW n \in Ids, NEW e \in Event
      PROVE  Cardinality(ToLog(n, e)') + One(e, also[n])
               <= Cardinality(ToLog(n, e)) + One(e, EventOf(notice[n], notice[n]))
  <2>1. IsFiniteSet(ToLog(n, e)) /\ Cardinality(ToLog(n, e)) \in Nat
    BY ToLogFinite
  <2>2. ToLog(n, e)' \subseteq ToLog(n, e) \ {t}
    BY <1>5 DEF ToLog
  <2>3. IsFiniteSet(ToLog(n, e)')
    BY <2>1, <2>2, FS_Subset
  <2>4. One(e, EventOf(notice[n], notice[n])) = 0
    BY DEF One, EventOf
  <2>5. CASE e = event /\ n \in tab[t].rows
    <3>1. t \in ToLog(n, e) /\ One(e, also[n]) = 1
      BY <1>3, <1>6, <2>5 DEF ToLog, One
    <3>2. Cardinality(ToLog(n, e)') + 1 <= Cardinality(ToLog(n, e))
      BY <2>1, <2>2, <3>1, OneLess
    <3> QED
      BY <2>1, <2>3, <2>4, <3>1, <3>2, FS_CardinalityType
  <2>6. CASE ~(e = event /\ n \in tab[t].rows)
    <3>1. One(e, also[n]) = 0
      BY <1>6, <2>6 DEF One
    <3>2. Cardinality(ToLog(n, e)') <= Cardinality(ToLog(n, e))
      BY <2>1, <2>2, NoMore
    <3> QED
      BY <2>1, <2>3, <2>4, <3>1, <3>2, FS_CardinalityType
  <2> QED
    BY <2>5, <2>6
<1>10. \A n \in Ids : Tidy(notice[n], notice[n])
  BY <1>4 DEF Tidy
<1>11. /\ tab' \in [Tab -> Held \union {Nobody}]
       /\ \A s \in Tab : tab'[s] # Nobody => tab'[s].rows \subseteq Ids'
  BY <1>3, <1>4, <1>5, <1>7 DEF NoticeTyped, Ids
<1>12. Fresh'
  BY <1>4, <1>5, <1>7 DEF Fresh, StillTrue, FoundFor, Unread, ReadOnes, Ids
<1> QED
  BY <1>3, <1>4, <1>8, <1>9, <1>10, <1>11, <1>12, StoryGoesOn

\* A step that changes neither the rows nor what is to be logged
LEMMA SameStory ==
  ASSUME NoticeInv, UNCHANGED <<notice, log>>, crossed' = crossed,
         \A n, e : ToLog(n, e)' = ToLog(n, e),
         ~crossed => /\ tab' \in [Tab -> Held \union {Nobody}]
                     /\ \A s \in Tab : tab'[s] # Nobody => tab'[s].rows \subseteq Ids
                     /\ Fresh'
  PROVE  NoticeInv'
<1>1. SUFFICES ASSUME ~crossed PROVE NoticeInv'
  BY DEF NoticeInv
<1>2. Ids' = Ids
  BY DEF Ids
<1>3. NoticeTyped'
  BY <1>1, <1>2 DEF NoticeInv, NoticeTyped
<1>4. ASSUME NEW n \in Ids PROVE LogTells(n)'
  BY <1>1, <1>4 DEF NoticeInv, LogTells
<1> QED
  BY <1>1, <1>2, <1>3, <1>4 DEF NoticeInv

\* A request that has found its rows
LEMMA HoldsKeeps ==
  ASSUME NoticeInv, NEW t \in Tab, NEW op \in {"save", "readAll", "archiveAll"},
         NEW user \in User, NEW rows, NEW copy, Holds(t, op, user, rows, copy),
         ~crossed =>
           /\ rows \subseteq Ids /\ copy \in NoticeRow \union {Nobody}
           /\ op = "save" =>
                \E n \in Ids, how \in {"read", "unread", "archive"} :
                  rows = {n} /\ FoundFor(n, user) /\ copy = Changed(notice[n], how)
           /\ op = "readAll" => rows \subseteq Unread(user)
           /\ op = "archiveAll" => rows \subseteq ReadOnes(user)
  PROVE  NoticeInv'
<1>1. SUFFICES ASSUME ~crossed PROVE NoticeInv'
  BY DEF NoticeInv, Holds
<1> DEFINE row == [op |-> op, user |-> user, rows |-> rows, copy |-> copy, stale |-> FALSE]
<1>2. tab[t] = Nobody /\ tab' = [tab EXCEPT ![t] = row] /\ UNCHANGED <<notice, log, crossed>>
  BY DEF Holds
<1>3. NoticeTyped /\ Fresh /\ Ids \subseteq Nat
  BY <1>1, RowsOfBoth DEF NoticeInv
<1>4. row \in Held
  BY <1>1, <1>3 DEF Held
<1>5. row.op = op /\ row.user = user /\ row.rows = rows /\ row.copy = copy
  OBVIOUS
<1> HIDE DEF row
<1>6. \A s \in Tab : tab'[s] = IF s = t THEN row ELSE tab[s]
  BY <1>2, <1>3 DEF NoticeTyped
<1>7. ASSUME NEW n, NEW e PROVE ToLog(n, e)' = ToLog(n, e)
  <2>1. op # LogOf(e)
    BY DEF LogOf
  <2> QED
    BY <1>2, <1>5, <1>6, <2>1 DEF ToLog
<1>8. /\ tab' \in [Tab -> Held \union {Nobody}]
      /\ \A s \in Tab : tab'[s] # Nobody => tab'[s].rows \subseteq Ids
  BY <1>1, <1>2, <1>3, <1>4, <1>5, <1>6 DEF NoticeTyped
<1>9. ASSUME NEW s \in Tab, tab'[s] # Nobody, ~tab'[s].stale
      PROVE  StillTrue(s)'
  <2>1. CASE s = t
    <3>1. /\ op = "save" =>
               \E n \in Ids', how \in {"read", "unread", "archive"} :
                 rows = {n} /\ FoundFor(n, user)' /\ copy = Changed(notice'[n], how)
          /\ op = "readAll" => rows \subseteq Unread(user)'
          /\ op = "archiveAll" => rows \subseteq ReadOnes(user)'
      BY <1>1, <1>2 DEF Ids, FoundFor, Unread, ReadOnes
    <3>2. tab'[s] = row
      BY <1>6, <2>1
    <3> QED
      BY <1>5, <3>1, <3>2 DEF StillTrue, FoundFor, Unread, ReadOnes
  <2>2. CASE s # t
    BY <1>2, <1>3, <1>6, <1>9, <2>2 DEF Fresh, StillTrue, FoundFor, Unread, ReadOnes, Ids
  <2> QED
    BY <2>1, <2>2
<1> QED
  BY <1>2, <1>7, <1>8, <1>9, SameStory DEF Fresh

\* A request finds the notices it is to change.
LEMMA FindKeeps ==
  ASSUME NoticeInv, NEW t \in Tab, NEW u \in User,
         \/ \E how \in {"read", "unread", "archive"}, n \in Ids : FindOne(t, how, u, n)
         \/ FindUnread(t, u) \/ FindRead(t, u)
  PROVE  NoticeInv'
<1>1. ASSUME NEW how \in {"read", "unread", "archive"}, NEW n \in Ids, FindOne(t, how, u, n)
      PROVE  NoticeInv'
  <2>1. FoundFor(n, u) /\ Holds(t, "save", u, {n}, Changed(notice[n], how))
    BY <1>1 DEF FindOne
  <2>2. ASSUME ~crossed PROVE Changed(notice[n], how) \in NoticeRow
    <3>1. notice[n] \in NoticeRow
      BY <2>2, RowsOfBoth DEF NoticeInv
    <3> QED
      BY <3>1 DEF Changed, NoticeRow
  <2> QED
    BY <2>1, <2>2, HoldsKeeps
<1>2. CASE FindUnread(t, u)
  <2>1. Unread(u) \subseteq Ids
    BY DEF Unread
  <2> QED
    BY <1>2, <2>1, HoldsKeeps DEF FindUnread
<1>3. CASE FindRead(t, u)
  <2>1. ReadOnes(u) \subseteq Ids
    BY DEF ReadOnes
  <2> QED
    BY <1>3, <2>1, HoldsKeeps DEF FindRead
<1> QED
  BY <1>1, <1>2, <1>3

\* What was still to be logged need not be.
LEMMA AbandonKeeps ==
  ASSUME NoticeInv, NEW t \in Tab, Abandon(t)
  PROVE  NoticeInv'
<1>1. SUFFICES ASSUME ~crossed PROVE NoticeInv'
  BY DEF NoticeInv, Abandon
<1>2. NoticeTyped /\ Fresh /\ notice \in [Ids -> NoticeRow] /\ log \in [Ids -> LogRow]
  BY <1>1, RowsOfBoth DEF NoticeInv
<1>3. UNCHANGED <<notice, log, crossed>> /\ Ids' = Ids
  BY DEF Abandon, Ids
<1>4. \A s \in Tab : tab'[s] = IF s = t THEN Nobody ELSE tab[s]
  BY <1>2 DEF Abandon, NoticeTyped
<1>5. NoticeTyped'
  BY <1>2, <1>3, <1>4 DEF NoticeTyped, Abandon
<1>6. Fresh'
  BY <1>2, <1>3, <1>4 DEF Fresh, StillTrue, FoundFor, Unread, ReadOnes
<1>7. ASSUME NEW n \in Ids PROVE LogTells(n)'
  <2>1. ASSUME NEW e \in Event
        PROVE  log[n][<<e, TRUE>>] + Cardinality(ToLog(n, e)') <= log[n][<<e, FALSE>>]
    <3> DEFINE x == log[n][<<e, TRUE>>]
               y == log[n][<<e, FALSE>>]
               before == Cardinality(ToLog(n, e))
               after == Cardinality(ToLog(n, e)')
    <3>1. ToLog(n, e)' \subseteq ToLog(n, e)
      BY <1>4 DEF ToLog
    <3>2. IsFiniteSet(ToLog(n, e)) /\ before \in Nat
      BY ToLogFinite
    <3>3. after \in Nat /\ after <= before
      BY <3>1, <3>2, FS_Subset, FS_CardinalityType
    <3>4. x \in Nat /\ y \in Nat /\ x + before <= y
      BY <1>1, <1>2 DEF LogRow, NoticeInv, LogTells
    <3> HIDE DEF x, y, before, after
    <3>5. x + after <= y
      BY <3>2, <3>3, <3>4
    <3> QED
      BY <3>5 DEF x, y, after
  <2> QED
    BY <1>1, <1>3, <2>1 DEF NoticeInv, LogTells
<1> QED
  BY <1>3, <1>5, <1>6, <1>7 DEF NoticeInv

\* New notices are unread, and nobody holds them yet.
LEMMA InsertKeeps ==
  ASSUME NoticeInv, NEW owners \in Seq(User), Insert(owners)
  PROVE  NoticeInv'
<1>1. SUFFICES ASSUME ~crossed PROVE NoticeInv'
  BY DEF NoticeInv, Insert
<1>2. NoticeTyped /\ Fresh /\ UNCHANGED <<tab, crossed>>
  BY <1>1 DEF NoticeInv, Insert
<1>3. /\ Len(notice) \in Nat /\ Ids = 1..Len(notice)
      /\ notice \in [Ids -> NoticeRow] /\ log \in [Ids -> LogRow]
  BY <1>2, RowsOfBoth
<1>4. Len(owners) \in Nat /\ DOMAIN owners = 1..Len(owners) /\ owners \in [1..Len(owners) -> User]
  BY LenProperties
<1> DEFINE D == DOMAIN owners
           rows == [i \in D |-> [owner |-> owners[i], read |-> FALSE, archived |-> FALSE]]
           none == [k \in Event \X BOOLEAN |-> 0]
           logs == [i \in D |-> none]
<1>5. notice' = notice \o rows /\ log' = log \o logs
  BY DEF Insert
<1>6. none \in LogRow
  BY DEF LogRow
<1>7. /\ rows \in Seq(NoticeRow) /\ Len(rows) = Len(owners)
      /\ \A i \in D : rows[i] \in NoticeRow /\ ~rows[i].read /\ ~rows[i].archived
  BY <1>4 DEF NoticeRow
<1>8. \A k \in Event \X BOOLEAN : none[k] = 0
  OBVIOUS
<1> HIDE DEF none
<1>9. /\ logs \in Seq(LogRow) /\ Len(logs) = Len(owners) /\ \A i \in D : logs[i] = none
  BY <1>4, <1>6
<1> HIDE DEF rows, logs
<1>10. /\ notice' \in Seq(NoticeRow) /\ Len(notice') = Len(notice) + Len(owners)
       /\ \A n \in 1..Len(notice) + Len(owners) :
            notice'[n] = IF n <= Len(notice) THEN notice[n] ELSE rows[n - Len(notice)]
  BY <1>2, <1>5, <1>7, ConcatProperties DEF NoticeTyped
<1>11. /\ log' \in Seq(LogRow) /\ Len(log') = Len(notice) + Len(owners)
       /\ \A n \in 1..Len(notice) + Len(owners) :
            log'[n] = IF n <= Len(notice) THEN log[n] ELSE logs[n - Len(notice)]
  <2>1. log \in Seq(LogRow) /\ Len(log) = Len(notice)
    BY <1>2 DEF NoticeTyped
  <2>2. /\ log \o logs \in Seq(LogRow) /\ Len(log \o logs) = Len(log) + Len(logs)
        /\ \A n \in 1..Len(log) + Len(logs) :
             (log \o logs)[n] = IF n <= Len(log) THEN log[n] ELSE logs[n - Len(log)]
    BY <1>9, <2>1, ConcatProperties
  <2> QED
    BY <1>5, <1>9, <2>1, <2>2
<1>12. Ids' = 1..Len(notice) + Len(owners) /\ Ids \subseteq Ids'
  BY <1>3, <1>4, <1>10, LenProperties DEF Ids
<1>13. \A n \in Ids : notice'[n] = notice[n] /\ log'[n] = log[n]
  BY <1>3, <1>10, <1>11, <1>12
<1>14. ASSUME NEW n \in Ids', n \notin Ids
       PROVE  ~notice'[n].read /\ ~notice'[n].archived /\ log'[n] = none
  <2>1. n - Len(notice) \in D /\ ~(n <= Len(notice))
    BY <1>3, <1>4, <1>12, <1>14
  <2> QED
    BY <1>7, <1>9, <1>10, <1>11, <1>12, <2>1
<1>15. NoticeTyped'
  BY <1>2, <1>10, <1>11, <1>12 DEF NoticeTyped
<1>16. \A n, e : ToLog(n, e)' = ToLog(n, e)
  BY <1>2 DEF ToLog
<1>17. Fresh'
  <2>1. ASSUME NEW u PROVE Unread(u) \subseteq Unread(u)' /\ ReadOnes(u) \subseteq ReadOnes(u)'
    BY <1>12, <1>13 DEF Unread, ReadOnes, FoundFor
  <2>2. ASSUME NEW t \in Tab, tab[t] # Nobody, ~tab[t].stale
        PROVE  StillTrue(t)'
    <3>1. StillTrue(t)
      BY <1>2, <2>2 DEF Fresh
    <3>2. ASSUME tab[t].op = "save"
          PROVE  \E n \in Ids', how \in {"read", "unread", "archive"} :
                   /\ tab'[t].rows = {n} /\ FoundFor(n, tab[t].user)'
                   /\ tab'[t].copy = Changed(notice'[n], how)
      <4>1. PICK n \in Ids, how \in {"read", "unread", "archive"} :
              /\ tab[t].rows = {n} /\ FoundFor(n, tab[t].user)
              /\ tab[t].copy = Changed(notice[n], how)
        BY <3>1, <3>2 DEF StillTrue
      <4>2. n \in Ids' /\ notice'[n] = notice[n] /\ tab' = tab
        BY <1>2, <1>12, <1>13
      <4> QED
        BY <4>1, <4>2 DEF FoundFor
    <3>3. /\ tab[t].op = "readAll" => tab[t].rows \subseteq Unread(tab[t].user)'
          /\ tab[t].op = "archiveAll" => tab[t].rows \subseteq ReadOnes(tab[t].user)'
      BY <1>2, <2>1, <3>1 DEF StillTrue, Unread, ReadOnes, FoundFor
    <3> QED
      BY <1>2, <3>2, <3>3 DEF StillTrue
  <2> QED
    BY <1>2, <2>2 DEF Fresh
<1>18. ASSUME NEW n \in Ids' PROVE LogTells(n)'
  <2>1. CASE n \in Ids
    BY <1>1, <1>13, <1>16, <2>1 DEF NoticeInv, LogTells
  <2>2. CASE n \notin Ids
    <3>1. ASSUME NEW e PROVE Cardinality(ToLog(n, e)) = 0
      <4>1. ToLog(n, e) = {}
        BY <1>2, <2>2 DEF ToLog, NoticeTyped
      <4> QED
        BY <4>1, FS_EmptySet
    <3>2. \A e \in Event, b \in BOOLEAN : log'[n][<<e, b>>] = 0
      BY <1>8, <1>14, <1>18, <2>2
    <3>3. Bit(notice'[n].read) = 0 /\ Bit(notice'[n].archived) = 0
      BY <1>14, <1>18, <2>2 DEF Bit
    <3>4. \A e \in Event : log'[n][<<e, TRUE>>] = 0 /\ log'[n][<<e, FALSE>>] = 0
      BY <3>2
    <3>5. "READ" \in Event /\ "UNREAD" \in Event /\ "ARCHIVED" \in Event
      BY DEF Event
    <3>6. \A e \in Event : Cardinality(ToLog(n, e)') = 0
      BY <1>16, <3>1
    <3>7. /\ log'[n][<<"READ", FALSE>>] - log'[n][<<"UNREAD", FALSE>>] = 0
          /\ log'[n][<<"ARCHIVED", FALSE>>] = 0
      <4> DEFINE r == log'[n][<<"READ", FALSE>>]
                 u == log'[n][<<"UNREAD", FALSE>>]
      <4>1. r = 0 /\ u = 0 /\ log'[n][<<"ARCHIVED", FALSE>>] = 0
        BY <3>4, <3>5
      <4> HIDE DEF r, u
      <4>2. r - u = 0
        BY <4>1
      <4> QED
        BY <4>1, <4>2 DEF r, u
    <3>8. \A e \in Event : log'[n][<<e, TRUE>>] + Cardinality(ToLog(n, e)') <= log'[n][<<e, FALSE>>]
      <4>1. ASSUME NEW e \in Event
            PROVE  log'[n][<<e, TRUE>>] + Cardinality(ToLog(n, e)') <= log'[n][<<e, FALSE>>]
        <5> DEFINE x == log'[n][<<e, TRUE>>]
                   y == log'[n][<<e, FALSE>>]
                   c == Cardinality(ToLog(n, e)')
        <5>1. x = 0 /\ y = 0 /\ c = 0
          BY <3>4, <3>6
        <5> HIDE DEF x, y, c
        <5>2. x + c <= y
          BY <5>1
        <5> QED
          BY <5>2 DEF x, y, c
      <4> QED
        BY <4>1
    <3> QED
      BY <3>3, <3>7, <3>8 DEF LogTells
  <2> QED
    BY <2>1, <2>2
<1> QED
  BY <1>15, <1>17, <1>18 DEF NoticeInv

\* Any finite set can be listed.
LEMMA Listing ==
  ASSUME NEW S, IsFiniteSet(S)
  PROVE  SetToSeq(S) \in [1..Cardinality(S) -> S] /\ Cardinality(S) \in Nat
<1>1. PICK n \in Nat : ExistsBijection(1..n, S)
  BY FS_NatBijection
<1>2. n = Cardinality(S)
  BY <1>1, FS_CountingElements
<1>3. \E f \in [1..Cardinality(S) -> S] : IsInjective(f)
  BY <1>1, <1>2, Zenon DEF ExistsBijection, Bijection, Injection, IsInjective
<1> QED
  BY <1>1, <1>2, <1>3 DEF SetToSeq

\* Notices of the four kinds of event are added.
LEMMA TellKeeps ==
  ASSUME NoticeInv,
         \/ \E S \in SUBSET Told : TellClass(S) \/ TellTeachers(S)
         \/ \E p \in Told : TellStudent(p) \/ TellNewcomer(p, 2)
  PROVE  NoticeInv'
<1>1. \A p \in Told : AccountOf[p] # Nobody => AccountOf[p] \in User
  BY DEF User
<1>2. ASSUME NEW S \in SUBSET Told, TellClass(S) PROVE NoticeInv'
  <2> DEFINE W == WithAccount(S)
             told == SetToSeq(W)
             owners == [i \in DOMAIN told |-> AccountOf[told[i]]]
  <2>1. W \subseteq Told /\ IsFiniteSet(W)
    BY NoticeConstants, FS_Subset DEF WithAccount
  <2>2. told \in [1..Cardinality(W) -> W] /\ Cardinality(W) \in Nat
    BY <2>1, Listing
  <2>3. \A x \in W : AccountOf[x] \in User
    BY <1>1, <2>1 DEF WithAccount
  <2> HIDE DEF W, told
  <2>4. owners \in [1..Cardinality(W) -> User]
    BY <2>2, <2>3
  <2>5. owners \in Seq(User)
    BY <2>2, <2>4
  <2>6. Insert(owners)
    BY <1>2 DEF TellClass, W, told
  <2> QED
    BY <2>5, <2>6, InsertKeeps
<1>3. ASSUME NEW S \in SUBSET Told, TellTeachers(S) PROVE NoticeInv'
  <2> DEFINE A == {AccountOf[p] : p \in WithAccount(S)}
             owners == SetToSeq(A)
  <2>1. IsFiniteSet(A) /\ A \subseteq User
    <3>1. WithAccount(S) \subseteq Told /\ IsFiniteSet(WithAccount(S))
      BY NoticeConstants, FS_Subset DEF WithAccount
    <3>2. A \subseteq User
      BY <1>1, <3>1 DEF WithAccount
    <3>3. [p \in WithAccount(S) |-> AccountOf[p]] \in Surjection(WithAccount(S), A)
      BY DEF Surjection
    <3>4. IsFiniteSet(A)
      BY <3>1, <3>3, FS_Surjection
    <3> QED
      BY <3>2, <3>4
  <2> HIDE DEF A
  <2>2. owners \in [1..Cardinality(A) -> A] /\ Cardinality(A) \in Nat
    BY <2>1, Listing
  <2>3. Insert(owners)
    BY <1>3 DEF TellTeachers, A
  <2> HIDE DEF owners
  <2>4. owners \in Seq(User)
    BY <2>1, <2>2
  <2> QED
    BY <2>3, <2>4, InsertKeeps
<1>4. ASSUME NEW p \in Told, TellStudent(p) \/ TellNewcomer(p, 2) PROVE NoticeInv'
  <2>1. AccountOf[p] \in User
    BY <1>1, <1>4 DEF TellStudent, TellNewcomer
  <2>2. <<AccountOf[p]>> \in Seq(User) /\ [i \in 1..2 |-> AccountOf[p]] \in Seq(User)
    BY <2>1
  <2> QED
    BY <1>4, <2>2, InsertKeeps DEF TellStudent, TellNewcomer
<1> QED
  BY <1>2, <1>3, <1>4

\* The first state
LEMMA NoticeStarts == NoticeInit => NoticeInv
<1> SUFFICES ASSUME NoticeInit PROVE NoticeInv
  OBVIOUS
<1>1. Ids = {}
  BY DEF NoticeInit, Ids
<1>2. NoticeTyped
  BY DEF NoticeInit, NoticeTyped
<1>3. Fresh
  BY DEF NoticeInit, Fresh
<1> QED
  BY <1>1, <1>2, <1>3 DEF NoticeInv

\* Every step of the notices
LEMMA NoticeKeeps == NoticeInv /\ [NoticeNext]_noticeVars => NoticeInv'
<1> SUFFICES ASSUME NoticeInv, [NoticeNext]_noticeVars PROVE NoticeInv'
  OBVIOUS
<1>1. ASSUME NEW t \in Tab, OwnerNext(t) PROVE NoticeInv'
  <2>1. ASSUME NEW u \in User,
               \/ \E op \in {"read", "unread", "archive"}, n \in Ids : FindOne(t, op, u, n)
               \/ FindUnread(t, u) \/ FindRead(t, u)
        PROVE  NoticeInv'
    BY <2>1, FindKeeps
  <2> QED
    BY <1>1, <2>1, SaveNoticeKeeps, MarkAllReadKeeps, ArchiveAllReadKeeps, LogBatchKeeps,
       AbandonKeeps DEF OwnerNext
<1>2. CASE UNCHANGED noticeVars
  <2>1. UNCHANGED <<notice, log, tab, crossed>>
    BY <1>2 DEF noticeVars
  <2>2. Ids' = Ids /\ \A n, e : ToLog(n, e)' = ToLog(n, e)
    BY <2>1 DEF Ids, ToLog
  <2>3. ~crossed => Fresh'
    BY <2>1, <2>2 DEF NoticeInv, Fresh, StillTrue, FoundFor, Unread, ReadOnes
  <2> QED
    BY <2>1, <2>2, <2>3, SameStory DEF NoticeInv, NoticeTyped
<1> QED
  BY <1>1, <1>2, TellKeeps DEF NoticeNext

\* What the invariant says of the log
LEMMA StoryTold == NoticeInv => LogTellsNotices
<1> SUFFICES ASSUME NoticeInv, ~crossed, NEW n \in Ids
             PROVE  /\ log[n][<<"READ", FALSE>>] - log[n][<<"UNREAD", FALSE>>]
                         = (IF notice[n].read THEN 1 ELSE 0)
                    /\ log[n][<<"ARCHIVED", FALSE>>] = (IF notice[n].archived THEN 1 ELSE 0)
                    /\ \A e \in Event : log[n][<<e, TRUE>>] <= log[n][<<e, FALSE>>]
                    /\ log[n][<<"ARCHIVED", FALSE>>] > 0 => \A u \in User : n \notin Shown(u, FALSE)
  BY DEF LogTellsNotices
<1>1. LogTells(n) /\ log[n] \in LogRow
  BY RowsOfBoth DEF NoticeInv
<1>2. ASSUME NEW e \in Event PROVE log[n][<<e, TRUE>>] <= log[n][<<e, FALSE>>]
  <2> DEFINE x == log[n][<<e, TRUE>>]
             y == log[n][<<e, FALSE>>]
             c == Cardinality(ToLog(n, e))
  <2>1. x \in Nat /\ y \in Nat /\ c \in Nat /\ x + c <= y
    BY <1>1, ToLogFinite DEF LogRow, LogTells
  <2> HIDE DEF x, y, c
  <2>2. x <= y
    BY <2>1
  <2> QED
    BY <2>2 DEF x, y
<1>3. /\ log[n][<<"READ", FALSE>>] - log[n][<<"UNREAD", FALSE>>]
           = (IF notice[n].read THEN 1 ELSE 0)
      /\ log[n][<<"ARCHIVED", FALSE>>] = (IF notice[n].archived THEN 1 ELSE 0)
  BY <1>1 DEF LogTells, Bit
<1>4. log[n][<<"ARCHIVED", FALSE>>] > 0 => notice[n].archived
  BY <1>3
<1> QED
  BY <1>2, <1>3, <1>4 DEF Shown, FoundFor

\* The log and the notices agree, whatever the components insert and the owners do,
\* until two requests of one account cross.
THEOREM LogTold == NoticeSpec => []LogTellsNotices
<1>1. NoticeSpec => []NoticeInv
  BY NoticeStarts, NoticeKeeps, PTL DEF NoticeSpec
<1> QED
  BY <1>1, StoryTold, PTL

-----------------------------------------------------------------------------
(* Assignments                                                             *)

TaskRow ==
  [status : {"none", "draft", "published", "closed", "gone"}, max : MaxScore \union {0},
   due : DueDate \union {Nothing}]

\* A submission without its file, as requests save it
Paper ==
  [answer : Answer \union {Nothing}, status : {"submitted", "late", "graded"},
   score : Score \union {Nothing}]

Job ==
  [op : {"task", "remove", "submit", "work", "attach", "unfile"}, pupil : Pupil \union {Nothing},
   entity : TaskRow \union Paper \union {Nothing}, file : BOOLEAN, stale : BOOLEAN]

TaskTyped ==
  /\ task \in TaskRow /\ attending \subseteq Pupil
  /\ work \in [Pupil -> WorkRow \union {Nothing}]
  /\ clerk \in [Clerk -> Job \union {Nothing}]
  /\ \A c \in Clerk : clerk[c] # Nothing =>
       /\ clerk[c].op = "task" => clerk[c].entity \in TaskRow
       /\ clerk[c].op \in {"submit", "work"} => clerk[c].entity \in Paper
       /\ clerk[c].op \in {"submit", "work", "attach"} => clerk[c].pupil \in Pupil

\* Nothing is handed in before an assignment is published, and nothing is under way
\* before there is one.
EarlyTask ==
  /\ task.status = "none" => \A c \in Clerk : clerk[c] = Nothing
  /\ task.status \in {"none", "draft"} => \A p \in Pupil : work[p] = Nothing

\* What a request decided on its copies still is right, if no other has saved.
Decided(job) ==
  /\ job.op = "task" => /\ job.entity.status \in {"draft", "published", "closed"}
                        /\ MayBecome(task.status, job.entity.status)
  /\ job.op = "remove" => task.status = "draft"
  /\ job.op = "submit" => task.status = "published"
  /\ job.op = "work" =>
       /\ work[job.pupil] # Nothing
       /\ work[job.pupil].status = "graded" => job.entity.status = "graded"
       /\ task.status = "closed" => job.entity.answer = work[job.pupil].answer

TaskInv ==
  ~overtaken =>
    /\ TaskTyped /\ EarlyTask
    /\ \A c \in Clerk : clerk[c] # Nothing /\ ~clerk[c].stale => Decided(clerk[c])

\* What a request holds, by what it will do
JobTyped(job) ==
  /\ job.op = "task" => job.entity \in TaskRow
  /\ job.op \in {"submit", "work"} => job.entity \in Paper
  /\ job.op \in {"submit", "work", "attach"} => job.pupil \in Pupil

\* A request has loaded its rows and decided.
LEMMA LoadedKeeps ==
  ASSUME TaskInv, NEW c \in Clerk, NEW op, NEW pupil, NEW entity, NEW file,
         Loaded(c, op, pupil, entity, file),
         ~overtaken =>
           LET job == [op |-> op, pupil |-> pupil, entity |-> entity, file |-> file,
                       stale |-> FALSE]
           IN job \in Job /\ JobTyped(job) /\ Decided(job) /\ task.status # "none"
  PROVE  TaskInv'
<1>1. SUFFICES ASSUME ~overtaken PROVE TaskInv'
  BY DEF TaskInv, Loaded
<1> DEFINE job == [op |-> op, pupil |-> pupil, entity |-> entity, file |-> file, stale |-> FALSE]
<1>2. /\ clerk[c] = Nothing /\ clerk' = [clerk EXCEPT ![c] = job]
      /\ UNCHANGED <<task, work, attending, now, overtaken>>
  BY DEF Loaded
<1>3. job \in Job /\ JobTyped(job) /\ Decided(job) /\ task.status # "none"
  BY <1>1
<1>4. TaskTyped /\ EarlyTask
  BY <1>1 DEF TaskInv
<1> HIDE DEF job
<1>5. \A d \in Clerk : clerk'[d] = IF d = c THEN job ELSE clerk[d]
  BY <1>2, <1>4 DEF TaskTyped
<1>6. TaskTyped'
  BY <1>2, <1>3, <1>4, <1>5 DEF TaskTyped, JobTyped
<1>7. EarlyTask'
  BY <1>2, <1>3, <1>4 DEF EarlyTask
<1>8. ASSUME NEW d \in Clerk, clerk'[d] # Nothing, ~clerk'[d].stale
      PROVE  Decided(clerk[d])'
  <2>1. CASE d = c
    BY <1>2, <1>3, <1>5, <2>1 DEF Decided, MayBecome
  <2>2. CASE d # c
    BY <1>1, <1>2, <1>5, <1>8, <2>2 DEF TaskInv, Decided, MayBecome
  <2> QED
    BY <2>1, <2>2
<1> QED
  BY <1>6, <1>7, <1>8 DEF TaskInv

\* After a save the others hold old copies; what c itself goes on with is decided.
LEMMA OvertakenJobs ==
  ASSUME TaskTyped, NEW c \in Clerk, NEW next,
         clerk' = [d \in Clerk |-> IF d = c THEN next
                                   ELSE IF clerk[d] = Nothing THEN Nothing
                                   ELSE [clerk[d] EXCEPT !.stale = TRUE]],
         next = Nothing \/ (next \in Job /\ next.op = "attach" /\ next.pupil \in Pupil)
  PROVE  /\ clerk' \in [Clerk -> Job \union {Nothing}]
         /\ \A d \in Clerk : clerk'[d] # Nothing =>
              /\ JobTyped(clerk'[d])
              /\ ~clerk'[d].stale => clerk'[d].op = "attach"
<1>1. ASSUME NEW d \in Clerk, clerk[d] # Nothing
      PROVE  LET late == [clerk[d] EXCEPT !.stale = TRUE]
             IN late \in Job /\ late.stale /\ JobTyped(late)
  <2>1. clerk[d] \in Job /\ JobTyped(clerk[d])
    BY <1>1 DEF TaskTyped, JobTyped
  <2> DEFINE late == [clerk[d] EXCEPT !.stale = TRUE]
  <2>2. /\ late \in Job /\ late.stale /\ late.op = clerk[d].op
        /\ late.entity = clerk[d].entity /\ late.pupil = clerk[d].pupil
    BY <2>1 DEF Job
  <2> HIDE DEF late
  <2>3. JobTyped(late)
    BY <2>1, <2>2 DEF JobTyped
  <2> QED
    BY <2>2, <2>3 DEF late
<1>2. \A d \in Clerk : clerk'[d] = IF d = c THEN next
                                   ELSE IF clerk[d] = Nothing THEN Nothing
                                   ELSE [clerk[d] EXCEPT !.stale = TRUE]
  OBVIOUS
<1>3. next # Nothing => JobTyped(next)
  BY DEF JobTyped
<1>4. clerk' \in [Clerk -> Job \union {Nothing}]
  BY <1>1
<1> QED
  BY <1>1, <1>2, <1>3, <1>4

\* A save
LEMMA SaveKeeps ==
  ASSUME TaskInv, ~overtaken, NEW c \in Clerk, NEW next,
         clerk' = [d \in Clerk |-> IF d = c THEN next
                                   ELSE IF clerk[d] = Nothing THEN Nothing
                                   ELSE [clerk[d] EXCEPT !.stale = TRUE]],
         next = Nothing \/ (next \in Job /\ next.op = "attach" /\ next.pupil \in Pupil),
         attending' = attending, task' \in TaskRow, task'.status # "none",
         work' \in [Pupil -> WorkRow \union {Nothing}],
         task'.status = "draft" => \A p \in Pupil : work'[p] = Nothing
  PROVE  TaskInv'
<1>1. TaskTyped
  BY DEF TaskInv
<1>2. /\ clerk' \in [Clerk -> Job \union {Nothing}]
      /\ \A d \in Clerk : clerk'[d] # Nothing =>
           /\ JobTyped(clerk'[d])
           /\ ~clerk'[d].stale => clerk'[d].op = "attach"
  BY <1>1, OvertakenJobs
<1>3. TaskTyped'
  BY <1>1, <1>2 DEF TaskTyped, JobTyped
<1>4. EarlyTask'
  BY DEF EarlyTask
<1>5. \A d \in Clerk : clerk'[d] # Nothing /\ ~clerk'[d].stale => Decided(clerk[d])'
  BY <1>2 DEF Decided
<1> QED
  BY <1>3, <1>4, <1>5 DEF TaskInv

\* What a save that overtook nobody may rely on
LEMMA SavedInTime ==
  ASSUME TaskInv, NEW c \in Clerk, clerk[c] # Nothing, Overtake(c), ~overtaken'
  PROVE  /\ ~overtaken /\ TaskTyped /\ EarlyTask /\ Decided(clerk[c])
         /\ clerk[c] \in Job /\ JobTyped(clerk[c])
  BY DEF TaskInv, TaskTyped, Overtake, JobTyped

\* Saving an assignment
LEMMA SaveTaskKeeps ==
  ASSUME TaskInv, NEW c \in Clerk, SaveTask(c)
  PROVE  TaskInv'
<1>1. SUFFICES ASSUME ~overtaken' PROVE TaskInv'
  BY DEF TaskInv
<1>2. /\ ~overtaken /\ TaskTyped /\ EarlyTask /\ Decided(clerk[c])
      /\ clerk[c] \in Job /\ JobTyped(clerk[c]) /\ clerk[c].op = "task"
  BY <1>1, SavedInTime DEF SaveTask
<1>3. task' = clerk[c].entity /\ UNCHANGED <<work, attending>>
  BY DEF SaveTask
<1>4. task' \in TaskRow /\ task'.status # "none" /\ (task'.status = "draft" => task.status = "draft")
  BY <1>2, <1>3 DEF JobTyped, Decided, MayBecome
<1>5. work' \in [Pupil -> WorkRow \union {Nothing}]
  BY <1>2, <1>3 DEF TaskTyped
<1>6. task'.status = "draft" => \A p \in Pupil : work'[p] = Nothing
  BY <1>2, <1>3, <1>4 DEF EarlyTask
<1> QED
  BY <1>2, <1>3, <1>4, <1>5, <1>6, SaveKeeps DEF SaveTask, Overtake

\* Deleting an assignment
LEMMA DeleteTaskKeeps ==
  ASSUME TaskInv, NEW c \in Clerk, DeleteTask(c)
  PROVE  TaskInv'
<1>1. SUFFICES ASSUME ~overtaken' PROVE TaskInv'
  BY DEF TaskInv
<1>2. ~overtaken /\ TaskTyped
  BY <1>1, SavedInTime DEF DeleteTask
<1>3. task' \in TaskRow /\ task'.status = "gone"
  BY <1>2 DEF DeleteTask, TaskTyped, TaskRow
<1>4. work' \in [Pupil -> WorkRow \union {Nothing}] /\ attending' = attending
  BY DEF DeleteTask
<1> QED
  BY <1>2, <1>3, <1>4, SaveKeeps DEF DeleteTask, Overtake

\* A request that ends without a save
LEMMA ReturnKeeps ==
  ASSUME TaskInv, NEW c \in Clerk, Return(c)
  PROVE  TaskInv'
<1>1. SUFFICES ASSUME ~overtaken PROVE TaskInv'
  BY DEF TaskInv, Return
<1>2. TaskTyped /\ EarlyTask /\ UNCHANGED <<task, work, attending, now, overtaken>>
  BY <1>1 DEF TaskInv, Return
<1>3. \A d \in Clerk : clerk'[d] = IF d = c THEN Nothing ELSE clerk[d]
  BY <1>2 DEF Return, TaskTyped
<1>4. TaskTyped'
  BY <1>2, <1>3 DEF TaskTyped, Return
<1>5. EarlyTask'
  BY <1>2, <1>3 DEF EarlyTask
<1>6. \A d \in Clerk : clerk'[d] # Nothing /\ ~clerk'[d].stale => Decided(clerk[d])'
  BY <1>1, <1>2, <1>3 DEF TaskInv, Decided, MayBecome
<1> QED
  BY <1>4, <1>5, <1>6 DEF TaskInv

\* What a submission's save writes, and what its request goes on with
LEMMA SubmissionStored ==
  ASSUME TaskInv, ~overtaken', NEW c \in Clerk, clerk[c] # Nothing,
         clerk[c].op \in {"submit", "work"}, NEW p, p = clerk[c].pupil, StoreSubmission(c, p)
  PROVE  /\ ~overtaken /\ TaskTyped /\ EarlyTask /\ Decided(clerk[c]) /\ p \in Pupil
         /\ UNCHANGED <<task, attending>>
         /\ work' \in [Pupil -> WorkRow \union {Nothing}]
         /\ \A q \in Pupil \ {p} : work'[q] = work[q]
         /\ work'[p] # Nothing /\ work'[p].status = clerk[c].entity.status
         /\ work'[p].answer = clerk[c].entity.answer
         /\ \E next :
              /\ clerk' = [d \in Clerk |-> IF d = c THEN next
                                           ELSE IF clerk[d] = Nothing THEN Nothing
                                           ELSE [clerk[d] EXCEPT !.stale = TRUE]]
              /\ next = Nothing \/ (next \in Job /\ next.op = "attach" /\ next.pupil \in Pupil)
<1>1. ~overtaken /\ ~clerk[c].stale
  BY DEF StoreSubmission, Overtake
<1>2. /\ TaskTyped /\ EarlyTask /\ Decided(clerk[c])
      /\ clerk[c] \in Job /\ clerk[c].entity \in Paper /\ p \in Pupil
  BY <1>1 DEF TaskInv, TaskTyped
<1> DEFINE row == [answer |-> clerk[c].entity.answer, status |-> clerk[c].entity.status,
                   score |-> clerk[c].entity.score, file |-> work[p] # Nothing /\ work[p].file]
           next == [clerk[c] EXCEPT !.op = "attach", !.stale = FALSE]
<1>3. work' = [work EXCEPT ![p] = row] /\ UNCHANGED <<task, attending>>
  BY DEF StoreSubmission
<1>4. row \in WorkRow
  <2>1. (work[p] # Nothing /\ work[p].file) \in BOOLEAN
    BY <1>2 DEF TaskTyped, WorkRow
  <2> QED
    BY <1>2, <2>1 DEF Paper, WorkRow
<1>5. row.status = clerk[c].entity.status /\ row.answer = clerk[c].entity.answer
  OBVIOUS
<1> HIDE DEF row
<1>6. row # Nothing
  BY <1>4, TaskConstants
<1>7. /\ work' \in [Pupil -> WorkRow \union {Nothing}]
      /\ \A q \in Pupil \ {p} : work'[q] = work[q]
      /\ work'[p] = row
  BY <1>2, <1>3, <1>4 DEF TaskTyped
<1>8. CASE clerk[c].file
  <2>1. clerk' = [d \in Clerk |-> IF d = c THEN next
                                  ELSE IF clerk[d] = Nothing THEN Nothing
                                  ELSE [clerk[d] EXCEPT !.stale = TRUE]]
    BY <1>8 DEF StoreSubmission
  <2>2. next \in Job /\ next.op = "attach" /\ next.pupil = p
    BY <1>2 DEF Job
  <2> HIDE DEF next
  <2>3. next = Nothing \/ (next \in Job /\ next.op = "attach" /\ next.pupil \in Pupil)
    BY <1>2, <2>2
  <2> QED
    BY <1>1, <1>2, <1>3, <1>5, <1>6, <1>7, <2>1, <2>3
<1>9. CASE ~clerk[c].file
  BY <1>1, <1>2, <1>3, <1>5, <1>6, <1>7, <1>9 DEF StoreSubmission, Overtake
<1> QED
  BY <1>8, <1>9

\* Saving a submission
LEMMA SaveSubmissionKeeps ==
  ASSUME TaskInv, NEW c \in Clerk, SaveSubmission(c)
  PROVE  TaskInv'
<1>1. SUFFICES ASSUME ~overtaken' PROVE TaskInv'
  BY DEF TaskInv
<1> DEFINE p == clerk[c].pupil
<1>2. CASE Return(c)
  BY <1>2, ReturnKeeps
<1>3. CASE StoreSubmission(c, p) /\ (Insertable(p) \/ (clerk[c].op = "work" /\ work[p] # Nothing))
  <2>1. clerk[c] # Nothing /\ clerk[c].op \in {"submit", "work"}
    BY DEF SaveSubmission
  <2>2. /\ ~overtaken /\ TaskTyped /\ EarlyTask /\ Decided(clerk[c]) /\ p \in Pupil
        /\ UNCHANGED <<task, attending>>
        /\ work' \in [Pupil -> WorkRow \union {Nothing}]
    BY <1>1, <1>3, <2>1, SubmissionStored
  <2>3. task.status \notin {"none", "draft"}
    BY <2>1, <2>2 DEF EarlyTask, Decided
  <2>4. PICK next :
          /\ clerk' = [d \in Clerk |-> IF d = c THEN next
                                       ELSE IF clerk[d] = Nothing THEN Nothing
                                       ELSE [clerk[d] EXCEPT !.stale = TRUE]]
          /\ next = Nothing \/ (next \in Job /\ next.op = "attach" /\ next.pupil \in Pupil)
    BY <1>1, <1>3, <2>1, SubmissionStored
  <2>5. task' \in TaskRow /\ task'.status # "none" /\ task'.status # "draft"
    BY <2>2, <2>3 DEF TaskTyped
  <2> QED
    BY <2>2, <2>4, <2>5, SaveKeeps
<1> QED
  BY <1>2, <1>3 DEF SaveSubmission

\* What becomes of the submissions when a file is stored or deleted
LEMMA FileSaved ==
  ASSUME TaskInv, ~overtaken', NEW c \in Clerk,
         (AttachFile(c) /\ ~Return(c)) \/ DeleteFile(c)
  PROVE  /\ ~overtaken /\ TaskTyped /\ EarlyTask /\ Overtake(c) /\ UNCHANGED <<task, attending>>
         /\ clerk[c] # Nothing
         /\ work' \in [Pupil -> WorkRow \union {Nothing}]
         /\ \A p \in Pupil :
              IF work[p] = Nothing THEN work'[p] = Nothing
              ELSE /\ work'[p] # Nothing /\ work'[p].status = work[p].status
                   /\ work'[p].answer = work[p].answer
<1>1. clerk[c] # Nothing /\ Overtake(c) /\ UNCHANGED <<task, attending>>
  BY DEF AttachFile, DeleteFile
<1>2. ~overtaken /\ TaskTyped /\ EarlyTask /\ JobTyped(clerk[c])
  BY <1>1, SavedInTime
<1> DEFINE row(p, b) == [work[p] EXCEPT !.file = b]
<1>3. ASSUME NEW p \in Pupil, work[p] # Nothing, NEW b \in BOOLEAN
      PROVE  /\ row(p, b) \in WorkRow /\ row(p, b).status = work[p].status
             /\ row(p, b).answer = work[p].answer
  BY <1>2, <1>3 DEF TaskTyped, WorkRow
<1>4. CASE AttachFile(c) /\ ~Return(c)
  <2> DEFINE p == clerk[c].pupil
  <2>1. work[p] # Nothing /\ work' = [work EXCEPT ![p] = row(p, TRUE)] /\ p \in Pupil
    BY <1>2, <1>4 DEF AttachFile, JobTyped
  <2> HIDE DEF row
  <2>2. \A q \in Pupil : work'[q] = IF q = p THEN row(p, TRUE) ELSE work[q]
    BY <1>2, <2>1 DEF TaskTyped
  <2>3. work' \in [Pupil -> WorkRow \union {Nothing}] /\ row(p, TRUE) # Nothing
    BY <1>2, <1>3, <2>1, TaskConstants DEF TaskTyped
  <2> QED
    BY <1>1, <1>2, <1>3, <2>1, <2>2, <2>3
<1>5. CASE DeleteFile(c)
  <2>1. work' = [p \in Pupil |-> IF p = clerk[c].pupil /\ work[p] # Nothing
                                 THEN row(p, FALSE) ELSE work[p]]
    BY <1>5 DEF DeleteFile
  <2> HIDE DEF row
  <2>2. \A q \in Pupil : work'[q] = IF q = clerk[c].pupil /\ work[q] # Nothing
                                    THEN row(q, FALSE) ELSE work[q]
    BY <2>1
  <2>3. work' \in [Pupil -> WorkRow \union {Nothing}]
    BY <1>2, <1>3, <2>1 DEF TaskTyped
  <2>4. \A q \in Pupil : work[q] # Nothing => row(q, FALSE) # Nothing
    BY <1>3, TaskConstants
  <2> QED
    BY <1>1, <1>2, <1>3, <2>2, <2>3, <2>4
<1> QED
  BY <1>4, <1>5

\* Storing and deleting a file
LEMMA FileKeeps ==
  ASSUME TaskInv, NEW c \in Clerk, AttachFile(c) \/ DeleteFile(c)
  PROVE  TaskInv'
<1>1. SUFFICES ASSUME ~overtaken' PROVE TaskInv'
  BY DEF TaskInv
<1>2. CASE Return(c)
  BY <1>2, ReturnKeeps
<1>3. CASE (AttachFile(c) /\ ~Return(c)) \/ DeleteFile(c)
  <2>1. /\ ~overtaken /\ TaskTyped /\ EarlyTask /\ Overtake(c) /\ UNCHANGED <<task, attending>>
        /\ clerk[c] # Nothing
        /\ work' \in [Pupil -> WorkRow \union {Nothing}]
        /\ \A p \in Pupil : work[p] = Nothing => work'[p] = Nothing
    BY <1>1, <1>3, FileSaved
  <2>2. /\ task' \in TaskRow /\ task'.status # "none"
        /\ task'.status = "draft" => \A p \in Pupil : work'[p] = Nothing
    BY <2>1 DEF TaskTyped, EarlyTask
  <2> QED
    BY <2>1, <2>2, SaveKeeps DEF Overtake
<1> QED
  BY <1>2, <1>3

\* The requests of the staff, when they load their copies
LEMMA StaffLoadsKeep ==
  ASSUME TaskInv, NEW c \in Clerk,
         \/ \E max \in MaxScore, due \in DueDate \union {Nothing} :
              \E status \in {"draft", "published", "closed"} : UpdateTask(c, max, due, status)
         \/ RemoveTask(c)
         \/ \E p \in Pupil, score \in Score : Grade(c, p, score)
  PROVE  TaskInv'
<1>1. ASSUME NEW max \in MaxScore, NEW due \in DueDate \union {Nothing},
             NEW status \in {"draft", "published", "closed"}, UpdateTask(c, max, due, status)
      PROVE  TaskInv'
  <2> DEFINE entity == [status |-> status, max |-> max, due |-> due]
             job == [op |-> "task", pupil |-> Nothing, entity |-> entity, file |-> FALSE,
                     stale |-> FALSE]
  <2>1. Loaded(c, "task", Nothing, entity, FALSE) /\ Posted /\ MayBecome(task.status, status)
    BY <1>1 DEF UpdateTask
  <2>2. entity \in TaskRow /\ entity.status = status
    BY DEF TaskRow
  <2> HIDE DEF entity
  <2>3. job \in Job /\ JobTyped(job) /\ Decided(job) /\ task.status # "none"
    BY <2>1, <2>2 DEF Job, JobTyped, Decided, Posted
  <2> QED
    BY <2>1, <2>3, LoadedKeeps
<1>2. CASE RemoveTask(c)
  <2> DEFINE job == [op |-> "remove", pupil |-> Nothing, entity |-> Nothing, file |-> FALSE,
                     stale |-> FALSE]
  <2>1. Loaded(c, "remove", Nothing, Nothing, FALSE) /\ task.status = "draft"
    BY <1>2 DEF RemoveTask
  <2>2. job \in Job /\ JobTyped(job) /\ Decided(job) /\ task.status # "none"
    BY <2>1 DEF Job, JobTyped, Decided
  <2> QED
    BY <2>1, <2>2, LoadedKeeps
<1>3. ASSUME NEW p \in Pupil, NEW score \in Score, Grade(c, p, score)
      PROVE  TaskInv'
  <2> DEFINE entity == [answer |-> work[p].answer, status |-> "graded", score |-> score]
             job == [op |-> "work", pupil |-> p, entity |-> entity, file |-> FALSE,
                     stale |-> FALSE]
  <2>1. Loaded(c, "work", p, entity, FALSE) /\ work[p] # Nothing
    BY <1>3 DEF Grade
  <2>2. ASSUME ~overtaken
        PROVE  job \in Job /\ JobTyped(job) /\ Decided(job) /\ task.status # "none"
    <3>1. work[p] \in WorkRow /\ task.status # "none"
      BY <2>1, <2>2 DEF TaskInv, TaskTyped, EarlyTask
    <3>2. entity \in Paper /\ entity.status = "graded" /\ entity.answer = work[p].answer
      BY <3>1 DEF Paper, WorkRow
    <3> HIDE DEF entity
    <3> QED
      BY <2>1, <3>1, <3>2 DEF Job, JobTyped, Decided
  <2> QED
    BY <2>1, <2>2, LoadedKeeps
<1> QED
  BY <1>1, <1>2, <1>3

\* The requests of a pupil, when they load their copies
LEMMA PupilLoadsKeep ==
  ASSUME TaskInv, NEW c \in Clerk, NEW p \in Pupil,
         \/ \E answer \in Answer \union {Nothing}, file \in BOOLEAN :
              Submit(c, p, answer, file) \/ UpdateSubmission(c, p, answer, file)
         \/ RemoveFile(c, p)
  PROVE  TaskInv'
<1>1. ASSUME NEW answer \in Answer \union {Nothing}, NEW file \in BOOLEAN,
             Submit(c, p, answer, file)
      PROVE  TaskInv'
  <2> DEFINE entity == [answer |-> answer, score |-> Nothing,
                        status |-> IF ~DueAllowed(task.due, FALSE) THEN "late" ELSE "submitted"]
             job == [op |-> "submit", pupil |-> p, entity |-> entity, file |-> file,
                     stale |-> FALSE]
  <2>1. Loaded(c, "submit", p, entity, file) /\ task.status = "published"
    BY <1>1 DEF Submit
  <2>2. entity \in Paper
    BY DEF Paper
  <2> HIDE DEF entity
  <2>3. job \in Job /\ JobTyped(job) /\ Decided(job) /\ task.status # "none"
    BY <2>1, <2>2 DEF Job, JobTyped, Decided
  <2> QED
    BY <2>1, <2>3, LoadedKeeps
<1>2. ASSUME NEW answer \in Answer \union {Nothing}, NEW file \in BOOLEAN,
             UpdateSubmission(c, p, answer, file)
      PROVE  TaskInv'
  <2> DEFINE entity == [answer |-> answer, status |-> work[p].status, score |-> work[p].score]
             job == [op |-> "work", pupil |-> p, entity |-> entity, file |-> file,
                     stale |-> FALSE]
  <2>1. /\ Loaded(c, "work", p, entity, file) /\ work[p] # Nothing
        /\ work[p].status # "graded" /\ task.status # "closed"
    BY <1>2 DEF UpdateSubmission
  <2>2. ASSUME ~overtaken
        PROVE  job \in Job /\ JobTyped(job) /\ Decided(job) /\ task.status # "none"
    <3>1. work[p] \in WorkRow /\ task.status # "none"
      BY <2>1, <2>2 DEF TaskInv, TaskTyped, EarlyTask
    <3>2. entity \in Paper
      BY <3>1 DEF Paper, WorkRow
    <3> HIDE DEF entity
    <3> QED
      BY <2>1, <3>1, <3>2 DEF Job, JobTyped, Decided
  <2> QED
    BY <2>1, <2>2, LoadedKeeps
<1>3. CASE RemoveFile(c, p)
  <2> DEFINE job == [op |-> "unfile", pupil |-> p, entity |-> Nothing, file |-> FALSE,
                     stale |-> FALSE]
  <2>1. Loaded(c, "unfile", p, Nothing, FALSE) /\ work[p] # Nothing
    BY <1>3 DEF RemoveFile
  <2>2. ~overtaken => task.status # "none"
    BY <2>1 DEF TaskInv, EarlyTask
  <2>3. job \in Job /\ JobTyped(job) /\ Decided(job)
    BY DEF Job, JobTyped, Decided
  <2> QED
    BY <2>1, <2>2, <2>3, LoadedKeeps
<1> QED
  BY <1>1, <1>2, <1>3

\* An assignment is made when nothing of it is under way.
LEMMA CreateTaskKeeps ==
  ASSUME TaskInv, NEW max \in MaxScore, NEW due \in DueDate \union {Nothing},
         NEW status \in {"draft", "published"}, CreateTask(max, due, status)
  PROVE  TaskInv'
<1>1. SUFFICES ASSUME ~overtaken PROVE TaskInv'
  BY DEF TaskInv, CreateTask
<1>2. TaskTyped /\ (\A c \in Clerk : clerk[c] = Nothing) /\ \A p \in Pupil : work[p] = Nothing
  BY <1>1 DEF TaskInv, EarlyTask, CreateTask
<1>3. task' \in TaskRow /\ task'.status = status
  BY DEF CreateTask, TaskRow
<1> QED
  BY <1>2, <1>3 DEF TaskInv, TaskTyped, EarlyTask, CreateTask

\* The first state
LEMMA TaskStarts == TaskInit => TaskInv
<1> SUFFICES ASSUME TaskInit PROVE TaskInv
  OBVIOUS
<1>1. task \in TaskRow
  BY DEF TaskInit, TaskRow
<1> QED
  BY <1>1 DEF TaskInit, TaskInv, TaskTyped, EarlyTask

\* Every step of the assignments
LEMMA TaskKeeps == TaskInv /\ [TaskNext]_taskVars => TaskInv'
<1> SUFFICES ASSUME TaskInv, [TaskNext]_taskVars PROVE TaskInv'
  OBVIOUS
<1>1. ASSUME NEW c \in Clerk, StaffNext(c) PROVE TaskInv'
  BY <1>1, StaffLoadsKeep, SaveTaskKeeps, DeleteTaskKeeps DEF StaffNext
<1>2. ASSUME NEW c \in Clerk, PupilNext(c) PROVE TaskInv'
  BY <1>2, PupilLoadsKeep, SaveSubmissionKeeps, FileKeeps DEF PupilNext
<1>3. CASE UNCHANGED <<task, work, clerk, overtaken>> /\ attending' \subseteq Pupil
  BY <1>3 DEF TaskInv, TaskTyped, EarlyTask, Decided, MayBecome
<1>4. ASSUME NEW p \in Pupil, ChangeRoster(p) PROVE TaskInv'
  <2>1. CASE overtaken
    BY <1>4, <2>1 DEF ChangeRoster, TaskInv
  <2>2. CASE ~overtaken
    <3>1. attending' \subseteq Pupil
      BY <1>4, <2>2 DEF ChangeRoster, TaskInv, TaskTyped
    <3> QED
      BY <1>3, <1>4, <3>1 DEF ChangeRoster
  <2> QED
    BY <2>1, <2>2
<1>5. CASE DayPasses \/ UNCHANGED taskVars
  <2>1. UNCHANGED <<task, work, attending, clerk, overtaken>>
    BY <1>5 DEF DayPasses, taskVars
  <2> QED
    BY <2>1 DEF TaskInv, TaskTyped, EarlyTask, Decided, MayBecome
<1> QED
  BY <1>1, <1>2, <1>4, <1>5, CreateTaskKeeps DEF TaskNext

\* The lists show every submission there is.
LEMMA AllListed ==
  ASSUME TaskTyped, NEW p \in Pupil, work[p] # Nothing
  PROVE  ListsShow(p)
<1>1. Sees(p)
  BY DEF Sees
<1>2. SubmissionList[p].status = work[p].status
  BY DEF SubmissionList
<1> DEFINE graded == {q \in Sent : work[q].status = "graded"}
           pending == {q \in Pupil : SubmissionList[q].status \in {"submitted", "late"}}
<1>3. IsFiniteSet(Sent) /\ IsFiniteSet(attending \union Sent) /\ Cardinality(Sent) \in Nat
  <2>1. Sent \subseteq Pupil /\ attending \union Sent \subseteq Pupil
    BY DEF Sent, TaskTyped
  <2> QED
    BY <2>1, TaskConstants, FS_Subset, FS_CardinalityType
<1>4. pending = Sent \ graded
  <2>1. ASSUME NEW q \in Pupil
        PROVE  SubmissionList[q].status = IF work[q] = Nothing THEN "not_submitted"
                                          ELSE work[q].status
    BY DEF SubmissionList
  <2>2. \A q \in Pupil : work[q] = Nothing \/ work[q].status \in {"submitted", "late", "graded"}
    BY DEF TaskTyped, WorkRow
  <2> QED
    BY <2>1, <2>2 DEF Sent
<1>5. Cardinality(pending) = Cardinality(Sent) - Cardinality(graded)
  <2>1. graded \subseteq Sent
    OBVIOUS
  <2> HIDE DEF graded, pending
  <2>2. /\ Sent \intersect graded = graded
        /\ Cardinality(Sent \ graded) = Cardinality(Sent) - Cardinality(Sent \intersect graded)
    BY <1>3, <2>1, FS_Difference
  <2> QED
    BY <1>4, <2>2
<1>6. StaffList.pending = Cardinality(pending)
  BY <1>5 DEF StaffList
<1>7. StaffList.submitted <= StaffList.students
  <2>1. Sent \subseteq attending \union Sent
    OBVIOUS
  <2>2. Cardinality(Sent) <= Cardinality(attending \union Sent)
    BY <1>3, <2>1, FS_Subset
  <2> QED
    BY <2>2 DEF StaffList
<1> QED
  BY <1>1, <1>2, <1>6, <1>7 DEF ListsShow

AllShown == ~overtaken => \A p \in Pupil : work[p] # Nothing => ListsShow(p)

\* Every submission is in the lists, as long as no request has been overtaken.
LEMMA TaskShown == TaskInv => AllShown
  BY AllListed DEF TaskInv, AllShown

\* What a step does to a submission
LEMMA WorkStays ==
  ASSUME TaskInv, [TaskNext]_taskVars, ~overtaken', NEW p \in Pupil, work[p] # Nothing
  PROVE  /\ work'[p] # Nothing
         /\ work[p].status = "graded" => work'[p].status = "graded"
         /\ task.status = "closed" => work'[p].answer = work[p].answer
<1>1. CASE UNCHANGED work
  BY <1>1
<1>2. ASSUME NEW c \in Clerk, DeleteTask(c) PROVE FALSE
  <2>1. /\ ~overtaken /\ EarlyTask /\ Decided(clerk[c]) /\ clerk[c].op = "remove"
    BY <1>2, SavedInTime DEF DeleteTask
  <2> QED
    BY <2>1 DEF Decided, EarlyTask
<1>3. ASSUME NEW c \in Clerk, SaveSubmission(c), ~Return(c)
      PROVE  /\ work'[p] # Nothing
             /\ work[p].status = "graded" => work'[p].status = "graded"
             /\ task.status = "closed" => work'[p].answer = work[p].answer
  <2> DEFINE q == clerk[c].pupil
  <2>1. /\ clerk[c] # Nothing /\ clerk[c].op \in {"submit", "work"}
        /\ StoreSubmission(c, q) /\ (Insertable(q) \/ clerk[c].op = "work")
    BY <1>3 DEF SaveSubmission
  <2>2. /\ Decided(clerk[c]) /\ q \in Pupil
        /\ \A r \in Pupil \ {q} : work'[r] = work[r]
        /\ work'[q] # Nothing /\ work'[q].status = clerk[c].entity.status
        /\ work'[q].answer = clerk[c].entity.answer
    BY <2>1, SubmissionStored
  <2>3. CASE q # p
    BY <2>2, <2>3
  <2>4. CASE q = p
    <3>1. clerk[c].op = "work"
      BY <2>1, <2>4 DEF Insertable
    <3> QED
      BY <2>2, <2>4, <3>1 DEF Decided
  <2> QED
    BY <2>3, <2>4
<1>4. ASSUME NEW c \in Clerk, (AttachFile(c) /\ ~Return(c)) \/ DeleteFile(c)
      PROVE  /\ work'[p] # Nothing /\ work'[p].status = work[p].status
             /\ work'[p].answer = work[p].answer
  BY <1>4, FileSaved
<1>5. ASSUME NEW c \in Clerk, StaffNext(c), ~DeleteTask(c) PROVE UNCHANGED work
  BY <1>5 DEF StaffNext, UpdateTask, SaveTask, RemoveTask, Grade, Loaded
<1>6. ASSUME NEW c \in Clerk, PupilNext(c),
             ~(SaveSubmission(c) /\ ~Return(c)), ~(AttachFile(c) /\ ~Return(c)), ~DeleteFile(c)
      PROVE  UNCHANGED work
  BY <1>6 DEF PupilNext, Submit, UpdateSubmission, RemoveFile, Loaded, Return
<1>7. ASSUME ~\E c \in Clerk : StaffNext(c) \/ PupilNext(c) PROVE UNCHANGED work
  BY <1>7 DEF TaskNext, taskVars, CreateTask, ChangeRoster, DayPasses
<1> QED
  BY <1>1, <1>2, <1>3, <1>4, <1>5, <1>6, <1>7

\* What students hand in is kept, counted and shown, through everything the class's
\* staff does with the assignment, as long as no request overtakes another.
THEOREM SubmissionsKept == TaskSpec => WorkKept
<1>1. TaskSpec => []TaskInv
  BY TaskStarts, TaskKeeps, PTL DEF TaskSpec
<1>2. TaskSpec => []AllShown
  BY <1>1, TaskShown, PTL
<1>3. ASSUME TaskInv, AllShown', [TaskNext]_taskVars, ~overtaken', NEW p \in Pupil,
             work[p] # Nothing
      PROVE  /\ work'[p] # Nothing /\ ListsShow(p)'
             /\ work[p].status = "graded" => work'[p].status = "graded"
             /\ task.status = "closed" => work'[p].answer = work[p].answer
  BY <1>3, WorkStays DEF AllShown
<1>4. TaskInv /\ AllShown' /\ [TaskNext]_taskVars =>
        [~overtaken' =>
           \A p \in Pupil : work[p] # Nothing =>
             /\ work'[p] # Nothing /\ ListsShow(p)'
             /\ work[p].status = "graded" => work'[p].status = "graded"
             /\ task.status = "closed" => work'[p].answer = work[p].answer]_taskVars
  BY <1>3
<1> QED
  BY <1>1, <1>2, <1>4, PTL DEF TaskSpec, WorkKept
==============================================================================
