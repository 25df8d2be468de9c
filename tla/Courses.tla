------------------------------- MODULE Courses -------------------------------
(***************************************************************************)
(* Courses and their levels, with the prices and the classes that point to *)
(* a level.  A request is a sequence of statements without a transaction;  *)
(* another request may fall in between.  Deleting a level cascades to its  *)
(* prices and is refused while a class points to it, both by foreign keys. *)
(* Codes are compared trimmed and stored as given, so they are not unique  *)
(* and are left out, as are the names and settings of courses and levels.  *)
(* PriceTimeline has the other changes of prices.                          *)
(***************************************************************************)
EXTENDS Naturals, FiniteSets

CONSTANTS
  CourseId, LevelId, \* ids that may be given out, the bounds on rows
  RoomClass,         \* classes that may be created
  PriceKind,         \* student, teacher, ta
  Desk,              \* requests under way
  NoCourse           \* no row, or no level

LevelRow == [course : CourseId, prices : SUBSET PriceKind]

ASSUME CourseConstants == NoCourse \notin LevelRow

VARIABLES
  courses,    \* rows of courses
  level,      \* rows of course_levels with the kinds of their prices
  levelOf,    \* course_level_id of a class
  lessonsOf,  \* classes with sessions
  desk        \* what each request does next

courseVars == <<courses, level, levelOf, lessonsOf, desk>>

FreeDesk == [step |-> "free", course |-> NoCourse, level |-> NoCourse,
             more |-> 0, prices |-> {}, used |-> {}]

CourseInit ==
  /\ courses = {} /\ level = [l \in LevelId |-> NoCourse]
  /\ levelOf = [c \in RoomClass |-> NoCourse] /\ lessonsOf = {}
  /\ desk = [d \in Desk |-> FreeDesk]

SavedLevels == {l \in LevelId : level[l] # NoCourse}

ClassesOf(l) == {c \in RoomClass : levelOf[c] = l}

InUse == {l \in LevelId : ClassesOf(l) # {}}

\* An id nobody has heard of
NewLevel(l) == level[l] = NoCourse /\ \A d \in Desk : desk[d].level # l

Step(d, fields) ==
  desk' = [desk EXCEPT ![d] = [f \in DOMAIN FreeDesk |->
             IF f \in DOMAIN fields THEN fields[f] ELSE desk[d][f]]]

\* used: the levels with a class when the request begins
Begin(d, fields) ==
  /\ desk[d] = FreeDesk
  /\ desk' = [desk EXCEPT ![d] = [f \in DOMAIN FreeDesk |->
                IF f = "used" THEN InUse
                ELSE IF f \in DOMAIN fields THEN fields[f] ELSE FreeDesk[f]]]

End(d) == desk' = [desk EXCEPT ![d] = FreeDesk]

-----------------------------------------------------------------------------
\* create: a course has a level
CreateCourse(d, q, more) ==
  /\ q \notin courses /\ more > 0
  /\ courses' = courses \union {q}
  /\ Begin(d, [step |-> "levels", course |-> q, more |-> more])
  /\ UNCHANGED <<level, levelOf, lessonsOf>>

\* update: the course is saved whatever becomes of the levels, which are deleted
\* and made again if the request has some.
UpdateCourse(d, q, more) ==
  /\ q \in courses
  /\ Begin(d, [step |-> "purge", course |-> q, more |-> more])
  /\ UNCHANGED <<courses, level, levelOf, lessonsOf>>

\* One statement for all levels of the course
PurgeLevels(d) ==
  LET L == {l \in SavedLevels : level[l].course = desk[d].course}
  IN /\ desk[d].step = "purge"
     /\ IF L \cap InUse = {}
        THEN /\ level' = [l \in LevelId |-> IF l \in L THEN NoCourse ELSE level[l]]
             /\ Step(d, [step |-> "levels"])
        ELSE End(d) /\ UNCHANGED level
     /\ UNCHANGED <<courses, levelOf, lessonsOf>>

\* A level at a time, without prices
SaveLevel(d, l) ==
  /\ desk[d].step = "levels" /\ desk[d].more > 0 /\ NewLevel(l)
  /\ level' = [level EXCEPT ![l] = [course |-> desk[d].course, prices |-> {}]]
  /\ Step(d, [more |-> desk[d].more - 1])
  /\ UNCHANGED <<courses, levelOf, lessonsOf>>

LevelsSaved(d) ==
  /\ desk[d].step = "levels" /\ desk[d].more = 0
  /\ End(d) /\ UNCHANGED <<courses, level, levelOf, lessonsOf>>

\* addLevel: the level, then a price without end for every amount given
AddLevel(d, q, l, prices) ==
  /\ q \in courses /\ NewLevel(l)
  /\ level' = [level EXCEPT ![l] = [course |-> q, prices |-> {}]]
  /\ IF prices = {} THEN desk[d] = FreeDesk /\ UNCHANGED desk
     ELSE Begin(d, [step |-> "prices", level |-> l, prices |-> prices])
  /\ UNCHANGED <<courses, levelOf, lessonsOf>>

\* All of them in one transaction, which fails if the level is gone
SavePrices(d) ==
  /\ desk[d].step = "prices"
  /\ level' = [l \in LevelId |->
       IF l = desk[d].level /\ l \in SavedLevels
       THEN [level[l] EXCEPT !.prices = @ \union desk[d].prices] ELSE level[l]]
  /\ End(d) /\ UNCHANGED <<courses, levelOf, lessonsOf>>

\* updateLevel loads the level and saves it.
UpdateLevel(d, l) ==
  /\ l \in SavedLevels
  /\ Begin(d, [step |-> "rewrite", level |-> l, course |-> level[l].course])
  /\ UNCHANGED <<courses, level, levelOf, lessonsOf>>

\* A level that is gone is inserted again, without its prices.
RewriteLevel(d) ==
  LET l == desk[d].level
  IN /\ desk[d].step = "rewrite"
     /\ level' = [level EXCEPT ![l] =
          IF l \in SavedLevels THEN level[l] ELSE [course |-> desk[d].course, prices |-> {}]]
     /\ End(d) /\ UNCHANGED <<courses, levelOf, lessonsOf>>

\* Mutant: only classes with sessions are counted.
NoClassUses_Sessions(l) == ClassesOf(l) \cap lessonsOf = {}

\* deleteLevel counts the classes,
NoClassUses(l) == ClassesOf(l) = {}

DeleteLevel(d, l) ==
  /\ l \in SavedLevels /\ NoClassUses(l)
  /\ Begin(d, [step |-> "sessions", level |-> l])
  /\ UNCHANGED <<courses, level, levelOf, lessonsOf>>

\* then their sessions,
CountSessions(d) ==
  /\ desk[d].step = "sessions"
  /\ IF ClassesOf(desk[d].level) \cap lessonsOf = {} THEN Step(d, [step |-> "unprice"])
     ELSE End(d)
  /\ UNCHANGED <<courses, level, levelOf, lessonsOf>>

\* deletes the prices
DeletePrices(d) ==
  /\ desk[d].step = "unprice"
  /\ level' = [l \in LevelId |->
       IF l = desk[d].level /\ l \in SavedLevels THEN [level[l] EXCEPT !.prices = {}] ELSE level[l]]
  /\ Step(d, [step |-> "unlevel"])
  /\ UNCHANGED <<courses, levelOf, lessonsOf>>

\* and the level, which fails if a class has been created meanwhile.
DropLevel(d) ==
  /\ desk[d].step = "unlevel"
  /\ level' = [level EXCEPT ![desk[d].level] =
                 IF ClassesOf(desk[d].level) = {} THEN NoCourse ELSE @]
  /\ End(d) /\ UNCHANGED <<courses, levelOf, lessonsOf>>

\* A class is created for a level, gets another one, or its sessions.
UseLevel(c, l) ==
  /\ l \in SavedLevels /\ levelOf[c] # l
  /\ levelOf' = [levelOf EXCEPT ![c] = l]
  /\ UNCHANGED <<courses, level, lessonsOf, desk>>

PlanLessons(c) ==
  /\ levelOf[c] # NoCourse /\ c \notin lessonsOf
  /\ lessonsOf' = lessonsOf \union {c}
  /\ UNCHANGED <<courses, level, levelOf, desk>>

CourseNext ==
  \/ \E d \in Desk :
       \/ \E q \in CourseId, more \in 0..2 : CreateCourse(d, q, more) \/ UpdateCourse(d, q, more)
       \/ \E q \in CourseId, l \in LevelId, prices \in SUBSET PriceKind : AddLevel(d, q, l, prices)
       \/ \E l \in LevelId : SaveLevel(d, l) \/ UpdateLevel(d, l) \/ DeleteLevel(d, l)
       \/ PurgeLevels(d) \/ LevelsSaved(d) \/ SavePrices(d) \/ RewriteLevel(d)
       \/ CountSessions(d) \/ DeletePrices(d) \/ DropLevel(d)
  \/ \E c \in RoomClass : PlanLessons(c) \/ \E l \in LevelId : UseLevel(c, l)

CourseSpec == CourseInit /\ [][CourseNext]_courseVars

-----------------------------------------------------------------------------
Prices(l) == IF l \in SavedLevels THEN level[l].prices ELSE {}

\* A level loses prices only to a request that found it without classes: an update
\* of the course in the statement itself, a deletion when it began, by whatever
\* statements of others it is interrupted.  (A class created after the classes were
\* counted does lose them.)
UsedLevelKeepsPrices ==
  [][\A l \in LevelId :
       ~(Prices(l) \subseteq Prices(l)') =>
         \E d \in Desk :
           \/ desk[d].step = "purge" /\ l \notin InUse
           \/ desk[d].step \in {"unprice", "unlevel"} /\ l \notin desk[d].used]_courseVars
=============================================================================
