\* One screen after another, each on a small instance of the tables it uses.
CONSTANTS
  Scene = {"months", "timetables", "courses", "dashboards", "tasks", "weeks", "notices"}
  Payee = {"p", "q"}
  Lecture = {"c"}
  LessonDay = {1, 2, 3}
  SlipMonth = {1, 2}
  MonthOf <- LessonMonth
  Tariff <- Tariffs
  OldSlips <- NoSlips
  HeldLesson <- SomeLessons
  GivenDates <- SomeDates
  MaxSlips = 3
  Unknown = Unknown
  ClassId = {c1, c2}
  Timetable <- SomeTimetables
  ClassRange <- SomeRanges
  Instructor = {"t", Null}
  Room = {"r", Null}
  Request <- OneChange
  Unasked = Unasked
  Null = Null
  CourseId = {"q"}
  LevelId = {m1, m2}
  RoomClass = {"k"}
  PriceKind = {"student"}
  Desk = {h1, h2}
  NoCourse = NoCourse
  Attendee = {"p"}
  Course = {"c1", "c2"}
  Meeting = {"x1", "x2"}
  CourseOf <- CourseOfMeeting
  DateOf <- DateOfMeeting
  CalendarDay = {1, 2}
  CalendarMonth = {1, 2}
  MonthOfDay <- Calendar
  Homework = {"w"}
  HomeworkOf <- HomeworkOfFirst
  Stage = {"Scheduled", "In-Progress", "Cancelled"}
  MaxRows = 2
  Nothing = Nothing
  Pupil = {"s"}
  Clerk = {h1, h2}
  Answer = {"x"}
  MaxScore = {10}
  Score = {10}
  DueDate = {1}
  Unset = Unset
  ThisWeek = {c1, c2}
  LastWeek = {3}
  Marks <- SentMarks
  Peers <- OtherIndexes
  OldScore = {70}
  Told = {m1, m2}
  AccountOf <- OwnAccounts
  Tab = {h1, h2}
  MaxNotices = 2
  MaxUnreads = 1
  Nobody = Nobody
  h1 = h1  h2 = h2  c1 = c1  c2 = c2  m1 = m1  m2 = m2
SPECIFICATION Spec
SYMMETRY ScreenSymmetry
INVARIANTS
  MonthsDoNotOverlap
  SettledAmountKept
  NoDoubleBooking
  
  
  LogTellsNotices
PROPERTIES
  UsedLevelKeepsPrices
  PastViewsKept
  
  BetterLessonHelps
CHECK_DEADLOCK FALSE
