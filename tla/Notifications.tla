---------------------------- MODULE Notifications ----------------------------
(***************************************************************************)
(* In-app notices and their log.  Other components insert the notices; the *)
(* owner reads, unreads and archives them, one by one or all at once.  No  *)
(* request locks anything.  A trigger of the database logs every change;   *)
(* the batch requests log theirs a second time.                            *)
(***************************************************************************)
EXTENDS Integers, FiniteSets, Sequences, SequencesExt

CONSTANTS
  Told,       \* students and teachers
  AccountOf,  \* the account of each, or Nobody
  Tab,        \* requests under way
  MaxNotices, \* bound on rows
  MaxUnreads, \* bound: none is marked as unread once one was so often
  Nobody      \* NULL

ASSUME NoticeConstants ==
  /\ DOMAIN AccountOf = Told /\ IsFiniteSet(Told) /\ IsFiniteSet(Tab)
  /\ MaxNotices \in Nat /\ MaxUnreads \in Nat

VARIABLES
  notice,  \* rows of notifications
  log,     \* rows of notification_logs: how many of each kind, by notice
  tab,     \* what each request has read, Nobody when it is free
  crossed  \* a request wrote after another one of the account had since it read

noticeVars == <<notice, log, tab, crossed>>

\* The entry CREATED, which the trigger writes with the row, is left out.
Event == {"READ", "UNREAD", "ARCHIVED"}

User == {AccountOf[p] : p \in Told} \ {Nobody}
Ids == DOMAIN notice

NoticeInit ==
  /\ notice = <<>> /\ log = <<>>
  /\ tab = [t \in Tab |-> Nobody] /\ crossed = FALSE

-----------------------------------------------------------------------------
(* Notices come from the other components, a save for all of a request's.   *)

Insert(owners) ==
  /\ Len(notice) + Len(owners) <= MaxNotices
  /\ notice' = notice \o [i \in DOMAIN owners |-> [owner |-> owners[i], read |-> FALSE, archived |-> FALSE]]
  /\ log' = log \o [i \in DOMAIN owners |-> [k \in Event \X BOOLEAN |-> 0]]
  /\ UNCHANGED <<tab, crossed>>

WithAccount(S) == {p \in S : AccountOf[p] # Nobody}

\* notifyClass: brothers and sisters with one account are told once each.
TellClass(S) ==
  LET told == SetToSeq(WithAccount(S))
  IN Insert([i \in DOMAIN told |-> AccountOf[told[i]]])

\* notifyTeachers: the teacher of the lesson and that of the class; an account is
\* told once.
TellTeachers(S) == Insert(SetToSeq({AccountOf[p] : p \in WithAccount(S)}))

\* notifyStudentAboutOpenAssignments: a notice for each of k assignments
TellNewcomer(p, k) ==
  AccountOf[p] # Nobody /\ Insert([i \in 1..k |-> AccountOf[p]])

\* A grade, a decision about a leave request, a payment request
TellStudent(p) == AccountOf[p] # Nobody /\ Insert(<<AccountOf[p]>>)

-----------------------------------------------------------------------------
(* Statements that change notices.                                          *)

\* log_notification_event: at most one entry, archiving first
EventOf(old, new) ==
  IF ~old.archived /\ new.archived THEN {"ARCHIVED"}
  ELSE IF ~old.read /\ new.read THEN {"READ"}
  ELSE IF old.read /\ ~new.read THEN {"UNREAD"}
  ELSE {}

One(x, S) == IF x \in S THEN 1 ELSE 0

\* An UPDATE, with what the trigger logs and what the request logs itself
Write(new, also, batch) ==
  /\ notice' = new
  /\ log' = [n \in Ids |-> [k \in Event \X BOOLEAN |->
               log[n][k] + (IF k[2] THEN 0 ELSE One(k[1], EventOf(notice[n], new[n])))
                         + (IF k[2] = batch THEN One(k[1], also[n]) ELSE 0)]]

\* t's write makes what the account's other requests hold old.
Used(t, next) ==
  /\ crossed' = (crossed \/ tab[t].stale)
  /\ tab' = [s \in Tab |-> IF s = t THEN next
                           ELSE IF tab[s] # Nobody /\ tab[s].user = tab[t].user
                             THEN [tab[s] EXCEPT !.stale = TRUE]
                           ELSE tab[s]]

Holds(t, op, user, rows, copy) ==
  /\ tab[t] = Nobody
  /\ tab' = [tab EXCEPT ![t] = [op |-> op, user |-> user, rows |-> rows, copy |-> copy,
                                stale |-> FALSE]]
  /\ UNCHANGED <<notice, log, crossed>>

-----------------------------------------------------------------------------
(* One notice: find, change the copy, save the copy.                        *)

FoundFor(n, u) == notice[n].owner = u /\ ~notice[n].archived

\* markRead, markUnread, archive
Changed(row, op) ==
  [row EXCEPT !.read = (op = "read" \/ (@ /\ op # "unread")),
              !.archived = (@ \/ op = "archive")]

FindOne(t, op, u, n) ==
  /\ FoundFor(n, u)
  /\ op = "unread" => \A m \in Ids : log[m][<<"UNREAD", FALSE>>] < MaxUnreads
  /\ Holds(t, "save", u, {n}, Changed(notice[n], op))

\* toOrm fills in the entity that save compares with afterwards.
ToOrm(copy, existing) == [existing |-> copy, saved |-> copy]

\* Both times are written as they are in the copy; save sees no difference and
\* logs nothing itself.
SaveNotice(t) ==
  /\ tab[t] # Nobody /\ tab[t].op = "save"
  /\ \E n \in tab[t].rows :
       LET orm == ToOrm(tab[t].copy, notice[n])
       IN Write([notice EXCEPT ![n] = orm.saved],
                [m \in Ids |-> IF m = n THEN EventOf(orm.existing, orm.saved) ELSE {}], FALSE)
  /\ Used(t, Nobody)

-----------------------------------------------------------------------------
(* All notices: find for the log, update by a condition, log what was found. *)

Unread(u) == {n \in Ids : FoundFor(n, u) /\ ~notice[n].read}

\* Mutant: archived notices are found as well.
ReadOnes_Archived(u) == {n \in Ids : notice[n].owner = u /\ notice[n].read}

ReadOnes(u) == {n \in Ids : FoundFor(n, u) /\ notice[n].read}

FindUnread(t, u) == Holds(t, "readAll", u, Unread(u), Nobody)
FindRead(t, u) == Holds(t, "archiveAll", u, ReadOnes(u), Nobody)

Silent == [n \in Ids |-> {}]

\* Nothing more happens where nothing was found.
ThenLog(t, op) == IF tab[t].rows = {} THEN Nobody ELSE [tab[t] EXCEPT !.op = op]

MarkAllRead(t) ==
  /\ tab[t] # Nobody /\ tab[t].op = "readAll"
  /\ LET all == Unread(tab[t].user)
     IN Write([n \in Ids |-> [notice[n] EXCEPT !.read = @ \/ n \in all]], Silent, TRUE)
  /\ Used(t, ThenLog(t, "logREAD"))

ArchiveAllRead(t) ==
  /\ tab[t] # Nobody /\ tab[t].op = "archiveAll"
  /\ LET all == {n \in Ids : FoundFor(n, tab[t].user) /\ notice[n].read}
     IN Write([n \in Ids |-> [notice[n] EXCEPT !.archived = @ \/ n \in all]], Silent, TRUE)
  /\ Used(t, ThenLog(t, "logARCHIVED"))

\* An error here is caught and forgotten.
LogBatch(t) ==
  /\ tab[t] # Nobody
  /\ \E event \in {"READ", "ARCHIVED"} :
       /\ tab[t].op = IF event = "READ" THEN "logREAD" ELSE "logARCHIVED"
       /\ Write(notice, [n \in Ids |-> IF n \in tab[t].rows THEN {event} ELSE {}], TRUE)
  /\ tab' = [tab EXCEPT ![t] = Nobody]
  /\ UNCHANGED crossed

\* A request whose next statement fails, or whose process dies
Abandon(t) ==
  /\ tab[t] # Nobody
  /\ tab' = [tab EXCEPT ![t] = Nobody]
  /\ UNCHANGED <<notice, log, crossed>>

OwnerNext(t) ==
  \/ \E u \in User :
       \/ \E op \in {"read", "unread", "archive"}, n \in Ids : FindOne(t, op, u, n)
       \/ FindUnread(t, u) \/ FindRead(t, u)
  \/ SaveNotice(t) \/ MarkAllRead(t) \/ ArchiveAllRead(t) \/ LogBatch(t) \/ Abandon(t)

NoticeNext ==
  \/ \E S \in SUBSET Told : TellClass(S) \/ (Cardinality(S) <= 2 /\ TellTeachers(S))
  \/ \E p \in Told : TellStudent(p) \/ TellNewcomer(p, 2)
  \/ \E t \in Tab : OwnerNext(t)

NoticeSpec == NoticeInit /\ [][NoticeNext]_noticeVars

-----------------------------------------------------------------------------
\* listForUser
Shown(u, unreadOnly) == {n \in Ids : FoundFor(n, u) /\ (unreadOnly => ~notice[n].read)}

\* As long as no request of an account wrote between what another one of it found
\* and wrote, the log tells the story of every notice: it is read iff it was marked
\* as read once more than as unread, archived iff one archiving is logged; a batch
\* request repeats only entries that are there, none twice; and an archived notice
\* is never shown again.
LogTellsNotices ==
  ~crossed =>
    \A n \in Ids :
      /\ log[n][<<"READ", FALSE>>] - log[n][<<"UNREAD", FALSE>>] = (IF notice[n].read THEN 1 ELSE 0)
      /\ log[n][<<"ARCHIVED", FALSE>>] = (IF notice[n].archived THEN 1 ELSE 0)
      /\ \A e \in Event : log[n][<<e, TRUE>>] <= log[n][<<e, FALSE>>]
      /\ log[n][<<"ARCHIVED", FALSE>>] > 0 => \A u \in User : n \notin Shown(u, FALSE)
=============================================================================
