------------------------------ MODULE LeadScans ------------------------------
(***************************************************************************)
(* Facebook lead scans of one post: staff submit scraped comments, a cron  *)
(* job sends one pending scan at a time to the classifier and copies the   *)
(* promising authors into the CRM.  Nothing runs in a transaction: each    *)
(* repository call is a step, and the one process may crash between any    *)
(* two.  The post has several rows when first submissions overlap.         *)
(***************************************************************************)
EXTENDS Integers, FiniteSets

CONSTANTS
  ScanId, \* ids of facebook_lead_scans rows, in the order of created_at
  Comment, \* fingerprints of scraped comments, each by an author of its own
  Submitter, \* concurrent submissions
  MaxSubmissions \* the bound on submissions

ASSUME LeadConstants == ScanId \subseteq Nat \ {0}

VARIABLES
  scan,    \* status, retry and the comments and leads of detection, by row
  owner,   \* facebook_lead_items.scan_id by fingerprint, 0 before its insertion
  demands, \* number of lead_demands rows by scan and comment
  submits, \* locals of the submissions
  worker,  \* locals of the cron job (isRunning keeps it alone)
  attempts, raced, gap, submitted \* history, see the properties

leadVars == <<scan, owner, demands, submits, worker, attempts, raced, gap, submitted>>

NoScan == [status |-> "none", retry |-> 0, analysed |-> {}, leads |-> {}]
NoSubmit == [at |-> "idle", on |-> 0, comments |-> {}]
Idle == [at |-> "idle", on |-> 0, items |-> {}, retry |-> 0, todo |-> {}]

LeadInit ==
  /\ scan = [s \in ScanId |-> NoScan]
  /\ owner = [c \in Comment |-> 0]
  /\ demands = [s \in ScanId |-> [c \in Comment |-> 0]]
  /\ submits = [h \in Submitter |-> NoSubmit]
  /\ worker = Idle
  /\ attempts = [s \in ScanId |-> 0]
  /\ raced = [s \in ScanId |-> FALSE]
  /\ gap = [s \in ScanId |-> FALSE]
  /\ submitted = 0

Existing == {s \in ScanId : scan[s].status # "none"}
SubmitsOn(s) == \E h \in Submitter : submits[h].on = s

-----------------------------------------------------------------------------
(* Submission: save() of the scan row, of the new items, of the row again.  *)

\* Mutant: a known scan keeps its status.
Submitted_Kept(s) ==
  [scan EXCEPT ![s].status = IF @ = "none" THEN "PENDING" ELSE @, ![s].retry = 0]

\* A new row gets the column's default, a known one starts again; detection is
\* that of the text detector until the worker replaces it.
Submitted(s) == [scan EXCEPT ![s] = [NoScan EXCEPT !.status = "PENDING"]]

\* findOne by post, then the first save
SubmitScan(h, s, C) ==
  /\ submits[h].at = "idle" /\ submitted < MaxSubmissions
  /\ IF Existing = {} THEN \A r \in ScanId : s <= r ELSE s \in Existing
  /\ submits' = [submits EXCEPT ![h] = [at |-> "items", on |-> s, comments |-> C]]
  /\ scan' = Submitted(s)
  /\ attempts' = [attempts EXCEPT ![s] = 0]
  /\ raced' = [raced EXCEPT ![s] = @ \/ worker.on = s]
  /\ submitted' = submitted + 1
  /\ UNCHANGED <<owner, demands, worker, gap>>

\* Another first submission found no row either and inserts one of its own.
SubmitTwin(h, s, C) ==
  /\ submits[h].at = "idle" /\ submitted < MaxSubmissions
  /\ scan[s].status = "none"
  /\ \E g \in Submitter \ {h} : Existing = {submits[g].on}
  /\ submits' = [submits EXCEPT ![h] = [at |-> "items", on |-> s, comments |-> C]]
  /\ scan' = Submitted(s)
  /\ submitted' = submitted + 1
  /\ UNCHANGED <<owner, demands, worker, attempts, raced, gap>>

\* Comments that no scan has yet are inserted in one transaction.  Where another
\* submission inserts one of them first, the unique index fails this request and
\* leaves its scan row behind.
SubmitItems(h) ==
  /\ submits[h].at = "items"
  /\ owner' = [c \in Comment |-> IF c \in submits[h].comments /\ owner[c] = 0
                                 THEN submits[h].on ELSE owner[c]]
  /\ submits' = [submits EXCEPT ![h].at = "recount"]
  /\ UNCHANGED <<scan, demands, worker, attempts, raced, gap, submitted>>

SubmitRejected(h) ==
  /\ submits[h].at = "items"
  /\ \E g \in Submitter \ {h} :
       submits[g].at = "recount" /\ submits[g].comments \intersect submits[h].comments # {}
  /\ submits' = [submits EXCEPT ![h] = NoSubmit]
  /\ UNCHANGED <<scan, owner, demands, worker, attempts, raced, gap, submitted>>

\* The second save of the same entity writes what the worker changed back.
SubmitCounts(h) ==
  /\ submits[h].at = "recount"
  /\ scan' = Submitted(submits[h].on)
  /\ attempts' = [attempts EXCEPT ![submits[h].on] = 0]
  /\ submits' = [submits EXCEPT ![h] = NoSubmit]
  /\ UNCHANGED <<owner, demands, worker, raced, gap, submitted>>

-----------------------------------------------------------------------------
(* ProcessPendingFacebookLeadScansUseCase, every minute.                    *)

\* A PROCESSING row older than ten minutes: the process died on it.
RecoverStale(s) ==
  /\ worker.at = "idle" /\ scan[s].status = "PROCESSING"
  /\ worker' = [Idle EXCEPT !.at = "count", !.on = s, !.retry = scan[s].retry]
  /\ raced' = [raced EXCEPT ![s] = @ \/ SubmitsOn(s)]
  /\ UNCHANGED <<scan, owner, demands, submits, attempts, gap, submitted>>

Pending == {s \in ScanId : scan[s].status = "PENDING" /\ scan[s].retry < 3}

\* findPendingScans: the row lock ends with this statement's transaction.
PickScan(s) ==
  /\ worker.at = "idle"
  /\ s \in Pending /\ \A r \in Pending : s <= r
  /\ worker' = [Idle EXCEPT !.at = "picked", !.on = s,
                            !.items = {c \in Comment : owner[c] = s}]
  /\ raced' = [raced EXCEPT ![s] = SubmitsOn(s)]
  /\ UNCHANGED <<scan, owner, demands, submits, attempts, gap, submitted>>

MarkAsProcessing ==
  /\ worker.at = "picked"
  /\ scan' = [scan EXCEPT ![worker.on].status = "PROCESSING"]
  /\ attempts' = [attempts EXCEPT ![worker.on] = @ + 1]
  /\ worker' = [worker EXCEPT !.at = "marked"]
  /\ UNCHANGED <<owner, demands, submits, raced, gap, submitted>>

\* updateAiAnalysisResult after the classifier has answered for every chunk; a
\* scan without comments ends here.
Complete(leads) ==
  /\ worker.at = "marked" /\ leads \subseteq worker.items
  /\ scan' = [scan EXCEPT ![worker.on].status = "COMPLETED",
                          ![worker.on].analysed = worker.items,
                          ![worker.on].leads = leads]
  /\ worker' = IF worker.items = {} THEN Idle
               ELSE [worker EXCEPT !.at = "clear", !.todo = leads]
  /\ UNCHANGED <<owner, demands, submits, attempts, raced, gap, submitted>>

\* The classifier fails, or times out after 90 seconds.
ClassifyFails ==
  /\ worker.at = "marked"
  /\ worker' = [worker EXCEPT !.at = "count", !.retry = scan[worker.on].retry]
  /\ UNCHANGED <<scan, owner, demands, submits, attempts, raced, gap, submitted>>

Counted(row, retry) ==
  [row EXCEPT !.retry = retry + 1,
              !.status = IF retry + 1 >= 3 THEN "FAILED" ELSE "PENDING"]

\* incrementRetryCount and recoverStaleProcessingScans write what they read before.
CountAttempt ==
  /\ worker.at = "count"
  /\ scan' = [scan EXCEPT ![worker.on] = Counted(@, worker.retry)]
  /\ worker' = Idle
  /\ UNCHANGED <<owner, demands, submits, attempts, raced, gap, submitted>>

NoDemands == [c \in Comment |-> 0]

Cleared(s) == [demands EXCEPT ![s] = NoDemands]

\* deleteDemandsByScanId; its failure is only logged.
ClearDemands(fails) ==
  /\ worker.at = "clear"
  /\ demands' = IF fails THEN demands ELSE Cleared(worker.on)
  /\ gap' = [gap EXCEPT ![worker.on] = fails]
  /\ worker' = IF worker.todo = {} THEN Idle ELSE [worker EXCEPT !.at = "sync"]
  /\ UNCHANGED <<scan, owner, submits, attempts, raced, submitted>>

\* upsertLeadFromScan for one lead; its failure is only logged too.
SyncLead(c, fails) ==
  /\ worker.at = "sync" /\ c \in worker.todo
  /\ demands' = IF fails THEN demands ELSE [demands EXCEPT ![worker.on][c] = @ + 1]
  /\ gap' = [gap EXCEPT ![worker.on] = @ \/ fails]
  /\ worker' = IF worker.todo = {c} THEN Idle ELSE [worker EXCEPT !.todo = @ \ {c}]
  /\ UNCHANGED <<scan, owner, submits, attempts, raced, submitted>>

\* The process restarts; what it was doing is forgotten.
LeadCrash ==
  /\ worker.at # "idle" \/ \E h \in Submitter : submits[h].at # "idle"
  /\ worker' = Idle
  /\ submits' = [h \in Submitter |-> NoSubmit]
  /\ gap' = [s \in ScanId |-> gap[s] \/ (worker.on = s /\ worker.at \in {"clear", "sync"})]
  /\ UNCHANGED <<scan, owner, demands, attempts, raced, submitted>>

LeadNext ==
  \/ \E h \in Submitter :
       \/ \E s \in ScanId, C \in (SUBSET Comment) \ {{}} : SubmitScan(h, s, C) \/ SubmitTwin(h, s, C)
       \/ SubmitItems(h) \/ SubmitRejected(h) \/ SubmitCounts(h)
  \/ \E s \in ScanId : RecoverStale(s) \/ PickScan(s)
  \/ MarkAsProcessing \/ ClassifyFails \/ CountAttempt \/ LeadCrash
  \/ \E leads \in SUBSET Comment : Complete(leads)
  \/ \E fails \in BOOLEAN : ClearDemands(fails) \/ \E c \in Comment : SyncLead(c, fails)

LeadSpec == LeadInit /\ [][LeadNext]_leadVars

-----------------------------------------------------------------------------
\* A completed scan has had every comment of its row analysed, unless a submission
\* overlapped with the worker (raced), and the CRM has one demand per lead of it
\* once the worker has left, unless a statement failed or the process died while
\* copying (gap).  The classifier is asked at most three times per submission.
\* So whatever fails, crashes or is repeated in between, nothing is forgotten.
CompletedIsAnalysed ==
  \A s \in ScanId :
    /\ attempts[s] <= 3
    /\ scan[s].status = "COMPLETED" =>
         /\ raced[s] \/ {c \in Comment : owner[c] = s} = scan[s].analysed
         /\ worker.on = s \/ gap[s] \/
              \A c \in Comment : demands[s][c] = IF c \in scan[s].leads THEN 1 ELSE 0
=============================================================================
