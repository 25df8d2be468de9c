----------------------------- MODULE LeadsProof ------------------------------
(***************************************************************************)
(* What the service keeps of a scan the worker has analysed, and what the  *)
(* profiles of the authors say of their comments.                          *)
(***************************************************************************)
EXTENDS LeadScans, LeadProfiles, SumsProof, SequenceTheorems, TLAPS

-----------------------------------------------------------------------------
(* Lead scans                                                              *)

ItemsOf(s) == {c \in Comment : owner[c] = s}

ScanRow ==
  [status : {"none", "PENDING", "PROCESSING", "COMPLETED", "FAILED"}, retry : Nat,
   analysed : SUBSET Comment, leads : SUBSET Comment]

\* Types, and where the worker and a submission are with the row they work on.
LeadTyped ==
  /\ scan \in [ScanId -> ScanRow]
  /\ owner \in [Comment -> ScanId \union {0}]
  /\ demands \in [ScanId -> [Comment -> Nat]]
  /\ submits \in [Submitter -> [at : {"idle", "items", "recount"}, on : ScanId \union {0},
                                comments : SUBSET Comment]]
  /\ worker \in [at : {"idle", "picked", "marked", "count", "clear", "sync"},
                 on : ScanId \union {0}, items : SUBSET Comment, retry : Nat,
                 todo : SUBSET Comment]
  /\ attempts \in [ScanId -> Nat]
  /\ raced \in [ScanId -> BOOLEAN] /\ gap \in [ScanId -> BOOLEAN]

\* The row of the worker exists, and has not left the status it was found with
\* but for a submission that starts it again.
WorkerPlace ==
  /\ worker.at = "idle" <=> worker.on = 0
  /\ worker.on # 0 => scan[worker.on].status # "none"
  /\ worker.at = "picked" => scan[worker.on].status = "PENDING"
  /\ worker.at \in {"marked", "count"} => scan[worker.on].status \in {"PENDING", "PROCESSING"}
  /\ \A h \in Submitter : submits[h].at # "idle" => submits[h].on # 0

\* A row is asked about at most once more than it has failed, and a count the
\* worker is about to write covers what it has asked.
AttemptsCounted ==
  /\ \A s \in ScanId :
       /\ scan[s].status = "none" => attempts[s] = 0
       /\ scan[s].status = "PENDING" => attempts[s] <= scan[s].retry
       /\ scan[s].status \in {"PENDING", "PROCESSING"} => scan[s].retry <= 2
       /\ scan[s].status = "PROCESSING" => attempts[s] <= scan[s].retry + 1
       /\ attempts[s] <= 3
  /\ worker.at = "count" => worker.retry <= 2 /\ attempts[worker.on] <= worker.retry + 1

\* No comment is added to a row while the worker has it, or after it has been
\* analysed, but by a submission that is raced or starts the row again.
ItemsCurrent ==
  /\ worker.at \in {"picked", "marked"} =>
       raced[worker.on] \/ (ItemsOf(worker.on) = worker.items /\ ~SubmitsOn(worker.on))
  /\ \A s \in ScanId : scan[s].status = "COMPLETED" =>
       raced[s] \/ (ItemsOf(s) = scan[s].analysed /\ ~SubmitsOn(s))

\* Demands are of comments of the row, which the worker has read.
DemandsOwned ==
  /\ \A s \in ScanId : \A c \in Comment : demands[s][c] # 0 => owner[c] = s
  /\ worker.at \in {"picked", "marked"} =>
       \A c \in Comment : demands[worker.on][c] # 0 => c \in worker.items
  /\ worker.at \in {"picked", "marked", "clear", "sync"} => worker.items \subseteq ItemsOf(worker.on)
  /\ worker.todo \subseteq worker.items

Copied(s, L) == \A c \in Comment : demands[s][c] = IF c \in L THEN 1 ELSE 0

\* What the worker has still to copy of a completed row
DemandsCurrent ==
  /\ worker.at = "clear" /\ scan[worker.on].status = "COMPLETED" =>
       worker.todo = scan[worker.on].leads
  /\ worker.at = "sync" /\ scan[worker.on].status = "COMPLETED" =>
       gap[worker.on] \/ (/\ worker.todo \subseteq scan[worker.on].leads
                          /\ Copied(worker.on, scan[worker.on].leads \ worker.todo))
  /\ \A s \in ScanId : scan[s].status = "COMPLETED" =>
       worker.on = s \/ gap[s] \/ Copied(s, scan[s].leads)

LeadInv ==
  /\ LeadTyped /\ WorkerPlace /\ AttemptsCounted /\ ItemsCurrent
  /\ DemandsOwned /\ DemandsCurrent

\* A row that is submitted starts again.
LEMMA RowStarts ==
  ASSUME LeadTyped, NEW s \in ScanId, scan' = Submitted(s)
  PROVE  /\ scan' \in [ScanId -> ScanRow]
         /\ scan'[s].status = "PENDING" /\ scan'[s].retry = 0
         /\ \A r \in ScanId \ {s} : scan'[r] = scan[r]
  BY DEF LeadTyped, Submitted, NoScan, ScanRow

\* Saving the row of a submission, first and last
LEMMA LeadSaved ==
  ASSUME LeadInv, NEW s \in ScanId, scan' = Submitted(s),
         attempts' \in [ScanId -> Nat], attempts'[s] = 0,
         raced' \in [ScanId -> BOOLEAN],
         worker.at \in {"picked", "marked"} /\ worker.on = s => raced'[s],
         \A r \in ScanId \ {s} : /\ attempts'[r] = attempts[r] /\ raced'[r] = raced[r]
                                 /\ SubmitsOn(r)' => SubmitsOn(r),
         submits' \in [Submitter -> [at : {"idle", "items", "recount"}, on : ScanId \union {0},
                                     comments : SUBSET Comment]],
         \A g \in Submitter : submits'[g].at # "idle" => submits'[g].on # 0,
         UNCHANGED <<owner, demands, worker, gap>>
  PROVE  LeadInv'
<1> USE DEF LeadInv
<1>1. /\ scan' \in [ScanId -> ScanRow]
      /\ scan'[s].status = "PENDING" /\ scan'[s].retry = 0
      /\ \A r \in ScanId \ {s} : scan'[r] = scan[r]
  BY RowStarts
<1>2. LeadTyped'
  BY <1>1 DEF LeadTyped
<1>3. worker.on \in ScanId \union {0} /\ 0 \notin ScanId
  BY LeadConstants DEF LeadTyped
<1>4. WorkerPlace'
  BY <1>1, <1>3 DEF WorkerPlace
<1>5. AttemptsCounted'
  <2>1. ASSUME worker.at = "count" PROVE attempts'[worker.on] <= worker.retry + 1
    <3>1. worker.on \in ScanId /\ worker.retry \in Nat /\ attempts[worker.on] <= worker.retry + 1
      BY <1>3, <2>1 DEF WorkerPlace, AttemptsCounted, LeadTyped
    <3>2. CASE worker.on = s
      BY <3>1, <3>2
    <3>3. CASE worker.on # s
      BY <3>1, <3>3
    <3> QED
      BY <3>2, <3>3
  <2> QED
    BY <1>1, <2>1 DEF AttemptsCounted
<1>6. ItemsCurrent'
  <2>1. \A r \in ScanId : ItemsOf(r)' = ItemsOf(r)
    BY DEF ItemsOf
  <2>2. worker.at \in {"picked", "marked"} => worker.on \in ScanId
    BY <1>3 DEF WorkerPlace
  <2>3. ASSUME NEW w, w = worker.on, worker.at \in {"picked", "marked"}
        PROVE  raced'[w] \/ (ItemsOf(w)' = worker.items /\ ~SubmitsOn(w)')
    BY <2>1, <2>2, <2>3 DEF ItemsCurrent
  <2>4. ASSUME NEW r \in ScanId, scan'[r].status = "COMPLETED"
        PROVE  raced'[r] \/ (ItemsOf(r)' = scan'[r].analysed /\ ~SubmitsOn(r)')
    BY <1>1, <2>1, <2>4 DEF ItemsCurrent
  <2> QED
    BY <2>3, <2>4 DEF ItemsCurrent
<1>7. DemandsOwned'
  BY DEF DemandsOwned, ItemsOf
<1>8. DemandsCurrent'
  <2>1. \A r \in ScanId : scan'[r].status = "COMPLETED" => scan'[r] = scan[r]
    BY <1>1
  <2>2. worker.at \in {"clear", "sync"} => worker.on \in ScanId
    BY <1>3 DEF WorkerPlace
  <2> QED
    BY <2>1, <2>2 DEF DemandsCurrent, Copied
<1> QED
  BY <1>2, <1>4, <1>5, <1>6, <1>7, <1>8

\* A submission that only moves on or ends
LEMMA SubmissionMoves ==
  ASSUME LeadInv,
         submits' \in [Submitter -> [at : {"idle", "items", "recount"}, on : ScanId \union {0},
                                     comments : SUBSET Comment]],
         \A g \in Submitter : submits'[g].at # "idle" => submits'[g].on # 0,
         \A r \in ScanId : SubmitsOn(r)' => SubmitsOn(r),
         owner' \in [Comment -> ScanId \union {0}],
         \A r \in ScanId : ItemsOf(r) \subseteq ItemsOf(r)' /\ (~SubmitsOn(r) => ItemsOf(r)' = ItemsOf(r)),
         UNCHANGED <<scan, demands, worker, attempts, raced, gap>>
  PROVE  LeadInv'
<1> USE DEF LeadInv
<1>1. LeadTyped' /\ WorkerPlace' /\ AttemptsCounted'
  BY DEF LeadTyped, WorkerPlace, AttemptsCounted
<1>2. worker.at # "idle" => worker.on \in ScanId
  BY DEF LeadTyped, WorkerPlace
<1>3. ItemsCurrent'
  <2>1. ASSUME NEW w, w = worker.on, worker.at \in {"picked", "marked"}
        PROVE  raced'[w] \/ (ItemsOf(w)' = worker.items /\ ~SubmitsOn(w)')
    BY <1>2, <2>1 DEF ItemsCurrent
  <2>2. ASSUME NEW r \in ScanId, scan'[r].status = "COMPLETED"
        PROVE  raced'[r] \/ (ItemsOf(r)' = scan'[r].analysed /\ ~SubmitsOn(r)')
    BY <2>2 DEF ItemsCurrent
  <2> QED
    BY <2>1, <2>2 DEF ItemsCurrent
<1>4. DemandsOwned'
  <2>1. ASSUME NEW r \in ScanId, NEW c \in Comment, demands'[r][c] # 0 PROVE owner'[c] = r
    BY <2>1 DEF DemandsOwned, ItemsOf
  <2>2. ASSUME NEW w, w = worker.on, worker.at \in {"picked", "marked", "clear", "sync"}
        PROVE  worker.items \subseteq ItemsOf(w)'
    BY <1>2, <2>2 DEF DemandsOwned
  <2> QED
    BY <2>1, <2>2 DEF DemandsOwned
<1>5. DemandsCurrent'
  BY DEF DemandsCurrent, Copied
<1> QED
  BY <1>1, <1>3, <1>4, <1>5

\* What the requests of staff do
LEMMA SubmissionsKeep ==
  ASSUME LeadInv, NEW h \in Submitter
  PROVE  /\ \A s \in ScanId, C \in SUBSET Comment : SubmitScan(h, s, C) => LeadInv'
         /\ \A s \in ScanId, C \in SUBSET Comment : SubmitTwin(h, s, C) => LeadInv'
         /\ SubmitItems(h) => LeadInv'
         /\ SubmitRejected(h) => LeadInv'
         /\ SubmitCounts(h) => LeadInv'
<1>1. LeadTyped /\ WorkerPlace /\ 0 \notin ScanId
  BY LeadConstants DEF LeadInv
<1>2. ASSUME NEW s \in ScanId, NEW C \in SUBSET Comment,
             submits' = [submits EXCEPT ![h] = [at |-> "items", on |-> s, comments |-> C]]
      PROVE  /\ submits' \in [Submitter -> [at : {"idle", "items", "recount"}, on : ScanId \union {0},
                                            comments : SUBSET Comment]]
             /\ \A g \in Submitter : submits'[g].at # "idle" => submits'[g].on # 0
             /\ \A r \in ScanId \ {s} : SubmitsOn(r)' => SubmitsOn(r)
  BY <1>1, <1>2 DEF LeadTyped, WorkerPlace, SubmitsOn
<1>3. ASSUME submits' = [submits EXCEPT ![h] = NoSubmit]
      PROVE  /\ submits' \in [Submitter -> [at : {"idle", "items", "recount"}, on : ScanId \union {0},
                                            comments : SUBSET Comment]]
             /\ \A g \in Submitter : submits'[g].at # "idle" => submits'[g].on # 0
             /\ \A r \in ScanId : SubmitsOn(r)' => SubmitsOn(r)
  BY <1>1, <1>3 DEF LeadTyped, WorkerPlace, SubmitsOn, NoSubmit
<1>4. ASSUME NEW s \in ScanId, NEW C \in SUBSET Comment, SubmitScan(h, s, C) PROVE LeadInv'
  <2>1. /\ attempts' \in [ScanId -> Nat] /\ attempts'[s] = 0
        /\ raced' \in [ScanId -> BOOLEAN] /\ (worker.on = s => raced'[s])
        /\ \A r \in ScanId \ {s} : attempts'[r] = attempts[r] /\ raced'[r] = raced[r]
    BY <1>1, <1>4 DEF SubmitScan, LeadTyped
  <2> QED
    BY <1>2, <1>4, <2>1, LeadSaved DEF SubmitScan
<1>5. ASSUME NEW s \in ScanId, NEW C \in SUBSET Comment, SubmitTwin(h, s, C) PROVE LeadInv'
  <2>1. worker.on # s /\ attempts[s] = 0
    BY <1>1, <1>5 DEF SubmitTwin, WorkerPlace, LeadInv, AttemptsCounted
  <2>2. attempts' \in [ScanId -> Nat] /\ raced' \in [ScanId -> BOOLEAN]
    BY <1>1, <1>5 DEF SubmitTwin, LeadTyped
  <2> QED
    BY <1>2, <1>5, <2>1, <2>2, LeadSaved DEF SubmitTwin
<1>6. ASSUME SubmitItems(h) PROVE LeadInv'
  <2> DEFINE s == submits[h].on
  <2>1. /\ s \in ScanId
        /\ submits' \in [Submitter -> [at : {"idle", "items", "recount"}, on : ScanId \union {0},
                                       comments : SUBSET Comment]]
        /\ \A g \in Submitter : submits'[g].on = submits[g].on
        /\ \A g \in Submitter : submits'[g].at # "idle" => submits'[g].on # 0
    BY <1>1, <1>6 DEF SubmitItems, LeadTyped, WorkerPlace
  <2>2. owner' \in [Comment -> ScanId \union {0}]
    BY <1>1, <1>6, <2>1 DEF SubmitItems, LeadTyped
  <2>3. SubmitsOn(s)
    BY DEF SubmitsOn
  <2>4. ASSUME NEW r \in ScanId
        PROVE  ItemsOf(r) \subseteq ItemsOf(r)' /\ (~SubmitsOn(r) => ItemsOf(r)' = ItemsOf(r))
    <3>1. \A c \in Comment : owner[c] = r => owner'[c] = r
      BY <1>1, <1>6 DEF SubmitItems
    <3>2. \A c \in Comment : owner'[c] = r /\ r # s => owner[c] = r
      BY <1>6 DEF SubmitItems
    <3> QED
      BY <2>3, <3>1, <3>2 DEF ItemsOf
  <2> QED
    BY <1>6, <2>1, <2>2, <2>4, SubmissionMoves DEF SubmitItems, SubmitsOn
<1>7. ASSUME SubmitRejected(h) PROVE LeadInv'
  BY <1>1, <1>3, <1>7, SubmissionMoves DEF SubmitRejected, ItemsOf, LeadTyped
<1>8. ASSUME SubmitCounts(h) PROVE LeadInv'
  <2> DEFINE s == submits[h].on
  <2>1. s \in ScanId /\ SubmitsOn(s)
    BY <1>1, <1>8 DEF SubmitCounts, LeadTyped, WorkerPlace, SubmitsOn
  <2>2. worker.at \in {"picked", "marked"} /\ worker.on = s => raced[s]
    BY <2>1 DEF LeadInv, ItemsCurrent
  <2>3. /\ attempts' \in [ScanId -> Nat] /\ attempts'[s] = 0
        /\ \A r \in ScanId \ {s} : attempts'[r] = attempts[r]
    BY <1>1, <1>8, <2>1 DEF SubmitCounts, LeadTyped
  <2> HIDE DEF s
  <2> QED
    BY <1>1, <1>3, <1>8, <2>1, <2>2, <2>3, LeadSaved DEF SubmitCounts, LeadTyped, s
<1> QED
  BY <1>4, <1>5, <1>6, <1>7, <1>8

\* The worker takes a row.
LEMMA RecoverKeeps ==
  ASSUME LeadInv, NEW s \in ScanId, RecoverStale(s)
  PROVE  LeadInv'
<1> USE DEF LeadInv
<1>1. /\ worker.at = "idle" /\ worker.on = 0 /\ s # 0 /\ scan[s].status = "PROCESSING"
      /\ worker' = [at |-> "count", on |-> s, items |-> {}, retry |-> scan[s].retry, todo |-> {}]
      /\ raced' \in [ScanId -> BOOLEAN] /\ \A r \in ScanId : raced[r] => raced'[r]
      /\ UNCHANGED <<scan, owner, demands, submits, attempts, gap>>
  BY LeadConstants DEF RecoverStale, LeadTyped, WorkerPlace, Idle
<1>2. LeadTyped'
  BY <1>1 DEF LeadTyped, ScanRow
<1>3. WorkerPlace' /\ AttemptsCounted'
  BY <1>1 DEF WorkerPlace, AttemptsCounted, LeadTyped
<1>4. ItemsCurrent'
  BY <1>1 DEF ItemsCurrent, ItemsOf, SubmitsOn
<1>5. DemandsOwned'
  BY <1>1 DEF DemandsOwned, ItemsOf
<1>6. DemandsCurrent'
  BY <1>1, LeadConstants DEF DemandsCurrent, Copied
<1> QED
  BY <1>2, <1>3, <1>4, <1>5, <1>6

\* Picking a row, whose attempts and items the worker then holds
LEMMA PickKeeps ==
  ASSUME LeadInv, NEW s \in ScanId, PickScan(s)
  PROVE  LeadInv'
<1> USE DEF LeadInv
<1>1. /\ worker.at = "idle" /\ worker.on = 0 /\ s # 0 /\ scan[s].status = "PENDING"
      /\ worker' = [at |-> "picked", on |-> s, items |-> ItemsOf(s), retry |-> 0, todo |-> {}]
      /\ raced' \in [ScanId -> BOOLEAN] /\ raced'[s] = SubmitsOn(s)
      /\ \A r \in ScanId \ {s} : raced'[r] = raced[r]
      /\ UNCHANGED <<scan, owner, demands, submits, attempts, gap>>
  BY LeadConstants DEF PickScan, LeadTyped, WorkerPlace, Idle, Pending, ItemsOf, SubmitsOn
<1>2. LeadTyped'
  BY <1>1 DEF LeadTyped, ItemsOf
<1>3. WorkerPlace' /\ AttemptsCounted'
  BY <1>1 DEF WorkerPlace, AttemptsCounted
<1>4. ItemsCurrent'
  <2>1. \A r \in ScanId : ItemsOf(r)' = ItemsOf(r) /\ (SubmitsOn(r)' <=> SubmitsOn(r))
    BY <1>1 DEF ItemsOf, SubmitsOn
  <2>2. \A r : r = worker'.on => raced'[r] \/ (ItemsOf(r)' = worker'.items /\ ~SubmitsOn(r)')
    BY <1>1, <2>1
  <2>3. ASSUME NEW r \in ScanId, scan'[r].status = "COMPLETED"
        PROVE  raced'[r] \/ (ItemsOf(r)' = scan'[r].analysed /\ ~SubmitsOn(r)')
    BY <1>1, <2>1, <2>3 DEF ItemsCurrent
  <2> QED
    BY <2>2, <2>3 DEF ItemsCurrent
<1>5. DemandsOwned'
  BY <1>1 DEF DemandsOwned, ItemsOf
<1>6. DemandsCurrent'
  BY <1>1, LeadConstants DEF DemandsCurrent, Copied
<1> QED
  BY <1>2, <1>3, <1>4, <1>5, <1>6

\* It marks it, and is answered or not.
LEMMA MarkKeeps ==
  ASSUME LeadInv, MarkAsProcessing
  PROVE  LeadInv'
<1> USE DEF LeadInv
<1> DEFINE s == worker.on
<1>0. /\ worker.at = "picked" /\ s \in ScanId /\ scan[s].status = "PENDING"
      /\ scan' = [scan EXCEPT ![s].status = "PROCESSING"]
      /\ attempts' = [attempts EXCEPT ![s] = @ + 1]
      /\ worker' = [worker EXCEPT !.at = "marked"]
      /\ UNCHANGED <<owner, demands, submits, raced, gap>>
  BY DEF MarkAsProcessing, LeadTyped, WorkerPlace
<1> HIDE DEF s
<1>1. /\ scan' \in [ScanId -> ScanRow]
      /\ scan'[s].status = "PROCESSING" /\ scan'[s].retry = scan[s].retry
      /\ \A r \in ScanId \ {s} : scan'[r] = scan[r]
      /\ attempts' \in [ScanId -> Nat] /\ attempts'[s] = attempts[s] + 1
      /\ \A r \in ScanId \ {s} : attempts'[r] = attempts[r]
  <2> DEFINE row == [scan[s] EXCEPT !.status = "PROCESSING"]
  <2>1. scan[s] \in ScanRow
    BY <1>0 DEF LeadTyped
  <2>2. row \in ScanRow /\ row.status = "PROCESSING" /\ row.retry = scan[s].retry
    BY <2>1 DEF ScanRow
  <2>3. scan' = [scan EXCEPT ![s] = row]
    BY <1>0
  <2> HIDE DEF row
  <2>4. /\ scan' \in [ScanId -> ScanRow] /\ scan'[s] = row
        /\ \A r \in ScanId \ {s} : scan'[r] = scan[r]
    BY <1>0, <2>2, <2>3 DEF LeadTyped
  <2>5. /\ attempts' \in [ScanId -> Nat] /\ attempts'[s] = attempts[s] + 1
        /\ \A r \in ScanId \ {s} : attempts'[r] = attempts[r]
    BY <1>0 DEF LeadTyped
  <2> QED
    BY <2>2, <2>4, <2>5
<1> USE DEF s
<1>2. /\ worker'.at = "marked" /\ worker'.on = s /\ worker'.items = worker.items
      /\ worker'.todo = worker.todo
  BY <1>0, <1>1 DEF LeadTyped
<1>3. LeadTyped'
  BY <1>0, <1>1 DEF LeadTyped
<1>4. WorkerPlace'
  BY <1>0, <1>1, <1>2 DEF WorkerPlace
<1>5. AttemptsCounted'
  <2>1. /\ attempts[s] <= scan[s].retry /\ scan[s].retry <= 2
        /\ attempts[s] \in Nat /\ scan[s].retry \in Nat
    BY <1>0, <1>1 DEF AttemptsCounted, LeadTyped, ScanRow
  <2> QED
    BY <1>0, <1>1, <1>2, <2>1 DEF AttemptsCounted
<1>6. ItemsCurrent'
  <2>1. \A r : ItemsOf(r)' = ItemsOf(r) /\ (SubmitsOn(r)' <=> SubmitsOn(r))
    BY <1>0, <1>1 DEF ItemsOf, SubmitsOn
  <2>2. \A r \in ScanId : scan'[r].status = "COMPLETED" => scan'[r] = scan[r]
    BY <1>0, <1>1
  <2> QED
    BY <1>0, <1>1, <1>2, <2>1, <2>2 DEF ItemsCurrent
<1>7. DemandsOwned'
  BY <1>0, <1>1, <1>2 DEF DemandsOwned, ItemsOf
<1>8. DemandsCurrent'
  BY <1>0, <1>1, <1>2 DEF DemandsCurrent, Copied
<1> QED
  BY <1>3, <1>4, <1>5, <1>6, <1>7, <1>8

\* A failed answer, which is about to be counted
LEMMA FailKeeps ==
  ASSUME LeadInv, ClassifyFails
  PROVE  LeadInv'
<1> USE DEF LeadInv
<1>1. /\ worker.at = "marked" /\ worker.on \in ScanId
      /\ worker' = [worker EXCEPT !.at = "count", !.retry = scan[worker.on].retry]
      /\ UNCHANGED <<scan, owner, demands, submits, attempts, raced, gap>>
  BY DEF ClassifyFails, LeadTyped, WorkerPlace
<1>2. /\ worker'.at = "count" /\ worker'.on = worker.on /\ worker'.items = worker.items
      /\ worker'.todo = worker.todo /\ worker'.retry = scan[worker.on].retry
  BY <1>1 DEF LeadTyped
<1>3. LeadTyped'
  BY <1>1 DEF LeadTyped, ScanRow
<1>4. WorkerPlace'
  BY <1>1, <1>2 DEF WorkerPlace
<1>5. AttemptsCounted'
  <2>1. scan[worker.on].retry \in Nat /\ attempts[worker.on] \in Nat
    BY <1>1 DEF LeadTyped, ScanRow
  <2> QED
    BY <1>1, <1>2, <2>1 DEF AttemptsCounted, WorkerPlace
<1>6. ItemsCurrent'
  BY <1>1, <1>2 DEF ItemsCurrent, ItemsOf, SubmitsOn
<1>7. DemandsOwned'
  BY <1>1, <1>2 DEF DemandsOwned, ItemsOf
<1>8. DemandsCurrent'
  BY <1>1, <1>2 DEF DemandsCurrent, Copied
<1> QED
  BY <1>3, <1>4, <1>5, <1>6, <1>7, <1>8

\* The worker is done with its row, whose status and demands are in order.
LEMMA WorkerLeaves ==
  ASSUME LeadInv, worker' = Idle, UNCHANGED owner,
         submits' \in [Submitter -> [at : {"idle", "items", "recount"}, on : ScanId \union {0},
                                     comments : SUBSET Comment]],
         \A g \in Submitter : submits'[g].at # "idle" => submits'[g].on # 0,
         \A r \in ScanId : SubmitsOn(r)' => SubmitsOn(r),
         scan' \in [ScanId -> ScanRow], demands' \in [ScanId -> [Comment -> Nat]],
         gap' \in [ScanId -> BOOLEAN],
         \A r \in ScanId : r # worker.on =>
           scan'[r] = scan[r] /\ demands'[r] = demands[r] /\ gap'[r] = gap[r],
         \A r \in ScanId : r = worker.on =>
           /\ scan'[r].status = "PROCESSING" => scan'[r].retry <= 2 /\ attempts[r] <= scan'[r].retry + 1
           /\ scan'[r].status = "PENDING" => scan'[r].retry <= 2 /\ attempts[r] <= scan'[r].retry
           /\ scan'[r].status # "none"
           /\ scan'[r].status = "COMPLETED" =>
                /\ raced[r] \/ (ItemsOf(r) = scan'[r].analysed /\ ~SubmitsOn(r))
                /\ gap'[r] \/ Copied(r, scan[r].leads)'
           /\ \A c \in Comment : demands'[r][c] # 0 => owner[c] = r,
         UNCHANGED <<attempts, raced>>
  PROVE  LeadInv'
<1> USE DEF LeadInv
<1>1. worker' = [at |-> "idle", on |-> 0, items |-> {}, retry |-> 0, todo |-> {}]
  BY DEF Idle
<1>2. LeadTyped'
  BY <1>1 DEF LeadTyped
<1>3. WorkerPlace'
  BY <1>1 DEF WorkerPlace
<1>4. AttemptsCounted'
  BY <1>1 DEF AttemptsCounted
<1>5. ItemsCurrent'
  <2>1. \A r \in ScanId : ItemsOf(r)' = ItemsOf(r)
    BY DEF ItemsOf
  <2> QED
    BY <1>1, <2>1 DEF ItemsCurrent
<1>6. DemandsOwned'
  BY <1>1 DEF DemandsOwned
<1>7. DemandsCurrent'
  <2>1. ASSUME NEW r \in ScanId, scan'[r].status = "COMPLETED"
        PROVE  gap'[r] \/ Copied(r, scan[r].leads)'
    BY <2>1 DEF DemandsCurrent, Copied
  <2> QED
    BY <1>1, <2>1 DEF DemandsCurrent
<1> QED
  BY <1>2, <1>3, <1>4, <1>5, <1>6, <1>7

\* It saves the answer, or counts the failure.
LEMMA CompleteKeeps ==
  ASSUME LeadInv, NEW L \in SUBSET Comment, Complete(L)
  PROVE  LeadInv'
<1> USE DEF LeadInv
<1> DEFINE s == worker.on
           row == [scan[s] EXCEPT !.status = "COMPLETED", !.analysed = worker.items, !.leads = L]
<1>1. /\ worker.at = "marked" /\ s \in ScanId /\ L \subseteq worker.items
      /\ worker.items \subseteq Comment
      /\ UNCHANGED <<owner, demands, submits, attempts, raced, gap>>
  BY DEF Complete, LeadTyped, WorkerPlace
<1>2. /\ row \in ScanRow /\ row.status = "COMPLETED" /\ row.analysed = worker.items
      /\ row.leads = L /\ row.retry = scan[s].retry
  <2>1. scan[s] \in ScanRow
    BY <1>1 DEF LeadTyped
  <2> QED
    BY <1>1, <2>1 DEF ScanRow
<1>3. scan' = [scan EXCEPT ![s] = row]
  <2>1. scan[s] \in ScanRow
    BY <1>1 DEF LeadTyped
  <2> QED
    BY <1>1, <2>1 DEF Complete, LeadTyped, ScanRow
<1> HIDE DEF row
<1>4. /\ scan' \in [ScanId -> ScanRow] /\ scan'[s] = row
      /\ \A r \in ScanId \ {s} : scan'[r] = scan[r]
  BY <1>1, <1>2, <1>3 DEF LeadTyped
<1>5. raced[s] \/ (ItemsOf(s) = worker.items /\ ~SubmitsOn(s))
  BY <1>1 DEF ItemsCurrent
<1>6. CASE worker.items = {}
  <2>1. worker' = Idle
    BY <1>6 DEF Complete
  <2>2. \A c \in Comment : demands[s][c] = 0
    BY <1>1, <1>6 DEF DemandsOwned
  <2>3. Copied(s, L)
    BY <1>1, <1>6, <2>2 DEF Copied
  <2>4. \A r \in ScanId : r = s => Copied(r, scan[r].leads)'
    BY <1>1, <1>2, <1>4, <2>3 DEF Copied
  <2>5. \A r \in ScanId : SubmitsOn(r)' => SubmitsOn(r)
    BY <1>1 DEF SubmitsOn
  <2>6. \A c \in Comment : demands[s][c] # 0 => owner[c] = s
    BY <1>1 DEF DemandsOwned
  <2> QED
    BY <1>1, <1>2, <1>4, <1>5, <2>1, <2>4, <2>5, <2>6, WorkerLeaves DEF LeadTyped, WorkerPlace
<1>7. CASE worker.items # {}
  <2>1. /\ worker' = [worker EXCEPT !.at = "clear", !.todo = L]
    BY <1>7 DEF Complete
  <2>2. /\ worker'.at = "clear" /\ worker'.on = s /\ worker'.items = worker.items
        /\ worker'.todo = L
    BY <2>1 DEF LeadTyped
  <2>3. LeadTyped'
    BY <1>1, <1>4, <2>1 DEF LeadTyped
  <2>4. WorkerPlace'
    BY <1>1, <1>2, <1>4, <2>2 DEF WorkerPlace
  <2>5. AttemptsCounted'
    BY <1>1, <1>2, <1>4, <2>2 DEF AttemptsCounted
  <2>6. ItemsCurrent'
    <3>1. \A r : ItemsOf(r)' = ItemsOf(r) /\ (SubmitsOn(r)' <=> SubmitsOn(r))
      BY <1>1 DEF ItemsOf, SubmitsOn
    <3> QED
      BY <1>1, <1>2, <1>4, <1>5, <2>2, <3>1 DEF ItemsCurrent
  <2>7. DemandsOwned'
    BY <1>1, <2>2 DEF DemandsOwned, ItemsOf
  <2>8. DemandsCurrent'
    BY <1>1, <1>2, <1>4, <2>2 DEF DemandsCurrent, Copied
  <2> QED
    BY <2>3, <2>4, <2>5, <2>6, <2>7, <2>8
<1> QED
  BY <1>6, <1>7

\* Counting an attempt, for the last of which the row has failed
LEMMA CountKeeps ==
  ASSUME LeadInv, CountAttempt
  PROVE  LeadInv'
<1> DEFINE s == worker.on
<1>1. /\ worker.at = "count" /\ s \in ScanId /\ worker.retry \in Nat /\ worker.retry <= 2
      /\ attempts[s] \in Nat /\ attempts[s] <= worker.retry + 1
      /\ scan' = [scan EXCEPT ![s] = Counted(@, worker.retry)] /\ worker' = Idle
      /\ UNCHANGED <<owner, demands, submits, attempts, raced, gap>>
  BY DEF CountAttempt, LeadInv, LeadTyped, WorkerPlace, AttemptsCounted
<1>2. /\ Counted(scan[s], worker.retry) \in ScanRow
      /\ Counted(scan[s], worker.retry).retry = worker.retry + 1
      /\ Counted(scan[s], worker.retry).status \in {"FAILED", "PENDING"}
      /\ Counted(scan[s], worker.retry).status = "PENDING" => worker.retry + 1 <= 2
  <2>1. scan[s] \in ScanRow
    BY <1>1 DEF LeadInv, LeadTyped
  <2>2. PICK m \in Nat : m = worker.retry + 1
    BY <1>1
  <2>3. ASSUME NEW status \in {"FAILED", "PENDING"},
               Counted(scan[s], worker.retry) = [scan[s] EXCEPT !.retry = m, !.status = status]
        PROVE  /\ Counted(scan[s], worker.retry) \in ScanRow
               /\ Counted(scan[s], worker.retry).retry = m
               /\ Counted(scan[s], worker.retry).status = status
    BY <2>1, <2>3 DEF ScanRow
  <2>4. CASE m >= 3
    <3>1. Counted(scan[s], worker.retry) = [scan[s] EXCEPT !.retry = m, !.status = "FAILED"]
      BY <2>2, <2>4 DEF Counted
    <3> QED
      BY <2>2, <2>3, <3>1
  <2>5. CASE ~(m >= 3)
    <3>1. Counted(scan[s], worker.retry) = [scan[s] EXCEPT !.retry = m, !.status = "PENDING"]
      BY <2>2, <2>5 DEF Counted
    <3> QED
      BY <2>2, <2>3, <2>5, <3>1
  <2> QED
    BY <2>4, <2>5
<1>3. /\ scan' \in [ScanId -> ScanRow] /\ scan'[s] = Counted(scan[s], worker.retry)
      /\ \A r \in ScanId \ {s} : scan'[r] = scan[r]
  BY <1>1, <1>2 DEF LeadInv, LeadTyped
<1>4. \A r \in ScanId : SubmitsOn(r)' => SubmitsOn(r)
  BY <1>1 DEF SubmitsOn
<1>5. \A c \in Comment : demands[s][c] # 0 => owner[c] = s
  BY <1>1 DEF LeadInv, DemandsOwned
<1> QED
  BY <1>1, <1>2, <1>3, <1>4, <1>5, WorkerLeaves DEF LeadInv, LeadTyped, WorkerPlace

\* It deletes the old demands and makes one for each lead.
LEMMA ClearKeeps ==
  ASSUME LeadInv, NEW fails \in BOOLEAN, ClearDemands(fails)
  PROVE  LeadInv'
<1> DEFINE s == worker.on
<1>1. /\ worker.at = "clear" /\ s \in ScanId
      /\ gap' = [gap EXCEPT ![s] = fails]
      /\ UNCHANGED <<scan, owner, submits, attempts, raced>>
  BY DEF ClearDemands, LeadInv, LeadTyped, WorkerPlace
<1>2. /\ demands' \in [ScanId -> [Comment -> Nat]]
      /\ \A r \in ScanId \ {s} : demands'[r] = demands[r] /\ gap'[r] = gap[r]
      /\ \A c \in Comment : demands'[s][c] # 0 => owner[c] = s
      /\ gap' \in [ScanId -> BOOLEAN] /\ (gap'[s] \/ \A c \in Comment : demands'[s][c] = 0)
  <2>1. CASE fails
    BY <1>1, <2>1 DEF ClearDemands, LeadInv, LeadTyped, DemandsOwned
  <2>2. CASE ~fails
    BY <1>1, <2>2 DEF ClearDemands, Cleared, NoDemands, LeadInv, LeadTyped
  <2> QED
    BY <2>1, <2>2
<1>3. CASE worker.todo = {}
  <2>1. worker' = Idle
    BY <1>3 DEF ClearDemands
  <2>2. \A r \in ScanId : SubmitsOn(r)' => SubmitsOn(r)
    BY <1>1 DEF SubmitsOn
  <2>3. ASSUME NEW r \in ScanId, r = s, scan[r].status = "COMPLETED"
        PROVE  gap'[r] \/ Copied(r, scan[r].leads)'
    BY <1>1, <1>2, <1>3, <2>3 DEF Copied, LeadInv, DemandsCurrent
  <2>4. ASSUME NEW r \in ScanId, r = s
        PROVE  /\ scan[r].status = "PROCESSING" => scan[r].retry <= 2 /\ attempts[r] <= scan[r].retry + 1
               /\ scan[r].status = "PENDING" => scan[r].retry <= 2 /\ attempts[r] <= scan[r].retry
               /\ scan[r].status # "none"
               /\ scan[r].status = "COMPLETED" =>
                    raced[r] \/ (ItemsOf(r) = scan[r].analysed /\ ~SubmitsOn(r))
    BY <1>1, <2>4, LeadConstants DEF LeadInv, AttemptsCounted, WorkerPlace, ItemsCurrent
  <2> QED
    BY <1>1, <1>2, <2>1, <2>2, <2>3, <2>4, WorkerLeaves DEF LeadInv, LeadTyped, WorkerPlace
<1>4. CASE worker.todo # {}
  <2>1. worker' = [worker EXCEPT !.at = "sync"]
    BY <1>4 DEF ClearDemands
  <2>2. /\ worker'.at = "sync" /\ worker'.on = s /\ worker'.items = worker.items
        /\ worker'.todo = worker.todo
    BY <2>1 DEF LeadInv, LeadTyped
  <2>3. LeadTyped'
    BY <1>1, <1>2, <2>1 DEF LeadInv, LeadTyped
  <2>4. WorkerPlace' /\ AttemptsCounted'
    BY <1>1, <2>2 DEF LeadInv, WorkerPlace, AttemptsCounted
  <2>5. ItemsCurrent'
    BY <1>1, <2>2 DEF LeadInv, ItemsCurrent, ItemsOf, SubmitsOn
  <2>6. DemandsOwned'
    BY <1>1, <1>2, <2>2 DEF LeadInv, DemandsOwned, ItemsOf
  <2>7. DemandsCurrent'
    BY <1>1, <1>2, <2>2 DEF LeadInv, DemandsCurrent, Copied
  <2> QED
    BY <2>3, <2>4, <2>5, <2>6, <2>7 DEF LeadInv
<1> QED
  BY <1>3, <1>4

\* Copying a lead, or failing to
LEMMA SyncKeeps ==
  ASSUME LeadInv, NEW c \in Comment, NEW fails \in BOOLEAN, SyncLead(c, fails)
  PROVE  LeadInv'
<1> DEFINE s == worker.on
<1>1. /\ worker.at = "sync" /\ s \in ScanId /\ c \in worker.todo
      /\ gap' = [gap EXCEPT ![s] = @ \/ fails]
      /\ UNCHANGED <<scan, owner, submits, attempts, raced>>
  BY DEF SyncLead, LeadInv, LeadTyped, WorkerPlace
<1>2. owner[c] = s
  BY <1>1 DEF LeadInv, DemandsOwned, ItemsOf
<1>3. /\ demands' \in [ScanId -> [Comment -> Nat]]
      /\ \A r \in ScanId \ {s} : demands'[r] = demands[r] /\ gap'[r] = gap[r]
      /\ \A k \in Comment : demands'[s][k] # 0 => owner[k] = s
      /\ gap' \in [ScanId -> BOOLEAN] /\ (gap[s] => gap'[s])
      /\ gap'[s] \/ (/\ demands'[s][c] = demands[s][c] + 1
                     /\ \A k \in Comment \ {c} : demands'[s][k] = demands[s][k])
  <2>1. CASE fails
    BY <1>1, <2>1 DEF SyncLead, LeadInv, LeadTyped, DemandsOwned
  <2>2. CASE ~fails
    BY <1>1, <1>2, <2>2 DEF SyncLead, LeadInv, LeadTyped, DemandsOwned
  <2> QED
    BY <2>1, <2>2
<1>4. ASSUME scan[s].status = "COMPLETED"
      PROVE  gap'[s] \/ (/\ worker.todo \subseteq scan[s].leads
                         /\ \A k \in Comment : demands'[s][k] =
                              IF k \in scan[s].leads \ (worker.todo \ {c}) THEN 1 ELSE 0)
  BY <1>1, <1>3, <1>4 DEF LeadInv, DemandsCurrent, Copied
<1>5. CASE worker.todo = {c}
  <2>1. worker' = Idle
    BY <1>5 DEF SyncLead
  <2>2. \A r \in ScanId : SubmitsOn(r)' => SubmitsOn(r)
    BY <1>1 DEF SubmitsOn
  <2>3. ASSUME NEW r \in ScanId, r = s, scan[r].status = "COMPLETED"
        PROVE  gap'[r] \/ Copied(r, scan[r].leads)'
    BY <1>1, <1>4, <1>5, <2>3 DEF Copied
  <2>4. ASSUME NEW r \in ScanId, r = s
        PROVE  /\ scan[r].status = "PROCESSING" => scan[r].retry <= 2 /\ attempts[r] <= scan[r].retry + 1
               /\ scan[r].status = "PENDING" => scan[r].retry <= 2 /\ attempts[r] <= scan[r].retry
               /\ scan[r].status # "none"
               /\ scan[r].status = "COMPLETED" =>
                    raced[r] \/ (ItemsOf(r) = scan[r].analysed /\ ~SubmitsOn(r))
    BY <1>1, <2>4, LeadConstants DEF LeadInv, AttemptsCounted, WorkerPlace, ItemsCurrent
  <2> QED
    BY <1>1, <1>3, <2>1, <2>2, <2>3, <2>4, WorkerLeaves DEF LeadInv, LeadTyped, WorkerPlace
<1>6. CASE worker.todo # {c}
  <2>1. worker' = [worker EXCEPT !.todo = @ \ {c}]
    BY <1>6 DEF SyncLead
  <2>2. /\ worker'.at = "sync" /\ worker'.on = s /\ worker'.items = worker.items
        /\ worker'.todo = worker.todo \ {c}
    BY <1>1, <2>1 DEF LeadInv, LeadTyped
  <2>3. LeadTyped'
    BY <1>1, <1>3, <2>1 DEF LeadInv, LeadTyped
  <2>4. WorkerPlace' /\ AttemptsCounted'
    BY <1>1, <2>2 DEF LeadInv, WorkerPlace, AttemptsCounted
  <2>5. ItemsCurrent'
    BY <1>1, <2>2 DEF LeadInv, ItemsCurrent, ItemsOf, SubmitsOn
  <2>6. DemandsOwned'
    BY <1>1, <1>3, <2>2 DEF LeadInv, DemandsOwned, ItemsOf
  <2>7. DemandsCurrent'
    BY <1>1, <1>3, <1>4, <2>2 DEF LeadInv, DemandsCurrent, Copied
  <2> QED
    BY <2>3, <2>4, <2>5, <2>6, <2>7 DEF LeadInv
<1> QED
  BY <1>5, <1>6

\* A restart forgets the worker and the submissions.
LEMMA LeadCrashKeeps ==
  ASSUME LeadInv, LeadCrash
  PROVE  LeadInv'
<1> DEFINE s == worker.on
<1>1. /\ worker' = Idle /\ submits' = [h \in Submitter |-> NoSubmit]
      /\ gap' = [r \in ScanId |-> gap[r] \/ (s = r /\ worker.at \in {"clear", "sync"})]
      /\ UNCHANGED <<scan, owner, demands, attempts, raced>>
  BY DEF LeadCrash
<1>2. /\ submits' \in [Submitter -> [at : {"idle", "items", "recount"}, on : ScanId \union {0},
                                     comments : SUBSET Comment]]
      /\ \A g \in Submitter : submits'[g].at # "idle" => submits'[g].on # 0
      /\ \A r \in ScanId : SubmitsOn(r)' => SubmitsOn(r)
  BY <1>1, LeadConstants DEF NoSubmit, SubmitsOn
<1>3. gap' \in [ScanId -> BOOLEAN] /\ \A r \in ScanId : r # s => gap'[r] = gap[r]
  BY <1>1 DEF LeadInv, LeadTyped
<1>4. ASSUME NEW r \in ScanId, r = s, scan[r].status = "COMPLETED" PROVE gap'[r]
  <2>1. worker.at \in {"clear", "sync"}
    BY <1>4, LeadConstants DEF LeadInv, LeadTyped, WorkerPlace
  <2> QED
    BY <1>1, <1>4, <2>1
<1>5. ASSUME NEW r \in ScanId, r = s
      PROVE  /\ scan[r].status = "PROCESSING" => scan[r].retry <= 2 /\ attempts[r] <= scan[r].retry + 1
             /\ scan[r].status = "PENDING" => scan[r].retry <= 2 /\ attempts[r] <= scan[r].retry
             /\ scan[r].status # "none"
             /\ scan[r].status = "COMPLETED" =>
                  raced[r] \/ (ItemsOf(r) = scan[r].analysed /\ ~SubmitsOn(r))
             /\ \A c \in Comment : demands[r][c] # 0 => owner[c] = r
  BY <1>5, LeadConstants DEF LeadInv, AttemptsCounted, WorkerPlace, ItemsCurrent, DemandsOwned
<1> QED
  BY <1>1, <1>2, <1>3, <1>4, <1>5, WorkerLeaves DEF LeadInv, LeadTyped

\* The first state
LEMMA LeadStarts == LeadInit => LeadInv
<1> SUFFICES ASSUME LeadInit PROVE LeadInv
  OBVIOUS
<1> USE LeadConstants DEF LeadInit, NoScan, NoSubmit, Idle
<1>1. LeadTyped
  BY DEF LeadTyped, ScanRow
<1>2. WorkerPlace /\ AttemptsCounted
  BY DEF WorkerPlace, AttemptsCounted
<1>3. ItemsCurrent /\ DemandsOwned /\ DemandsCurrent
  BY DEF ItemsCurrent, DemandsOwned, DemandsCurrent
<1> QED
  BY <1>1, <1>2, <1>3 DEF LeadInv

\* Every step of the scans
LEMMA LeadKeeps == LeadInv /\ [LeadNext]_leadVars => LeadInv'
<1> SUFFICES ASSUME LeadInv, [LeadNext]_leadVars PROVE LeadInv'
  OBVIOUS
<1>1. CASE LeadNext
  BY <1>1, SubmissionsKeep, RecoverKeeps, PickKeeps, MarkKeeps, FailKeeps, CountKeeps,
     LeadCrashKeeps, CompleteKeeps, ClearKeeps, SyncKeeps DEF LeadNext
<1>2. CASE UNCHANGED leadVars
  BY <1>2 DEF leadVars, LeadInv, LeadTyped, WorkerPlace, AttemptsCounted, ItemsCurrent,
     DemandsOwned, DemandsCurrent, ItemsOf, SubmitsOn, Copied
<1> QED
  BY <1>1, <1>2

\* CompletedIsAnalysed: whatever fails, crashes, overlaps or is submitted again,
\* for any number of rows, comments and submissions, a completed scan has analysed
\* its comments and been copied once, unless the history variables say that a
\* submission overlapped or a copy failed; and nothing is asked a fourth time.
THEOREM CompletedAnalysed == LeadSpec => []CompletedIsAnalysed
<1>1. LeadInv => CompletedIsAnalysed
  BY DEF LeadInv, CompletedIsAnalysed, AttemptsCounted, ItemsCurrent, DemandsCurrent, ItemsOf,
     Copied
<1> QED
  BY <1>1, LeadStarts, LeadKeeps, PTL DEF LeadSpec

-----------------------------------------------------------------------------
(* The threads of comments                                                 *)

CommentRow == [parent : Nat, author : Author, text : Text]

CommentsTyped ==
  comments \in Seq(CommentRow) /\ \A i \in DOMAIN comments : comments[i].parent < i

All == DOMAIN comments

\* The comments of a scan are numbered.
LEMMA Numbered ==
  ASSUME CommentsTyped
  PROVE  /\ All = 1..Len(comments) /\ Len(comments) \in Nat
         /\ All \subseteq Nat /\ All \subseteq Int /\ IsFiniteSet(All)
         /\ \A i \in All : comments[i] \in CommentRow /\ comments[i].parent \in Nat
<1>1. All = 1..Len(comments) /\ Len(comments) \in Nat
  BY DEF CommentsTyped, All
<1>2. IsFiniteSet(All)
  BY <1>1, FS_Interval
<1>3. \A i \in All : comments[i] \in CommentRow
  BY <1>1 DEF CommentsTyped
<1> QED
  BY <1>1, <1>2, <1>3 DEF CommentRow

\* The answers to a comment are comments after it.
LEMMA AnswersLater ==
  ASSUME CommentsTyped, NEW j
  PROVE  /\ Answers(j) \subseteq All /\ IsFiniteSet(Answers(j)) /\ Answers(j) \subseteq Int
         /\ \A n \in Answers(j) : n > j /\ comments[n].parent = j
<1>1. Answers(j) \subseteq All
  BY DEF Answers, All
<1>2. \A n \in Answers(j) : n > j /\ comments[n].parent = j
  BY <1>1, Numbered DEF Answers, All, CommentsTyped
<1> QED
  BY <1>1, <1>2, Numbered, FS_Subset

\* One sequence after another
LEMMA Concatenation ==
  ASSUME NEW X, NEW s \in Seq(X), NEW t \in Seq(X)
  PROVE  /\ s \o t \in Seq(X) /\ ToSet(s \o t) = ToSet(s) \union ToSet(t)
         /\ ToSet(s) \subseteq X
         /\ IsInjective(s) /\ IsInjective(t) /\ ToSet(s) \intersect ToSet(t) = {} =>
              IsInjective(s \o t)
<1> DEFINE m == Len(s)
           n == Len(t)
           c == s \o t
<1>1. /\ m \in Nat /\ n \in Nat /\ c \in Seq(X)
      /\ DOMAIN s = 1..m /\ DOMAIN t = 1..n /\ DOMAIN c = 1..(m + n)
      /\ \A k \in 1..(m + n) : c[k] = IF k <= m THEN s[k] ELSE t[k - m]
  BY LenProperties, ConcatProperties
<1>2. \A k \in 1..(m + n) : k <= m \/ k - m \in 1..n
  BY <1>1
<1>3. \A k \in 1..m : k \in 1..(m + n) /\ c[k] = s[k]
  BY <1>1
<1>4. \A k \in 1..n : m + k \in 1..(m + n) /\ c[m + k] = t[k]
  <2> TAKE k \in 1..n
  <2> HIDE DEF m, n, c
  <2>1. m + k \in 1..(m + n) /\ ~(m + k <= m) /\ (m + k) - m = k
    BY <1>1
  <2> QED
    BY <1>1, <2>1
<1> HIDE DEF m, n, c
<1>5. ToSet(c) = ToSet(s) \union ToSet(t)
  <2>1. ASSUME NEW k \in 1..(m + n)
        PROVE  c[k] \in ToSet(s) \union ToSet(t)
    <3>1. CASE k <= m
      <4>1. k \in 1..m /\ c[k] = s[k]
        BY <1>1, <3>1
      <4> QED
        BY <1>1, <4>1 DEF ToSet
    <3>2. CASE ~(k <= m)
      <4>1. k - m \in 1..n /\ c[k] = t[k - m]
        BY <1>1, <1>2, <3>2
      <4> QED
        BY <1>1, <4>1 DEF ToSet
    <3> QED
      BY <3>1, <3>2
  <2>2. ToSet(s) \subseteq ToSet(c)
    BY <1>1, <1>3 DEF ToSet
  <2>3. ASSUME NEW k \in 1..n
        PROVE  t[k] \in ToSet(c)
    <3>1. m + k \in DOMAIN c /\ t[k] = c[m + k]
      BY <1>1, <1>4
    <3> QED
      BY <3>1 DEF ToSet
  <2>4. ToSet(c) = {c[k] : k \in 1..(m + n)} /\ ToSet(t) = {t[k] : k \in 1..n}
    BY <1>1 DEF ToSet
  <2> QED
    BY <2>1, <2>2, <2>3, <2>4
<1>6. ToSet(s) \subseteq X
  BY <1>1 DEF ToSet
<1>7. ASSUME IsInjective(s), IsInjective(t), ToSet(s) \intersect ToSet(t) = {}
      PROVE  IsInjective(c)
  <2> SUFFICES ASSUME NEW a \in DOMAIN c, NEW b \in DOMAIN c, c[a] = c[b]
               PROVE  a = b
    BY DEF IsInjective
  <2>1. a \in Nat /\ b \in Nat
    BY <1>1
  <2>2. CASE a <= m /\ b <= m
    <3>1. a \in 1..m /\ b \in 1..m
      BY <1>1, <2>2
    <3> QED
      BY <1>1, <1>3, <1>7, <3>1 DEF IsInjective
  <2>3. CASE ~(a <= m) /\ ~(b <= m)
    <3>1. a - m \in 1..n /\ b - m \in 1..n /\ t[a - m] = t[b - m]
      BY <1>1, <1>2, <2>3
    <3>2. a - m = b - m
      BY <1>1, <1>7, <3>1 DEF IsInjective
    <3> QED
      BY <1>1, <2>1, <3>2
  <2>4. CASE a <= m /\ ~(b <= m)
    <3>1. a \in 1..m /\ b - m \in 1..n /\ s[a] = t[b - m]
      BY <1>1, <1>2, <2>4
    <3> QED
      BY <1>1, <1>7, <3>1 DEF ToSet
  <2>5. CASE ~(a <= m) /\ b <= m
    <3>1. b \in 1..m /\ a - m \in 1..n /\ s[b] = t[a - m]
      BY <1>1, <1>2, <2>5
    <3> QED
      BY <1>1, <1>7, <3>1 DEF ToSet
  <2> QED
    BY <2>2, <2>3, <2>4, <2>5
<1> QED
  BY <1>1, <1>5, <1>6, <1>7 DEF c

\* A comment and the threads of its answers, step by step
Strings(A, i, threads, g) ==
  g = [s \in SUBSET A |-> IF s = {} THEN <<i>> ELSE g[s \ {Max(s)}] \o threads[Max(s)]]

\* The steps can be run.
LEMMA StrungRuns ==
  ASSUME NEW A, IsFiniteSet(A), A \subseteq Int, NEW i \in All,
         NEW threads \in [A -> Seq(All)]
  PROVE  \E g : Strings(A, i, threads, g) /\ Strung(i, threads) = g[A]
<1> DEFINE Y == Seq(All)
           step == [z \in Y \X A |-> z[1] \o threads[z[2]]]
<1>1. \A t \in Y, n \in A : t \o threads[n] \in Y
  BY Concatenation
<1>2. step \in [Y \X A -> Y]
  BY <1>1
<1>3. <<i>> \in Y
  OBVIOUS
<1>4. PICK g \in [SUBSET A -> Y] : Ascends(SUBSET A, <<i>>, step, g)
  <2> HIDE DEF Y, step
  <2> QED
    BY <1>2, <1>3, AscentExists
<1>5. ASSUME NEW s \in SUBSET A, s # {}
      PROVE  g[s] = g[s \ {Max(s)}] \o threads[Max(s)]
  <2>1. Max(s) \in A /\ s \ {Max(s)} \in SUBSET A
    BY <1>5, FS_Subset, WithoutGreatest
  <2>2. g[s \ {Max(s)}] \in Y
    BY <1>4, <2>1
  <2>3. g[s] = step[<<g[s \ {Max(s)}], Max(s)>>]
    BY <1>4, <1>5 DEF Ascends
  <2> QED
    BY <2>1, <2>2, <2>3
<1>6. Strings(A, i, threads, g)
  <2>1. g[{}] = <<i>>
    BY <1>4 DEF Ascends
  <2> HIDE DEF Y, step
  <2>2. g = [s \in SUBSET A |-> IF s = {} THEN <<i>> ELSE g[s \ {Max(s)}] \o threads[Max(s)]]
    BY <1>4, <1>5, <2>1
  <2> QED
    BY <2>2 DEF Strings
<1> DEFINE h == CHOOSE f : Strings(A, i, threads, f)
<1>7. Strings(A, i, threads, h)
  BY <1>6
<1>8. DOMAIN threads = A
  OBVIOUS
<1>9. Strung(i, threads) = h[A]
  BY <1>8 DEF Strung, InOrder, MapThenFoldSet, Strings
<1> QED
  BY <1>7, <1>9

\* It has the comment and those of the threads, once each if they share none.
LEMMA StrungHolds ==
  ASSUME NEW A, IsFiniteSet(A), A \subseteq Int, NEW i \in All,
         NEW threads \in [A -> Seq(All)]
  PROVE  /\ Strung(i, threads) \in Seq(All)
         /\ \A x : x \in ToSet(Strung(i, threads)) <=>
                   x = i \/ \E n \in A : x \in ToSet(threads[n])
         /\ (\A n \in A : /\ IsInjective(threads[n]) /\ i \notin ToSet(threads[n])
                          /\ \A m \in A : m # n =>
                               ToSet(threads[m]) \intersect ToSet(threads[n]) = {})
            => IsInjective(Strung(i, threads))
<1>1. PICK g : Strings(A, i, threads, g) /\ Strung(i, threads) = g[A]
  BY StrungRuns
<1> DEFINE Apart == \A n \in A : /\ IsInjective(threads[n]) /\ i \notin ToSet(threads[n])
                                 /\ \A m \in A : m # n =>
                                      ToSet(threads[m]) \intersect ToSet(threads[n]) = {}
           Holds(s, t) == /\ t \in Seq(All)
                          /\ \A x : x \in ToSet(t) <=>
                                    x = i \/ \E n \in s : x \in ToSet(threads[n])
                          /\ Apart => IsInjective(t)
           Good == {s \in SUBSET A : Holds(s, g[s])}
<1>2. {} \in Good
  <2>1. g[{}] = <<i>>
    BY <1>1 DEF Strings
  <2>2. <<i>> \in Seq(All) /\ DOMAIN <<i>> = {1} /\ <<i>>[1] = i
    OBVIOUS
  <2>3. ToSet(<<i>>) = {i} /\ IsInjective(<<i>>)
    BY <2>2 DEF ToSet, IsInjective
  <2>4. Holds({}, g[{}])
    BY <2>1, <2>2, <2>3
  <2> QED
    BY <2>4
<1>3. ASSUME NEW s \in SUBSET A, s # {}, s \ {Max(s)} \in Good
      PROVE  s \in Good
  <2> DEFINE m == Max(s)
             rest == s \ {m}
             t == g[rest]
  <2>1. m \in s /\ m \in A /\ rest \in SUBSET A /\ m \notin rest
    BY <1>3, FS_Subset, WithoutGreatest
  <2>2. g[s] = t \o threads[m]
    BY <1>1, <1>3 DEF Strings
  <2>3. Holds(rest, t)
    BY <1>3
  <2>4. threads[m] \in Seq(All)
    BY <2>1
  <2> DEFINE R(n) == ToSet(threads[n])
  <2>5. s = rest \union {m}
    BY <2>1
  <2> HIDE DEF m, rest, t, Apart
  <2>6. /\ g[s] \in Seq(All) /\ ToSet(g[s]) = ToSet(t) \union R(m)
        /\ IsInjective(t) /\ IsInjective(threads[m]) /\ ToSet(t) \intersect R(m) = {} =>
             IsInjective(g[s])
    BY <2>2, <2>3, <2>4, Concatenation
  <2>8. ASSUME Apart
        PROVE  IsInjective(g[s])
    <3>1. IsInjective(t) /\ IsInjective(threads[m])
      BY <2>1, <2>3, <2>8 DEF Apart
    <3>2. \A n \in rest : R(n) \intersect R(m) = {}
      BY <2>1, <2>8 DEF Apart
    <3>3. i \notin R(m)
      BY <2>1, <2>8 DEF Apart
    <3>4. ToSet(t) \intersect R(m) = {}
      BY <2>3, <3>2, <3>3
    <3> QED
      BY <2>6, <3>1, <3>4
  <2>7. \A x : x \in ToSet(g[s]) <=> x = i \/ \E n \in s : x \in ToSet(threads[n])
    BY <2>3, <2>5, <2>6
  <2> QED
    BY <2>6, <2>7, <2>8
<1>4. A \in Good
  <2> HIDE DEF Good
  <2> QED
    BY <1>2, <1>3, AscentInduction
<1> QED
  BY <1>1, <1>4

\* All threads at once
Threads(t) == t = [j \in DOMAIN comments |-> Strung(j, [n \in Answers(j) |-> t[n]])]

\* A thread is a comment with the threads of its answers.
LEMMA ThreadRuns ==
  ASSUME CommentsTyped
  PROVE  \A j \in All : /\ Thread(j) \in Seq(All)
                        /\ Thread(j) = Strung(j, [n \in Answers(j) |-> Thread(n)])
<1> DEFINE X == Seq(All)
           N == Len(comments)
           r == [j \in All |-> N - j]
           Step(j, f) == Strung(j, [n \in Answers(j) |-> f[n]])
           step == [z \in All \X [All -> X] |-> Step(z[1], z[2])]
<1>1. \A j \in All : Answers(j) \subseteq All /\ \A n \in Answers(j) : r[n] < r[j]
  BY AnswersLater, Numbered
<1>2. N \in Nat /\ r \in [All -> 0..N]
  BY Numbered
<1>3. ASSUME NEW j \in All, NEW f, \A n \in Answers(j) : f[n] \in X
      PROVE  Step(j, f) \in X
  <2>1. [n \in Answers(j) |-> f[n]] \in [Answers(j) -> Seq(All)]
    BY <1>3
  <2> QED
    BY <2>1, AnswersLater, StrungHolds
<1>4. \A j \in All, f \in [All -> X] : Step(j, f) \in X
  <2> HIDE DEF X, Step
  <2> QED
    BY <1>1, <1>3
<1>5. step \in [All \X [All -> X] -> X]
  <2> HIDE DEF X, Step
  <2> QED
    BY <1>4
<1>6. ASSUME NEW j \in All, NEW f \in [All -> X], NEW g \in [All -> X],
             \A k \in All : r[k] < r[j] => f[k] = g[k]
      PROVE  step[<<j, f>>] = step[<<j, g>>]
  <2>1. [n \in Answers(j) |-> f[n]] = [n \in Answers(j) |-> g[n]]
    <3> HIDE DEF X, r
    <3> QED
      BY <1>1, <1>6
  <2>2. Step(j, f) = Step(j, g)
    BY <2>1
  <2> HIDE DEF X, Step
  <2> QED
    BY <2>2
<1>7. PICK t : Computes(All, X, step, t)
  <2>1. X # {}
    <3>1. <<>> \in X
      OBVIOUS
    <3> QED
      BY <3>1
  <2>2. Local(All, X, r, step)
    <3> HIDE DEF X, step, r, N
    <3> QED
      BY <1>6 DEF Local
  <2> HIDE DEF X, step, r, N
  <2> QED
    BY <1>2, <1>5, <2>1, <2>2, Recursion
<1>8. Threads(t)
  <2>1. \A j \in All : t[j] = Step(j, t)
    <3> HIDE DEF X, Step
    <3> QED
      BY <1>7 DEF Computes
  <2>2. t = [j \in All |-> t[j]]
    <3> HIDE DEF X, step
    <3> QED
      BY <1>7 DEF Computes
  <2> QED
    BY <2>1, <2>2 DEF Threads, All
<1> DEFINE u == CHOOSE f : Threads(f)
<1>9. Threads(u)
  BY <1>8
<1>10. \A j \in All : Thread(j) = u[j]
  BY DEF Thread, Threads
<1>11. ASSUME NEW j \in All
       PROVE  Thread(j) = Step(j, u)
  <2> HIDE DEF u
  <2> QED
    BY <1>9, <1>10 DEF Threads, All
<1>12. ASSUME NEW j \in All
       PROVE  Thread(j) = Strung(j, [n \in Answers(j) |-> Thread(n)])
  <2>1. [n \in Answers(j) |-> Thread(n)] = [n \in Answers(j) |-> u[n]]
    <3> HIDE DEF u
    <3> QED
      BY <1>1, <1>10
  <2> QED
    BY <1>11, <2>1
<1> DEFINE Good == {j \in All : Thread(j) \in X}
<1>13. ASSUME NEW j \in 1..N, \A k \in 1..N : k > j => k \in Good
       PROVE  j \in Good
  <2>1. All = 1..N /\ j \in All
    BY Numbered
  <2>2. \A n \in Answers(j) : u[n] \in X
    <3> HIDE DEF X, u, N
    <3> QED
      BY <1>1, <1>10, <1>13, <2>1, AnswersLater
  <2>3. Step(j, u) \in X
    <3> HIDE DEF X, u, Step
    <3> QED
      BY <1>3, <2>1, <2>2
  <2> QED
    BY <1>11, <2>1, <2>3
<1>14. 1..N \subseteq Good
  <2> HIDE DEF Good, N
  <2> QED
    BY <1>2, <1>13, Downward
<1> QED
  BY <1>12, <1>14, Numbered

\* The comments of a thread
LEMMA ThreadParts ==
  ASSUME CommentsTyped, NEW j \in All
  PROVE  /\ Thread(j) \in Seq(All) /\ ToSet(Thread(j)) \subseteq All
         /\ \A x : x \in ToSet(Thread(j)) <=>
                     x = j \/ \E n \in Answers(j) : x \in ToSet(Thread(n))
         /\ (\A n \in Answers(j) : /\ IsInjective(Thread(n)) /\ j \notin ToSet(Thread(n))
                                   /\ \A m \in Answers(j) : m # n =>
                                        ToSet(Thread(m)) \intersect ToSet(Thread(n)) = {})
            => IsInjective(Thread(j))
<1> DEFINE threads == [n \in Answers(j) |-> Thread(n)]
<1>1. Thread(j) \in Seq(All) /\ Thread(j) = Strung(j, threads)
  BY ThreadRuns
<1>2. threads \in [Answers(j) -> Seq(All)]
  BY ThreadRuns, AnswersLater
<1>3. IsFiniteSet(Answers(j)) /\ Answers(j) \subseteq Int
  BY AnswersLater
<1>4. \A n \in Answers(j) : threads[n] = Thread(n)
  OBVIOUS
<1>5. ToSet(Thread(j)) \subseteq All
  BY <1>1 DEF ToSet
<1> HIDE DEF threads
<1>6. /\ \A x : x \in ToSet(Strung(j, threads)) <=>
                  x = j \/ \E n \in Answers(j) : x \in ToSet(threads[n])
      /\ (\A n \in Answers(j) : /\ IsInjective(threads[n]) /\ j \notin ToSet(threads[n])
                                /\ \A m \in Answers(j) : m # n =>
                                     ToSet(threads[m]) \intersect ToSet(threads[n]) = {})
         => IsInjective(Strung(j, threads))
  BY <1>2, <1>3, StrungHolds
<1> QED
  BY <1>1, <1>4, <1>5, <1>6

\* A thread goes on from its comment: its other comments answer comments in it,
LEMMA ThreadBelow ==
  ASSUME CommentsTyped
  PROVE  \A j \in All : \A x \in ToSet(Thread(j)) :
           x \in All /\ x >= j /\ (x = j \/ comments[x].parent \in ToSet(Thread(j)))
<1> DEFINE N == Len(comments)
           Below(j, x) == x \in All /\ x >= j /\ (x = j \/ comments[x].parent \in ToSet(Thread(j)))
           Good == {j \in All : \A x \in ToSet(Thread(j)) : Below(j, x)}
<1>1. All = 1..N /\ N \in Nat
  BY Numbered
<1>2. ASSUME NEW j \in 1..N, \A k \in 1..N : k > j => k \in Good
      PROVE  j \in Good
  <2> SUFFICES ASSUME NEW x \in ToSet(Thread(j)) PROVE Below(j, x)
    BY <1>1
  <2>1. j \in All /\ x \in All /\ j \in Int /\ x \in Int
    BY <1>1, ThreadParts
  <2>2. CASE x = j
    BY <2>1, <2>2
  <2>3. CASE x # j
    <3>1. PICK n \in Answers(j) : x \in ToSet(Thread(n))
      BY <2>1, <2>3, ThreadParts
    <3>2. n \in All /\ n > j /\ comments[n].parent = j /\ n \in Int
      BY <3>1, AnswersLater
    <3>3. Below(n, x)
      <4>1. n \in Good
        BY <1>1, <1>2, <3>2
      <4> QED
        BY <3>1, <4>1
    <3>4. \A y \in ToSet(Thread(n)) : y \in ToSet(Thread(j))
      BY <2>1, <3>1, ThreadParts
    <3>5. j \in ToSet(Thread(j))
      BY <2>1, ThreadParts
    <3>6. x >= j
      BY <2>1, <3>2, <3>3
    <3>7. comments[x].parent \in ToSet(Thread(j))
      BY <3>2, <3>3, <3>4, <3>5
    <3> QED
      BY <2>1, <3>6, <3>7
  <2> QED
    BY <2>2, <2>3
<1>3. 1..N \subseteq Good
  <2> HIDE DEF Good, N
  <2> QED
    BY <1>1, <1>2, Downward
<1> QED
  BY <1>1, <1>3

\* and all their answers are.
LEMMA ThreadClosed ==
  ASSUME CommentsTyped
  PROVE  \A j \in All : \A y \in All : comments[y].parent \in ToSet(Thread(j)) => y \in ToSet(Thread(j))
<1> DEFINE N == Len(comments)
           Good == {j \in All : \A y \in All :
                      comments[y].parent \in ToSet(Thread(j)) => y \in ToSet(Thread(j))}
<1>1. All = 1..N /\ N \in Nat
  BY Numbered
<1>2. ASSUME NEW j \in 1..N, \A k \in 1..N : k > j => k \in Good
      PROVE  j \in Good
  <2> SUFFICES ASSUME NEW y \in All, comments[y].parent \in ToSet(Thread(j))
               PROVE  y \in ToSet(Thread(j))
    BY <1>1
  <2> DEFINE x == comments[y].parent
  <2>1. j \in All
    BY <1>1
  <2>2. CASE x = j
    <3>1. y \in Answers(j)
      BY <2>2 DEF Answers, All
    <3>2. y \in ToSet(Thread(y))
      BY ThreadParts
    <3> QED
      BY <2>1, <3>1, <3>2, ThreadParts
  <2>3. CASE x # j
    <3>1. PICK n \in Answers(j) : x \in ToSet(Thread(n))
      BY <2>1, <2>3, ThreadParts
    <3>2. n \in All /\ n > j
      BY <3>1, AnswersLater
    <3>3. n \in Good
      BY <1>1, <1>2, <3>2
    <3>4. y \in ToSet(Thread(n))
      BY <3>1, <3>3
    <3> QED
      BY <2>1, <3>1, <3>4, ThreadParts
  <2> QED
    BY <2>2, <2>3
<1>3. 1..N \subseteq Good
  <2> HIDE DEF Good, N
  <2> QED
    BY <1>1, <1>2, Downward
<1> QED
  BY <1>1, <1>3

\* Threads of answers to the same comment, or to the post, share no comment.
LEMMA ThreadsApart ==
  ASSUME CommentsTyped, NEW n \in All, NEW m \in All, n # m,
         comments[n].parent = comments[m].parent
  PROVE  ToSet(Thread(n)) \intersect ToSet(Thread(m)) = {}
<1> DEFINE Shared == ToSet(Thread(n)) \intersect ToSet(Thread(m))
           p == comments[n].parent
<1> SUFFICES ASSUME Shared # {} PROVE FALSE
  OBVIOUS
<1>1. Shared \subseteq Nat
  BY ThreadParts, Numbered
<1>2. PICK x \in Shared : \A y \in Shared : x <= y
  BY <1>1, Least
<1>3. x \in All /\ x \in ToSet(Thread(n)) /\ x \in ToSet(Thread(m)) /\ x \in Nat
  BY <1>1, <1>2, ThreadParts
<1>4. p \in Nat /\ p < n /\ p < m /\ n \in Nat /\ m \in Nat
  BY Numbered DEF CommentsTyped, All
<1>5. ASSUME NEW k \in All, p < k
      PROVE  p \notin ToSet(Thread(k))
  <2>1. k \in Nat
    BY Numbered
  <2> SUFFICES ASSUME p \in ToSet(Thread(k)) PROVE FALSE
    OBVIOUS
  <2>2. p >= k
    BY ThreadBelow
  <2> QED
    BY <1>4, <1>5, <2>1, <2>2
<1>6. x # n /\ x # m
  BY <1>3, <1>4, <1>5, ThreadBelow
<1>7. comments[x].parent \in Shared
  BY <1>3, <1>6, ThreadBelow
<1>8. comments[x].parent \in Nat /\ comments[x].parent < x
  BY <1>3, Numbered DEF CommentsTyped, All
<1> QED
  BY <1>2, <1>3, <1>7, <1>8

\* No comment is twice in a thread.
LEMMA ThreadOnce ==
  ASSUME CommentsTyped
  PROVE  \A j \in All : IsInjective(Thread(j))
<1> DEFINE N == Len(comments)
           Good == {j \in All : IsInjective(Thread(j))}
<1>1. All = 1..N /\ N \in Nat
  BY Numbered
<1>2. ASSUME NEW j \in 1..N, \A k \in 1..N : k > j => k \in Good
      PROVE  j \in Good
  <2>1. j \in All /\ j \in Int
    BY <1>1
  <2>2. ASSUME NEW n \in Answers(j)
        PROVE  /\ IsInjective(Thread(n)) /\ j \notin ToSet(Thread(n))
               /\ \A m \in Answers(j) : m # n => ToSet(Thread(m)) \intersect ToSet(Thread(n)) = {}
    <3>1. n \in All /\ n > j /\ n \in Int /\ comments[n].parent = j
      BY AnswersLater
    <3>2. IsInjective(Thread(n))
      BY <1>1, <1>2, <3>1
    <3>3. ASSUME j \in ToSet(Thread(n))
          PROVE  FALSE
      <4>1. j >= n
        BY <3>1, <3>3, ThreadBelow
      <4> QED
        BY <2>1, <3>1, <4>1
    <3>4. ASSUME NEW m \in Answers(j), m # n
          PROVE  ToSet(Thread(m)) \intersect ToSet(Thread(n)) = {}
      <4>1. m \in All /\ comments[m].parent = j
        BY AnswersLater
      <4> QED
        BY <3>1, <3>4, <4>1, ThreadsApart
    <3> QED
      BY <3>2, <3>3, <3>4
  <2>3. IsInjective(Thread(j))
    BY <2>1, <2>2, ThreadParts
  <2> QED
    BY <2>1, <2>3
<1>3. 1..N \subseteq Good
  <2> HIDE DEF Good, N
  <2> QED
    BY <1>1, <1>2, Downward
<1> QED
  BY <1>1, <1>3

\* Every comment is in the thread of a comment of the post.
LEMMA ThreadsCover ==
  ASSUME CommentsTyped
  PROVE  \A x \in All : \E i \in Answers(0) : x \in ToSet(Thread(i))
<1> DEFINE Good == {x \in All : \E i \in Answers(0) : x \in ToSet(Thread(i))}
<1>1. ASSUME NEW x \in All, \A k \in All : k < x => k \in Good
      PROVE  x \in Good
  <2> DEFINE p == comments[x].parent
  <2>1. p \in Nat /\ p < x /\ x \in Nat
    BY Numbered DEF CommentsTyped, All
  <2>2. CASE p = 0
    <3>1. x \in Answers(0)
      BY <2>2 DEF Answers, All
    <3>2. x \in ToSet(Thread(x))
      BY ThreadParts
    <3> QED
      BY <3>1, <3>2
  <2>3. CASE p # 0
    <3>1. p \in All
      BY <2>1, <2>3, Numbered
    <3>2. PICK i \in Answers(0) : p \in ToSet(Thread(i))
      BY <1>1, <2>1, <3>1
    <3>3. i \in All
      BY AnswersLater
    <3>4. x \in ToSet(Thread(i))
      BY <3>2, <3>3, ThreadClosed
    <3> QED
      BY <3>4
  <2> QED
    BY <2>2, <2>3
<1>2. All \subseteq Nat
  BY Numbered
<1>3. All \subseteq Good
  <2> HIDE DEF Good
  <2> QED
    BY <1>1, <1>2, Upward
<1> QED
  BY <1>3

-----------------------------------------------------------------------------
(* The chunks the classifier is asked about                                *)

\* The comments of S, each in one chunk
Pieces(C, S) ==
  /\ C \in Seq(Seq(All)) /\ \A n \in DOMAIN C : IsInjective(C[n])
  /\ \A n \in DOMAIN C : \A m \in DOMAIN C : n # m => ToSet(C[n]) \intersect ToSet(C[m]) = {}
  /\ \A x : x \in S <=> \E n \in DOMAIN C : x \in ToSet(C[n])

\* A thread joins the last chunk or starts one.
LEMMA ThreadChunked ==
  ASSUME NEW C \in Seq(Seq(All)), NEW t \in Seq(All)
  PROVE  /\ Chunked(C, t) \in Seq(Seq(All))
         /\ \A S : Pieces(C, S) /\ IsInjective(t) /\ S \intersect ToSet(t) = {} =>
                     Pieces(Chunked(C, t), S \union ToSet(t))
<1> DEFINE L == Len(C)
           new == Chunked(C, t)
<1>1. L \in Nat /\ DOMAIN C = 1..L /\ \A n \in 1..L : C[n] \in Seq(All)
  OBVIOUS
<1>2. CASE C # <<>> /\ Len(Last(C)) + Len(t) <= MaxChunk
  <2> DEFINE joined == C[L] \o t
  <2>1. L \in 1..L
    BY <1>1, <1>2, EmptySeq
  <2>2. /\ joined \in Seq(All) /\ ToSet(joined) = ToSet(C[L]) \union ToSet(t)
        /\ IsInjective(C[L]) /\ IsInjective(t) /\ ToSet(C[L]) \intersect ToSet(t) = {} =>
             IsInjective(joined)
    BY <1>1, <2>1, Concatenation
  <2>3. new = [C EXCEPT ![L] = joined]
    BY <1>2 DEF Chunked
  <2>4. /\ new \in Seq(Seq(All)) /\ DOMAIN new = 1..L /\ new[L] = joined
        /\ \A n \in 1..L : n # L => new[n] = C[n]
    <3> HIDE DEF joined, new
    <3>1. new \in Seq(Seq(All)) /\ DOMAIN new = 1..L
      BY <1>1, <2>1, <2>2, <2>3
    <3> QED
      BY <1>1, <2>1, <2>3, <3>1
  <2>5. ASSUME NEW S, Pieces(C, S), IsInjective(t), S \intersect ToSet(t) = {}
        PROVE  Pieces(new, S \union ToSet(t))
    <3>1. /\ \A n \in 1..L : IsInjective(C[n])
          /\ \A n \in 1..L : \A m \in 1..L : n # m => ToSet(C[n]) \intersect ToSet(C[m]) = {}
          /\ \A x : x \in S <=> \E n \in 1..L : x \in ToSet(C[n])
      BY <1>1, <2>5 DEF Pieces
    <3>2. \A n \in 1..L : ToSet(C[n]) \intersect ToSet(t) = {}
      BY <2>5, <3>1
    <3> HIDE DEF joined, new, L
    <3>3. \A n \in 1..L : IsInjective(new[n])
      BY <2>1, <2>2, <2>4, <2>5, <3>1, <3>2
    <3>4. ASSUME NEW n \in 1..L, NEW m \in 1..L, n # m
          PROVE  ToSet(new[n]) \intersect ToSet(new[m]) = {}
      <4>1. CASE n = L
        BY <2>2, <2>4, <3>1, <3>2, <3>4, <4>1
      <4>2. CASE m = L
        BY <2>2, <2>4, <3>1, <3>2, <3>4, <4>2
      <4>3. CASE n # L /\ m # L
        BY <2>4, <3>1, <3>4, <4>3
      <4> QED
        BY <4>1, <4>2, <4>3
    <3>5. ASSUME NEW x
          PROVE  x \in S \union ToSet(t) <=> \E n \in 1..L : x \in ToSet(new[n])
      <4>1. \A n \in 1..L : x \in ToSet(new[n]) <=> x \in ToSet(C[n]) \/ (n = L /\ x \in ToSet(t))
        BY <2>2, <2>4
      <4> QED
        BY <2>1, <3>1, <4>1
    <3> QED
      BY <2>4, <3>3, <3>4, <3>5 DEF Pieces
  <2> QED
    BY <2>4, <2>5
<1>3. CASE ~(C # <<>> /\ Len(Last(C)) + Len(t) <= MaxChunk)
  <2>1. new = Append(C, t)
    BY <1>3 DEF Chunked
  <2>2. /\ new \in Seq(Seq(All)) /\ DOMAIN new = 1..(L + 1) /\ new[L + 1] = t
        /\ \A n \in 1..L : new[n] = C[n]
    BY <1>1, <2>1, AppendProperties
  <2>3. ASSUME NEW S, Pieces(C, S), IsInjective(t), S \intersect ToSet(t) = {}
        PROVE  Pieces(new, S \union ToSet(t))
    <3>1. /\ \A n \in 1..L : IsInjective(C[n])
          /\ \A n \in 1..L : \A m \in 1..L : n # m => ToSet(C[n]) \intersect ToSet(C[m]) = {}
          /\ \A x : x \in S <=> \E n \in 1..L : x \in ToSet(C[n])
      BY <1>1, <2>3 DEF Pieces
    <3>2. \A n \in 1..L : ToSet(C[n]) \intersect ToSet(t) = {}
      BY <2>3, <3>1
    <3> HIDE DEF new, L
    <3>3. L + 1 \in 1..(L + 1) /\ \A n \in 1..(L + 1) : n \in 1..L \/ n = L + 1
      BY <1>1
    <3>4. \A n \in 1..L : n \in 1..(L + 1)
      BY <1>1
    <3>5. \A n \in 1..(L + 1) : IsInjective(new[n])
      BY <2>2, <2>3, <3>1, <3>3
    <3>6. ASSUME NEW n \in 1..(L + 1), NEW m \in 1..(L + 1), n # m
          PROVE  ToSet(new[n]) \intersect ToSet(new[m]) = {}
      BY <2>2, <3>1, <3>2, <3>3, <3>6
    <3>7. ASSUME NEW x
          PROVE  x \in S \union ToSet(t) <=> \E n \in 1..(L + 1) : x \in ToSet(new[n])
      BY <2>2, <3>1, <3>3, <3>4
    <3> QED
      BY <2>2, <3>5, <3>6, <3>7 DEF Pieces
  <2> QED
    BY <2>2, <2>3
<1> QED
  BY <1>2, <1>3

\* The chunks, thread by thread
ChunksRun(A, g) ==
  g = [s \in SUBSET A |-> IF s = {} THEN <<>> ELSE Chunked(g[s \ {Max(s)}], Thread(Max(s)))]

\* The steps can be run.
LEMMA ChunksFound ==
  ASSUME CommentsTyped
  PROVE  \E g : ChunksRun(Answers(0), g) /\ Chunks = g[Answers(0)]
<1> DEFINE A == Answers(0)
           Y == Seq(Seq(All))
           Step(C, n) == Chunked(C, Thread(n))
           step == [z \in Y \X A |-> Step(z[1], z[2])]
<1>1. /\ IsFiniteSet(A) /\ A \subseteq Int
      /\ \A n \in A : Thread(n) \in Seq(All)
  BY AnswersLater, ThreadRuns
<1>2. step \in [Y \X A -> Y]
  <2>1. \A C \in Y, n \in A : Step(C, n) \in Y
    BY <1>1, ThreadChunked
  <2> HIDE DEF Y, A, Step
  <2> QED
    BY <2>1
<1>3. <<>> \in Y
  OBVIOUS
<1>4. PICK g \in [SUBSET A -> Y] : Ascends(SUBSET A, <<>>, step, g)
  <2> HIDE DEF Y, step, A
  <2> QED
    BY <1>1, <1>2, <1>3, AscentExists
<1>5. ASSUME NEW s \in SUBSET A, s # {}
      PROVE  g[s] = Step(g[s \ {Max(s)}], Max(s))
  <2> HIDE DEF Y, Step, A
  <2>1. Max(s) \in A /\ s \ {Max(s)} \in SUBSET A
    BY <1>1, <1>5, FS_Subset, WithoutGreatest
  <2>2. g[s \ {Max(s)}] \in Y
    BY <1>4, <2>1
  <2>3. g[s] = step[<<g[s \ {Max(s)}], Max(s)>>]
    BY <1>4, <1>5 DEF Ascends
  <2> QED
    BY <2>1, <2>2, <2>3
<1>6. ChunksRun(A, g)
  <2>1. g[{}] = <<>>
    BY <1>4 DEF Ascends
  <2> HIDE DEF Y, step
  <2>2. g = [s \in SUBSET A |->
               IF s = {} THEN <<>> ELSE Chunked(g[s \ {Max(s)}], Thread(Max(s)))]
    BY <1>4, <1>5, <2>1
  <2> QED
    BY <2>2 DEF ChunksRun
<1> DEFINE h == CHOOSE f : ChunksRun(A, f)
<1>7. ChunksRun(A, h)
  BY <1>6
<1>8. Chunks = h[A]
  BY DEF Chunks, InOrder, MapThenFoldSet, ChunksRun
<1> QED
  BY <1>7, <1>8

\* Every comment is in one chunk, once.
LEMMA ChunksArePieces ==
  ASSUME CommentsTyped
  PROVE  Pieces(Chunks, All)
<1> DEFINE A == Answers(0)
           Reached(s) == {x \in All : \E i \in s : x \in ToSet(Thread(i))}
<1>1. PICK g : ChunksRun(A, g) /\ Chunks = g[A]
  BY ChunksFound
<1> DEFINE Good == {s \in SUBSET A : Pieces(g[s], Reached(s))}
<1>2. {} \in Good
  <2>1. g[{}] = <<>>
    BY <1>1 DEF ChunksRun
  <2>2. <<>> \in Seq(Seq(All)) /\ DOMAIN <<>> = {}
    OBVIOUS
  <2>3. Pieces(<<>>, Reached({}))
    BY <2>2 DEF Pieces
  <2> QED
    BY <2>1, <2>3
<1>3. ASSUME NEW s \in SUBSET A, s # {}, s \ {Max(s)} \in Good
      PROVE  s \in Good
  <2> DEFINE m == Max(s)
             rest == s \ {m}
             t == Thread(m)
  <2>1. IsFiniteSet(A) /\ A \subseteq All /\ A \subseteq Int
    BY AnswersLater
  <2>2. m \in s /\ m \in A /\ rest \in SUBSET A /\ s = rest \union {m} /\ m \notin rest
    <3>1. IsFiniteSet(s) /\ s \subseteq Int
      BY <2>1, FS_Subset
    <3>2. Max(s) \in s
      BY <1>3, <3>1, WithoutGreatest
    <3> QED
      BY <3>2
  <2>3. t \in Seq(All) /\ IsInjective(t) /\ ToSet(t) \subseteq All
    BY <2>1, <2>2, ThreadParts, ThreadOnce
  <2>4. \A n \in rest : ToSet(Thread(n)) \intersect ToSet(t) = {}
    <3> TAKE n \in rest
    <3>1. n \in All /\ m \in All /\ n # m /\ n \in Answers(0) /\ m \in Answers(0)
      BY <2>1, <2>2
    <3>2. comments[n].parent = comments[m].parent
      BY <3>1 DEF Answers
    <3> HIDE DEF m
    <3> QED
      BY <3>1, <3>2, ThreadsApart
  <2>5. g[s] = Chunked(g[rest], t)
    BY <1>1, <1>3 DEF ChunksRun
  <2>6. Pieces(g[rest], Reached(rest))
    BY <1>3
  <2> HIDE DEF m, rest, t
  <2>7. Reached(rest) \intersect ToSet(t) = {}
    BY <2>4
  <2>8. Reached(s) = Reached(rest) \union ToSet(t)
    BY <2>2, <2>3 DEF t
  <2>9. g[rest] \in Seq(Seq(All))
    BY <2>6 DEF Pieces
  <2> HIDE DEF Reached
  <2>10. Pieces(g[s], Reached(s))
    BY <2>3, <2>5, <2>6, <2>7, <2>8, <2>9, ThreadChunked
  <2> QED
    BY <2>10
<1>4. A \in Good
  <2>1. IsFiniteSet(A) /\ A \subseteq Int
    BY AnswersLater
  <2> HIDE DEF Good, A
  <2> QED
    BY <1>2, <1>3, <2>1, AscentInduction
<1>5. Reached(A) = All
  BY ThreadsCover
<1> QED
  BY <1>1, <1>4, <1>5

-----------------------------------------------------------------------------
(* The profiles                                                            *)

Classes ==
  {"POTENTIAL_PARENT", "RECOMMENDATION", "TEACHER_AD", "COMPETITOR_SALE", "NEUTRAL", "SPAM"}
Levels == {"HOT", "WARM", "COLD", "NONE"}

Profile == [class : Classes, score : Int, level : Levels, evidence : Seq(All)]
Profiles == UNION {[A -> Profile] : A \in SUBSET Author}

VerdictOf(i) == Verdict[comments[i].text]

\* q is the best that was said of the comments in C.
Best(q, C) ==
  /\ q \in Profile
  /\ \E i \in C : q.class = VerdictOf(i).class
  /\ \A i \in C : Rank(q.class) <= Rank(VerdictOf(i).class)
  /\ \E i \in C : q.score = VerdictOf(i).score
  /\ \A i \in C : q.score >= VerdictOf(i).score
  /\ \E i \in C : q.level = VerdictOf(i).level
  /\ \A i \in C : LevelRank(q.level) <= LevelRank(VerdictOf(i).level)
  /\ IsInjective(q.evidence) /\ ToSet(q.evidence) = C

AuthorsOf(S) == {comments[i].author : i \in S}
OfAuthor(S, a) == {i \in S : comments[i].author = a}

\* p has a profile of every author of a comment in S.
Tells(p, S) ==
  /\ p \in Profiles /\ DOMAIN p = AuthorsOf(S)
  /\ \A a \in DOMAIN p : Best(p[a], OfAuthor(S, a))

\* Ranks tell classifications and levels apart.
LEMMA Ranked ==
  /\ \A c \in Classes : Rank(c) \in Nat
  /\ \A c, d \in Classes : Rank(c) = Rank(d) => c = d
  /\ \A l \in Levels : LevelRank(l) \in Nat
  /\ \A l, k \in Levels : LevelRank(l) = LevelRank(k) => l = k
<1>1. /\ Rank("POTENTIAL_PARENT") = 1 /\ Rank("RECOMMENDATION") = 2 /\ Rank("TEACHER_AD") = 3
      /\ Rank("COMPETITOR_SALE") = 4 /\ Rank("NEUTRAL") = 5 /\ Rank("SPAM") = 6
  BY DEF Rank
<1>2. /\ LevelRank("HOT") = 1 /\ LevelRank("WARM") = 2 /\ LevelRank("COLD") = 3
      /\ LevelRank("NONE") = 4
  BY DEF LevelRank
<1> QED
  BY <1>1, <1>2 DEF Classes, Levels

\* What the classifier says of a comment
LEMMA VerdictTyped ==
  ASSUME CommentsTyped, NEW i \in All
  PROVE  /\ comments[i].author \in Author
         /\ VerdictOf(i).class \in Classes /\ VerdictOf(i).score \in Int
         /\ VerdictOf(i).level \in Levels
<1>1. comments[i].text \in Text /\ comments[i].author \in Author
  BY Numbered DEF CommentRow
<1>2. VerdictOf(i) \in VerdictRow
  BY <1>1, ProfileConstants DEF VerdictOf
<1> QED
  BY <1>1, <1>2 DEF VerdictRow, Classes, Levels

\* A pair of numbers has the greater as its maximum.
LEMMA MaxOfTwo ==
  ASSUME NEW a \in Int, NEW b \in Int
  PROVE  /\ Max({a, b}) \in Int /\ Max({a, b}) >= a /\ Max({a, b}) >= b
         /\ Max({a, b}) = a \/ Max({a, b}) = b
<1>1. \E x \in {a, b} : \A y \in {a, b} : x >= y
  OBVIOUS
<1>2. Max({a, b}) \in {a, b} /\ \A y \in {a, b} : Max({a, b}) >= y
  BY <1>1 DEF Max
<1> QED
  BY <1>2

\* Two profiles joined are a profile,
LEMMA JoinedTyped ==
  ASSUME NEW p \in Profile, NEW q \in Profile
  PROVE  Joined(p, q) \in Profile
<1>1. /\ p.class \in Classes /\ p.score \in Int /\ p.level \in Levels /\ p.evidence \in Seq(All)
      /\ q.class \in Classes /\ q.score \in Int /\ q.level \in Levels /\ q.evidence \in Seq(All)
  BY DEF Profile
<1>2. p.evidence \o q.evidence \in Seq(All) /\ Max({p.score, q.score}) \in Int
  BY <1>1, Concatenation, MaxOfTwo
<1> QED
  BY <1>1, <1>2 DEF Joined, Profile

\* and the best that was said of the comments of both.
LEMMA JoinedBest ==
  ASSUME CommentsTyped, NEW C \in SUBSET All, NEW E \in SUBSET All, C \intersect E = {},
         NEW p, Best(p, C), NEW q, Best(q, E)
  PROVE  Best(Joined(p, q), C \union E)
<1> DEFINE j == Joined(p, q)
<1>1. p \in Profile /\ q \in Profile /\ j \in Profile
  BY JoinedTyped DEF Best
<1>2. /\ p.class \in Classes /\ p.score \in Int /\ p.level \in Levels /\ p.evidence \in Seq(All)
      /\ q.class \in Classes /\ q.score \in Int /\ q.level \in Levels /\ q.evidence \in Seq(All)
  BY <1>1 DEF Profile
<1>3. \A i \in C \union E : /\ VerdictOf(i).class \in Classes /\ VerdictOf(i).score \in Int
                            /\ VerdictOf(i).level \in Levels
  BY VerdictTyped
<1>4. /\ j.class = IF Rank(q.class) < Rank(p.class) THEN q.class ELSE p.class
      /\ j.score = Max({p.score, q.score})
      /\ j.level = IF LevelRank(q.level) < LevelRank(p.level) THEN q.level ELSE p.level
      /\ j.evidence = p.evidence \o q.evidence
  BY DEF Joined
<1> HIDE DEF j
<1>5. /\ \E i \in C \union E : j.class = VerdictOf(i).class
      /\ \A i \in C \union E : Rank(j.class) <= Rank(VerdictOf(i).class)
  <2>1. /\ \E i \in C : p.class = VerdictOf(i).class
        /\ \E i \in E : q.class = VerdictOf(i).class
        /\ \A i \in C : Rank(p.class) <= Rank(VerdictOf(i).class)
        /\ \A i \in E : Rank(q.class) <= Rank(VerdictOf(i).class)
    BY DEF Best
  <2>2. /\ Rank(p.class) \in Nat /\ Rank(q.class) \in Nat
        /\ \A i \in C \union E : Rank(VerdictOf(i).class) \in Nat
    BY <1>2, <1>3, Ranked
  <2>3. /\ j.class = p.class \/ j.class = q.class
        /\ Rank(j.class) <= Rank(p.class) /\ Rank(j.class) <= Rank(q.class)
        /\ Rank(j.class) \in Nat
    BY <1>4, <2>2
  <2> QED
    BY <2>1, <2>2, <2>3
<1>6. /\ \E i \in C \union E : j.level = VerdictOf(i).level
      /\ \A i \in C \union E : LevelRank(j.level) <= LevelRank(VerdictOf(i).level)
  <2>1. /\ \E i \in C : p.level = VerdictOf(i).level
        /\ \E i \in E : q.level = VerdictOf(i).level
        /\ \A i \in C : LevelRank(p.level) <= LevelRank(VerdictOf(i).level)
        /\ \A i \in E : LevelRank(q.level) <= LevelRank(VerdictOf(i).level)
    BY DEF Best
  <2>2. /\ LevelRank(p.level) \in Nat /\ LevelRank(q.level) \in Nat
        /\ \A i \in C \union E : LevelRank(VerdictOf(i).level) \in Nat
    BY <1>2, <1>3, Ranked
  <2>3. /\ j.level = p.level \/ j.level = q.level
        /\ LevelRank(j.level) <= LevelRank(p.level) /\ LevelRank(j.level) <= LevelRank(q.level)
        /\ LevelRank(j.level) \in Nat
    BY <1>4, <2>2
  <2> QED
    BY <2>1, <2>2, <2>3
<1>7. /\ \E i \in C \union E : j.score = VerdictOf(i).score
      /\ \A i \in C \union E : j.score >= VerdictOf(i).score
  <2>1. /\ \E i \in C : p.score = VerdictOf(i).score
        /\ \E i \in E : q.score = VerdictOf(i).score
        /\ \A i \in C : p.score >= VerdictOf(i).score
        /\ \A i \in E : q.score >= VerdictOf(i).score
    BY DEF Best
  <2>2. /\ j.score = p.score \/ j.score = q.score
        /\ j.score >= p.score /\ j.score >= q.score /\ j.score \in Int
    BY <1>2, <1>4, MaxOfTwo
  <2> QED
    BY <1>2, <1>3, <2>1, <2>2
<1>8. IsInjective(j.evidence) /\ ToSet(j.evidence) = C \union E
  <2>1. /\ IsInjective(p.evidence) /\ ToSet(p.evidence) = C
        /\ IsInjective(q.evidence) /\ ToSet(q.evidence) = E
    BY DEF Best
  <2> QED
    BY <1>2, <1>4, <2>1, Concatenation
<1> QED
  BY <1>1, <1>5, <1>6, <1>7, <1>8 DEF Best, j

\* The profiles of some comments
LEMMA ProfilesTyped ==
  ASSUME NEW p \in Profiles
  PROVE  DOMAIN p \subseteq Author /\ \A a \in DOMAIN p : p[a] \in Profile
<1>1. PICK A \in SUBSET Author : p \in [A -> Profile]
  BY DEF Profiles
<1> QED
  BY <1>1

\* Joining keeps them profiles,
LEMMA JoiningTyped ==
  ASSUME NEW p \in Profiles, NEW q \in Profiles
  PROVE  /\ Joining(p, q) \in Profiles
         /\ DOMAIN Joining(p, q) = DOMAIN p \union DOMAIN q
<1> DEFINE j == Joining(p, q)
           A == DOMAIN p \union DOMAIN q
<1>1. /\ DOMAIN p \subseteq Author /\ \A a \in DOMAIN p : p[a] \in Profile
      /\ DOMAIN q \subseteq Author /\ \A a \in DOMAIN q : q[a] \in Profile
  BY ProfilesTyped
<1>2. \A a \in DOMAIN p \intersect DOMAIN q : Joined(p[a], q[a]) \in Profile
  BY <1>1, JoinedTyped
<1>3. j \in [A -> Profile]
  BY <1>1, <1>2 DEF Joining
<1> HIDE DEF j
<1>4. DOMAIN j = A
  BY <1>3
<1>5. A \in SUBSET Author
  BY <1>1
<1>6. j \in Profiles
  BY <1>3, <1>5 DEF Profiles
<1> QED
  BY <1>4, <1>6 DEF j

\* and those of different comments become those of all of them.
LEMMA JoiningTells ==
  ASSUME CommentsTyped, NEW S \in SUBSET All, NEW T \in SUBSET All, S \intersect T = {},
         NEW p, Tells(p, S), NEW q, Tells(q, T)
  PROVE  Tells(Joining(p, q), S \union T)
<1> DEFINE j == Joining(p, q)
<1>1. /\ p \in Profiles /\ DOMAIN p = AuthorsOf(S)
      /\ \A a \in DOMAIN p : Best(p[a], OfAuthor(S, a))
      /\ q \in Profiles /\ DOMAIN q = AuthorsOf(T)
      /\ \A a \in DOMAIN q : Best(q[a], OfAuthor(T, a))
  BY DEF Tells
<1>2. j \in Profiles /\ DOMAIN j = DOMAIN p \union DOMAIN q
  BY <1>1, JoiningTyped
<1>3. DOMAIN j = AuthorsOf(S \union T)
  <2>1. AuthorsOf(S \union T) = AuthorsOf(S) \union AuthorsOf(T)
    BY DEF AuthorsOf
  <2> QED
    BY <1>1, <1>2, <2>1
<1>4. ASSUME NEW a \in DOMAIN j
      PROVE  Best(j[a], OfAuthor(S \union T, a))
  <2>1. OfAuthor(S \union T, a) = OfAuthor(S, a) \union OfAuthor(T, a)
    BY DEF OfAuthor
  <2>2. j[a] = IF a \notin DOMAIN q THEN p[a]
               ELSE IF a \notin DOMAIN p THEN q[a] ELSE Joined(p[a], q[a])
    BY <1>2 DEF Joining
  <2>3. CASE a \notin DOMAIN q
    <3>1. OfAuthor(T, a) = {} /\ a \in DOMAIN p
      BY <1>1, <1>2, <2>3 DEF OfAuthor, AuthorsOf
    <3>2. OfAuthor(S \union T, a) = OfAuthor(S, a)
      BY <2>1, <3>1
    <3> QED
      BY <1>1, <2>2, <2>3, <3>1, <3>2
  <2>4. CASE a \notin DOMAIN p
    <3>1. OfAuthor(S, a) = {} /\ a \in DOMAIN q
      BY <1>1, <1>2, <2>4 DEF OfAuthor, AuthorsOf
    <3>2. OfAuthor(S \union T, a) = OfAuthor(T, a)
      BY <2>1, <3>1
    <3> QED
      BY <1>1, <2>2, <2>4, <3>1, <3>2
  <2>5. CASE a \in DOMAIN p /\ a \in DOMAIN q
    <3>1. /\ OfAuthor(S, a) \in SUBSET All /\ OfAuthor(T, a) \in SUBSET All
          /\ OfAuthor(S, a) \intersect OfAuthor(T, a) = {}
      BY DEF OfAuthor
    <3>2. Best(p[a], OfAuthor(S, a)) /\ Best(q[a], OfAuthor(T, a))
      BY <1>1, <2>5
    <3>3. Best(Joined(p[a], q[a]), OfAuthor(S, a) \union OfAuthor(T, a))
      BY <3>1, <3>2, JoinedBest
    <3> QED
      BY <2>1, <2>2, <2>5, <3>3
  <2> QED
    BY <2>3, <2>4, <2>5
<1> QED
  BY <1>2, <1>3, <1>4 DEF Tells

\* No profiles tell of no comment.
LEMMA NoneTold == NoProfiles \in Profiles /\ Tells(NoProfiles, {})
<1>1. NoProfiles \in [{} -> Profile] /\ DOMAIN NoProfiles = {}
  BY DEF NoProfiles
<1>2. NoProfiles \in Profiles
  BY <1>1 DEF Profiles
<1>3. AuthorsOf({}) = {}
  BY DEF AuthorsOf
<1> QED
  BY <1>1, <1>2, <1>3 DEF Tells

\* A finding tells of its comment.
LEMMA FindingTells ==
  ASSUME CommentsTyped, NEW i \in All
  PROVE  Finding(i) \in Profiles /\ Tells(Finding(i), {i})
<1> DEFINE a == comments[i].author
           v == VerdictOf(i)
           q == [class |-> v.class, score |-> v.score, level |-> v.level, evidence |-> <<i>>]
<1>1. a \in Author /\ v.class \in Classes /\ v.score \in Int /\ v.level \in Levels
  BY VerdictTyped
<1>2. <<i>> \in Seq(All) /\ DOMAIN <<i>> = {1} /\ <<i>>[1] = i
  OBVIOUS
<1>3. q \in Profile
  <2> HIDE DEF v
  <2> QED
    BY <1>1, <1>2 DEF Profile
<1>4. /\ q.class = v.class /\ q.score = v.score /\ q.level = v.level /\ q.evidence = <<i>>
  OBVIOUS
<1>5. IsInjective(<<i>>) /\ ToSet(<<i>>) = {i}
  BY <1>2 DEF IsInjective, ToSet
<1>6. Rank(v.class) \in Nat /\ LevelRank(v.level) \in Nat
  BY <1>1, Ranked
<1>7. Finding(i) = [b \in {a} |-> q]
  BY DEF Finding, VerdictOf
<1> HIDE DEF q
<1>8. Best(q, {i})
  BY <1>1, <1>3, <1>4, <1>5, <1>6 DEF Best
<1> HIDE DEF a, v
<1>9. Finding(i) \in [{a} -> Profile] /\ DOMAIN Finding(i) = {a} /\ Finding(i)[a] = q
  BY <1>3, <1>7
<1>10. Finding(i) \in Profiles
  BY <1>1, <1>9 DEF Profiles
<1>11. AuthorsOf({i}) = {a} /\ OfAuthor({i}, a) = {i}
  BY DEF AuthorsOf, OfAuthor, a
<1> QED
  BY <1>8, <1>9, <1>10, <1>11 DEF Tells

\* Profiles joined one after another
JoiningRun(D, f, g) ==
  g = [s \in SUBSET D |->
         IF s = {} THEN NoProfiles ELSE Joining(g[s \ {Max(s)}], f[Max(s)])]

\* Each tells of a part of its own.
Parted(D, f, parts) ==
  /\ parts \in [D -> SUBSET All] /\ \A n \in D : Tells(f[n], parts[n])
  /\ \A n \in D : \A m \in D : n # m => parts[n] \intersect parts[m] = {}

Whole(D, parts) == {x \in All : \E n \in D : x \in parts[n]}

\* They can be,
LEMMA JoiningRuns ==
  ASSUME NEW D, IsFiniteSet(D), D \subseteq Int, NEW f \in [D -> Profiles]
  PROVE  \E g : JoiningRun(D, f, g)
<1> DEFINE step == [z \in Profiles \X D |-> Joining(z[1], f[z[2]])]
<1>1. \A p \in Profiles, n \in D : Joining(p, f[n]) \in Profiles
  BY JoiningTyped
<1>2. step \in [Profiles \X D -> Profiles]
  BY <1>1
<1>3. PICK g \in [SUBSET D -> Profiles] : Ascends(SUBSET D, NoProfiles, step, g)
  <2> HIDE DEF step
  <2> QED
    BY <1>2, NoneTold, AscentExists
<1>4. ASSUME NEW s \in SUBSET D, s # {}
      PROVE  g[s] = Joining(g[s \ {Max(s)}], f[Max(s)])
  <2>1. Max(s) \in D /\ s \ {Max(s)} \in SUBSET D
    BY <1>4, FS_Subset, WithoutGreatest
  <2>2. g[s \ {Max(s)}] \in Profiles
    BY <1>3, <2>1
  <2>3. g[s] = step[<<g[s \ {Max(s)}], Max(s)>>]
    BY <1>3, <1>4 DEF Ascends
  <2> QED
    BY <2>1, <2>2, <2>3
<1>5. g[{}] = NoProfiles
  BY <1>3 DEF Ascends
<1> HIDE DEF step
<1>6. g = [s \in SUBSET D |->
             IF s = {} THEN NoProfiles ELSE Joining(g[s \ {Max(s)}], f[Max(s)])]
  BY <1>3, <1>4, <1>5
<1> QED
  BY <1>6 DEF JoiningRun

\* and they tell of the comments of each.
LEMMA JoiningTold ==
  ASSUME CommentsTyped, NEW D, IsFiniteSet(D), D \subseteq Int, NEW f, NEW parts,
         Parted(D, f, parts), NEW g, JoiningRun(D, f, g)
  PROVE  Tells(g[D], Whole(D, parts))
<1> DEFINE Told(s) == Whole(s, parts)
           Good == {s \in SUBSET D : Tells(g[s], Told(s))}
<1>1. {} \in Good
  <2>1. g[{}] = NoProfiles /\ Told({}) = {}
    BY DEF JoiningRun, Whole
  <2> HIDE DEF Told
  <2> QED
    BY <2>1, NoneTold
<1>2. ASSUME NEW s \in SUBSET D, s # {}, s \ {Max(s)} \in Good
      PROVE  s \in Good
  <2> DEFINE m == Max(s)
             rest == s \ {m}
  <2>1. m \in s /\ m \in D /\ rest \in SUBSET D /\ s = rest \union {m} /\ m \notin rest
    <3>1. IsFiniteSet(s) /\ s \subseteq Int
      BY FS_Subset
    <3>2. Max(s) \in s
      BY <1>2, <3>1, WithoutGreatest
    <3> QED
      BY <3>2
  <2>2. g[s] = Joining(g[rest], f[m])
    BY <1>2 DEF JoiningRun
  <2>3. Tells(g[rest], Told(rest)) /\ Tells(f[m], parts[m])
    BY <1>2, <2>1 DEF Parted
  <2> HIDE DEF m, rest
  <2>4. /\ Told(rest) \in SUBSET All /\ parts[m] \in SUBSET All
        /\ Told(rest) \intersect parts[m] = {}
    BY <2>1 DEF Parted, Whole
  <2>5. Told(s) = Told(rest) \union parts[m]
    BY <2>1, <2>4 DEF Whole
  <2> HIDE DEF Told
  <2>6. Tells(g[s], Told(s))
    BY <2>2, <2>3, <2>4, <2>5, JoiningTells
  <2> QED
    BY <2>6
<1>3. D \in Good
  <2> HIDE DEF Good
  <2> QED
    BY <1>1, <1>2, AscentInduction
<1> QED
  BY <1>3

\* Merged answers about different comments tell of all of them.
LEMMA MergedTells ==
  ASSUME CommentsTyped, NEW N \in Nat, NEW answers, DOMAIN answers = 1..N,
         NEW parts, Parted(1..N, answers, parts)
  PROVE  Tells(Merged(answers), Whole(1..N, parts))
<1> DEFINE D == 1..N
           f == [n \in D |-> answers[n]]
           h == CHOOSE g : JoiningRun(D, answers, g)
<1>1. IsFiniteSet(D) /\ D \subseteq Int
  BY FS_Interval
<1>2. f \in [D -> Profiles]
  BY DEF Tells, Parted
<1>3. PICK g : JoiningRun(D, f, g)
  <2> HIDE DEF D, f
  <2> QED
    BY <1>1, <1>2, JoiningRuns
<1>4. JoiningRun(D, answers, g)
  <2>1. \A s \in SUBSET D : s # {} => Max(s) \in D
    <3> TAKE s \in SUBSET D
    <3> HIDE DEF D
    <3>1. IsFiniteSet(s) /\ s \subseteq Int
      BY <1>1, FS_Subset
    <3> QED
      BY <3>1, WithoutGreatest
  <2>2. \A s \in SUBSET D : s # {} => f[Max(s)] = answers[Max(s)]
    BY <2>1
  <2> HIDE DEF D, f
  <2>3. g = [s \in SUBSET D |->
               IF s = {} THEN NoProfiles ELSE Joining(g[s \ {Max(s)}], f[Max(s)])]
    BY <1>3 DEF JoiningRun
  <2>4. g = [s \in SUBSET D |->
               IF s = {} THEN NoProfiles ELSE Joining(g[s \ {Max(s)}], answers[Max(s)])]
    BY <2>2, <2>3
  <2> QED
    BY <2>4 DEF JoiningRun
<1>5. JoiningRun(D, answers, h)
  BY <1>4
<1>6. Merged(answers) = h[D]
  BY DEF Merged, FoldLeft, MapThenFoldSet, JoiningRun
<1>7. Parted(D, answers, parts)
  OBVIOUS
<1> HIDE DEF h, D
<1>8. Tells(h[D], Whole(D, parts))
  BY <1>1, <1>5, <1>7, JoiningTold
<1> QED
  BY <1>6, <1>8 DEF D

\* Classified comments are told of.
LEMMA ClassifyTells ==
  ASSUME CommentsTyped, NEW chunk \in Seq(All), IsInjective(chunk)
  PROVE  Tells(Classify(chunk), ToSet(chunk))
<1> DEFINE D == DOMAIN chunk
           f == [k \in D |-> Finding(chunk[k])]
           parts == [k \in D |-> {chunk[k]}]
           Run(g) == g = [s \in SUBSET D |->
                            IF s = {} THEN NoProfiles
                            ELSE Joining(g[s \ {Max(s)}], Finding(chunk[Max(s)]))]
           h == CHOOSE g : Run(g)
<1>1. IsFiniteSet(D) /\ D \subseteq Int /\ \A k \in D : chunk[k] \in All
  <2>1. D = 1..Len(chunk) /\ Len(chunk) \in Nat
    OBVIOUS
  <2> QED
    BY <2>1, FS_Interval
<1>2. f \in [D -> Profiles] /\ \A k \in D : Tells(f[k], parts[k])
  BY <1>1, FindingTells
<1>3. \A s \in SUBSET D : s # {} => f[Max(s)] = Finding(chunk[Max(s)])
  <2> TAKE s \in SUBSET D
  <2> HAVE s # {}
  <2>1. Max(s) \in D
    <3> HIDE DEF D
    <3>1. IsFiniteSet(s) /\ s \subseteq Int
      BY <1>1, FS_Subset
    <3> QED
      BY <3>1, WithoutGreatest
  <2> QED
    BY <2>1
<1>4. \A g : Run(g) <=> JoiningRun(D, f, g)
  <2> TAKE g
  <2> DEFINE a == [s \in SUBSET D |->
                     IF s = {} THEN NoProfiles
                     ELSE Joining(g[s \ {Max(s)}], Finding(chunk[Max(s)]))]
             b == [s \in SUBSET D |->
                     IF s = {} THEN NoProfiles ELSE Joining(g[s \ {Max(s)}], f[Max(s)])]
  <2>1. a = b
    <3> HIDE DEF D, f
    <3> QED
      BY <1>3
  <2>2. JoiningRun(D, f, g) <=> g = b
    BY DEF JoiningRun
  <2> QED
    BY <2>1, <2>2
<1>5. \E g : JoiningRun(D, f, g)
  <2> HIDE DEF D, f
  <2> QED
    BY <1>1, <1>2, JoiningRuns
<1>6. Run(h)
  <2>1. \E g : Run(g)
    <3> HIDE DEF Run
    <3> QED
      BY <1>4, <1>5
  <2> QED
    BY <2>1
<1>7. Classify(chunk) = h[D]
  BY DEF Classify, FoldLeft, MapThenFoldSet
<1>8. JoiningRun(D, f, h)
  <2> HIDE DEF Run, h
  <2> QED
    BY <1>4, <1>6
<1>9. Parted(D, f, parts)
  <2>1. parts \in [D -> SUBSET All]
    BY <1>1
  <2>2. \A n \in D : \A m \in D : n # m => parts[n] \intersect parts[m] = {}
    BY DEF IsInjective
  <2> HIDE DEF D, f, parts
  <2> QED
    BY <1>2, <2>1, <2>2 DEF Parted
<1>10. Whole(D, parts) = ToSet(chunk)
  BY <1>1 DEF ToSet, Whole
<1> HIDE DEF D, f, h, parts
<1>11. Tells(h[D], Whole(D, parts))
  BY <1>1, <1>8, <1>9, JoiningTold
<1> QED
  BY <1>7, <1>10, <1>11

\* What is told of the same comments is the same.
LEMMA ToldOnce ==
  ASSUME CommentsTyped, NEW S \in SUBSET All, NEW p, Tells(p, S), NEW q, Tells(q, S)
  PROVE  /\ DOMAIN p = DOMAIN q
         /\ \A a \in DOMAIN p : /\ p[a] \in Profile /\ q[a] \in Profile
                                /\ p[a].class = q[a].class /\ p[a].score = q[a].score
                                /\ p[a].level = q[a].level
                                /\ ToSet(p[a].evidence) = ToSet(q[a].evidence)
                                /\ IsInjective(p[a].evidence)
<1>1. DOMAIN p = DOMAIN q
  BY DEF Tells
<1>2. ASSUME NEW a \in DOMAIN p
      PROVE  /\ p[a] \in Profile /\ q[a] \in Profile
             /\ p[a].class = q[a].class /\ p[a].score = q[a].score
             /\ p[a].level = q[a].level
             /\ ToSet(p[a].evidence) = ToSet(q[a].evidence)
             /\ IsInjective(p[a].evidence)
  <2> DEFINE C == OfAuthor(S, a)
             x == p[a]
             y == q[a]
  <2>1. Best(x, C) /\ Best(y, C)
    BY <1>1 DEF Tells
  <2>2. C \subseteq All
    BY DEF OfAuthor
  <2> HIDE DEF C, x, y
  <2>3. x \in Profile /\ y \in Profile
    BY <2>1 DEF Best
  <2>4. /\ x.class \in Classes /\ x.score \in Int /\ x.level \in Levels
        /\ y.class \in Classes /\ y.score \in Int /\ y.level \in Levels
    BY <2>3 DEF Profile
  <2>5. x.class = y.class
    <3>1. Rank(x.class) <= Rank(y.class) /\ Rank(y.class) <= Rank(x.class)
      BY <2>1 DEF Best
    <3>2. Rank(x.class) \in Nat /\ Rank(y.class) \in Nat
      BY <2>4, Ranked
    <3>3. Rank(x.class) = Rank(y.class)
      BY <3>1, <3>2
    <3> QED
      BY <2>4, <3>3, Ranked
  <2>6. x.level = y.level
    <3>1. LevelRank(x.level) <= LevelRank(y.level) /\ LevelRank(y.level) <= LevelRank(x.level)
      BY <2>1 DEF Best
    <3>2. LevelRank(x.level) \in Nat /\ LevelRank(y.level) \in Nat
      BY <2>4, Ranked
    <3>3. LevelRank(x.level) = LevelRank(y.level)
      BY <3>1, <3>2
    <3> QED
      BY <2>4, <3>3, Ranked
  <2>7. x.score = y.score
    <3>1. x.score <= y.score /\ y.score <= x.score
      BY <2>1, <2>4 DEF Best
    <3> QED
      BY <2>4, <3>1
  <2>8. ToSet(x.evidence) = ToSet(y.evidence) /\ IsInjective(x.evidence)
    BY <2>1 DEF Best
  <2> QED
    BY <2>3, <2>5, <2>6, <2>7, <2>8 DEF x, y
<1> QED
  BY <1>1, <1>2

AllAnswers == Merged([n \in DOMAIN Chunks |-> Classify(Chunks[n])])
OneAnswer == Classify([i \in 1..Len(comments) |-> i])

\* Both ways of asking tell of all comments.
LEMMA AnswersTell ==
  ASSUME CommentsTyped
  PROVE  Tells(AllAnswers, All) /\ Tells(OneAnswer, All)
<1>1. Tells(OneAnswer, All)
  <2> DEFINE whole == [i \in 1..Len(comments) |-> i]
  <2>1. All = 1..Len(comments) /\ Len(comments) \in Nat
    BY Numbered
  <2>2. whole \in Seq(All) /\ DOMAIN whole = All /\ \A i \in All : whole[i] = i
    BY <2>1
  <2> HIDE DEF whole
  <2>3. IsInjective(whole) /\ ToSet(whole) = All
    BY <2>2 DEF IsInjective, ToSet
  <2>4. Tells(Classify(whole), ToSet(whole))
    BY <2>2, <2>3, ClassifyTells
  <2> QED
    BY <2>3, <2>4 DEF OneAnswer, whole
<1>2. Tells(AllAnswers, All)
  <2> DEFINE C == Chunks
             N == Len(C)
             answers == [n \in DOMAIN C |-> Classify(C[n])]
             parts == [n \in 1..N |-> ToSet(C[n])]
  <2>1. Pieces(C, All)
    BY ChunksArePieces
  <2> HIDE DEF C
  <2>2. /\ N \in Nat /\ DOMAIN C = 1..N
        /\ \A n \in 1..N : C[n] \in Seq(All) /\ IsInjective(C[n])
        /\ \A n \in 1..N : \A m \in 1..N : n # m => ToSet(C[n]) \intersect ToSet(C[m]) = {}
        /\ \A x : x \in All <=> \E n \in 1..N : x \in ToSet(C[n])
    <3>1. C \in Seq(Seq(All))
      BY <2>1 DEF Pieces
    <3>2. N \in Nat /\ DOMAIN C = 1..N /\ \A n \in 1..N : C[n] \in Seq(All)
      BY <3>1
    <3> QED
      BY <2>1, <3>2 DEF Pieces
  <2> HIDE DEF N
  <2>3. Parted(1..N, answers, parts)
    <3>1. parts \in [1..N -> SUBSET All]
      BY <2>2
    <3>2. \A n \in 1..N : Tells(answers[n], parts[n])
      BY <2>2, ClassifyTells
    <3>3. \A n \in 1..N : \A m \in 1..N : n # m => parts[n] \intersect parts[m] = {}
      BY <2>2
    <3> HIDE DEF answers, parts
    <3> QED
      BY <3>1, <3>2, <3>3 DEF Parted
  <2>4. DOMAIN answers = 1..N
    BY <2>2
  <2>5. Whole(1..N, parts) = All
    BY <2>2 DEF Whole
  <2> HIDE DEF answers, parts
  <2>6. Tells(Merged(answers), All)
    BY <2>2, <2>3, <2>4, <2>5, MergedTells
  <2> QED
    BY <2>6 DEF AllAnswers, answers, C
<1> QED
  BY <1>1, <1>2

-----------------------------------------------------------------------------
(* The text detector                                                       *)

HitsOf(i) == Hits[comments[i].text]

\* What is found in a comment
LEMMA HitsTyped ==
  ASSUME CommentsTyped, NEW i \in All
  PROVE  /\ HitsOf(i) \in TextHits /\ HitsOf(i).demand \in Nat /\ HitsOf(i).intent \in Nat
         /\ HitsOf(i).promotion \in Nat /\ HitsOf(i).competitor \in Nat
         /\ HitsOf(i).phones \in Nat /\ HitsOf(i).links \in Nat
         /\ HitsOf(i).education \subseteq 1..4
<1>1. comments[i].text \in Text
  BY Numbered DEF CommentRow
<1>2. HitsOf(i) \in TextHits
  BY <1>1, ProfileConstants DEF HitsOf
<1> QED
  BY <1>2 DEF TextHits

\* The comments above a comment
Aboves(g) ==
  g = [j \in 1..Len(comments) |->
         IF comments[j].parent = 0 THEN {}
         ELSE {comments[j].parent} \union g[comments[j].parent]]

\* They are comments.
LEMMA AncestorsTyped ==
  ASSUME CommentsTyped
  PROVE  \A i \in All : Ancestors(i) \subseteq All
<1> DEFINE X == SUBSET All
           N == Len(comments)
           r == [j \in All |-> j]
           Up(j, f) == IF comments[j].parent = 0 THEN {}
                       ELSE {comments[j].parent} \union f[comments[j].parent]
           step == [z \in All \X [All -> X] |-> Up(z[1], z[2])]
<1>1. All = 1..N /\ N \in Nat /\ r \in [All -> 0..N]
  BY Numbered
<1>2. \A j \in All : comments[j].parent # 0 =>
        comments[j].parent \in All /\ comments[j].parent < j
  <2> TAKE j \in All
  <2>1. comments[j].parent \in Nat /\ comments[j].parent < j /\ j \in 1..N
    BY Numbered DEF CommentsTyped, All
  <2> QED
    BY <1>1, <2>1
<1>3. \A j \in All, f \in [All -> X] : Up(j, f) \in X
  BY <1>2
<1>4. step \in [All \X [All -> X] -> X]
  <2> HIDE DEF X, Up
  <2> QED
    BY <1>3
<1>5. ASSUME NEW j \in All, NEW f \in [All -> X], NEW g \in [All -> X],
             \A k \in All : r[k] < r[j] => f[k] = g[k]
      PROVE  step[<<j, f>>] = step[<<j, g>>]
  <2>1. comments[j].parent # 0 => f[comments[j].parent] = g[comments[j].parent]
    BY <1>2, <1>5
  <2>2. Up(j, f) = Up(j, g)
    BY <2>1
  <2> HIDE DEF X, Up
  <2> QED
    BY <2>2
<1>6. Local(All, X, r, step)
  <2> HIDE DEF X, step, r, N
  <2> QED
    BY <1>5 DEF Local
<1>7. PICK t : Computes(All, X, step, t)
  <2>1. X # {}
    BY {} \in X
  <2> HIDE DEF X, step, r, N
  <2> QED
    BY <1>1, <1>4, <1>6, <2>1, Recursion
<1>8. Aboves(t)
  <2>1. \A j \in All : t[j] = Up(j, t)
    <3> HIDE DEF X, Up
    <3> QED
      BY <1>7 DEF Computes
  <2>2. t = [j \in All |-> t[j]]
    <3> HIDE DEF X, step
    <3> QED
      BY <1>7 DEF Computes
  <2> QED
    BY <1>1, <2>1, <2>2 DEF Aboves
<1> DEFINE u == CHOOSE f : Aboves(f)
<1>9. Aboves(u)
  BY <1>8
<1>10. \A j \in All : Ancestors(j) = u[j]
  BY DEF Ancestors, Aboves
<1> HIDE DEF u
<1>11. \A j \in All : u[j] = Up(j, u)
  BY <1>1, <1>9 DEF Aboves
<1> DEFINE Good == {j \in All : u[j] \in X}
<1>12. ASSUME NEW j \in All, \A k \in All : k < j => k \in Good
       PROVE  j \in Good
  <2>1. Up(j, u) \in X
    BY <1>2, <1>12
  <2> QED
    BY <1>11, <2>1
<1>13. All \subseteq Good
  <2>1. All \subseteq Nat
    BY Numbered
  <2> HIDE DEF Good
  <2> QED
    BY <1>12, <2>1, Upward
<1> QED
  BY <1>10, <1>13

\* A pair of numbers has the less as its minimum.
LEMMA MinOfTwo ==
  ASSUME NEW a \in Nat, NEW b \in Nat
  PROVE  Min({a, b}) \in Nat
<1>1. \E x \in {a, b} : \A y \in {a, b} : x <= y
  OBVIOUS
<1>2. Min({a, b}) \in {a, b}
  BY <1>1 DEF Min
<1> QED
  BY <1>2

\* The best of finitely many scores
LEMMA BestScore ==
  ASSUME NEW S, IsFiniteSet(S), NEW score, \A i \in S : score[i] \in Nat
  PROVE  LET best == Max({score[i] : i \in S} \union {0})
         IN /\ best \in Nat /\ \A i \in S : best >= score[i]
            /\ best = 0 \/ \E i \in S : best = score[i]
<1> DEFINE T == {score[i] : i \in S}
           U == T \union {0}
<1>1. IsFiniteSet(T)
  <2>1. \A y \in T : \E i \in S : score[i] = y
    OBVIOUS
  <2> HIDE DEF T
  <2> QED
    BY <2>1, ImageFinite
<1>2. IsFiniteSet(U)
  <2> HIDE DEF T
  <2> QED
    BY <1>1, FS_AddElement
<1>3. U \subseteq Int /\ U # {} /\ \A y \in U : y \in Nat
  OBVIOUS
<1>4. Max(U) \in U /\ \A y \in U : y <= Max(U)
  <2> HIDE DEF U
  <2> QED
    BY <1>2, <1>3, WithoutGreatest
<1>5. \A i \in S : score[i] \in U
  OBVIOUS
<1>6. \A i \in S : Max(U) >= score[i]
  <2> HIDE DEF U
  <2> QED
    BY <1>3, <1>4, <1>5
<1> QED
  BY <1>3, <1>4, <1>6

\* An advertising comment counts at least 24 points against its author.
LEMMA ItemPromotionTyped ==
  ASSUME CommentsTyped, NEW i \in All
  PROVE  /\ ItemPromotion(HitsOf(i)) \in Nat
         /\ HitsOf(i).promotion >= 1 => ItemPromotion(HitsOf(i)) >= 2400
<1> DEFINE h == HitsOf(i)
           p == h.promotion
           c == h.competitor
           t == Min({h.phones, 2})
           l == Min({h.links, 2})
           x == 100 * (p * 24 + c * 26 + t * 18 + l * 16)
<1>1. p \in Nat /\ c \in Nat /\ t \in Nat /\ l \in Nat
  BY HitsTyped, MinOfTwo
<1>2. ItemPromotion(h) = Clamp(x)
  BY DEF ItemPromotion
<1> HIDE DEF p, c, t, l
<1>3. x \in Int /\ (p >= 1 => x >= 2400)
  BY <1>1
<1> HIDE DEF x
<1>4. Clamp(x) \in Nat /\ (x >= 2400 => Clamp(x) >= 2400)
  BY <1>3 DEF Clamp
<1> QED
  BY <1>2, <1>3, <1>4 DEF p

\* The comments of an author
LEMMA ByFinite ==
  ASSUME CommentsTyped, NEW a
  PROVE  /\ By(a) \subseteq All /\ IsFiniteSet(By(a)) /\ IsFiniteSet(TextsBy(a))
         /\ TextsBy(a) \subseteq Text
<1>1. By(a) \subseteq All
  BY DEF By, All
<1>2. IsFiniteSet(By(a))
  BY <1>1, Numbered, FS_Subset
<1> DEFINE f == [i \in By(a) |-> comments[i].text]
<1>3. \A t \in TextsBy(a) : \E i \in By(a) : f[i] = t
  BY DEF TextsBy
<1>4. IsFiniteSet(TextsBy(a))
  <2> HIDE DEF f
  <2> QED
    BY <1>2, <1>3, ImageFinite
<1>5. \A i \in By(a) : comments[i].text \in Text
  BY <1>1, Numbered DEF CommentRow
<1> QED
  BY <1>1, <1>2, <1>4, <1>5 DEF TextsBy

\* The counts of an author's comments and texts
LEMMA CountsTyped ==
  ASSUME CommentsTyped, NEW a
  PROVE  /\ Promotion(a) \in Nat /\ Competitor(a) \in Nat /\ Phones(a) \in Nat /\ Links(a) \in Nat
         /\ \A i \in By(a) : Promotion(a) >= HitsOf(i).promotion
<1>1. /\ By(a) \subseteq All /\ IsFiniteSet(By(a)) /\ IsFiniteSet(TextsBy(a))
      /\ TextsBy(a) \subseteq Text
  BY ByFinite
<1> DEFINE f == [i \in By(a) |-> Hits[comments[i].text].promotion]
           c == [i \in By(a) |-> Hits[comments[i].text].competitor]
           p == [t \in TextsBy(a) |-> Hits[t].phones]
           l == [t \in TextsBy(a) |-> Hits[t].links]
<1>2. \A i \in By(a) : f[i] \in Nat /\ c[i] \in Nat /\ f[i] = HitsOf(i).promotion
  BY <1>1, HitsTyped DEF HitsOf
<1>3. \A t \in TextsBy(a) : p[t] \in Nat /\ l[t] \in Nat
  BY <1>1, ProfileConstants DEF TextHits
<1>4. /\ Promotion(a) = Sum(By(a), f) /\ Competitor(a) = Sum(By(a), c)
      /\ Phones(a) = Sum(TextsBy(a), p) /\ Links(a) = Sum(TextsBy(a), l)
  BY DEF Promotion, Competitor, Phones, Links
<1> HIDE DEF f, c, p, l
<1>5. /\ Sum(By(a), f) \in Nat /\ Sum(By(a), c) \in Nat
      /\ Sum(TextsBy(a), p) \in Nat /\ Sum(TextsBy(a), l) \in Nat
  BY <1>1, <1>2, <1>3, SumNat
<1>6. ASSUME NEW i \in By(a)
      PROVE  Sum(By(a), f) >= f[i]
  <2> DEFINE rest == By(a) \ {i}
  <2>1. IsFiniteSet(rest) /\ \A x \in rest : f[x] \in Nat
    BY <1>1, <1>2, FS_RemoveElement
  <2>2. Sum(By(a), f) = f[i] + Sum(rest, f)
    BY <1>1, <1>2, SumOne
  <2> HIDE DEF rest
  <2>3. Sum(rest, f) \in Nat
    BY <2>1, SumNat
  <2> QED
    BY <1>2, <2>2, <2>3
<1> QED
  BY <1>2, <1>4, <1>5, <1>6

\* An author with an advertising comment has 24 points or more.
LEMMA PromotionScoreTyped ==
  ASSUME CommentsTyped, NEW a
  PROVE  /\ PromotionScore(a) \in Nat
         /\ (\E i \in By(a) : HitsOf(i).promotion >= 1) => PromotionScore(a) >= 2400
<1> DEFINE score == [i \in By(a) |-> ItemPromotion(HitsOf(i))]
           best == Max({score[i] : i \in By(a)} \union {0})
           p == Min({Promotion(a), 3})
           c == Min({Competitor(a), 2})
           t == Min({Phones(a), 2})
           l == Min({Links(a), 2})
           x == best + 100 * (p * 8 + c * 10 + t * 15 + l * 15)
<1>1. By(a) \subseteq All /\ IsFiniteSet(By(a))
  BY ByFinite
<1>2. \A i \in By(a) : /\ score[i] \in Nat
                       /\ HitsOf(i).promotion >= 1 => score[i] >= 2400
  BY <1>1, ItemPromotionTyped
<1>3. PromotionScore(a) = Clamp(x)
  <2>1. {ItemPromotion(Hits[comments[i].text]) : i \in By(a)} = {score[i] : i \in By(a)}
    BY DEF HitsOf
  <2> QED
    BY <2>1 DEF PromotionScore
<1>4. p \in Nat /\ c \in Nat /\ t \in Nat /\ l \in Nat
  BY CountsTyped, MinOfTwo
<1> HIDE DEF score, p, c, t, l
<1>5. best \in Nat /\ \A i \in By(a) : best >= score[i]
  BY <1>1, <1>2, BestScore
<1> HIDE DEF best
<1>6. x \in Int /\ x >= best
  BY <1>4, <1>5
<1> HIDE DEF x
<1>7. Clamp(x) \in Nat /\ (x >= 2400 => Clamp(x) >= 2400)
  BY <1>6 DEF Clamp
<1>8. ASSUME NEW i \in By(a), HitsOf(i).promotion >= 1
      PROVE  x >= 2400
  <2>1. score[i] >= 2400 /\ best >= score[i] /\ score[i] \in Nat
    BY <1>2, <1>5, <1>8
  <2> QED
    BY <1>5, <1>6, <2>1
<1> QED
  BY <1>3, <1>7, <1>8

\* Comment i asks and is about education.
Asks(i) ==
  HitsOf(i).demand + HitsOf(i).intent > 0 /\ (HitsOf(i).education \union ContextEducation(i)) # {}

\* Only a comment that does has a score.
LEMMA ItemLeadTyped ==
  ASSUME CommentsTyped, NEW i \in All
  PROVE  ItemLead(i) \in Nat /\ (ItemLead(i) >= 1 => Asks(i))
<1> DEFINE h == HitsOf(i)
           w == Weight(i)
           promotion == (ItemPromotion(h) * 4) \div 5
           d == h.demand
           n == h.intent
           e == Cardinality(h.education)
           k == Cardinality(ContextEducation(i))
           asks == IF h.asks THEN 8 ELSE 0
           base == IF Asks(i) THEN d * 32 + n * 24 + e * 16 + k * 9 + asks ELSE 0
           x == base * w - promotion
<1>1. d \in Nat /\ n \in Nat /\ h.education \subseteq 1..4 /\ ItemPromotion(h) \in Nat
  BY HitsTyped, ItemPromotionTyped
<1>2. w \in Nat
  <2>1. Ancestors(i) = {} => Cardinality(Ancestors(i)) = 0
    BY FS_EmptySet
  <2>2. CASE Ancestors(i) = {}
    BY <2>1, <2>2 DEF Weight
  <2>3. CASE Ancestors(i) # {} /\ Cardinality(Ancestors(i)) = 1
    BY <2>3 DEF Weight
  <2>4. CASE Ancestors(i) # {} /\ Cardinality(Ancestors(i)) # 1
    BY <2>4 DEF Weight
  <2> QED
    BY <2>2, <2>3, <2>4
<1>3. promotion \in Nat
  <2> DEFINE y == ItemPromotion(h)
  <2>1. y \in Nat
    BY <1>1
  <2> HIDE DEF y
  <2>2. (y * 4) \div 5 \in Nat
    BY <2>1
  <2> QED
    BY <2>2 DEF y
<1>4. e \in Nat /\ k \in Nat
  <2>1. ContextEducation(i) \subseteq 1..4
    BY AncestorsTyped, HitsTyped DEF ContextEducation, HitsOf
  <2>2. IsFiniteSet(1..4)
    BY 1 \in Int, 4 \in Int, FS_Interval
  <2>3. IsFiniteSet(h.education) /\ IsFiniteSet(ContextEducation(i))
    BY <1>1, <2>1, <2>2, FS_Subset
  <2> QED
    BY <2>3, FS_CardinalityType
<1>5. asks \in Nat
  OBVIOUS
<1>6. ItemLead(i) = Clamp(x)
  BY DEF ItemLead, Asks, HitsOf
<1> HIDE DEF d, n, e, k, asks, w, promotion
<1>7. base \in Nat
  BY <1>1, <1>4, <1>5 DEF d, n
<1>8. ~Asks(i) => base = 0
  OBVIOUS
<1> HIDE DEF base
<1>9. base * w \in Nat /\ (base = 0 => base * w = 0)
  BY <1>2, <1>7
<1>10. x \in Int /\ (base = 0 => ~(x >= 1))
  BY <1>3, <1>9
<1> HIDE DEF x
<1>11. Clamp(x) \in Nat /\ (Clamp(x) >= 1 => x >= 1)
  BY <1>10 DEF Clamp
<1> QED
  BY <1>6, <1>8, <1>10, <1>11

\* A potential parent advertises nothing, asks about education and has a level.
LEMMA ParentAsks ==
  ASSUME CommentsTyped, NEW a, Detected(a) = "POTENTIAL_PARENT"
  PROVE  /\ Level(a) # "NONE" /\ \A i \in By(a) : HitsOf(i).promotion = 0
         /\ \E i \in By(a) : Asks(i)
<1>1. ~IsAdvert(a) /\ LeadScore(a) >= 3000
  BY DEF Detected
<1>2. Level(a) # "NONE"
  BY <1>1 DEF Level
<1>3. By(a) \subseteq All /\ IsFiniteSet(By(a))
  BY ByFinite
<1>4. ASSUME NEW i \in By(a)
      PROVE  HitsOf(i).promotion = 0
  <2>1. HitsOf(i).promotion \in Nat /\ Promotion(a) \in Nat /\ PromotionScore(a) \in Nat
    BY <1>3, HitsTyped, CountsTyped, PromotionScoreTyped
  <2> SUFFICES ASSUME HitsOf(i).promotion >= 1 PROVE FALSE
    BY <2>1
  <2>2. Promotion(a) >= HitsOf(i).promotion /\ PromotionScore(a) >= 2400
    BY CountsTyped, PromotionScoreTyped
  <2>3. Promotion(a) >= 1 /\ PromotionScore(a) >= 1800
    BY <2>1, <2>2
  <2> QED
    BY <1>1, <2>3 DEF IsAdvert
<1>5. \E i \in By(a) : Asks(i)
  <2> DEFINE score == [i \in By(a) |-> ItemLead(i)]
             best == Max({score[i] : i \in By(a)} \union {0})
             against == (PromotionScore(a) * 13) \div 20
             x == best - against
  <2>1. \A i \in By(a) : score[i] \in Nat /\ (score[i] >= 1 => Asks(i))
    BY <1>3, ItemLeadTyped
  <2>2. LeadScore(a) = Clamp(x)
    <3>1. {ItemLead(i) : i \in By(a)} = {score[i] : i \in By(a)}
      OBVIOUS
    <3> QED
      BY <3>1 DEF LeadScore
  <2>3. against \in Nat
    <3> DEFINE y == PromotionScore(a)
    <3>1. y \in Nat
      BY PromotionScoreTyped
    <3> HIDE DEF y
    <3>2. (y * 13) \div 20 \in Nat
      BY <3>1
    <3> QED
      BY <3>2 DEF y
  <2> HIDE DEF score, against
  <2>4. best \in Nat /\ (best = 0 \/ \E i \in By(a) : best = score[i])
    BY <1>3, <2>1, BestScore
  <2> HIDE DEF best
  <2>5. x \in Int /\ (x >= 1 => best >= 1)
    BY <2>3, <2>4
  <2> HIDE DEF x
  <2>6. x >= 3000
    BY <1>1, <2>2, <2>5 DEF Clamp
  <2>7. best >= 1
    BY <2>5, <2>6
  <2>8. PICK i \in By(a) : best = score[i]
    BY <2>4, <2>7
  <2> QED
    BY <2>1, <2>7, <2>8
<1> QED
  BY <1>2, <1>4, <1>5

-----------------------------------------------------------------------------
\* A comment arrives.
LEMMA CommentsKept == CommentsTyped /\ [ProfileNext]_comments => CommentsTyped'
<1> SUFFICES ASSUME CommentsTyped, [ProfileNext]_comments PROVE CommentsTyped'
  OBVIOUS
<1>1. CASE ProfileNext
  <2>1. PICK parent \in 0..Len(comments), a \in Author, t \in Text : Scrape(parent, a, t)
    BY <1>1 DEF ProfileNext
  <2> DEFINE row == [parent |-> parent, author |-> a, text |-> t]
             N == Len(comments)
  <2>2. comments' = Append(comments, row)
    BY <2>1 DEF Scrape
  <2>3. N \in Nat /\ comments \in Seq(CommentRow) /\ DOMAIN comments = 1..N
        /\ \A i \in 1..N : comments[i].parent < i
    BY Numbered DEF CommentsTyped, All
  <2>4. row \in CommentRow /\ row.parent = parent
    BY <2>3 DEF CommentRow
  <2> HIDE DEF row, N
  <2>5. /\ comments' \in Seq(CommentRow) /\ DOMAIN comments' = 1..(N + 1)
        /\ comments'[N + 1] = row /\ \A i \in 1..N : comments'[i] = comments[i]
    <3>1. /\ comments' \in Seq(CommentRow) /\ Len(comments') = Len(comments) + 1
          /\ comments'[Len(comments) + 1] = row
          /\ \A i \in 1..Len(comments) : comments'[i] = comments[i]
      BY <2>2, <2>3, <2>4, AppendProperties
    <3>2. DOMAIN comments' = 1..Len(comments')
      BY <3>1
    <3> QED
      BY <3>1, <3>2 DEF N
  <2>6. parent \in Nat /\ parent < N + 1
    BY <2>3 DEF N
  <2>7. \A i \in 1..(N + 1) : i = N + 1 \/ i \in 1..N
    BY <2>3
  <2>8. \A i \in 1..(N + 1) : comments'[i].parent < i
    BY <2>3, <2>4, <2>5, <2>6, <2>7
  <2> QED
    BY <2>5, <2>8 DEF CommentsTyped
<1>2. CASE UNCHANGED comments
  BY <1>2 DEF CommentsTyped, CommentRow
<1> QED
  BY <1>1, <1>2

\* The profiles follow the comments.
LEMMA CommentsFollowed == CommentsTyped => ProfilesFollowComments
<1> SUFFICES ASSUME CommentsTyped PROVE ProfilesFollowComments
  OBVIOUS
<1> DEFINE p == AllAnswers
           q == OneAnswer
           Found(profiles) == [a \in DOMAIN profiles |->
                                 [profiles[a] EXCEPT !.evidence = ToSet(@)]]
<1>1. /\ DOMAIN p = DOMAIN q
      /\ \A a \in DOMAIN p : /\ p[a] \in Profile /\ q[a] \in Profile
                             /\ p[a].class = q[a].class /\ p[a].score = q[a].score
                             /\ p[a].level = q[a].level
                             /\ ToSet(p[a].evidence) = ToSet(q[a].evidence)
                             /\ IsInjective(p[a].evidence)
  BY AnswersTell, ToldOnce
<1> HIDE DEF p, q
<1>2. ASSUME NEW x \in Profile, NEW y \in Profile, x.class = y.class, x.score = y.score,
             x.level = y.level, ToSet(x.evidence) = ToSet(y.evidence)
      PROVE  [x EXCEPT !.evidence = ToSet(@)] = [y EXCEPT !.evidence = ToSet(@)]
  BY <1>2 DEF Profile
<1>3. Found(p) = Found(q)
  <2>1. \A a \in DOMAIN p : [p[a] EXCEPT !.evidence = ToSet(@)] = [q[a] EXCEPT !.evidence = ToSet(@)]
    BY <1>1, <1>2
  <2> QED
    BY <1>1, <2>1
<1>4. ASSUME NEW a \in Author, Detected(a) = "POTENTIAL_PARENT"
      PROVE  /\ Level(a) # "NONE"
             /\ \A i \in By(a) : Hits[comments[i].text].promotion = 0
             /\ \E i \in By(a) :
                  LET h == Hits[comments[i].text]
                  IN h.demand + h.intent > 0 /\ (h.education \union ContextEducation(i)) # {}
  BY <1>4, ParentAsks DEF HitsOf, Asks
<1> QED
  BY <1>1, <1>3, <1>4 DEF ProfilesFollowComments, p, q, AllAnswers, OneAnswer

\* Asking in chunks and merging finds what asking once would, and the detector takes no
\* advertiser for a parent, for any authors, texts, threads, verdicts and length of a chunk.
THEOREM ProfilesFollow == ProfileSpec => []ProfilesFollowComments
<1>1. ProfileInit => CommentsTyped
  BY DEF ProfileInit, CommentsTyped
<1> QED
  BY <1>1, CommentsKept, CommentsFollowed, PTL DEF ProfileSpec
=============================================================================
