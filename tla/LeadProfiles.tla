---------------------------- MODULE LeadProfiles ----------------------------
(***************************************************************************)
(* From the comments of one scan to the profiles of their authors: the    *)
(* text detector of a submission, and the classifier that is asked chunk  *)
(* by chunk and whose answers are merged.  Comments arrive one by one and *)
(* answer an earlier comment or the post; comment ids are unique.          *)
(***************************************************************************)
EXTENDS SequencesExt, Integers, Sequences, FiniteSets, Sums

CONSTANTS
  MaxComments, \* the bound on comments
  MaxChunk, \* comments per call of the classifier, 30 in the code
  Author,
  Text, \* names of texts
  Hits, \* what the patterns of the detector find in a text
  Verdict \* classification, leadScore and leadLevel the classifier gives a text

\* Hits of a text: demand, intent, promotion, competitor, recommendation and
\* contact phrases, the education patterns matched, and whether it asks.
TextHits ==
  [demand : Nat, intent : Nat, promotion : Nat, competitor : Nat, recommends : Nat,
   phones : Nat, links : Nat, education : SUBSET (1..4), asks : BOOLEAN]

\* What the response schema of the classifier allows
VerdictRow ==
  [class : {"POTENTIAL_PARENT", "RECOMMENDATION", "TEACHER_AD", "COMPETITOR_SALE", "NEUTRAL",
            "SPAM"},
   score : Int, level : {"HOT", "WARM", "COLD", "NONE"}]

ASSUME ProfileConstants ==
  MaxChunk \in Nat /\ Hits \in [Text -> TextHits] /\ Verdict \in [Text -> VerdictRow]

VARIABLE comments \* sequence of the comments of a scan

-----------------------------------------------------------------------------
(* chunkItemsByTree: a thread is a comment of the post with its answers.    *)

Answers(i) == {n \in DOMAIN comments : comments[n].parent = i}

\* A comment, then the threads of its answers in turn
Strung(i, threads) ==
  InOrder(LAMBDA n, thread : thread \o threads[n], <<i>>, DOMAIN threads)

Thread(i) ==
  LET below[j \in DOMAIN comments] == Strung(j, [n \in Answers(j) |-> below[n]])
  IN below[i]

\* A thread that would make the chunk too long starts the next one.
Chunked(chunks, thread) ==
  IF chunks # <<>> /\ Len(Last(chunks)) + Len(thread) <= MaxChunk
  THEN [chunks EXCEPT ![Len(chunks)] = @ \o thread] ELSE Append(chunks, thread)

Chunks == InOrder(LAMBDA i, chunks : Chunked(chunks, Thread(i)), <<>>, Answers(0))

-----------------------------------------------------------------------------
(* The classifier's profiles and their merger.                              *)

Rank(class) ==
  CASE class = "POTENTIAL_PARENT" -> 1 [] class = "RECOMMENDATION" -> 2
    [] class = "TEACHER_AD" -> 3 [] class = "COMPETITOR_SALE" -> 4
    [] class = "NEUTRAL" -> 5 [] OTHER -> 6

LevelRank(level) ==
  CASE level = "HOT" -> 1 [] level = "WARM" -> 2 [] level = "COLD" -> 3 [] OTHER -> 4

\* Mutant: the first classification of an author stays.
Joined_First(p, q) ==
  [p EXCEPT !.score = Max({p.score, q.score}),
            !.level = IF LevelRank(q.level) < LevelRank(p.level) THEN q.level ELSE p.level,
            !.evidence = p.evidence \o q.evidence]

\* The more promising classification, score and level win.
Joined(p, q) ==
  [class |-> IF Rank(q.class) < Rank(p.class) THEN q.class ELSE p.class,
   score |-> Max({p.score, q.score}),
   level |-> IF LevelRank(q.level) < LevelRank(p.level) THEN q.level ELSE p.level,
   evidence |-> p.evidence \o q.evidence]

NoProfiles == [a \in {} |-> 0]

\* Profiles of more comments: those of an author who has one are joined.
Joining(all, more) ==
  [a \in DOMAIN all \union DOMAIN more |->
     IF a \notin DOMAIN more THEN all[a]
     ELSE IF a \notin DOMAIN all THEN more[a] ELSE Joined(all[a], more[a])]

\* The answer about comment i
Finding(i) ==
  LET v == Verdict[comments[i].text]
  IN [a \in {comments[i].author} |->
        [class |-> v.class, score |-> v.score, level |-> v.level, evidence |-> <<i>>]]

\* classify: one answer per comment, grouped by the author's address or name
Classify(chunk) ==
  FoldLeft(LAMBDA profiles, i : Joining(profiles, Finding(i)), NoProfiles, chunk)

\* mergeDetectionResults
Merged(answers) == FoldLeft(Joining, NoProfiles, answers)

-----------------------------------------------------------------------------
(* FacebookLeadTextDetector, scores in hundredths.                          *)

Clamp(x) == IF x < 0 THEN 0 ELSE IF x > 10000 THEN 10000 ELSE x

Ancestors(i) ==
  LET above[j \in 1..Len(comments)] ==
        IF comments[j].parent = 0 THEN {}
        ELSE {comments[j].parent} \union above[comments[j].parent]
  IN above[i]

\* getLevelWeight of a comment by its depth
Weight(i) ==
  CASE Ancestors(i) = {} -> 100 [] Cardinality(Ancestors(i)) = 1 -> 85 [] OTHER -> 70

ContextEducation(i) ==
  UNION {Hits[comments[j].text].education :
           j \in {k \in Ancestors(i) : comments[k].text # comments[i].text}}

ItemPromotion(h) ==
  Clamp(100 * (h.promotion * 24 + h.competitor * 26 + Min({h.phones, 2}) * 18
               + Min({h.links, 2}) * 16))

ItemLead(i) ==
  LET h == Hits[comments[i].text]
      base == IF h.demand + h.intent > 0 /\ (h.education \union ContextEducation(i)) # {}
              THEN h.demand * 32 + h.intent * 24 + Cardinality(h.education) * 16
                   + Cardinality(ContextEducation(i)) * 9 + (IF h.asks THEN 8 ELSE 0)
              ELSE 0
  IN Clamp(base * Weight(i) - (ItemPromotion(h) * 4) \div 5)

\* The items of author a, and their different texts
By(a) == {i \in DOMAIN comments : comments[i].author = a}
TextsBy(a) == {comments[i].text : i \in By(a)}

Promotion(a) == Sum(By(a), [i \in By(a) |-> Hits[comments[i].text].promotion])
Competitor(a) == Sum(By(a), [i \in By(a) |-> Hits[comments[i].text].competitor])
Phones(a) == Sum(TextsBy(a), [t \in TextsBy(a) |-> Hits[t].phones])
Links(a) == Sum(TextsBy(a), [t \in TextsBy(a) |-> Hits[t].links])

\* All comments are on one page, so nothing repeats across posts.
PromotionScore(a) ==
  Clamp(Max({ItemPromotion(Hits[comments[i].text]) : i \in By(a)} \union {0})
        + 100 * (Min({Promotion(a), 3}) * 8 + Min({Competitor(a), 2}) * 10
                 + Min({Phones(a), 2}) * 15 + Min({Links(a), 2}) * 15))

LeadScore(a) == Clamp(Max({ItemLead(i) : i \in By(a)} \union {0}) - (PromotionScore(a) * 13) \div 20)

HasDemand(a) ==
  /\ \E i \in By(a) : Hits[comments[i].text].demand + Hits[comments[i].text].intent > 0
  /\ \E i \in By(a) : (Hits[comments[i].text].education \union ContextEducation(i)) # {}

IsAdvert(a) == Promotion(a) >= 1 /\ PromotionScore(a) >= 1800

\* SPAM needs five comments of one author.
Detected(a) ==
  IF PromotionScore(a) >= 5500 /\ (Competitor(a) >= 2 \/ (Competitor(a) >= 1 /\ Phones(a) + Links(a) > 0))
  THEN "COMPETITOR_SALE"
  ELSE IF IsAdvert(a) THEN "TEACHER_AD"
  ELSE IF HasDemand(a) /\ LeadScore(a) >= 3000 THEN "POTENTIAL_PARENT"
  ELSE IF \E i \in By(a) : Hits[comments[i].text].recommends >= 1 THEN "RECOMMENDATION"
  ELSE "NEUTRAL"

Level(a) ==
  IF Detected(a) # "POTENTIAL_PARENT" THEN "NONE"
  ELSE IF LeadScore(a) >= 7500 THEN "HOT" ELSE IF LeadScore(a) >= 5000 THEN "WARM"
  ELSE IF LeadScore(a) >= 3000 THEN "COLD" ELSE "NONE"

-----------------------------------------------------------------------------
ProfileInit == comments = <<>>

Scrape(parent, a, t) ==
  /\ Len(comments) < MaxComments
  /\ comments' = Append(comments, [parent |-> parent, author |-> a, text |-> t])

ProfileNext ==
  \E parent \in 0..Len(comments), a \in Author, t \in Text : Scrape(parent, a, t)

ProfileSpec == ProfileInit /\ [][ProfileNext]_comments

-----------------------------------------------------------------------------
\* Asking the classifier in chunks finds the same authors, classifications, scores
\* and levels, on the evidence of the same comments, as asking it once.  The
\* detector never takes an advertiser for a parent: of an author it calls one, no
\* comment advertises, one comment both asks and is about education, and the level
\* is set.
ProfilesFollowComments ==
  LET Found(profiles) == [a \in DOMAIN profiles |->
                            [profiles[a] EXCEPT !.evidence = ToSet(@)]]
      merged == Merged([n \in DOMAIN Chunks |-> Classify(Chunks[n])])
  IN /\ Found(merged) = Found(Classify([i \in 1..Len(comments) |-> i]))
     /\ \A a \in DOMAIN merged : IsInjective(merged[a].evidence)
     /\ \A a \in Author :
          Detected(a) = "POTENTIAL_PARENT" =>
            /\ Level(a) # "NONE"
            /\ \A i \in By(a) : Hits[comments[i].text].promotion = 0
            /\ \E i \in By(a) :
                 LET h == Hits[comments[i].text]
                 IN h.demand + h.intent > 0 /\ (h.education \union ContextEducation(i)) # {}
=============================================================================
