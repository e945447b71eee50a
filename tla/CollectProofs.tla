---------------------------- MODULE CollectProofs ----------------------------
(***************************************************************************)
(* What collecting commands and jobs leave in the catalogue, for any number *)
(* of processes, steps, candidates, identifiers and faults.                 *)
(***************************************************************************)
EXTENDS Collect, GeneralLemmas

(***************************************************************************)
(* Types                                                                    *)
(***************************************************************************)
UrlTables == UNION {[S -> UrlRows]: S \in SUBSET Urls}
Tables ==
    [documents: Seq(Documents), urls: UrlTables, evidence: SUBSET EvidenceRows,
     steps: SUBSET StepRows, events: SUBSET EventRows, queries: Nat]

TypeInv ==
    /\ TypeOK
    /\ db \in Tables /\ work \in Tables
    /\ todo \in [Collectors -> SUBSET Nat]

\* What Tables says of a table is what TypeOK says.
LEMMA TablesOK == \A t \in Tables: DbOK(t)
BY DEF Tables, UrlTables, DbOK

\* The parts of a candidate.
LEMMA CandidateType ==
    ASSUME NEW cand \in Candidates
    PROVE  /\ cand.url \in Urls /\ cand.source \in Sources
           /\ cand.doi \in Dois \cup {None} /\ cand.isbn \in Isbns \cup {None}
           /\ cand.evidence \in SUBSET Evidence
BY CollectAssumption

\* A set of positions that is not empty has a least one.
LEMMA Least ==
    ASSUME NEW n \in Nat, NEW P \in SUBSET (1 .. n), P # {}
    PROVE  \E m \in P: \A k \in P: m <= k
<1> DEFINE starts == {P \cap 1 .. i: i \in P}
<1>1. \A i \in P: IsFiniteSet(P \cap 1 .. i)
  BY FS_Interval, FS_Subset
<1>2. starts \subseteq FiniteSubsetsOf(P) /\ starts # {}
  BY <1>1 DEF FiniteSubsetsOf
<1>3. \E T \in starts: \A U \in starts: <<U, T>> \notin StrictSubsetOrdering(P)
  <2> HIDE DEF starts
  <2> QED
    BY <1>2, FS_StrictSubsetOrderingWellFounded, WFMin
<1>4. PICK m \in P: \A k \in P: <<P \cap 1 .. k, P \cap 1 .. m>> \notin StrictSubsetOrdering(P)
  BY <1>3
<1>5. ASSUME NEW k \in P, k < m PROVE FALSE
  <2>1. P \cap 1 .. k \subseteq P \cap 1 .. m /\ m \in P \cap 1 .. m /\ m \notin P \cap 1 .. k
    BY <1>5
  <2> QED
    BY <1>4, <2>1 DEF StrictSubsetOrdering
<1> QED
  BY <1>5

\* The candidate to be saved next is one of those to be saved.
LEMMA NextOfType ==
    ASSUME TypeInv, NEW c \in Collectors, todo[c] # {}
    PROVE  NextOf(c) \in todo[c] /\ NextOf(c) \in DOMAIN batch[c] /\ batch[c][NextOf(c)] \in Candidates
<1>1. batch[c] \in Seq(Candidates) /\ todo[c] \subseteq 1 .. Len(batch[c]) /\ Len(batch[c]) \in Nat
  BY DEF TypeInv, TypeOK
<1>2. \E i \in todo[c]: \A k \in todo[c]: i <= k
  BY <1>1, Least
<1>3. NextOf(c) \in todo[c]
  BY <1>2 DEF NextOf
<1> QED
  BY <1>1, <1>3

(***************************************************************************)
(* What saving one candidate does to the tables                             *)
(***************************************************************************)
\* a known URL learns a source
SourceLearned(t, s, cand) ==
    /\ cand.url \in DOMAIN t.urls
    /\ s.documents = t.documents /\ s.evidence = t.evidence
    /\ DOMAIN s.urls = DOMAIN t.urls
    /\ \A u \in DOMAIN t.urls:
          /\ s.urls[u].doc = t.urls[u].doc /\ s.urls[u].by = t.urls[u].by
          /\ s.urls[u].sources = IF u = cand.url THEN t.urls[u].sources \cup {cand.source}
                                 ELSE t.urls[u].sources

\* a new URL and its evidence are about one document
UrlAdded(t, s, cand, doc, q) ==
    /\ cand.url \notin DOMAIN t.urls
    /\ DOMAIN s.urls = DOMAIN t.urls \cup {cand.url}
    /\ \A u \in DOMAIN t.urls: s.urls[u] = t.urls[u]
    /\ s.urls[cand.url] = [doc |-> doc, sources |-> {cand.source}, by |-> q]
    /\ s.evidence = t.evidence \cup
          {[doc |-> doc, url |-> cand.url, value |-> e]: e \in cand.evidence}

\* which is inserted
DocumentAdded(t, s, cand, doc, q) ==
    /\ Existing(t, cand) = {}
    /\ doc = Len(t.documents) + 1
    /\ s.documents = Append(t.documents, [doi |-> cand.doi, isbn |-> cand.isbn, by |-> q])

\* or learns identifiers
DocumentIdentified(t, s, cand, doc) ==
    /\ Existing(t, cand) # {}
    /\ doc \in DOMAIN t.documents
    /\ s.documents = [t.documents EXCEPT ![doc] = Identified(@, cand)]

\* A document that learns identifiers is a document of the same run.
LEMMA IdentifiedType ==
    ASSUME NEW d \in Documents, NEW cand \in Candidates
    PROVE  Identified(d, cand) \in Documents /\ Identified(d, cand).by = d.by
BY CandidateType DEF Identified, Coalesce, Documents

\* A candidate is taken to be a document that is there.
LEMMA ExistingPlaces ==
    ASSUME NEW t \in Tables, NEW cand
    PROVE  Existing(t, cand) \subseteq DOMAIN t.documents
BY DEF Existing, SameDoi, SameIsbn

\* The fields of a table row that WithDocument writes.
LEMMA WithDocumentFields ==
    ASSUME NEW t \in Tables, NEW cand \in Candidates, NEW doc \in Nat, NEW q \in Nat,
           cand.url \notin DOMAIN t.urls
    PROVE  LET s == WithDocument(t, cand, doc, q)
           IN  /\ UrlAdded(t, s, cand, doc, q)
               /\ s.urls \in UrlTables
               /\ s.documents = IF doc \in DOMAIN t.documents
                                THEN [t.documents EXCEPT ![doc] = Identified(@, cand)]
                                ELSE Append(t.documents, [doi |-> cand.doi, isbn |-> cand.isbn, by |-> q])
               /\ s.steps = t.steps /\ s.events = t.events /\ s.queries = t.queries
               /\ DOMAIN s = DOMAIN t
               /\ s = [documents |-> s.documents, urls |-> s.urls, evidence |-> s.evidence,
                       steps |-> s.steps, events |-> s.events, queries |-> s.queries]
<1> DEFINE s == WithDocument(t, cand, doc, q)
           row == [doc |-> doc, sources |-> {cand.source}, by |-> q]
           urls == [u \in DOMAIN t.urls \cup {cand.url} |-> IF u \in DOMAIN t.urls THEN t.urls[u] ELSE row]
<1> DEFINE documents == IF doc \in DOMAIN t.documents
                        THEN [t.documents EXCEPT ![doc] = Identified(@, cand)]
                        ELSE Append(t.documents, [doi |-> cand.doi, isbn |-> cand.isbn, by |-> q])
           evidence == t.evidence \cup
                          {[doc |-> doc, url |-> cand.url, value |-> e]: e \in cand.evidence}
<1>0. s = [t EXCEPT !.documents = documents, !.urls = urls, !.evidence = evidence]
  BY DEF WithDocument
<1> HIDE DEF s
<1>1. /\ s.urls = urls /\ s.documents = documents /\ s.evidence = evidence
      /\ s.steps = t.steps /\ s.events = t.events /\ s.queries = t.queries
      /\ DOMAIN s = DOMAIN t
      /\ s = [documents |-> s.documents, urls |-> s.urls, evidence |-> s.evidence,
              steps |-> s.steps, events |-> s.events, queries |-> s.queries]
  <2> HIDE DEF urls, documents, evidence
  <2> QED
    BY <1>0 DEF Tables
<1>2. row \in UrlRows /\ cand.url \in Urls
  BY CandidateType DEF UrlRows
<1>3. PICK S \in SUBSET Urls: t.urls \in [S -> UrlRows]
  BY DEF Tables, UrlTables
<1>4. urls \in [S \cup {cand.url} -> UrlRows]
  BY <1>2, <1>3
<1>5. urls \in UrlTables
  BY <1>2, <1>4 DEF UrlTables
<1>6. UrlAdded(t, s, cand, doc, q)
  BY <1>1 DEF UrlAdded
<1> QED
  BY <1>1, <1>5, <1>6 DEF s

\* Saving a candidate adds a source to its URL, or adds the URL to a document.
LEMMA SavedShape ==
    ASSUME NEW t \in Tables, NEW cand \in Candidates, NEW q \in Nat
    PROVE  LET s == Saved(t, cand, q)
           IN  /\ s \in Tables
               /\ s.steps = t.steps /\ s.events = t.events /\ s.queries = t.queries
               /\ \/ SourceLearned(t, s, cand)
                  \/ \E doc \in Nat:
                        /\ UrlAdded(t, s, cand, doc, q)
                        /\ DocumentAdded(t, s, cand, doc, q) \/ DocumentIdentified(t, s, cand, doc)
<1> DEFINE s == Saved(t, cand, q)
<1> SUFFICES /\ s \in Tables
             /\ s.steps = t.steps /\ s.events = t.events /\ s.queries = t.queries
             /\ \/ SourceLearned(t, s, cand)
                \/ \E doc \in Nat:
                      /\ UrlAdded(t, s, cand, doc, q)
                      /\ DocumentAdded(t, s, cand, doc, q) \/ DocumentIdentified(t, s, cand, doc)
  OBVIOUS
<1>1. t.documents \in Seq(Documents) /\ Len(t.documents) \in Nat /\ DOMAIN t.documents = 1 .. Len(t.documents)
  BY DEF Tables
<1>2. CASE cand.url \in DOMAIN t.urls
  <2>1. s = WithOccurrence(t, cand)
    BY <1>2 DEF Saved
  <2>2. PICK S \in SUBSET Urls: t.urls \in [S -> UrlRows]
    BY DEF Tables, UrlTables
  <2> DEFINE row == [t.urls[cand.url] EXCEPT !.sources = @ \cup {cand.source}]
             urls == [t.urls EXCEPT ![cand.url] = row]
  <2>3. /\ s = [documents |-> t.documents, urls |-> urls, evidence |-> t.evidence,
                steps |-> t.steps, events |-> t.events, queries |-> t.queries]
    BY <2>1 DEF WithOccurrence, Tables
  <2>4. row \in UrlRows /\ row.doc = t.urls[cand.url].doc /\ row.by = t.urls[cand.url].by
           /\ row.sources = t.urls[cand.url].sources \cup {cand.source}
    BY <1>2, <2>2, CandidateType DEF UrlRows
  <2> HIDE DEF row
  <2>5. urls \in [S -> UrlRows] /\ urls[cand.url] = row
           /\ \A u \in S: u # cand.url => urls[u] = t.urls[u]
    BY <1>2, <2>2, <2>4
  <2>6. s \in Tables
    BY <2>3, <2>5 DEF Tables, UrlTables
  <2>7. SourceLearned(t, s, cand)
    BY <1>2, <2>2, <2>3, <2>4, <2>5 DEF SourceLearned
  <2> QED
    BY <2>3, <2>6, <2>7
<1>3. CASE cand.url \notin DOMAIN t.urls
  <2> DEFINE doc == IF Existing(t, cand) = {} THEN Len(t.documents) + 1
                    ELSE CHOOSE i \in Existing(t, cand): TRUE
  <2>1. s = WithDocument(t, cand, doc, q)
    BY <1>3 DEF Saved
  <2>2. Existing(t, cand) # {} => doc \in DOMAIN t.documents
    BY ExistingPlaces
  <2>3. doc \in Nat
    BY <1>1, <2>2
  <2>4. Existing(t, cand) = {} => doc \notin DOMAIN t.documents /\ doc = Len(t.documents) + 1
    BY <1>1
  <2> HIDE DEF doc, s
  <2>5. /\ UrlAdded(t, s, cand, doc, q)
        /\ s.urls \in UrlTables
        /\ s.documents = IF doc \in DOMAIN t.documents
                         THEN [t.documents EXCEPT ![doc] = Identified(@, cand)]
                         ELSE Append(t.documents, [doi |-> cand.doi, isbn |-> cand.isbn, by |-> q])
        /\ s.steps = t.steps /\ s.events = t.events /\ s.queries = t.queries
        /\ s = [documents |-> s.documents, urls |-> s.urls, evidence |-> s.evidence,
                steps |-> s.steps, events |-> s.events, queries |-> s.queries]
    BY <1>3, <2>1, <2>3, WithDocumentFields
  <2>6. s.documents \in Seq(Documents)
    <3>1. CASE doc \in DOMAIN t.documents
      <4>1. Identified(t.documents[doc], cand) \in Documents
        BY <1>1, <3>1, IdentifiedType
      <4>2. s.documents = [t.documents EXCEPT ![doc] = Identified(t.documents[doc], cand)]
        BY <2>5, <3>1
      <4> QED
        BY <1>1, <3>1, <4>1, <4>2, ExceptSeq
    <3>2. CASE doc \notin DOMAIN t.documents
      <4>1. [doi |-> cand.doi, isbn |-> cand.isbn, by |-> q] \in Documents
        BY CandidateType DEF Documents
      <4> QED
        BY <1>1, <2>5, <3>2, <4>1
    <3> QED
      BY <3>1, <3>2
  <2>7. s.evidence \in SUBSET EvidenceRows
    BY <2>3, <2>5, CandidateType DEF UrlAdded, Tables, EvidenceRows
  <2>8. s \in Tables
    BY <2>5, <2>6, <2>7 DEF Tables
  <2>9. DocumentAdded(t, s, cand, doc, q) \/ DocumentIdentified(t, s, cand, doc)
    BY <2>2, <2>4, <2>5 DEF DocumentAdded, DocumentIdentified
  <2> QED
    BY <2>3, <2>5, <2>8, <2>9
<1> QED
  BY <1>2, <1>3

(***************************************************************************)
(* What a step does to the tables                                           *)
(***************************************************************************)
\* the tables that hold the catalogue
Kept(t, s) == s.documents = t.documents /\ s.urls = t.urls /\ s.evidence = t.evidence

\* One candidate more is in the open transaction.
Saving(c) ==
    /\ writer' = writer /\ db' = db
    /\ pc[c] = "saving" /\ todo[c] # {}
    /\ work' = Saved(work, batch[c][NextOf(c)], query[c])

\* All writing but that of a candidate leaves the catalogue as one side sees it.
TablesMove ==
    \/ Kept(db, db') /\ Kept(db, work')
    \/ Kept(work, db') /\ Kept(work, work')
    \/ \E c \in Collectors: Saving(c)
    \/ UNCHANGED <<db, work>>

\* The catalogue does not change with what else a transaction writes: with queries,
LEMMA QueriesWritten ==
    ASSUME NEW t \in Tables, NEW n \in Nat
    PROVE  LET s == [t EXCEPT !.queries = n]
           IN  /\ s \in Tables /\ Kept(t, s)
               /\ s.steps = t.steps /\ s.events = t.events /\ s.queries = n
BY DEF Tables, Kept

\* nor with collection_steps
LEMMA StepsWritten ==
    ASSUME NEW t \in Tables, NEW rows \in SUBSET StepRows
    PROVE  LET s == [t EXCEPT !.steps = rows]
           IN  /\ s \in Tables /\ Kept(t, s)
               /\ s.steps = rows /\ s.events = t.events /\ s.queries = t.queries
BY DEF Tables, Kept

\* nor with events.
LEMMA EventsWritten ==
    ASSUME NEW t \in Tables, NEW rows \in SUBSET EventRows
    PROVE  LET s == [t EXCEPT !.events = rows]
           IN  /\ s \in Tables /\ Kept(t, s)
               /\ s.steps = t.steps /\ s.events = rows /\ s.queries = t.queries
BY DEF Tables, Kept

\* A batch is a sequence of candidates, and a job saves places of it.
LEMMA BatchType ==
    ASSUME NEW b \in Batches
    PROVE  b \in Seq(Candidates) /\ Fresh(b, {}) \subseteq DOMAIN b /\ DOMAIN b \in SUBSET Nat
<1>1. PICK n \in 0 .. MaxBatch: b \in [1 .. n -> Candidates]
  BY DEF Batches
<1>2. n \in Nat
  BY CollectAssumption
<1> QED
  BY <1>1, <1>2 DEF Fresh

\* What a batch finds is pairs of a URL and a source.
LEMMA FoundAtType ==
    ASSUME NEW b \in Seq(Candidates), NEW P \in SUBSET DOMAIN b
    PROVE  FoundAt(b, P) \in Found
<1>1. \A i \in P: b[i] \in Candidates
  OBVIOUS
<1>2. \A i \in P: <<b[i].url, b[i].source>> \in Urls \X Sources
  BY <1>1, CandidateType
<1> QED
  BY <1>2 DEF FoundAt, Found

\* The empty database is typed.
LEMMA TypeInit == Init => TypeInv
<1> SUFFICES ASSUME Init PROVE TypeInv
  OBVIOUS
<1>1. EmptyDb \in Tables
  <2>1. <<>> \in UrlTables
    BY DEF UrlTables
  <2> QED
    BY <2>1 DEF EmptyDb, Tables
<1>2. NoSummary \in Summaries
  BY DEF NoSummary, Summaries
<1> QED
  BY <1>1, <1>2, TablesOK, CollectAssumption DEF Init, TypeInv, TypeOK, Found

\* StartCollect keeps the types.
LEMMA StartCollectType ==
    ASSUME TypeInv, NEW c \in Collectors, StartCollect(c)
    PROVE  TypeInv' /\ TablesMove
<1>1. db' = [db EXCEPT !.queries = db.queries + 1] /\ work' = db'
  BY DEF StartCollect, Commit
<1>2. db' \in Tables /\ Kept(db, db')
  <2>1. db.queries + 1 \in Nat /\ db \in Tables
    BY DEF TypeInv, Tables
  <2> QED
    BY <1>1, <2>1, QueriesWritten
<1>3. query' \in [Collectors -> Nat]
  BY DEF StartCollect, TypeInv, TypeOK, Tables
<1>4. pc' \in [Collectors -> {"idle", "searching", "saving", "ended", "failed"}]
  BY DEF StartCollect, TypeInv, TypeOK, Goto
<1> QED
  BY <1>1, <1>2, <1>3, <1>4, TablesOK DEF StartCollect, TypeInv, TypeOK, TablesMove

\* Rows of collection_steps,
LEMMA StepRowType ==
    ASSUME TypeInv, NEW c \in Collectors, NEW n \in Nat,
           NEW st \in {"running", "completed", "failed"}, NEW pairs \in Found
    PROVE  StepRow(c, n, st, pairs) \in StepRows
BY DEF StepRow, StepRows, TypeInv, TypeOK

\* sums of summaries,
LEMMA PlusType ==
    ASSUME NEW s1 \in Summaries, NEW s2 \in Summaries
    PROVE  Plus(s1, s2) \in Summaries
BY DEF Plus, Summaries

\* and counts of one more candidate, field by field.
LEMMA CountedType ==
    ASSUME NEW s \in Summaries, NEW outcome
    PROVE  /\ Counted(s, outcome) \in Summaries
           /\ Counted(s, outcome).total = s.total
           /\ Counted(s, outcome).new = IF outcome = "new" THEN s.new + 1 ELSE s.new
           /\ Counted(s, outcome).updated = IF outcome = "updated" THEN s.updated + 1 ELSE s.updated
           /\ Counted(s, outcome).duplicate =
                 IF outcome = "duplicate" THEN s.duplicate + 1 ELSE s.duplicate
BY DEF Counted, Summaries

\* What is left to save, and the count it begins with, have their types.
LEMMA SaveFromType ==
    ASSUME TypeInv, NEW c \in Collectors, NEW b \in Seq(Candidates), NEW P \in SUBSET DOMAIN b,
           SaveFrom(c, b, P)
    PROVE  /\ batch' \in [Collectors -> Seq(Candidates)]
           /\ todo' \in [Collectors -> SUBSET Nat]
           /\ \A d \in Collectors: todo'[d] \subseteq DOMAIN batch'[d]
           /\ found' \in [Collectors -> Found]
           /\ stepSum' \in [Collectors -> Summaries]
<1>1. /\ batch \in [Collectors -> Seq(Candidates)]
      /\ todo \in [Collectors -> SUBSET Nat]
      /\ \A d \in Collectors: todo[d] \subseteq DOMAIN batch[d]
      /\ found \in [Collectors -> Found]
      /\ stepSum \in [Collectors -> Summaries]
  BY DEF TypeInv, TypeOK
<1>2. FoundAt(b, DOMAIN b) \in Found
  BY FoundAtType
<1>3. P \in SUBSET Nat /\ P \in SUBSET (1 .. Len(b)) /\ Len(b) \in Nat
  OBVIOUS
<1>4. Cardinality(P) \in Nat
  <2>1. IsFiniteSet(1 .. Len(b))
    BY <1>3, FS_Interval
  <2>2. IsFiniteSet(P)
    BY <1>3, <2>1, FS_Subset
  <2> QED
    BY <2>2, FS_CardinalityType
<1>5. [NoSummary EXCEPT !.total = Cardinality(P)] \in Summaries
  BY <1>4 DEF NoSummary, Summaries
<1>6. /\ batch' = [batch EXCEPT ![c] = b] /\ todo' = [todo EXCEPT ![c] = P]
      /\ found' = [found EXCEPT ![c] = FoundAt(b, DOMAIN b)]
      /\ stepSum' = [stepSum EXCEPT ![c] = [NoSummary EXCEPT !.total = Cardinality(P)]]
  BY DEF SaveFrom
<1>7. \A d \in Collectors: todo'[d] \subseteq DOMAIN batch'[d]
  BY <1>1, <1>6
<1> QED
  BY <1>1, <1>2, <1>3, <1>5, <1>6, <1>7

\* FailedStep keeps the types.
LEMMA FailedStepType ==
    ASSUME TypeInv, NEW c \in Collectors, FailedStep(c)
    PROVE  TypeInv' /\ TablesMove
<1> DEFINE rows == db.steps \cup {StepRow(c, stepCount[c] + 1, "failed", {})}
<1>1. db' = [db EXCEPT !.steps = rows] /\ work' = db'
  BY DEF FailedStep, Commit
<1>2. db \in Tables /\ rows \in SUBSET StepRows
  <2>1. stepCount[c] + 1 \in Nat /\ {} \in Found
    BY DEF TypeInv, TypeOK, Found
  <2> QED
    BY <2>1, StepRowType DEF TypeInv, Tables
<1>3. db' \in Tables /\ Kept(db, db')
  BY <1>1, <1>2, StepsWritten
<1>4. stepCount' \in [Collectors -> Nat]
  BY DEF FailedStep, TypeInv, TypeOK
<1> QED
  BY <1>1, <1>3, <1>4, TablesOK DEF FailedStep, TypeInv, TypeOK, TablesMove

\* BeginStep keeps the types.
LEMMA BeginStepType ==
    ASSUME TypeInv, NEW c \in Collectors, NEW b \in Batches, BeginStep(c, b)
    PROVE  TypeInv' /\ TablesMove
<1> DEFINE rows == db.steps \cup {StepRow(c, stepCount[c] + 1, "running", {})}
           P == Fresh(b, seen[c])
<1>1. work' = [db EXCEPT !.steps = rows] /\ db' = db
  BY DEF BeginStep
<1>2. db \in Tables /\ rows \in SUBSET StepRows
  <2>1. stepCount[c] + 1 \in Nat /\ {} \in Found
    BY DEF TypeInv, TypeOK, Found
  <2> QED
    BY <2>1, StepRowType DEF TypeInv, Tables
<1>3. work' \in Tables /\ Kept(db, work')
  BY <1>1, <1>2, StepsWritten
<1>4. b \in Seq(Candidates) /\ P \in SUBSET DOMAIN b
  BY BatchType DEF Fresh
<1>5. /\ batch' \in [Collectors -> Seq(Candidates)]
      /\ todo' \in [Collectors -> SUBSET Nat]
      /\ \A d \in Collectors: todo'[d] \subseteq DOMAIN batch'[d]
      /\ found' \in [Collectors -> Found]
      /\ stepSum' \in [Collectors -> Summaries]
  BY <1>4, SaveFromType DEF BeginStep
<1>6. {b[i].url: i \in DOMAIN b} \subseteq Urls
  BY <1>4, CandidateType
<1>7. seen' \in [Collectors -> SUBSET Urls]
  BY <1>6 DEF BeginStep, TypeInv, TypeOK
<1>8. /\ stepCount' \in [Collectors -> Nat]
      /\ pc' \in [Collectors -> {"idle", "searching", "saving", "ended", "failed"}]
      /\ writer' \in Collectors
  BY DEF BeginStep, TypeInv, TypeOK, Goto
<1>9. UNCHANGED <<db, mode, query, summary, faults>>
  BY DEF BeginStep
<1> QED
  BY <1>1, <1>3, <1>5, <1>7, <1>8, <1>9, TablesOK DEF TypeInv, TypeOK, TablesMove, Kept

\* StartJob keeps the types.
LEMMA StartJobType ==
    ASSUME TypeInv, NEW c \in Collectors, NEW b \in Batches, StartJob(c, b)
    PROVE  TypeInv' /\ TablesMove
<1>1. work' = [db EXCEPT !.queries = db.queries + 1] /\ db' = db
  BY DEF StartJob
<1>2. work' \in Tables /\ Kept(db, work')
  <2>1. db.queries + 1 \in Nat /\ db \in Tables
    BY DEF TypeInv, Tables
  <2> QED
    BY <1>1, <2>1, QueriesWritten
<1>3. b \in Seq(Candidates)
  BY BatchType
<1>4. /\ batch' \in [Collectors -> Seq(Candidates)]
      /\ todo' \in [Collectors -> SUBSET Nat]
      /\ \A d \in Collectors: todo'[d] \subseteq DOMAIN batch'[d]
      /\ found' \in [Collectors -> Found]
      /\ stepSum' \in [Collectors -> Summaries]
  BY <1>3, SaveFromType DEF StartJob
<1>5. /\ query' \in [Collectors -> Nat]
      /\ mode' \in [Collectors -> {"collect", "job"}]
      /\ pc' \in [Collectors -> {"idle", "searching", "saving", "ended", "failed"}]
      /\ writer' \in Collectors
  BY DEF StartJob, TypeInv, TypeOK, Goto, Tables
<1>6. UNCHANGED <<db, seen, summary, stepCount, faults>>
  BY DEF StartJob
<1> QED
  BY <1>1, <1>2, <1>4, <1>5, <1>6, TablesOK DEF TypeInv, TypeOK, TablesMove, Kept

\* CommitStep keeps the types.
LEMMA CommitStepType ==
    ASSUME TypeInv, NEW c \in Collectors, CommitStep(c)
    PROVE  TypeInv' /\ TablesMove
<1> DEFINE rows == (work.steps \ {StepRow(c, stepCount[c], "running", {})})
                      \cup {StepRow(c, stepCount[c], "completed", found[c])}
<1>1. db' = [work EXCEPT !.steps = rows] /\ work' = db'
  BY DEF CommitStep, Commit
<1>2. work \in Tables /\ rows \in SUBSET StepRows
  <2>1. stepCount[c] \in Nat /\ found[c] \in Found
    BY DEF TypeInv, TypeOK
  <2> QED
    BY <2>1, StepRowType DEF TypeInv, Tables
<1>3. db' \in Tables /\ Kept(work, db')
  BY <1>1, <1>2, StepsWritten
<1>4. summary' \in [Collectors -> Summaries]
  BY PlusType DEF CommitStep, TypeInv, TypeOK
<1>5. pc' \in [Collectors -> {"idle", "searching", "saving", "ended", "failed"}]
  BY DEF CommitStep, TypeInv, TypeOK, Goto
<1> QED
  BY <1>1, <1>3, <1>4, <1>5, TablesOK DEF CommitStep, TypeInv, TypeOK, TablesMove

\* Rows of events.
LEMMA EventType ==
    ASSUME NEW q \in Nat, NEW s \in Summaries, NEW pairs \in Found
    PROVE  Event(q, s, pairs) \in EventRows
BY DEF Event, EventRows

\* FinishCollection keeps the types.
LEMMA FinishCollectionType ==
    ASSUME TypeInv, NEW c \in Collectors, FinishCollection(c)
    PROVE  TypeInv' /\ TablesMove
<1> DEFINE rows == db.events \cup {Event(query[c], summary[c], {})}
<1>1. db' = [db EXCEPT !.events = rows] /\ work' = db'
  BY DEF FinishCollection, Commit
<1>2. db \in Tables /\ rows \in SUBSET EventRows
  <2>1. query[c] \in Nat /\ summary[c] \in Summaries /\ {} \in Found
    BY DEF TypeInv, TypeOK, Found
  <2> QED
    BY <2>1, EventType DEF TypeInv, Tables
<1>3. db' \in Tables /\ Kept(db, db')
  BY <1>1, <1>2, EventsWritten
<1>4. pc' \in [Collectors -> {"idle", "searching", "saving", "ended", "failed"}]
  BY DEF FinishCollection, TypeInv, TypeOK, Goto
<1> QED
  BY <1>1, <1>3, <1>4, TablesOK DEF FinishCollection, TypeInv, TypeOK, TablesMove

\* CommitJob keeps the types.
LEMMA CommitJobType ==
    ASSUME TypeInv, NEW c \in Collectors, CommitJob(c)
    PROVE  TypeInv' /\ TablesMove
<1> DEFINE rows == work.events \cup {Event(query[c], stepSum[c], found[c])}
<1>1. db' = [work EXCEPT !.events = rows] /\ work' = db'
  BY DEF CommitJob, Commit
<1>2. work \in Tables /\ rows \in SUBSET EventRows
  <2>1. query[c] \in Nat /\ stepSum[c] \in Summaries /\ found[c] \in Found
    BY DEF TypeInv, TypeOK
  <2> QED
    BY <2>1, EventType DEF TypeInv, Tables
<1>3. db' \in Tables /\ Kept(work, db')
  BY <1>1, <1>2, EventsWritten
<1>4. pc' \in [Collectors -> {"idle", "searching", "saving", "ended", "failed"}]
  BY DEF CommitJob, TypeInv, TypeOK, Goto
<1> QED
  BY <1>1, <1>3, <1>4, TablesOK DEF CommitJob, TypeInv, TypeOK, TablesMove

\* SaveCandidate keeps the types.
LEMMA SaveCandidateType ==
    ASSUME TypeInv, NEW c \in Collectors, SaveCandidate(c)
    PROVE  TypeInv' /\ TablesMove
<1> DEFINE cand == batch[c][NextOf(c)]
<1>1. todo[c] # {} /\ cand \in Candidates /\ query[c] \in Nat /\ work \in Tables
  BY NextOfType DEF SaveCandidate, TypeInv, TypeOK
<1>2. work' = Saved(work, cand, query[c]) /\ UNCHANGED <<db, writer>>
  BY DEF SaveCandidate
<1>3. work' \in Tables
  BY <1>1, <1>2, SavedShape
<1>4. stepSum' \in [Collectors -> Summaries]
  BY CountedType DEF SaveCandidate, TypeInv, TypeOK
<1>5. todo' \in [Collectors -> SUBSET Nat] /\ \A d \in Collectors: todo'[d] \subseteq todo[d]
  BY DEF SaveCandidate, TypeInv, TypeOK
<1>6. Saving(c)
  BY DEF Saving, SaveCandidate
<1> QED
  BY <1>3, <1>4, <1>5, <1>6, TablesOK DEF SaveCandidate, TypeInv, TypeOK, TablesMove

\* A run that is refused or killed keeps the types.
LEMMA EndType ==
    ASSUME TypeInv, NEW c \in Collectors, CandidateRejected(c) \/ Busy(c) \/ Crash(c)
    PROVE  TypeInv' /\ TablesMove
<1>1. \/ db' = db /\ work' = db /\ writer' = NoCollector
      \/ UNCHANGED <<db, work, writer>>
  BY DEF CandidateRejected, Busy, Crash, Rollback
<1>2. /\ pc' = [pc EXCEPT ![c] = "failed"]
      /\ faults' \in Nat
      /\ UNCHANGED <<mode, query, batch, todo, found, seen, summary, stepSum, stepCount>>
  BY DEF CandidateRejected, Busy, Crash, Goto, TypeInv, TypeOK
<1>3. pc' \in [Collectors -> {"idle", "searching", "saving", "ended", "failed"}]
  BY <1>2 DEF TypeInv, TypeOK
<1> QED
  BY <1>1, <1>2, <1>3, TablesOK DEF TypeInv, TypeOK, TablesMove, Kept

\* Every step keeps the types, and moves the tables in one of four ways.
LEMMA TypeNext == TypeInv /\ [Next]_vars => TypeInv' /\ TablesMove
<1> SUFFICES ASSUME TypeInv, [Next]_vars PROVE TypeInv' /\ TablesMove
  OBVIOUS
<1>1. ASSUME NEW c \in Collectors, Start(c) PROVE TypeInv' /\ TablesMove
  BY <1>1, StartCollectType, StartJobType DEF Start
<1>2. ASSUME NEW c \in Collectors, Advance(c) PROVE TypeInv' /\ TablesMove
  <2>1. CandidateRejected(c) => TypeInv' /\ TablesMove
    BY EndType
  <2> QED
    BY <1>2, <2>1, FailedStepType, BeginStepType, SaveCandidateType, CommitStepType,
       FinishCollectionType, CommitJobType DEF Advance
<1>3. ASSUME NEW c \in Collectors, Busy(c) \/ Crash(c) PROVE TypeInv' /\ TablesMove
  BY <1>3, EndType
<1>4. CASE UNCHANGED vars
  BY <1>4 DEF vars, localVars, TypeInv, TypeOK, TablesMove, DbOK
<1> QED
  BY <1>1, <1>2, <1>3, <1>4 DEF Next, AllEnded

\* The tables, the places of the candidates and the counts have their types in every
\* reachable state, for any processes, candidates and bounds.
THEOREM TypeCorrect == Spec => []TypeOK
<1>1. TypeInv => TypeOK
  BY DEF TypeInv
<1> QED
  BY <1>1, TypeInit, TypeNext, PTL DEF Spec

(***************************************************************************)
(* Evidence is about the document of its URL                                *)
(***************************************************************************)
EvidenceOK(t) == \A e \in t.evidence: e.url \in DOMAIN t.urls /\ t.urls[e.url].doc = e.doc

EvidenceInv == TypeInv /\ EvidenceOK(db) /\ EvidenceOK(work)

\* Saving a candidate leaves evidence about the document of its URL.
LEMMA SavedEvidence ==
    ASSUME NEW t \in Tables, NEW cand \in Candidates, NEW q \in Nat, EvidenceOK(t)
    PROVE  EvidenceOK(Saved(t, cand, q))
<1> DEFINE s == Saved(t, cand, q)
<1>1. CASE SourceLearned(t, s, cand)
  BY <1>1 DEF SourceLearned, EvidenceOK
<1>2. ASSUME NEW doc \in Nat, UrlAdded(t, s, cand, doc, q) PROVE EvidenceOK(s)
  <2>1. ASSUME NEW e \in t.evidence PROVE e.url \in DOMAIN s.urls /\ s.urls[e.url].doc = e.doc
    BY <1>2 DEF UrlAdded, EvidenceOK
  <2>2. s.urls[cand.url].doc = doc /\ cand.url \in DOMAIN s.urls
    BY <1>2 DEF UrlAdded
  <2> QED
    BY <1>2, <2>1, <2>2 DEF UrlAdded, EvidenceOK
<1> QED
  BY <1>1, <1>2, SavedShape

\* Every step does.
LEMMA EvidenceNext == EvidenceInv /\ [Next]_vars => EvidenceInv'
<1> SUFFICES ASSUME EvidenceInv, [Next]_vars PROVE EvidenceInv'
  OBVIOUS
<1>1. TypeInv /\ TypeInv' /\ TablesMove
  BY TypeNext DEF EvidenceInv
<1>2. ASSUME NEW c \in Collectors, Saving(c) PROVE EvidenceOK(db') /\ EvidenceOK(work')
  <2>1. batch[c][NextOf(c)] \in Candidates /\ query[c] \in Nat /\ work \in Tables
    BY <1>1, <1>2, NextOfType DEF Saving, TypeInv, TypeOK
  <2> QED
    BY <1>2, <2>1, SavedEvidence DEF Saving, EvidenceInv
<1>3. EvidenceOK(db') /\ EvidenceOK(work')
  BY <1>1, <1>2 DEF TablesMove, Kept, EvidenceOK, EvidenceInv
<1> QED
  BY <1>1, <1>3 DEF EvidenceInv, EvidenceOK

\* Whatever identifiers later candidates of a URL carry, and whatever other processes
\* write, the license evidence that is read is about the document its URL belongs to.
THEOREM EvidenceStays == Spec => []EvidenceFollowsUrl
<1>1. Init => EvidenceInv
  BY TypeInit DEF Init, EmptyDb, EvidenceInv, EvidenceOK
<1>2. EvidenceInv => EvidenceFollowsUrl
  BY DEF EvidenceInv, EvidenceOK, EvidenceFollowsUrl
<1> QED
  BY <1>1, <1>2, EvidenceNext, PTL DEF Spec

(***************************************************************************)
(* The catalogue only grows                                                 *)
(***************************************************************************)
Extends(t, s) ==
    /\ Len(t.documents) <= Len(s.documents)
    /\ t.evidence \subseteq s.evidence
    /\ \A u \in DOMAIN t.urls:
          /\ u \in DOMAIN s.urls
          /\ s.urls[u].doc = t.urls[u].doc
          /\ t.urls[u].sources \subseteq s.urls[u].sources

KnownInv == TypeInv /\ Extends(db, work)

\* Saving a candidate only adds to the tables.
LEMMA SavedExtends ==
    ASSUME NEW t \in Tables, NEW cand \in Candidates, NEW q \in Nat
    PROVE  Extends(t, Saved(t, cand, q))
<1> DEFINE s == Saved(t, cand, q)
<1>1. Len(t.documents) \in Nat /\ DOMAIN t.documents = 1 .. Len(t.documents)
         /\ t.documents \in Seq(Documents)
  BY DEF Tables
<1>2. ASSUME SourceLearned(t, s, cand) PROVE Extends(t, s)
  <2> HIDE DEF s
  <2>1. \A u \in DOMAIN t.urls: t.urls[u].sources \subseteq s.urls[u].sources
    BY <1>2 DEF SourceLearned
  <2>2. Len(t.documents) <= Len(s.documents)
    BY <1>1, <1>2 DEF SourceLearned
  <2>3. t.evidence \subseteq s.evidence
    BY <1>2 DEF SourceLearned
  <2>4. \A u \in DOMAIN t.urls: u \in DOMAIN s.urls /\ s.urls[u].doc = t.urls[u].doc
    BY <1>2 DEF SourceLearned
  <2> QED
    BY <2>1, <2>2, <2>3, <2>4 DEF Extends
<1>3. ASSUME NEW doc \in Nat, UrlAdded(t, s, cand, doc, q),
             DocumentAdded(t, s, cand, doc, q) \/ DocumentIdentified(t, s, cand, doc)
      PROVE  Extends(t, s)
  <2>1. CASE DocumentAdded(t, s, cand, doc, q)
    <3> DEFINE row == [doi |-> cand.doi, isbn |-> cand.isbn, by |-> q]
    <3>1. s.documents = Append(t.documents, row) /\ row \in Documents
      BY <2>1, CandidateType DEF DocumentAdded, Documents
    <3> HIDE DEF row
    <3> QED
      BY <1>1, <1>3, <3>1 DEF UrlAdded, Extends
  <2>2. CASE DocumentIdentified(t, s, cand, doc)
    <3>1. Identified(t.documents[doc], cand) \in Documents
      BY <1>1, <2>2, IdentifiedType DEF DocumentIdentified
    <3>2. Len(s.documents) = Len(t.documents)
      BY <1>1, <2>2, <3>1, ExceptSeq DEF DocumentIdentified
    <3> QED
      BY <1>1, <1>3, <3>2 DEF UrlAdded, Extends
  <2> QED
    BY <1>3, <2>1, <2>2
<1> QED
  BY <1>2, <1>3, SavedShape

\* Every step only adds to what is committed.
LEMMA KnownNext == KnownInv /\ [Next]_vars => KnownInv' /\ Extends(db, db')
<1> SUFFICES ASSUME KnownInv, [Next]_vars PROVE KnownInv' /\ Extends(db, db')
  OBVIOUS
<1>1. TypeInv /\ TypeInv' /\ TablesMove
  BY TypeNext DEF KnownInv
<1>2. Len(db.documents) \in Nat /\ Len(work.documents) \in Nat
  BY <1>1 DEF TypeInv, Tables
<1>3. ASSUME NEW c \in Collectors, Saving(c) PROVE Extends(db', work') /\ Extends(db, db')
  <2>1. batch[c][NextOf(c)] \in Candidates /\ query[c] \in Nat /\ work \in Tables
    BY <1>1, <1>3, NextOfType DEF Saving, TypeInv, TypeOK
  <2>2. Extends(work, work') /\ db' = db
    BY <1>3, <2>1, SavedExtends DEF Saving
  <2>3. Len(work'.documents) \in Nat
    BY <1>1 DEF TypeInv, Tables
  <2> QED
    BY <1>2, <2>2, <2>3 DEF KnownInv, Extends
<1>4. ASSUME Kept(db, db') /\ Kept(db, work')
      PROVE  Extends(db', work') /\ Extends(db, db')
  BY <1>2, <1>4 DEF Kept, Extends
<1>5. ASSUME Kept(work, db') /\ Kept(work, work')
      PROVE  Extends(db', work') /\ Extends(db, db')
  BY <1>2, <1>5 DEF Kept, Extends, KnownInv
<1>6. ASSUME UNCHANGED <<db, work>>
      PROVE  Extends(db', work') /\ Extends(db, db')
  BY <1>2, <1>6 DEF Extends, KnownInv
<1>7. Extends(db', work') /\ Extends(db, db')
  BY <1>1, <1>3, <1>4, <1>5, <1>6 DEF TablesMove
<1> QED
  BY <1>1, <1>7 DEF KnownInv, Extends

\* No transaction, whether it commits, is refused or dies, takes a document, a URL, a
\* source or evidence from the catalogue, or gives a URL to another document.
THEOREM KnownKept == Spec => KnownStaysKnown
<1>1. Init => KnownInv
  BY TypeInit DEF Init, EmptyDb, KnownInv, Extends
<1>2. KnownInv /\ [Next]_vars =>
        [ /\ Len(db.documents) <= Len(db'.documents)
          /\ db.evidence \subseteq db'.evidence
          /\ \A u \in DOMAIN db.urls:
                /\ u \in DOMAIN db'.urls
                /\ db'.urls[u].doc = db.urls[u].doc
                /\ db.urls[u].sources \subseteq db'.urls[u].sources ]_vars
  BY KnownNext DEF Extends
<1> QED
  BY <1>1, <1>2, KnownNext, PTL DEF Spec, KnownStaysKnown

(***************************************************************************)
(* The counts that the command and the daemon report are those of the rows  *)
(* in the catalogue, however the transactions of other processes fall       *)
(* between their own.                                                       *)
(***************************************************************************)

(***************************************************************************)
(* The rows of a run                                                        *)
(***************************************************************************)
DocsBy(t, q) == {i \in DOMAIN t.documents: t.documents[i].by = q}
UrlsBy(t, q) == {u \in DOMAIN t.urls: t.urls[u].by = q}

\* No row is of a run that is still to begin.
Bounded(t) ==
    /\ \A i \in DOMAIN t.documents: t.documents[i].by <= t.queries
    /\ \A u \in DOMAIN t.urls: t.urls[u].by <= t.queries
    /\ \A e \in t.events: e.query <= t.queries

\* Only the rows of one run differ.
SameBut(t, s, q) ==
    \A r \in Nat: r # q => DocsBy(s, r) = DocsBy(t, r) /\ UrlsBy(s, r) = UrlsBy(t, r)

\* The count x of run q says what its rows in t are, but for `left` candidates.
Balance(t, q, x, left) ==
    /\ x.new = Cardinality(DocsBy(t, q))
    /\ x.new + x.updated = Cardinality(UrlsBy(t, q))
    /\ x.total = x.new + x.updated + x.duplicate + left

\* A run has finitely many rows, so that they can be counted.
LEMMA RowsFinite ==
    ASSUME NEW t \in Tables, IsFiniteSet(DOMAIN t.urls), NEW q
    PROVE  /\ IsFiniteSet(DocsBy(t, q)) /\ Cardinality(DocsBy(t, q)) \in Nat
           /\ IsFiniteSet(UrlsBy(t, q)) /\ Cardinality(UrlsBy(t, q)) \in Nat
<1>1. t.documents \in Seq(Documents)
  BY DEF Tables
<1>2. DOMAIN t.documents = 1 .. Len(t.documents) /\ Len(t.documents) \in Nat
  BY <1>1
<1>3. IsFiniteSet(1 .. Len(t.documents))
  BY <1>2, FS_Interval
<1>4. DocsBy(t, q) \subseteq 1 .. Len(t.documents) /\ UrlsBy(t, q) \subseteq DOMAIN t.urls
  BY <1>2 DEF DocsBy, UrlsBy
<1>5. IsFiniteSet(DocsBy(t, q)) /\ IsFiniteSet(UrlsBy(t, q))
  BY <1>3, <1>4, FS_Subset
<1> QED
  BY <1>5, FS_CardinalityType

\* Which rows a saved candidate adds, by what it is counted as.
LEMMA SavedRows ==
    ASSUME NEW t \in Tables, NEW cand \in Candidates, NEW q \in Nat
    PROVE  LET s == Saved(t, cand, q)
           IN  \/ /\ Outcome(t, cand) = "duplicate"
                  /\ DOMAIN s.urls = DOMAIN t.urls
                  /\ \A r: DocsBy(s, r) = DocsBy(t, r) /\ UrlsBy(s, r) = UrlsBy(t, r)
               \/ /\ Outcome(t, cand) \in {"new", "updated"}
                  /\ cand.url \notin DOMAIN t.urls
                  /\ DOMAIN s.urls = DOMAIN t.urls \cup {cand.url}
                  /\ \A r: r # q => UrlsBy(s, r) = UrlsBy(t, r)
                  /\ UrlsBy(s, q) = UrlsBy(t, q) \cup {cand.url}
                  /\ \A r: r # q => DocsBy(s, r) = DocsBy(t, r)
                  /\ DocsBy(s, q) = IF Outcome(t, cand) = "updated" THEN DocsBy(t, q)
                                    ELSE DocsBy(t, q) \cup {Len(t.documents) + 1}
<1> DEFINE s == Saved(t, cand, q)
<1>0. t.documents \in Seq(Documents) /\ DOMAIN t.documents = 1 .. Len(t.documents)
         /\ Len(t.documents) \in Nat
  BY DEF Tables
<1>1. CASE SourceLearned(t, s, cand)
  <2> HIDE DEF s
  <2>1. Outcome(t, cand) = "duplicate"
    BY <1>1 DEF SourceLearned, Outcome
  <2>2. \A r: DocsBy(s, r) = DocsBy(t, r)
    BY <1>1 DEF SourceLearned, DocsBy
  <2>3. \A r: UrlsBy(s, r) = UrlsBy(t, r)
    <3>1. DOMAIN s.urls = DOMAIN t.urls /\ \A u \in DOMAIN t.urls: s.urls[u].by = t.urls[u].by
      BY <1>1 DEF SourceLearned
    <3> QED
      BY <3>1 DEF UrlsBy
  <2>4. DOMAIN s.urls = DOMAIN t.urls
    BY <1>1 DEF SourceLearned
  <2> QED
    BY <2>1, <2>2, <2>3, <2>4 DEF s
<1>2. ASSUME NEW doc \in Nat, UrlAdded(t, s, cand, doc, q),
             DocumentAdded(t, s, cand, doc, q) \/ DocumentIdentified(t, s, cand, doc)
      PROVE  /\ Outcome(t, cand) \in {"new", "updated"}
             /\ cand.url \notin DOMAIN t.urls
             /\ DOMAIN s.urls = DOMAIN t.urls \cup {cand.url}
             /\ \A r: r # q => UrlsBy(s, r) = UrlsBy(t, r)
             /\ UrlsBy(s, q) = UrlsBy(t, q) \cup {cand.url}
             /\ \A r: r # q => DocsBy(s, r) = DocsBy(t, r)
             /\ DocsBy(s, q) = IF Outcome(t, cand) = "updated" THEN DocsBy(t, q)
                               ELSE DocsBy(t, q) \cup {Len(t.documents) + 1}
  <2> HIDE DEF s
  <2>1. /\ cand.url \notin DOMAIN t.urls
        /\ DOMAIN s.urls = DOMAIN t.urls \cup {cand.url}
        /\ \A u \in DOMAIN t.urls: s.urls[u].by = t.urls[u].by
        /\ s.urls[cand.url].by = q
    BY <1>2 DEF UrlAdded
  <2>2. \A r: r # q => UrlsBy(s, r) = UrlsBy(t, r)
    BY <2>1 DEF UrlsBy
  <2>3. UrlsBy(s, q) = UrlsBy(t, q) \cup {cand.url}
    BY <2>1 DEF UrlsBy
  <2>4. CASE DocumentAdded(t, s, cand, doc, q)
    <3> DEFINE row == [doi |-> cand.doi, isbn |-> cand.isbn, by |-> q]
    <3>1. Outcome(t, cand) = "new"
      BY <2>1, <2>4 DEF DocumentAdded, Outcome
    <3>2. s.documents = Append(t.documents, row) /\ row \in Documents /\ row.by = q
      BY <2>4, CandidateType DEF DocumentAdded, Documents
    <3> HIDE DEF row
    <3>3. /\ DOMAIN s.documents = DOMAIN t.documents \cup {Len(t.documents) + 1}
          /\ \A i \in DOMAIN t.documents: s.documents[i] = t.documents[i]
          /\ s.documents[Len(t.documents) + 1] = row
          /\ Len(t.documents) + 1 \notin DOMAIN t.documents
      BY <1>0, <3>2
    <3>4. \A r: r # q => DocsBy(s, r) = DocsBy(t, r)
      BY <3>2, <3>3 DEF DocsBy
    <3>5. DocsBy(s, q) = DocsBy(t, q) \cup {Len(t.documents) + 1}
      BY <3>2, <3>3 DEF DocsBy
    <3> QED
      BY <2>1, <2>2, <2>3, <3>1, <3>4, <3>5
  <2>5. CASE DocumentIdentified(t, s, cand, doc)
    <3>1. Outcome(t, cand) = "updated"
      BY <2>1, <2>5 DEF DocumentIdentified, Outcome
    <3> DEFINE row == Identified(t.documents[doc], cand)
    <3>2. row \in Documents /\ row.by = t.documents[doc].by /\ doc \in DOMAIN t.documents
      BY <1>0, <2>5, IdentifiedType DEF DocumentIdentified
    <3>3. s.documents = [t.documents EXCEPT ![doc] = row]
      BY <2>5 DEF DocumentIdentified
    <3> HIDE DEF row
    <3>4. DOMAIN s.documents = DOMAIN t.documents
             /\ \A i \in DOMAIN t.documents: s.documents[i].by = t.documents[i].by
      BY <1>0, <3>2, <3>3
    <3>5. \A r: DocsBy(s, r) = DocsBy(t, r)
      BY <3>4 DEF DocsBy
    <3> QED
      BY <2>1, <2>2, <2>3, <3>1, <3>5
  <2> QED
    BY <1>2, <2>4, <2>5
<1> QED
  BY <1>1, <1>2, SavedShape

\* A saved candidate is counted once, and as what it was.
LEMMA SavedCount ==
    ASSUME NEW t \in Tables, IsFiniteSet(DOMAIN t.urls), NEW cand \in Candidates, NEW q \in Nat,
           NEW x \in Summaries, NEW y \in Summaries, NEW left \in Nat,
           Balance(t, q, Plus(x, y), left + 1)
    PROVE  /\ IsFiniteSet(DOMAIN Saved(t, cand, q).urls)
           /\ SameBut(t, Saved(t, cand, q), q)
           /\ Balance(Saved(t, cand, q), q, Plus(x, Counted(y, Outcome(t, cand))), left)
<1> DEFINE s == Saved(t, cand, q)
           o == Outcome(t, cand)
           z == Plus(x, Counted(y, o))
<1>1. /\ IsFiniteSet(DocsBy(t, q)) /\ Cardinality(DocsBy(t, q)) \in Nat
      /\ IsFiniteSet(UrlsBy(t, q)) /\ Cardinality(UrlsBy(t, q)) \in Nat
  BY RowsFinite
<1>2. /\ x.new \in Nat /\ x.updated \in Nat /\ x.duplicate \in Nat /\ x.total \in Nat
      /\ y.new \in Nat /\ y.updated \in Nat /\ y.duplicate \in Nat /\ y.total \in Nat
  BY DEF Summaries
<1>3. /\ x.new + y.new = Cardinality(DocsBy(t, q))
      /\ x.new + y.new + (x.updated + y.updated) = Cardinality(UrlsBy(t, q))
      /\ x.total + y.total = x.new + y.new + (x.updated + y.updated) + (x.duplicate + y.duplicate) + (left + 1)
  BY DEF Balance, Plus
<1>4. /\ z.new = x.new + (IF o = "new" THEN y.new + 1 ELSE y.new)
      /\ z.updated = x.updated + (IF o = "updated" THEN y.updated + 1 ELSE y.updated)
      /\ z.duplicate = x.duplicate + (IF o = "duplicate" THEN y.duplicate + 1 ELSE y.duplicate)
      /\ z.total = x.total + y.total
  BY CountedType DEF Plus
<1>t. z.total = x.total + y.total
  BY <1>4
<1>5. Len(t.documents) + 1 \notin DocsBy(t, q)
  <2>1. t.documents \in Seq(Documents)
    BY DEF Tables
  <2> QED
    BY <2>1 DEF DocsBy
<1> HIDE DEF s, o, z
<1>6. CASE /\ o = "duplicate"
           /\ DOMAIN s.urls = DOMAIN t.urls
           /\ \A r: DocsBy(s, r) = DocsBy(t, r) /\ UrlsBy(s, r) = UrlsBy(t, r)
  <2>1. z.new = x.new + y.new /\ z.updated = x.updated + y.updated
           /\ z.duplicate = x.duplicate + (y.duplicate + 1)
    BY <1>4, <1>6
  <2>2. Balance(s, q, z, left)
    BY <1>1, <1>2, <1>3, <1>4, <1>6, <2>1 DEF Balance
  <2> QED
    BY <1>6, <2>2 DEF SameBut, s, o, z
<1>7. CASE /\ o \in {"new", "updated"}
           /\ cand.url \notin DOMAIN t.urls
           /\ DOMAIN s.urls = DOMAIN t.urls \cup {cand.url}
           /\ \A r: r # q => UrlsBy(s, r) = UrlsBy(t, r)
           /\ UrlsBy(s, q) = UrlsBy(t, q) \cup {cand.url}
           /\ \A r: r # q => DocsBy(s, r) = DocsBy(t, r)
           /\ DocsBy(s, q) = IF o = "updated" THEN DocsBy(t, q)
                             ELSE DocsBy(t, q) \cup {Len(t.documents) + 1}
  <2>1. Cardinality(UrlsBy(s, q)) = Cardinality(UrlsBy(t, q)) + 1
    <3>1. cand.url \notin UrlsBy(t, q)
      BY <1>7 DEF UrlsBy
    <3>2. UrlsBy(s, q) = UrlsBy(t, q) \cup {cand.url}
      BY <1>7
    <3>3. IsFiniteSet(UrlsBy(t, q))
      BY <1>1
    <3> DEFINE U == UrlsBy(t, q)
    <3> DEFINE V == UrlsBy(s, q)
    <3> DEFINE u == cand.url
    <3>4. IsFiniteSet(U) /\ u \notin U /\ V = U \cup {u}
      BY <3>1, <3>2, <3>3
    <3> HIDE DEF U, V, u
    <3>5. Cardinality(V) = Cardinality(U) + 1
      BY <3>4, FS_AddElement
    <3> QED
      BY <3>5 DEF U, V
  <2>2. o = "new" => Cardinality(DocsBy(s, q)) = Cardinality(DocsBy(t, q)) + 1
    <3> DEFINE i == Len(t.documents) + 1
    <3>1. o = "new" => DocsBy(s, q) = DocsBy(t, q) \cup {i}
      BY <1>7
    <3>2. i \notin DocsBy(t, q)
      BY <1>5
    <3> HIDE DEF i
    <3>3. Cardinality(DocsBy(t, q) \cup {i}) = Cardinality(DocsBy(t, q)) + 1
      BY <1>1, <3>2, FS_AddElement
    <3> QED
      BY <3>1, <3>3
  <2>3. ASSUME o = "new" PROVE Balance(s, q, z, left)
    <3>1. z.new = x.new + (y.new + 1) /\ z.updated = x.updated + y.updated
             /\ z.duplicate = x.duplicate + y.duplicate
      BY <1>4, <2>3
    <3>2. z.new = Cardinality(DocsBy(s, q))
      <4>1. Cardinality(DocsBy(s, q)) = Cardinality(DocsBy(t, q)) + 1
        BY <2>2, <2>3
      <4>2. x.new + (y.new + 1) = (x.new + y.new) + 1
        BY <1>2
      <4> QED
        BY <1>3, <3>1, <4>1, <4>2
    <3>3. z.new + z.updated = Cardinality(UrlsBy(s, q))
      BY <1>1, <1>2, <1>3, <2>1, <3>1
    <3>4. z.total = z.new + z.updated + z.duplicate + left
      BY <1>2, <1>3, <1>t, <3>1
    <3> QED
      BY <3>2, <3>3, <3>4 DEF Balance
  <2>4. ASSUME o = "updated" PROVE Balance(s, q, z, left)
    <3>1. z.new = x.new + y.new /\ z.updated = x.updated + (y.updated + 1)
             /\ z.duplicate = x.duplicate + y.duplicate
      BY <1>4, <2>4
    <3>2. Cardinality(DocsBy(s, q)) = Cardinality(DocsBy(t, q))
      BY <1>7, <2>4
    <3>3. z.new = Cardinality(DocsBy(s, q))
      BY <1>1, <1>2, <1>3, <3>1, <3>2
    <3>4. z.new + z.updated = Cardinality(UrlsBy(s, q))
      BY <1>1, <1>2, <1>3, <2>1, <3>1
    <3>5. z.total = z.new + z.updated + z.duplicate + left
      <4>1. x.total + y.total = (x.new + y.new) + (x.updated + (y.updated + 1))
                                   + (x.duplicate + y.duplicate) + left
        BY <1>2, <1>3
      <4> QED
        BY <1>t, <3>1, <4>1
    <3> QED
      BY <3>3, <3>4, <3>5 DEF Balance
  <2>5. Balance(s, q, z, left)
    BY <1>7, <2>3, <2>4
  <2>6. IsFiniteSet(DOMAIN s.urls)
    BY <1>7, FS_AddElement
  <2> QED
    BY <1>7, <2>5, <2>6 DEF SameBut, s, o, z
<1> QED
  BY <1>6, <1>7, SavedRows DEF s, o

\* A saved candidate adds rows of its own run only.
LEMMA SavedBounded ==
    ASSUME NEW t \in Tables, NEW cand \in Candidates, NEW q \in Nat, Bounded(t), q <= t.queries
    PROVE  Bounded(Saved(t, cand, q))
<1> DEFINE s == Saved(t, cand, q)
<1>1. s \in Tables /\ s.events = t.events /\ s.queries = t.queries
  BY SavedShape
<1>2. \A r: r # q => DocsBy(s, r) = DocsBy(t, r) /\ UrlsBy(s, r) = UrlsBy(t, r)
  BY SavedRows
<1> HIDE DEF s
<1>3. ASSUME NEW i \in DOMAIN s.documents PROVE s.documents[i].by <= s.queries
  <2> DEFINE r == s.documents[i].by
  <2>1. CASE r = q
    BY <1>1, <2>1
  <2>2. CASE r # q
    <3>1. i \in DocsBy(s, r)
      BY DEF DocsBy
    <3>2. i \in DocsBy(t, r)
      BY <1>2, <2>2, <3>1
    <3>3. i \in DOMAIN t.documents /\ t.documents[i].by = r
      BY <3>2 DEF DocsBy
    <3> QED
      BY <1>1, <3>3 DEF Bounded
  <2> QED
    BY <2>1, <2>2
<1>4. ASSUME NEW u \in DOMAIN s.urls PROVE s.urls[u].by <= s.queries
  <2> DEFINE r == s.urls[u].by
  <2>1. CASE r = q
    BY <1>1, <2>1
  <2>2. CASE r # q
    <3>1. u \in UrlsBy(s, r)
      BY DEF UrlsBy
    <3>2. u \in UrlsBy(t, r)
      BY <1>2, <2>2, <3>1
    <3>3. u \in DOMAIN t.urls /\ t.urls[u].by = r
      BY <3>2 DEF UrlsBy
    <3> QED
      BY <1>1, <3>3 DEF Bounded
  <2> QED
    BY <2>1, <2>2
<1>5. \A e \in s.events: e.query <= s.queries
  BY <1>1 DEF Bounded
<1> QED
  BY <1>3, <1>4, <1>5 DEF Bounded, s

(***************************************************************************)
(* The inductive invariant                                                  *)
(***************************************************************************)
\* Between its transactions, a run has counted all its rows.
RunOK(c) ==
    /\ query[c] <= db.queries
    /\ \A e \in db.events: e.query # query[c]
    /\ Balance(db, query[c], summary[c], 0)

\* In its transaction, all but the candidates still to save; and the rows of the other
\* runs are as they are committed.
TxOK(c) ==
    /\ query[c] <= work.queries /\ db.queries <= work.queries
    /\ work.events = db.events
    /\ \A e \in db.events: e.query # query[c]
    /\ mode[c] = "job" => summary[c] = NoSummary
    /\ Balance(work, query[c], Plus(summary[c], stepSum[c]), Cardinality(todo[c]))
    /\ SameBut(db, work, query[c])

Active(c) == pc[c] \in {"searching", "saving"}

CountInv ==
    /\ TypeInv
    /\ Bounded(db) /\ IsFiniteSet(DOMAIN db.urls)
    /\ Bounded(work) /\ IsFiniteSet(DOMAIN work.urls)
    /\ \A e \in db.events: Balance(db, e.query, e.summary, 0)
    /\ writer = NoCollector => work = db
    /\ \A c \in Collectors:
          /\ pc[c] = "saving" <=> writer = c
          /\ pc[c] = "idle" => summary[c] = NoSummary
          /\ pc[c] \in {"idle", "searching"} => mode[c] = "collect"
          /\ pc[c] = "searching" => RunOK(c)
          /\ writer = c => TxOK(c)
    /\ \A c, d \in Collectors: c # d /\ Active(c) /\ Active(d) => query[c] # query[d]

\* A transaction of c ends that wrote rows of run q at most.
LEMMA CountClosed ==
    ASSUME CountInv, TypeInv', NEW c \in Collectors, NEW q \in Nat,
           NEW label \in {"searching", "ended", "failed"},
           writer \in {NoCollector, c}, writer' = NoCollector, work' = db',
           Bounded(db'), IsFiniteSet(DOMAIN db'.urls), db.queries <= db'.queries,
           SameBut(db, db', q),
           \A d \in Collectors: d # c /\ Active(d) => query[d] # q,
           \A e \in db.events: e.query # q,
           \A e \in db'.events: e \in db.events \/ (e.query = q /\ Balance(db', q, e.summary, 0)),
           pc' = [pc EXCEPT ![c] = label],
           \A d \in Collectors:
              d # c => query'[d] = query[d] /\ mode'[d] = mode[d] /\ summary'[d] = summary[d],
           label = "searching" => query'[c] = q /\ mode'[c] = "collect" /\ RunOK(c)'
    PROVE  CountInv'
<1>0. /\ pc \in [Collectors -> {"idle", "searching", "saving", "ended", "failed"}]
      /\ query \in [Collectors -> Nat] /\ db \in Tables /\ db' \in Tables
  BY DEF CountInv, TypeInv, TypeOK
<1>1. \A d \in Collectors: writer' # d
  BY CollectAssumption
<1>2. pc'[c] = label /\ \A d \in Collectors: d # c => pc'[d] = pc[d] /\ pc[d] # "saving"
  BY <1>0, CollectAssumption DEF CountInv
<1>3. ASSUME NEW e \in db'.events PROVE Balance(db', e.query, e.summary, 0)
  <2>1. CASE e \in db.events
    <3>1. Balance(db, e.query, e.summary, 0) /\ e.query # q /\ e.query \in Nat
      BY <1>0, <2>1 DEF CountInv, Tables, EventRows
    <3> QED
      BY <3>1 DEF SameBut, Balance
  <2>2. CASE e.query = q /\ Balance(db', q, e.summary, 0)
    BY <2>2
  <2> QED
    BY <2>1, <2>2
<1>4. ASSUME NEW d \in Collectors, pc'[d] = "searching" PROVE RunOK(d)'
  <2>1. CASE d = c
    BY <1>2, <1>4, <2>1
  <2>2. CASE d # c
    <3>1. RunOK(d) /\ query'[d] = query[d] /\ summary'[d] = summary[d] /\ query[d] # q
      BY <1>2, <1>4, <2>2 DEF CountInv, Active
    <3>2. query[d] \in Nat /\ db.queries \in Nat /\ db'.queries \in Nat
      BY <1>0 DEF Tables
    <3>3. query'[d] <= db'.queries
      BY <3>1, <3>2 DEF RunOK
    <3>4. \A e \in db'.events: e.query # query'[d]
      BY <3>1 DEF RunOK
    <3>5. Balance(db', query'[d], summary'[d], 0)
      BY <3>1, <3>2 DEF RunOK, SameBut, Balance
    <3> QED
      BY <3>3, <3>4, <3>5 DEF RunOK
  <2> QED
    BY <2>1, <2>2
<1>5. ASSUME NEW d \in Collectors
      PROVE  /\ pc'[d] = "saving" <=> writer' = d
             /\ pc'[d] = "idle" => summary'[d] = NoSummary
             /\ pc'[d] \in {"idle", "searching"} => mode'[d] = "collect"
             /\ writer' = d => TxOK(d)'
  <2>1. CASE d = c
    BY <1>1, <1>2, <2>1
  <2>2. CASE d # c
    BY <1>1, <1>2, <2>2 DEF CountInv
  <2> QED
    BY <2>1, <2>2
<1>6. ASSUME NEW d \in Collectors, NEW k \in Collectors, d # k, Active(d)', Active(k)'
      PROVE  query'[d] # query'[k]
  <2>1. CASE d # c /\ k # c
    BY <1>2, <1>6, <2>1 DEF CountInv, Active
  <2>2. CASE d = c
    <3>1. label = "searching" /\ k # c /\ Active(k)
      BY <1>2, <1>6, <2>2 DEF Active
    <3> QED
      BY <2>2, <3>1
  <2>3. CASE k = c
    <3>1. label = "searching" /\ d # c /\ Active(d)
      BY <1>2, <1>6, <2>3 DEF Active
    <3> QED
      BY <2>3, <3>1
  <2> QED
    BY <2>1, <2>2, <2>3
<1>7. Bounded(db)' /\ Bounded(work)'
  BY DEF Bounded
<1>8. (\A e \in db.events: Balance(db, e.query, e.summary, 0))'
  BY <1>3 DEF Balance, DocsBy, UrlsBy
<1> QED
  BY <1>4, <1>5, <1>6, <1>7, <1>8 DEF CountInv

\* A transaction of c begins.
LEMMA CountOpened ==
    ASSUME CountInv, TypeInv', NEW c \in Collectors, TxOK(c)',
           writer = NoCollector, writer' = c, db' = db,
           Bounded(work'), IsFiniteSet(DOMAIN work'.urls),
           pc' = [pc EXCEPT ![c] = "saving"],
           \A d \in Collectors: d # c /\ Active(d) => query[d] # query'[c],
           \A d \in Collectors:
              d # c => query'[d] = query[d] /\ mode'[d] = mode[d] /\ summary'[d] = summary[d]
    PROVE  CountInv'
<1>1. pc \in [Collectors -> {"idle", "searching", "saving", "ended", "failed"}]
  BY DEF CountInv, TypeInv, TypeOK
<1>2. pc'[c] = "saving" /\ \A d \in Collectors: d # c => pc'[d] = pc[d]
  BY <1>1
<1>3. \A d \in Collectors: pc[d] # "saving" /\ writer # d
  BY CollectAssumption DEF CountInv
<1>4. ASSUME NEW d \in Collectors
      PROVE  /\ pc'[d] = "saving" <=> writer' = d
             /\ pc'[d] = "idle" => summary'[d] = NoSummary
             /\ pc'[d] \in {"idle", "searching"} => mode'[d] = "collect"
             /\ pc'[d] = "searching" => RunOK(d)'
             /\ writer' = d => TxOK(d)'
  <2>1. CASE d = c
    BY <1>2, <2>1
  <2>2. CASE d # c
    <3>1. RunOK(d) => RunOK(d)'
      BY <2>2 DEF RunOK, Balance, DocsBy, UrlsBy
    <3> QED
      BY <1>2, <1>3, <2>2, <3>1 DEF CountInv
  <2> QED
    BY <2>1, <2>2
<1>5. ASSUME NEW d \in Collectors, NEW k \in Collectors, d # k, Active(d)', Active(k)'
      PROVE  query'[d] # query'[k]
  BY <1>2, <1>5 DEF CountInv, Active
<1>6. /\ (Bounded(db) /\ IsFiniteSet(DOMAIN db.urls))'
      /\ (Bounded(work) /\ IsFiniteSet(DOMAIN work.urls))'
      /\ (\A e \in db.events: Balance(db, e.query, e.summary, 0))'
  BY DEF CountInv, Bounded, Balance, DocsBy, UrlsBy
<1>7. writer' # NoCollector
  BY CollectAssumption
<1> QED
  BY <1>4, <1>5, <1>6, <1>7 DEF CountInv

\* Where the catalogue is the same, so are the rows and the counts of every run.
LEMMA KeptRows ==
    ASSUME NEW t, NEW s, Kept(t, s)
    PROVE  /\ DOMAIN s.urls = DOMAIN t.urls
           /\ \A r: DocsBy(s, r) = DocsBy(t, r) /\ UrlsBy(s, r) = UrlsBy(t, r)
           /\ \A q: SameBut(t, s, q)
           /\ \A q, x, left: Balance(t, q, x, left) => Balance(s, q, x, left)
BY DEF Kept, DocsBy, UrlsBy, SameBut, Balance

\* Ids of runs are numbers.
LEMMA Numbers ==
    ASSUME NEW t \in Tables
    PROVE  /\ t.queries \in Nat
           /\ \A e \in t.events: e.query \in Nat
           /\ \A i \in DOMAIN t.documents: t.documents[i].by \in Nat
           /\ \A u \in DOMAIN t.urls: t.urls[u].by \in Nat
<1>1. t.documents \in Seq(Documents) /\ t.queries \in Nat /\ t.events \in SUBSET EventRows
  BY DEF Tables
<1>2. \A i \in DOMAIN t.documents: t.documents[i] \in Documents
  BY <1>1
<1>3. PICK S \in SUBSET Urls: t.urls \in [S -> UrlRows]
  BY DEF Tables, UrlTables
<1>4. \A u \in DOMAIN t.urls: t.urls[u] \in UrlRows
  BY <1>3
<1> QED
  BY <1>1, <1>2, <1>4 DEF Documents, UrlRows, EventRows

\* The id after the last one has no rows yet.
LEMMA Unused ==
    ASSUME CountInv
    PROVE  LET q == db.queries + 1
           IN  /\ q \in Nat
               /\ Balance(db, q, NoSummary, 0)
               /\ \A e \in db.events: e.query # q
               /\ writer = NoCollector => \A d \in Collectors: Active(d) => query[d] # q
<1> DEFINE q == db.queries + 1
<1>1. db \in Tables /\ query \in [Collectors -> Nat]
  BY DEF CountInv, TypeInv, TypeOK
<1>2. db.queries \in Nat /\ \A e \in db.events: e.query \in Nat
  BY <1>1 DEF Tables, EventRows
<1>3. (\A i \in DOMAIN db.documents: db.documents[i].by \in Nat)
         /\ (\A u \in DOMAIN db.urls: db.urls[u].by \in Nat)
  BY <1>1, Numbers
<1>4. DocsBy(db, q) = {} /\ UrlsBy(db, q) = {}
  BY <1>2, <1>3 DEF CountInv, Bounded, DocsBy, UrlsBy
<1>5. Balance(db, q, NoSummary, 0)
  BY <1>4, FS_EmptySet DEF Balance, NoSummary
<1>6. \A e \in db.events: e.query # q
  BY <1>2 DEF CountInv, Bounded
<1>7. ASSUME writer = NoCollector, NEW d \in Collectors, Active(d) PROVE query[d] # q
  <2>1. query[d] <= db.queries
    BY <1>7, CollectAssumption DEF CountInv, Active, RunOK
  <2> QED
    BY <1>1, <1>2, <2>1
<1> QED
  BY <1>2, <1>5, <1>6, <1>7

\* A transaction starts with a count of what it has to save, and no row.
LEMMA CountBegun ==
    ASSUME NEW t, NEW q \in Nat, NEW x \in Summaries, Balance(t, q, x, 0), NEW n \in Nat
    PROVE  Balance(t, q, Plus(x, [NoSummary EXCEPT !.total = n]), n)
<1>1. x.new \in Nat /\ x.updated \in Nat /\ x.duplicate \in Nat /\ x.total \in Nat
  BY DEF Summaries
<1> QED
  BY <1>1 DEF Balance, Plus, NoSummary

\* A batch has finitely many places.
LEMMA PositionsFinite ==
    ASSUME NEW b \in Seq(Candidates), NEW P \in SUBSET DOMAIN b
    PROVE  IsFiniteSet(P) /\ Cardinality(P) \in Nat
<1>1. IsFiniteSet(1 .. Len(b)) /\ P \in SUBSET (1 .. Len(b))
  BY FS_Interval
<1> QED
  BY <1>1, FS_Subset, FS_CardinalityType

\* StartCollect keeps the counts.
LEMMA StartCollectCount ==
    ASSUME CountInv, TypeInv', NEW c \in Collectors, StartCollect(c)
    PROVE  CountInv'
<1> DEFINE q == db.queries + 1
<1>1. /\ db' = [db EXCEPT !.queries = q] /\ work' = db' /\ db \in Tables
      /\ pc[c] = "idle" /\ pc' = [pc EXCEPT ![c] = "searching"]
      /\ mode[c] = "collect" /\ mode' = mode /\ summary[c] = NoSummary /\ summary' = summary
      /\ query'[c] = q /\ \A d \in Collectors: d # c => query'[d] = query[d]
      /\ writer = NoCollector /\ writer' = NoCollector
  BY DEF StartCollect, Commit, Goto, Free, CountInv, TypeInv, TypeOK
<1>2. /\ q \in Nat /\ Balance(db, q, NoSummary, 0)
      /\ \A e \in db.events: e.query # q
      /\ \A d \in Collectors: Active(d) => query[d] # q
  BY <1>1, Unused
<1>3. Kept(db, db') /\ db'.events = db.events /\ db'.queries = q
  BY <1>1, <1>2, QueriesWritten
<1>4. /\ IsFiniteSet(DOMAIN db'.urls) /\ SameBut(db, db', q) /\ Balance(db', q, NoSummary, 0)
  BY <1>2, <1>3, KeptRows DEF CountInv
<1>5. Bounded(db') /\ db.queries <= db'.queries
  <2>1. db.queries \in Nat /\ (\A e \in db.events: e.query \in Nat)
           /\ (\A i \in DOMAIN db.documents: db.documents[i].by \in Nat)
           /\ (\A u \in DOMAIN db.urls: db.urls[u].by \in Nat)
    BY <1>1, Numbers
  <2> QED
    BY <1>3, <2>1 DEF Bounded, Kept, CountInv
<1>6. RunOK(c)'
  <2>1. query'[c] <= db'.queries
    BY <1>1, <1>2, <1>3
  <2> QED
    BY <1>1, <1>2, <1>3, <1>4, <2>1 DEF RunOK, Balance
<1> HIDE DEF q
<1> QED
  BY <1>1, <1>2, <1>3, <1>4, <1>5, <1>6, CountClosed

\* Steps and events are rows that are not counted.
LEMMA BoundKept ==
    ASSUME NEW t \in Tables, NEW s, Kept(t, s), s.queries = t.queries, Bounded(t),
           s.events = t.events
    PROVE  Bounded(s) /\ t.queries <= s.queries
BY Numbers DEF Kept, Bounded

\* FailedStep keeps the counts.
LEMMA FailedStepCount ==
    ASSUME CountInv, TypeInv', NEW c \in Collectors, FailedStep(c)
    PROVE  CountInv'
<1> DEFINE rows == db.steps \cup {StepRow(c, stepCount[c] + 1, "failed", {})}
           q == query[c]
<1>1. /\ db' = [db EXCEPT !.steps = rows] /\ work' = db' /\ db \in Tables
      /\ pc[c] = "searching" /\ pc' = [pc EXCEPT ![c] = "searching"]
      /\ mode[c] = "collect" /\ UNCHANGED <<mode, summary, query>>
      /\ q \in Nat
      /\ writer = NoCollector /\ writer' = NoCollector
  BY DEF FailedStep, Commit, Free, CountInv, TypeInv, TypeOK
<1>2. RunOK(c) /\ \A d \in Collectors: d # c /\ Active(d) => query[d] # q
  BY <1>1 DEF CountInv, Active
<1>3. rows \in SUBSET StepRows
  <2>1. TypeInv /\ {} \in Found
    BY DEF CountInv, Found
  <2>2. stepCount[c] + 1 \in Nat
    <3>1. stepCount \in [Collectors -> Nat]
      BY <2>1 DEF TypeInv, TypeOK
    <3> QED
      BY <3>1
  <2> QED
    BY <1>1, <2>1, <2>2, StepRowType DEF Tables
<1>4. Kept(db, db') /\ db'.events = db.events /\ db'.queries = db.queries
  BY <1>1, <1>3, StepsWritten
<1>5. IsFiniteSet(DOMAIN db'.urls) /\ SameBut(db, db', q) /\ Balance(db', q, summary[c], 0)
  BY <1>2, <1>4, KeptRows DEF CountInv, RunOK
<1>6. Bounded(db') /\ db.queries <= db'.queries
  <2>1. Bounded(db)
    BY DEF CountInv
  <2> QED
    BY <1>1, <1>4, <2>1, BoundKept
<1>7. RunOK(c)'
  BY <1>1, <1>2, <1>4, <1>5 DEF RunOK, Balance
<1> QED
  BY <1>1, <1>2, <1>4, <1>5, <1>6, <1>7, CountClosed DEF RunOK

\* FinishCollection keeps the counts.
LEMMA FinishCollectionCount ==
    ASSUME CountInv, TypeInv', NEW c \in Collectors, FinishCollection(c)
    PROVE  CountInv'
<1> DEFINE q == query[c]
           row == Event(q, summary[c], {})
           rows == db.events \cup {row}
<1>1. /\ db' = [db EXCEPT !.events = rows] /\ work' = db' /\ db \in Tables
      /\ pc[c] = "searching" /\ pc' = [pc EXCEPT ![c] = "ended"]
      /\ UNCHANGED <<mode, summary, query>>
      /\ q \in Nat /\ summary[c] \in Summaries
      /\ writer = NoCollector /\ writer' = NoCollector
  BY DEF FinishCollection, Commit, Goto, Free, CountInv, TypeInv, TypeOK
<1>2. RunOK(c) /\ \A d \in Collectors: d # c /\ Active(d) => query[d] # q
  BY <1>1 DEF CountInv, Active
<1>3. rows \in SUBSET EventRows /\ row.query = q /\ row.summary = summary[c]
  <2>1. {} \in Found
    BY DEF Found
  <2> QED
    BY <1>1, <2>1, EventType DEF Tables, Event
<1>4. Kept(db, db') /\ db'.events = rows /\ db'.queries = db.queries
  BY <1>1, <1>3, EventsWritten
<1> HIDE DEF row
<1>5. IsFiniteSet(DOMAIN db'.urls) /\ SameBut(db, db', q) /\ Balance(db', q, summary[c], 0)
  BY <1>2, <1>4, KeptRows DEF CountInv, RunOK
<1>6. Bounded(db') /\ db.queries <= db'.queries
  <2>1. \A e \in db'.events: e.query <= db'.queries
    BY <1>2, <1>3, <1>4 DEF CountInv, Bounded, RunOK
  <2> QED
    BY <1>1, <1>4, <2>1, Numbers DEF CountInv, Bounded, Kept
<1>7. \A e \in db'.events: e \in db.events \/ (e.query = q /\ Balance(db', q, e.summary, 0))
  BY <1>3, <1>4, <1>5
<1> QED
  BY <1>1, <1>2, <1>5, <1>6, <1>7, CountClosed DEF RunOK

\* BeginStep keeps the counts.
LEMMA BeginStepCount ==
    ASSUME CountInv, TypeInv', NEW c \in Collectors, NEW b \in Batches, BeginStep(c, b)
    PROVE  CountInv'
<1> DEFINE rows == db.steps \cup {StepRow(c, stepCount[c] + 1, "running", {})}
           P == Fresh(b, seen[c])
           q == query[c]
<1>1. /\ work' = [db EXCEPT !.steps = rows] /\ db' = db /\ db \in Tables
      /\ pc[c] = "searching" /\ pc' = [pc EXCEPT ![c] = "saving"]
      /\ mode[c] = "collect" /\ UNCHANGED <<mode, summary, query>>
      /\ q \in Nat /\ summary[c] \in Summaries
      /\ writer = NoCollector /\ writer' = c
  BY DEF BeginStep, Goto, Free, CountInv, TypeInv, TypeOK
<1>2. RunOK(c) /\ \A d \in Collectors: d # c /\ Active(d) => query[d] # q
  BY <1>1 DEF CountInv, Active
<1>3. rows \in SUBSET StepRows
  <2>1. TypeInv /\ {} \in Found
    BY DEF CountInv, Found
  <2>2. stepCount[c] + 1 \in Nat
    <3>1. stepCount \in [Collectors -> Nat]
      BY <2>1 DEF TypeInv, TypeOK
    <3> QED
      BY <3>1
  <2> QED
    BY <1>1, <2>1, <2>2, StepRowType DEF Tables
<1>4. Kept(db, work') /\ work'.events = db.events /\ work'.queries = db.queries
  BY <1>1, <1>3, StepsWritten
<1>5. todo'[c] = P /\ stepSum'[c] = [NoSummary EXCEPT !.total = Cardinality(P)]
  BY DEF BeginStep, SaveFrom, CountInv, TypeInv, TypeOK
<1>6. Cardinality(P) \in Nat
  <2>1. b \in Seq(Candidates) /\ P \in SUBSET DOMAIN b
    BY BatchType DEF Fresh
  <2> QED
    BY <2>1, PositionsFinite
<1> HIDE DEF P
<1>7. IsFiniteSet(DOMAIN work'.urls) /\ SameBut(db, work', q) /\ Balance(work', q, summary[c], 0)
  BY <1>2, <1>4, KeptRows DEF CountInv, RunOK
<1>8. Bounded(work') /\ db.queries <= work'.queries
  <2>1. Bounded(db)
    BY DEF CountInv
  <2> QED
    BY <1>1, <1>4, <2>1, BoundKept
<1>9. Balance(work', q, Plus(summary[c], stepSum'[c]), Cardinality(P))
  BY <1>1, <1>5, <1>6, <1>7, CountBegun
<1>10. TxOK(c)'
  <2>1. Balance(work, query[c], Plus(summary[c], stepSum[c]), Cardinality(todo[c]))'
    BY <1>1, <1>5, <1>9 DEF Balance, Plus, DocsBy, UrlsBy
  <2>2. SameBut(db, work, query[c])'
    BY <1>1, <1>7 DEF SameBut, DocsBy, UrlsBy
  <2> QED
    BY <1>1, <1>2, <1>4, <1>8, <2>1, <2>2 DEF TxOK, RunOK
<1> QED
  BY <1>1, <1>2, <1>7, <1>8, <1>10, CountOpened

\* StartJob keeps the counts.
LEMMA StartJobCount ==
    ASSUME CountInv, TypeInv', NEW c \in Collectors, NEW b \in Batches, StartJob(c, b)
    PROVE  CountInv'
<1> DEFINE P == DOMAIN b
           q == db.queries + 1
<1>1. /\ work' = [db EXCEPT !.queries = q] /\ db' = db /\ db \in Tables
      /\ pc[c] = "idle" /\ pc' = [pc EXCEPT ![c] = "saving"]
      /\ summary[c] = NoSummary /\ summary' = summary
      /\ query'[c] = q /\ \A d \in Collectors: d # c => query'[d] = query[d] /\ mode'[d] = mode[d]
      /\ writer = NoCollector /\ writer' = c
  BY DEF StartJob, Goto, Free, CountInv, TypeInv, TypeOK
<1>2. /\ q \in Nat /\ Balance(db, q, NoSummary, 0)
      /\ \A e \in db.events: e.query # q
      /\ \A d \in Collectors: Active(d) => query[d] # q
  BY <1>1, Unused
<1>3. Kept(db, work') /\ work'.events = db.events /\ work'.queries = q
  BY <1>1, <1>2, QueriesWritten
<1>4. todo'[c] = P /\ stepSum'[c] = [NoSummary EXCEPT !.total = Cardinality(P)]
  BY DEF StartJob, SaveFrom, CountInv, TypeInv, TypeOK
<1>5. Cardinality(P) \in Nat
  BY BatchType, PositionsFinite
<1> HIDE DEF P
<1>6. IsFiniteSet(DOMAIN work'.urls) /\ SameBut(db, work', q) /\ Balance(work', q, NoSummary, 0)
  BY <1>2, <1>3, KeptRows DEF CountInv
<1>7. Bounded(work') /\ db.queries <= work'.queries
  <2>1. db.queries \in Nat /\ (\A e \in db.events: e.query \in Nat)
           /\ (\A i \in DOMAIN db.documents: db.documents[i].by \in Nat)
           /\ (\A u \in DOMAIN db.urls: db.urls[u].by \in Nat)
    BY <1>1, Numbers
  <2> QED
    BY <1>3, <2>1 DEF Bounded, Kept, CountInv
<1>8. Balance(work', q, Plus(NoSummary, stepSum'[c]), Cardinality(P))
  <2>1. NoSummary \in Summaries
    BY DEF NoSummary, Summaries
  <2> QED
    BY <1>2, <1>4, <1>5, <1>6, <2>1, CountBegun
<1> HIDE DEF q
<1>9. TxOK(c)'
  <2>1. Balance(work, query[c], Plus(summary[c], stepSum[c]), Cardinality(todo[c]))'
    BY <1>1, <1>4, <1>8 DEF Balance, Plus, DocsBy, UrlsBy
  <2>2. SameBut(db, work, query[c])'
    BY <1>1, <1>6 DEF SameBut, DocsBy, UrlsBy
  <2> QED
    BY <1>1, <1>2, <1>3, <1>7, <2>1, <2>2 DEF TxOK
<1> QED
  BY <1>1, <1>2, <1>6, <1>7, <1>9, CountOpened

\* SaveCandidate keeps the counts.
LEMMA SaveCandidateCount ==
    ASSUME CountInv, TypeInv', NEW c \in Collectors, SaveCandidate(c)
    PROVE  CountInv'
<1> DEFINE i == NextOf(c)
           cand == batch[c][i]
           q == query[c]
           left == Cardinality(todo'[c])
<1>1. TypeInv /\ todo[c] # {} /\ pc[c] = "saving"
  BY DEF CountInv, SaveCandidate
<1>2. i \in todo[c] /\ i \in DOMAIN batch[c] /\ cand \in Candidates
  BY <1>1, NextOfType
<1>3. /\ work \in Tables /\ q \in Nat /\ summary[c] \in Summaries /\ stepSum[c] \in Summaries
      /\ batch[c] \in Seq(Candidates) /\ todo[c] \in SUBSET DOMAIN batch[c]
  BY <1>1 DEF TypeInv, TypeOK
<1>4. /\ work' = Saved(work, cand, q)
      /\ todo'[c] = todo[c] \ {i}
      /\ stepSum'[c] = Counted(stepSum[c], Outcome(work, cand))
      /\ UNCHANGED <<db, writer, pc, mode, query, summary>>
  BY <1>1 DEF SaveCandidate, TypeInv, TypeOK
<1>5. writer = c /\ TxOK(c) /\ Bounded(work) /\ IsFiniteSet(DOMAIN work.urls)
  BY <1>1 DEF CountInv
<1> HIDE DEF i
<1>6. left \in Nat /\ Cardinality(todo[c]) = left + 1
  <2>1. IsFiniteSet(todo[c]) /\ Cardinality(todo[c]) \in Nat
    BY <1>3, PositionsFinite
  <2>2. IsFiniteSet(todo[c] \ {i}) /\ Cardinality(todo[c] \ {i}) = Cardinality(todo[c]) - 1
    BY <1>2, <2>1, FS_RemoveElement
  <2>3. Cardinality(todo[c] \ {i}) \in Nat
    BY <2>2, FS_CardinalityType
  <2> QED
    BY <1>4, <2>1, <2>2, <2>3
<1>7. /\ IsFiniteSet(DOMAIN work'.urls)
      /\ SameBut(work, work', q)
      /\ Balance(work', q, Plus(summary[c], stepSum'[c]), left)
  <2>1. Balance(work, q, Plus(summary[c], stepSum[c]), left + 1)
    BY <1>5, <1>6 DEF TxOK
  <2> HIDE DEF left
  <2> QED
    BY <1>2, <1>3, <1>4, <1>5, <1>6, <2>1, SavedCount
<1>8. Bounded(work') /\ work'.events = work.events /\ work'.queries = work.queries
  BY <1>2, <1>3, <1>4, <1>5, SavedBounded, SavedShape DEF TxOK
<1>9. SameBut(db, work', q)
  BY <1>5, <1>7 DEF TxOK, SameBut
<1>10. TxOK(c)'
  <2>1. Balance(work, query[c], Plus(summary[c], stepSum[c]), Cardinality(todo[c]))'
    BY <1>4, <1>7 DEF Balance, Plus, DocsBy, UrlsBy
  <2>2. SameBut(db, work, query[c])'
    BY <1>4, <1>9 DEF SameBut, DocsBy, UrlsBy
  <2> QED
    BY <1>4, <1>5, <1>8, <2>1, <2>2 DEF TxOK
<1>11. \A d \in Collectors: writer' = d => d = c
  BY <1>4, <1>5
<1>12. /\ (Bounded(db) /\ IsFiniteSet(DOMAIN db.urls))'
       /\ (\A e \in db.events: Balance(db, e.query, e.summary, 0))'
       /\ \A d \in Collectors: RunOK(d) => RunOK(d)'
  <2>1. /\ (Bounded(db) /\ IsFiniteSet(DOMAIN db.urls))'
        /\ (\A e \in db.events: Balance(db, e.query, e.summary, 0))'
    BY <1>4 DEF CountInv, Bounded, Balance, DocsBy, UrlsBy
  <2>2. \A d \in Collectors: RunOK(d) => RunOK(d)'
    BY <1>4 DEF RunOK, Balance, DocsBy, UrlsBy
  <2> QED
    BY <2>1, <2>2
<1>13. writer' # NoCollector
  BY <1>4, <1>5, CollectAssumption
<1> QED
  BY <1>4, <1>7, <1>8, <1>10, <1>11, <1>12, <1>13 DEF CountInv, Active, Bounded

\* When all is saved, the rows of the run are those it has counted.
LEMMA AllCounted ==
    ASSUME CountInv, NEW c \in Collectors, pc[c] = "saving", todo[c] = {}
    PROVE  /\ writer = c /\ TxOK(c)
           /\ Balance(work, query[c], Plus(summary[c], stepSum[c]), 0)
           /\ \A d \in Collectors: d # c /\ Active(d) => query[d] # query[c]
<1>1. writer = c /\ TxOK(c)
  BY DEF CountInv
<1>2. Balance(work, query[c], Plus(summary[c], stepSum[c]), 0)
  BY <1>1, FS_EmptySet DEF TxOK
<1> QED
  BY <1>1, <1>2 DEF CountInv, Active

\* CommitStep keeps the counts.
LEMMA CommitStepCount ==
    ASSUME CountInv, TypeInv', NEW c \in Collectors, CommitStep(c)
    PROVE  CountInv'
<1> DEFINE q == query[c]
           rows == (work.steps \ {StepRow(c, stepCount[c], "running", {})})
                      \cup {StepRow(c, stepCount[c], "completed", found[c])}
           x == Plus(summary[c], stepSum[c])
<1>1. /\ db' = [work EXCEPT !.steps = rows] /\ work' = db' /\ work \in Tables
      /\ pc[c] = "saving" /\ todo[c] = {}
      /\ pc' = [pc EXCEPT ![c] = "searching"] /\ mode[c] = "collect"
      /\ UNCHANGED <<mode, query>> /\ q \in Nat
      /\ summary'[c] = x /\ \A d \in Collectors: d # c => summary'[d] = summary[d]
      /\ writer' = NoCollector
  BY DEF CommitStep, Commit, Goto, CountInv, TypeInv, TypeOK
<1>2. /\ writer = c /\ TxOK(c) /\ Balance(work, q, x, 0)
      /\ \A d \in Collectors: d # c /\ Active(d) => query[d] # q
  BY <1>1, AllCounted
<1>3. rows \in SUBSET StepRows
  <2>1. TypeInv
    BY DEF CountInv
  <2>2. stepCount[c] \in Nat /\ found[c] \in Found
    BY <2>1 DEF TypeInv, TypeOK
  <2> QED
    BY <1>1, <2>1, <2>2, StepRowType DEF Tables
<1>4. Kept(work, db') /\ db'.events = work.events /\ db'.queries = work.queries
  BY <1>1, <1>3, StepsWritten
<1> HIDE DEF x
<1>5. /\ IsFiniteSet(DOMAIN db'.urls) /\ Balance(db', q, x, 0)
      /\ SameBut(db, db', q)
  BY <1>2, <1>4, KeptRows DEF CountInv, TxOK, SameBut
<1>6. Bounded(db') /\ db.queries <= db'.queries
  <2>1. Bounded(work)
    BY DEF CountInv
  <2> QED
    BY <1>1, <1>2, <1>4, <2>1, BoundKept DEF TxOK
<1>7. RunOK(c)'
  BY <1>1, <1>2, <1>4, <1>5 DEF RunOK, TxOK, Balance
<1>8. /\ \A e \in db.events: e.query # q
      /\ \A e \in db'.events: e \in db.events
  BY <1>2, <1>4 DEF TxOK
<1>9. /\ q \in Nat /\ writer \in {NoCollector, c} /\ writer' = NoCollector /\ work' = db'
      /\ pc' = [pc EXCEPT ![c] = "searching"] /\ query'[c] = q /\ mode'[c] = "collect"
      /\ \A d \in Collectors:
            d # c => query'[d] = query[d] /\ mode'[d] = mode[d] /\ summary'[d] = summary[d]
  BY <1>1, <1>2
<1> HIDE DEF q, rows
<1> QED
  BY <1>2, <1>5, <1>6, <1>7, <1>8, <1>9, CountClosed

\* CommitJob keeps the counts.
LEMMA CommitJobCount ==
    ASSUME CountInv, TypeInv', NEW c \in Collectors, CommitJob(c)
    PROVE  CountInv'
<1> DEFINE q == query[c]
           row == Event(q, stepSum[c], found[c])
           rows == work.events \cup {row}
<1>1. /\ db' = [work EXCEPT !.events = rows] /\ work' = db' /\ work \in Tables
      /\ pc[c] = "saving" /\ todo[c] = {}
      /\ pc' = [pc EXCEPT ![c] = "ended"] /\ mode[c] = "job"
      /\ UNCHANGED <<mode, query, summary>>
      /\ q \in Nat /\ stepSum[c] \in Summaries /\ found[c] \in Found
      /\ writer' = NoCollector
  BY DEF CommitJob, Commit, Goto, CountInv, TypeInv, TypeOK
<1>2. /\ writer = c /\ TxOK(c) /\ Balance(work, q, Plus(summary[c], stepSum[c]), 0)
      /\ \A d \in Collectors: d # c /\ Active(d) => query[d] # q
  BY <1>1, AllCounted
<1>3. rows \in SUBSET EventRows /\ row.query = q /\ row.summary = stepSum[c]
  BY <1>1, EventType DEF Tables, Event
<1>4. Kept(work, db') /\ db'.events = rows /\ db'.queries = work.queries
  BY <1>1, <1>3, EventsWritten
<1> HIDE DEF row
<1>5. Balance(work, q, stepSum[c], 0)
  <2>1. summary[c] = NoSummary
    BY <1>1, <1>2 DEF TxOK
  <2>2. /\ stepSum[c].new \in Nat /\ stepSum[c].updated \in Nat
        /\ stepSum[c].duplicate \in Nat /\ stepSum[c].total \in Nat
    BY <1>1 DEF Summaries
  <2> QED
    BY <1>2, <2>1, <2>2 DEF Balance, Plus, NoSummary
<1>6. IsFiniteSet(DOMAIN db'.urls) /\ SameBut(db, db', q) /\ Balance(db', q, stepSum[c], 0)
  BY <1>2, <1>4, <1>5, KeptRows DEF CountInv, TxOK, SameBut
<1>7. Bounded(db') /\ db.queries <= db'.queries
  <2>1. \A e \in db'.events: e.query <= db'.queries
    BY <1>2, <1>3, <1>4 DEF CountInv, Bounded, TxOK
  <2> QED
    BY <1>2, <1>4, <2>1 DEF CountInv, Bounded, Kept, TxOK
<1>8. \A e \in db'.events: e \in db.events \/ (e.query = q /\ Balance(db', q, e.summary, 0))
  BY <1>2, <1>3, <1>4, <1>6 DEF TxOK
<1> QED
  BY <1>1, <1>2, <1>6, <1>7, <1>8, CountClosed DEF TxOK

\* A run that is refused or killed keeps the counts.
LEMMA EndCount ==
    ASSUME CountInv, TypeInv', NEW c \in Collectors, CandidateRejected(c) \/ Busy(c) \/ Crash(c)
    PROVE  CountInv'
<1>1. /\ pc' = [pc EXCEPT ![c] = "failed"]
      /\ UNCHANGED <<db, mode, query, todo, summary, stepSum>>
  BY DEF CandidateRejected, Busy, Crash, Goto, Rollback
<1>2. ASSUME writer' = NoCollector, work' = db', writer = c PROVE CountInv'
  <2> DEFINE q == query[c]
  <2>1. TxOK(c) /\ q \in Nat /\ db \in Tables /\ pc[c] = "saving"
    BY <1>2 DEF CountInv, TypeInv, TypeOK
  <2>2. /\ Bounded(db') /\ IsFiniteSet(DOMAIN db'.urls) /\ db.queries <= db'.queries
        /\ SameBut(db, db', q)
    BY <1>1, <2>1, Numbers DEF CountInv, Bounded, SameBut, DocsBy, UrlsBy
  <2>3. /\ \A d \in Collectors: d # c /\ Active(d) => query[d] # q
        /\ \A e \in db.events: e.query # q
    BY <2>1 DEF CountInv, Active, TxOK
  <2> QED
    BY <1>1, <1>2, <2>1, <2>2, <2>3, CountClosed
<1>3. ASSUME UNCHANGED <<work, writer>>, writer # c PROVE CountInv'
  <2>1. pc[c] # "saving" /\ pc'[c] = "failed" /\ \A d \in Collectors: d # c => pc'[d] = pc[d]
    BY <1>1, <1>3 DEF CountInv, TypeInv, TypeOK
  <2>2. /\ (Bounded(db) /\ IsFiniteSet(DOMAIN db.urls))'
        /\ (Bounded(work) /\ IsFiniteSet(DOMAIN work.urls))'
        /\ (\A e \in db.events: Balance(db, e.query, e.summary, 0))'
        /\ (writer = NoCollector => work = db)'
    BY <1>1, <1>3 DEF CountInv, Bounded, Balance, DocsBy, UrlsBy
  <2>3. \A d \in Collectors: (RunOK(d) => RunOK(d)') /\ (TxOK(d) => TxOK(d)')
    BY <1>1, <1>3 DEF RunOK, TxOK, Balance, SameBut, DocsBy, UrlsBy, Plus
  <2>4. \A d \in Collectors: Active(d)' => Active(d) /\ d # c
    BY <2>1 DEF Active
  <2> QED
    BY <1>1, <1>3, <2>1, <2>2, <2>3, <2>4 DEF CountInv
<1>4. CandidateRejected(c) => writer = c
  BY DEF CandidateRejected, CountInv
<1>5. Busy(c) => writer # c
  BY DEF Busy, CountInv
<1> QED
  BY <1>1, <1>2, <1>3, <1>4, <1>5 DEF CandidateRejected, Busy, Crash, Rollback

\* Every step keeps the counts.
LEMMA CountNext == CountInv /\ [Next]_vars => CountInv'
<1> SUFFICES ASSUME CountInv, [Next]_vars PROVE CountInv'
  OBVIOUS
<1>1. TypeInv'
  BY TypeNext DEF CountInv
<1>2. ASSUME NEW c \in Collectors, Start(c) PROVE CountInv'
  BY <1>1, <1>2, StartCollectCount, StartJobCount DEF Start
<1>3. ASSUME NEW c \in Collectors, Advance(c) PROVE CountInv'
  <2>1. CandidateRejected(c) => CountInv'
    BY <1>1, EndCount
  <2> QED
    BY <1>1, <1>3, <2>1, FailedStepCount, BeginStepCount, SaveCandidateCount,
       CommitStepCount, FinishCollectionCount, CommitJobCount DEF Advance
<1>4. ASSUME NEW c \in Collectors, Busy(c) \/ Crash(c) PROVE CountInv'
  BY <1>1, <1>4, EndCount
<1>5. CASE UNCHANGED vars
  <2>1. UNCHANGED <<db, work, writer, pc, mode, query, todo, summary, stepSum>>
    BY <1>5 DEF vars, localVars
  <2>2. \A d \in Collectors: (RunOK(d) => RunOK(d)') /\ (TxOK(d) => TxOK(d)')
    BY <2>1 DEF RunOK, TxOK, Balance, SameBut, DocsBy, UrlsBy, Plus
  <2> QED
    BY <1>1, <2>1, <2>2 DEF CountInv, Bounded, Balance, DocsBy, UrlsBy, Active
<1> QED
  BY <1>2, <1>3, <1>4, <1>5 DEF Next, AllEnded

LEMMA CountInit == Init => CountInv
<1> SUFFICES ASSUME Init PROVE CountInv
  OBVIOUS
<1>1. db = EmptyDb /\ work = EmptyDb /\ writer = NoCollector
  BY DEF Init
<1>2. Bounded(EmptyDb) /\ IsFiniteSet(DOMAIN EmptyDb.urls) /\ EmptyDb.events = {}
  BY FS_EmptySet DEF EmptyDb, Bounded
<1>3. \A c \in Collectors: writer # c /\ pc[c] = "idle" /\ mode[c] = "collect" /\ summary[c] = NoSummary
  BY <1>1, CollectAssumption DEF Init
<1> QED
  BY <1>1, <1>2, <1>3, TypeInit DEF CountInv, Active

\* The new, updated and duplicate counts a run reports, added up over its steps, are the
\* documents and URLs it inserted, for any number of runs whose transactions alternate.
THEOREM SummaryExact == Spec => []SummaryMatchesCatalog
<1>1. Init => CountInv
  BY CountInit
<1>2. CountInv => SummaryMatchesCatalog
  <2> SUFFICES ASSUME CountInv, NEW e \in db.events
               PROVE  /\ e.summary.new = Cardinality(DocsBy(db, e.query))
                      /\ e.summary.new + e.summary.updated = Cardinality(UrlsBy(db, e.query))
                      /\ e.summary.total = e.summary.new + e.summary.updated + e.summary.duplicate
    BY DEF SummaryMatchesCatalog, DocsBy, UrlsBy
  <2>1. Balance(db, e.query, e.summary, 0)
    BY DEF CountInv
  <2>2. e.summary \in Summaries
    BY DEF CountInv, TypeInv, Tables, EventRows
  <2> QED
    BY <2>1, <2>2 DEF Balance, Summaries
<1> QED
  BY <1>1, <1>2, CountNext, PTL DEF Spec

(***************************************************************************)
(* The steps of a run, and what the command remembers of them.              *)
(***************************************************************************)
UrlsOf(F) == {p[1]: p \in F}
FoundIn(S) == UNION {UrlsOf(r.found): r \in S}
RowsOf(S, q) == {r \in S: r.query = q}

\* The URLs the command has seen are those of the run's committed steps, and of the step
\* it saves; and that step is numbered after all of them.
StepOK(c) ==
    /\ pc[c] = "idle" => stepCount[c] = 0 /\ seen[c] = {}
    /\ pc[c] = "searching" =>
          /\ seen[c] = FoundIn(RowsOf(db.steps, query[c]))
          /\ \A r \in RowsOf(db.steps, query[c]): r.number <= stepCount[c]
    /\ pc[c] = "saving" => found[c] = FoundAt(batch[c], DOMAIN batch[c])
    /\ pc[c] = "saving" /\ mode[c] = "collect" =>
          /\ OneSource(batch[c])
          /\ seen[c] = FoundIn(RowsOf(db.steps, query[c])) \cup UrlsOf(found[c])
          /\ \A r \in RowsOf(db.steps, query[c]): r.number < stepCount[c]

\* what the open transaction of c has written to collection_steps
StepsOpen(c) ==
    work.steps = IF mode[c] = "collect"
                 THEN db.steps \cup {StepRow(c, stepCount[c], "running", {})}
                 ELSE db.steps

StepInv ==
    /\ StepsFinished
    /\ \A r \in db.steps: r.query <= db.queries
    /\ \A c \in Collectors: StepOK(c)
    /\ \A c \in Collectors: writer = c => StepsOpen(c)

\* What a process has seen does not change with what others write for their runs.
LEMMA StepFrame ==
    ASSUME NEW d \in Collectors, StepOK(d), pc'[d] = pc[d], mode'[d] = mode[d],
           query'[d] = query[d], batch'[d] = batch[d], found'[d] = found[d],
           seen'[d] = seen[d], stepCount'[d] = stepCount[d],
           Active(d) => RowsOf(db'.steps, query[d]) = RowsOf(db.steps, query[d])
    PROVE  StepOK(d)'
<1>1. CASE Active(d)
  BY <1>1 DEF StepOK
<1>2. CASE ~Active(d)
  BY <1>2 DEF StepOK, Active
<1> QED
  BY <1>1, <1>2

\* A step of c that leaves no transaction open.
LEMMA StepsClosed ==
    ASSUME StepInv, NEW c \in Collectors, writer' = NoCollector,
           \A r \in db'.steps: r.status # "running" /\ r.query <= db'.queries,
           StepOK(c)',
           \A d \in Collectors: d # c => StepOK(d)'
    PROVE  StepInv'
<1>1. \A d \in Collectors: writer' # d
  BY CollectAssumption
<1> QED
  BY <1>1 DEF StepInv, StepsFinished

\* The rows there are, of any run, have numbers as queries.
LEMMA StepNumbers ==
    ASSUME TypeInv
    PROVE  /\ \A r \in db.steps: r.query \in Nat /\ r.number \in Nat
           /\ db.queries \in Nat /\ work.queries \in Nat
           /\ \A c \in Collectors: query[c] \in Nat /\ stepCount[c] \in Nat
BY DEF TypeInv, TypeOK, Tables, StepRows

LEMMA StartCollectSteps ==
    ASSUME CountInv, StepInv, NEW c \in Collectors, StartCollect(c)
    PROVE  StepInv'
<1> DEFINE q == db.queries + 1
<1>1. /\ db' = [db EXCEPT !.queries = q] /\ work' = db' /\ db \in Tables
      /\ pc[c] = "idle" /\ pc' = [pc EXCEPT ![c] = "searching"]
      /\ query'[c] = q /\ \A d \in Collectors: d # c => query'[d] = query[d]
      /\ writer' = NoCollector /\ UNCHANGED <<mode, batch, found, seen, stepCount>>
  BY DEF StartCollect, Commit, Goto, Free, CountInv, TypeInv, TypeOK
<1>2. db.queries \in Nat /\ \A r \in db.steps: r.query \in Nat
  BY StepNumbers DEF CountInv
<1>3. db'.steps = db.steps /\ db'.queries = q
  BY <1>1, <1>2, QueriesWritten
<1>4. RowsOf(db.steps, q) = {}
  BY <1>2 DEF StepInv, RowsOf
<1>5. pc'[c] = "searching" /\ \A d \in Collectors: d # c => pc'[d] = pc[d]
  BY <1>1 DEF CountInv, TypeInv, TypeOK
<1>6. StepOK(c)'
  <2>1. seen'[c] = {} /\ stepCount'[c] = 0
    BY <1>1 DEF StepInv, StepOK
  <2>2. RowsOf(db'.steps, query'[c]) = {}
    BY <1>1, <1>3, <1>4
  <2> QED
    BY <1>5, <2>1, <2>2 DEF StepOK, FoundIn
<1>7. \A d \in Collectors: d # c => StepOK(d)'
  BY <1>1, <1>3, <1>5, StepFrame DEF StepInv
<1>8. \A r \in db'.steps: r.status # "running" /\ r.query <= db'.queries
  BY <1>2, <1>3 DEF StepInv, StepsFinished
<1> QED
  BY <1>1, <1>6, <1>7, <1>8, StepsClosed

\* Committing a row of c's run, with the next number, is not noticed by other runs.
LEMMA RowCommitted ==
    ASSUME CountInv, NEW c \in Collectors, Active(c), NEW row, row.query = query[c]
    PROVE  /\ RowsOf(db.steps \cup {row}, query[c]) = RowsOf(db.steps, query[c]) \cup {row}
           /\ FoundIn(RowsOf(db.steps \cup {row}, query[c]))
                 = FoundIn(RowsOf(db.steps, query[c])) \cup UrlsOf(row.found)
           /\ \A d \in Collectors: d # c /\ Active(d) =>
                 RowsOf(db.steps \cup {row}, query[d]) = RowsOf(db.steps, query[d])
<1>1. RowsOf(db.steps \cup {row}, query[c]) = RowsOf(db.steps, query[c]) \cup {row}
  BY DEF RowsOf
<1>2. FoundIn(RowsOf(db.steps \cup {row}, query[c]))
         = FoundIn(RowsOf(db.steps, query[c])) \cup UrlsOf(row.found)
  BY <1>1 DEF FoundIn
<1>3. \A d \in Collectors: d # c /\ Active(d) => query[d] # query[c]
  BY DEF CountInv
<1>4. \A d \in Collectors: d # c /\ Active(d) =>
         RowsOf(db.steps \cup {row}, query[d]) = RowsOf(db.steps, query[d])
  BY <1>3 DEF RowsOf
<1> QED
  BY <1>1, <1>2, <1>4

LEMMA FailedStepSteps ==
    ASSUME CountInv, StepInv, NEW c \in Collectors, FailedStep(c)
    PROVE  StepInv'
<1> DEFINE row == StepRow(c, stepCount[c] + 1, "failed", {})
           rows == db.steps \cup {row}
<1>1. /\ db' = [db EXCEPT !.steps = rows] /\ db \in Tables
      /\ pc[c] = "searching" /\ writer' = NoCollector
      /\ stepCount'[c] = stepCount[c] + 1
      /\ \A d \in Collectors: d # c => stepCount'[d] = stepCount[d]
      /\ UNCHANGED <<pc, mode, query, batch, found, seen>>
  BY DEF FailedStep, Commit, Free, CountInv, TypeInv, TypeOK
<1>2. /\ row.query = query[c] /\ row.number = stepCount[c] + 1 /\ row.found = {}
      /\ row.status = "failed"
  BY DEF StepRow
<1>3. /\ \A r \in db.steps: r.query \in Nat /\ r.number \in Nat
      /\ db.queries \in Nat /\ query[c] \in Nat /\ stepCount[c] \in Nat /\ query[c] <= db.queries
  BY <1>1, StepNumbers DEF CountInv, RunOK
<1>4. row \in StepRows
  BY <1>3, StepRowType DEF CountInv, Found
<1> HIDE DEF row
<1>5. db'.steps = rows /\ db'.queries = db.queries
  <2>1. rows \in SUBSET StepRows
    BY <1>1, <1>4 DEF Tables
  <2> QED
    BY <1>1, <2>1, StepsWritten
<1>6. Active(c)
  BY <1>1 DEF Active
<1>7. /\ RowsOf(rows, query[c]) = RowsOf(db.steps, query[c]) \cup {row}
      /\ FoundIn(RowsOf(rows, query[c])) = FoundIn(RowsOf(db.steps, query[c])) \cup UrlsOf(row.found)
      /\ \A d \in Collectors: d # c /\ Active(d) => RowsOf(rows, query[d]) = RowsOf(db.steps, query[d])
  <2>1. /\ RowsOf(db.steps \cup {row}, query[c]) = RowsOf(db.steps, query[c]) \cup {row}
        /\ FoundIn(RowsOf(db.steps \cup {row}, query[c]))
              = FoundIn(RowsOf(db.steps, query[c])) \cup UrlsOf(row.found)
        /\ \A d \in Collectors: d # c /\ Active(d) =>
              RowsOf(db.steps \cup {row}, query[d]) = RowsOf(db.steps, query[d])
    BY <1>2, <1>6, RowCommitted
  <2> QED
    BY <2>1
<1>8. StepOK(c)'
  <2>1. /\ seen[c] = FoundIn(RowsOf(db.steps, query[c]))
        /\ \A r \in RowsOf(db.steps, query[c]): r.number <= stepCount[c]
    BY <1>1 DEF StepInv, StepOK
  <2>2. UrlsOf(row.found) = {}
    BY <1>2 DEF UrlsOf
  <2>3. \A r \in RowsOf(rows, query[c]): r.number <= stepCount[c] + 1
    <3>1. \A r \in RowsOf(db.steps, query[c]): r.number \in Nat
      BY <1>3 DEF RowsOf
    <3>2. ASSUME NEW r \in RowsOf(db.steps, query[c]) \cup {row} PROVE r.number <= stepCount[c] + 1
      BY <1>2, <1>3, <2>1, <3>1
    <3> HIDE DEF rows
    <3> QED
      BY <1>7, <3>2
  <2> HIDE DEF rows
  <2> QED
    BY <1>1, <1>5, <1>7, <2>1, <2>2, <2>3 DEF StepOK
<1>9. \A d \in Collectors: d # c => StepOK(d)'
  BY <1>1, <1>5, <1>7, StepFrame DEF StepInv
<1>10. \A r \in db'.steps: r.status # "running" /\ r.query <= db'.queries
  BY <1>2, <1>3, <1>5 DEF StepInv, StepsFinished
<1> QED
  BY <1>1, <1>8, <1>9, <1>10, StepsClosed

\* A transaction of c begins.
LEMMA StepsOpened ==
    ASSUME StepInv, NEW c \in Collectors, writer' = c, db' = db,
           StepOK(c)', StepsOpen(c)',
           \A d \in Collectors: d # c => StepOK(d)'
    PROVE  StepInv'
BY DEF StepInv, StepsFinished

\* The URLs of what is found are those of the batch.
LEMMA UrlsFoundAt ==
    ASSUME NEW b
    PROVE  {b[i].url: i \in DOMAIN b} = UrlsOf(FoundAt(b, DOMAIN b))
<1>1. ASSUME NEW i \in DOMAIN b PROVE b[i].url \in UrlsOf(FoundAt(b, DOMAIN b))
  <2>1. <<b[i].url, b[i].source>> \in FoundAt(b, DOMAIN b) /\ <<b[i].url, b[i].source>>[1] = b[i].url
    BY DEF FoundAt
  <2> QED
    BY <2>1 DEF UrlsOf
<1>2. UrlsOf(FoundAt(b, DOMAIN b)) \subseteq {b[i].url: i \in DOMAIN b}
  BY DEF UrlsOf, FoundAt
<1> QED
  BY <1>1, <1>2

LEMMA BeginStepSteps ==
    ASSUME CountInv, StepInv, NEW c \in Collectors, NEW b \in Batches, BeginStep(c, b)
    PROVE  StepInv'
<1> DEFINE row == StepRow(c, stepCount[c] + 1, "running", {})
           rows == db.steps \cup {row}
<1>1. /\ work' = [db EXCEPT !.steps = rows] /\ db' = db /\ db \in Tables
      /\ pc[c] = "searching" /\ writer' = c
      /\ stepCount'[c] = stepCount[c] + 1
      /\ pc'[c] = "saving" /\ seen'[c] = seen[c] \cup {b[i].url: i \in DOMAIN b}
      /\ \A d \in Collectors: d # c =>
            stepCount'[d] = stepCount[d] /\ pc'[d] = pc[d] /\ seen'[d] = seen[d]
      /\ UNCHANGED <<mode, query>> /\ mode[c] = "collect" /\ OneSource(b)
  BY DEF BeginStep, Goto, CountInv, TypeInv, TypeOK
<1>2. /\ batch'[c] = b /\ found'[c] = FoundAt(b, DOMAIN b)
      /\ \A d \in Collectors: d # c => batch'[d] = batch[d] /\ found'[d] = found[d]
  BY DEF BeginStep, SaveFrom, CountInv, TypeInv, TypeOK
<1>3. /\ \A r \in db.steps: r.number \in Nat
      /\ stepCount[c] \in Nat
  BY <1>1, StepNumbers DEF CountInv
<1>4. row \in StepRows
  BY <1>3, StepRowType DEF CountInv, Found
<1>5. work'.steps = rows
  <2> HIDE DEF row
  <2>1. rows \in SUBSET StepRows
    BY <1>1, <1>4 DEF Tables
  <2> QED
    BY <1>1, <2>1, StepsWritten
<1>6. StepsOpen(c)'
  BY <1>1, <1>5 DEF StepsOpen, StepRow
<1>7. StepOK(c)'
  <2>1. /\ seen[c] = FoundIn(RowsOf(db.steps, query[c]))
        /\ \A r \in RowsOf(db.steps, query[c]): r.number <= stepCount[c]
    BY <1>1 DEF StepInv, StepOK
  <2>2. {b[i].url: i \in DOMAIN b} = UrlsOf(FoundAt(b, DOMAIN b))
    BY UrlsFoundAt
  <2>3. \A r \in RowsOf(db.steps, query[c]): r.number < stepCount[c] + 1
    <3>1. \A r \in RowsOf(db.steps, query[c]): r.number \in Nat
      BY <1>3 DEF RowsOf
    <3> QED
      BY <1>3, <2>1, <3>1
  <2> QED
    BY <1>1, <1>2, <2>1, <2>2, <2>3 DEF StepOK
<1>8. \A d \in Collectors: d # c => StepOK(d)'
  BY <1>1, <1>2, StepFrame DEF StepInv
<1> QED
  BY <1>1, <1>6, <1>7, <1>8, StepsOpened

LEMMA StartJobSteps ==
    ASSUME CountInv, StepInv, NEW c \in Collectors, NEW b \in Batches, StartJob(c, b)
    PROVE  StepInv'
<1>1. /\ work' = [db EXCEPT !.queries = db.queries + 1] /\ db' = db /\ db \in Tables
      /\ db.queries + 1 \in Nat /\ writer' = c /\ pc'[c] = "saving" /\ mode'[c] = "job"
      /\ \A d \in Collectors: d # c =>
            query'[d] = query[d] /\ pc'[d] = pc[d] /\ mode'[d] = mode[d]
      /\ UNCHANGED <<stepCount, seen>>
  BY DEF StartJob, Goto, CountInv, TypeInv, TypeOK, Tables
<1>2. /\ batch'[c] = b /\ found'[c] = FoundAt(b, DOMAIN b)
      /\ \A d \in Collectors: d # c => batch'[d] = batch[d] /\ found'[d] = found[d]
  BY DEF StartJob, SaveFrom, CountInv, TypeInv, TypeOK
<1>3. work'.steps = db.steps
  BY <1>1, QueriesWritten
<1>4. StepsOpen(c)' /\ StepOK(c)'
  BY <1>1, <1>2, <1>3 DEF StepsOpen, StepOK
<1>5. \A d \in Collectors: d # c => StepOK(d)'
  BY <1>1, <1>2, StepFrame DEF StepInv
<1> QED
  BY <1>1, <1>4, <1>5, StepsOpened

LEMMA SaveCandidateSteps ==
    ASSUME CountInv, StepInv, NEW c \in Collectors, SaveCandidate(c)
    PROVE  StepInv'
<1>1. /\ todo[c] # {} /\ TypeInv /\ work' = Saved(work, batch[c][NextOf(c)], query[c])
      /\ UNCHANGED <<db, writer, pc, mode, query, batch, found, seen, stepCount>>
  BY DEF SaveCandidate, CountInv
<1>2. batch[c][NextOf(c)] \in Candidates /\ work \in Tables /\ query[c] \in Nat
  BY <1>1, NextOfType DEF TypeInv, TypeOK
<1>3. work'.steps = work.steps
  BY <1>1, <1>2, SavedShape
<1>4. \A d \in Collectors: StepOK(d)'
  BY <1>1, StepFrame DEF StepInv
<1>5. \A d \in Collectors: StepsOpen(d) => StepsOpen(d)'
  BY <1>1, <1>3 DEF StepsOpen, StepRow
<1> QED
  BY <1>1, <1>4, <1>5 DEF StepInv, StepsFinished

\* what CommitStep makes of the rows
LEMMA StepRowsCommitted ==
    ASSUME CountInv, StepInv, NEW c \in Collectors, CommitStep(c)
    PROVE  /\ writer = c /\ Active(c)
           /\ db'.steps = db.steps \cup {StepRow(c, stepCount[c], "completed", found[c])}
           /\ db'.urls = work.urls /\ db'.events = db.events /\ db'.queries = work.queries
<1> DEFINE begun == StepRow(c, stepCount[c], "running", {})
           done == StepRow(c, stepCount[c], "completed", found[c])
           rows == (work.steps \ {begun}) \cup {done}
<1>1. /\ db' = [work EXCEPT !.steps = rows] /\ work \in Tables
      /\ pc[c] = "saving" /\ mode[c] = "collect"
  BY DEF CommitStep, Commit, CountInv, TypeInv
<1>2. writer = c /\ TxOK(c) /\ StepsOpen(c)
  BY <1>1 DEF CountInv, StepInv
<1>3. begun.status = "running"
  BY DEF StepRow
<1>4. done \in StepRows
  <2>1. TypeInv
    BY DEF CountInv
  <2>2. stepCount[c] \in Nat /\ found[c] \in Found
    BY <2>1 DEF TypeInv, TypeOK
  <2> QED
    BY <2>1, <2>2, StepRowType
<1>5. work.steps = db.steps \cup {begun}
  BY <1>1, <1>2 DEF StepsOpen
<1> HIDE DEF begun, done
<1>6. rows = db.steps \cup {done}
  BY <1>3, <1>5 DEF StepInv, StepsFinished
<1>7. rows \in SUBSET StepRows
  BY <1>1, <1>4 DEF Tables
<1>8. db'.urls = work.urls /\ db'.events = work.events /\ db'.steps = rows /\ db'.queries = work.queries
  BY <1>1, <1>7, StepsWritten DEF Kept
<1> QED
  BY <1>1, <1>2, <1>6, <1>8 DEF TxOK, Active, done

LEMMA CommitStepSteps ==
    ASSUME CountInv, StepInv, NEW c \in Collectors, CommitStep(c)
    PROVE  StepInv'
<1> DEFINE row == StepRow(c, stepCount[c], "completed", found[c])
           rows == db.steps \cup {row}
<1>1. /\ writer = c /\ Active(c) /\ db'.steps = rows /\ db'.queries = work.queries
  BY StepRowsCommitted
<1>2. /\ pc[c] = "saving" /\ mode[c] = "collect" /\ pc'[c] = "searching" /\ writer' = NoCollector
      /\ \A d \in Collectors: d # c => pc'[d] = pc[d]
      /\ UNCHANGED <<mode, query, batch, found, seen, stepCount>>
  BY DEF CommitStep, Goto, CountInv, TypeInv, TypeOK
<1>3. /\ row.query = query[c] /\ row.number = stepCount[c] /\ row.found = found[c]
      /\ row.status = "completed"
  BY DEF StepRow
<1>4. TxOK(c)
  BY <1>1 DEF CountInv
<1>5. /\ \A r \in db.steps: r.query \in Nat /\ r.number \in Nat
      /\ db.queries \in Nat /\ work.queries \in Nat /\ query[c] \in Nat /\ stepCount[c] \in Nat
      /\ query[c] <= work.queries /\ db.queries <= work.queries
  BY <1>4, StepNumbers DEF CountInv, TxOK
<1> HIDE DEF row
<1>7. /\ RowsOf(rows, query[c]) = RowsOf(db.steps, query[c]) \cup {row}
      /\ FoundIn(RowsOf(rows, query[c])) = FoundIn(RowsOf(db.steps, query[c])) \cup UrlsOf(row.found)
      /\ \A d \in Collectors: d # c /\ Active(d) => RowsOf(rows, query[d]) = RowsOf(db.steps, query[d])
  <2>1. /\ RowsOf(db.steps \cup {row}, query[c]) = RowsOf(db.steps, query[c]) \cup {row}
        /\ FoundIn(RowsOf(db.steps \cup {row}, query[c]))
              = FoundIn(RowsOf(db.steps, query[c])) \cup UrlsOf(row.found)
        /\ \A d \in Collectors: d # c /\ Active(d) =>
              RowsOf(db.steps \cup {row}, query[d]) = RowsOf(db.steps, query[d])
    BY <1>1, <1>3, RowCommitted
  <2> QED
    BY <2>1
<1>8. StepOK(c)'
  <2>1. /\ seen[c] = FoundIn(RowsOf(db.steps, query[c])) \cup UrlsOf(found[c])
        /\ \A r \in RowsOf(db.steps, query[c]): r.number < stepCount[c]
    BY <1>2 DEF StepInv, StepOK
  <2>2. \A r \in RowsOf(rows, query[c]): r.number <= stepCount[c]
    <3>1. \A r \in RowsOf(db.steps, query[c]): r.number \in Nat
      BY <1>5 DEF RowsOf
    <3>2. ASSUME NEW r \in RowsOf(db.steps, query[c]) \cup {row} PROVE r.number <= stepCount[c]
      BY <1>3, <1>5, <2>1, <3>1
    <3> HIDE DEF rows
    <3> QED
      BY <1>7, <3>2
  <2> HIDE DEF rows
  <2> QED
    BY <1>1, <1>2, <1>3, <1>7, <2>1, <2>2 DEF StepOK
<1>9. \A d \in Collectors: d # c => StepOK(d)'
  BY <1>1, <1>2, <1>7, StepFrame DEF StepInv
<1>10. \A r \in db'.steps: r.status # "running" /\ r.query <= db'.queries
  BY <1>1, <1>3, <1>5 DEF StepInv, StepsFinished
<1> QED
  BY <1>2, <1>8, <1>9, <1>10, StepsClosed

LEMMA FinishCollectionSteps ==
    ASSUME CountInv, StepInv, TypeInv', NEW c \in Collectors, FinishCollection(c)
    PROVE  StepInv'
<1> DEFINE row == Event(query[c], summary[c], {})
           rows == db.events \cup {row}
<1>1. /\ db' = [db EXCEPT !.events = rows] /\ db \in Tables
      /\ pc'[c] = "ended" /\ writer' = NoCollector
      /\ \A d \in Collectors: d # c => pc'[d] = pc[d]
      /\ UNCHANGED <<mode, query, batch, found, seen, stepCount>>
  BY DEF FinishCollection, Commit, Goto, Free, CountInv, TypeInv, TypeOK
<1>2. db'.steps = db.steps /\ db'.queries = db.queries
  <2>1. query[c] \in Nat /\ summary[c] \in Summaries /\ {} \in Found
    BY DEF CountInv, TypeInv, TypeOK, Found
  <2>2. row \in EventRows
    BY <2>1, EventType
  <2> HIDE DEF row
  <2>3. rows \in SUBSET EventRows
    BY <1>1, <2>2 DEF Tables
  <2> QED
    BY <1>1, <2>3, EventsWritten
<1>3. StepOK(c)'
  BY <1>1 DEF StepOK
<1>4. \A d \in Collectors: d # c => StepOK(d)'
  BY <1>1, <1>2, StepFrame DEF StepInv
<1>5. \A r \in db'.steps: r.status # "running" /\ r.query <= db'.queries
  BY <1>2 DEF StepInv, StepsFinished
<1> QED
  BY <1>1, <1>3, <1>4, <1>5, StepsClosed

\* what CommitJob makes of the tables
LEMMA JobCommitted ==
    ASSUME CountInv, StepInv, NEW c \in Collectors, CommitJob(c)
    PROVE  /\ writer = c /\ db'.steps = db.steps
           /\ db'.events = db.events \cup {Event(query[c], stepSum[c], found[c])}
           /\ db'.urls = work.urls /\ db'.queries = work.queries /\ db.queries <= work.queries
<1> DEFINE done == Event(query[c], stepSum[c], found[c])
           rows == work.events \cup {done}
<1>1. /\ db' = [work EXCEPT !.events = rows] /\ work \in Tables
      /\ pc[c] = "saving" /\ mode[c] = "job"
  BY DEF CommitJob, Commit, CountInv, TypeInv
<1>2. writer = c /\ TxOK(c) /\ StepsOpen(c)
  BY <1>1 DEF CountInv, StepInv
<1>3. rows \in SUBSET EventRows
  <2>1. query[c] \in Nat /\ stepSum[c] \in Summaries /\ found[c] \in Found
    BY DEF CountInv, TypeInv, TypeOK
  <2>2. done \in EventRows
    BY <2>1, EventType
  <2> HIDE DEF done
  <2> QED
    BY <1>1, <2>2 DEF Tables
<1> HIDE DEF done
<1>4. db'.urls = work.urls /\ db'.steps = work.steps /\ db'.events = rows /\ db'.queries = work.queries
  BY <1>1, <1>3, EventsWritten DEF Kept
<1>5. work.steps = db.steps
  BY <1>1, <1>2 DEF StepsOpen
<1> QED
  BY <1>2, <1>4, <1>5 DEF TxOK, done

LEMMA CommitJobSteps ==
    ASSUME CountInv, StepInv, NEW c \in Collectors, CommitJob(c)
    PROVE  StepInv'
<1>1. /\ pc'[c] = "ended" /\ writer' = NoCollector
      /\ \A d \in Collectors: d # c => pc'[d] = pc[d]
      /\ UNCHANGED <<mode, query, batch, found, seen, stepCount>>
  BY DEF CommitJob, Goto, CountInv, TypeInv, TypeOK
<1>2. db'.steps = db.steps /\ db'.queries = work.queries /\ db.queries <= work.queries
  BY JobCommitted
<1>3. StepOK(c)'
  BY <1>1 DEF StepOK
<1>4. \A d \in Collectors: d # c => StepOK(d)'
  BY <1>1, <1>2, StepFrame DEF StepInv
<1>5. \A r \in db'.steps: r.status # "running" /\ r.query <= db'.queries
  <2>1. /\ \A r \in db.steps: r.query \in Nat /\ r.query <= db.queries
        /\ db.queries \in Nat /\ work.queries \in Nat
    BY StepNumbers DEF CountInv, StepInv
  <2> QED
    BY <1>2, <2>1 DEF StepInv, StepsFinished
<1> QED
  BY <1>1, <1>3, <1>4, <1>5, StepsClosed

LEMMA EndSteps ==
    ASSUME CountInv, StepInv, NEW c \in Collectors, CandidateRejected(c) \/ Busy(c) \/ Crash(c)
    PROVE  StepInv'
<1>1. /\ pc' = [pc EXCEPT ![c] = "failed"]
      /\ UNCHANGED <<db, mode, query, batch, todo, found, seen, stepCount>>
      /\ \/ writer' = NoCollector
         \/ UNCHANGED <<work, writer>>
  BY DEF CandidateRejected, Busy, Crash, Goto, Rollback
<1>2. pc'[c] = "failed" /\ \A d \in Collectors: d # c => pc'[d] = pc[d]
  BY <1>1 DEF CountInv, TypeInv, TypeOK
<1>3. \A d \in Collectors: StepOK(d)'
  <2>1. StepOK(c)'
    BY <1>2 DEF StepOK
  <2>2. \A d \in Collectors: d # c => StepOK(d)'
    BY <1>1, <1>2, StepFrame DEF StepInv
  <2> QED
    BY <2>1, <2>2
<1>4. \A d \in Collectors: writer' = d => StepsOpen(d)'
  <2>1. CASE writer' = NoCollector
    BY <2>1, CollectAssumption
  <2>2. CASE UNCHANGED <<work, writer>>
    BY <1>1, <2>2 DEF StepInv, StepsOpen, StepRow
  <2> QED
    BY <1>1, <2>1, <2>2
<1> QED
  BY <1>1, <1>3, <1>4 DEF StepInv, StepsFinished

\* Every step keeps the numbers of the steps and what was seen.
LEMMA StepNext == CountInv /\ StepInv /\ [Next]_vars => StepInv'
<1> SUFFICES ASSUME CountInv, StepInv, [Next]_vars PROVE StepInv'
  OBVIOUS
<1>1. TypeInv'
  BY TypeNext DEF CountInv
<1>2. ASSUME NEW c \in Collectors, Start(c) PROVE StepInv'
  BY <1>2, StartCollectSteps, StartJobSteps DEF Start
<1>3. ASSUME NEW c \in Collectors, Advance(c) PROVE StepInv'
  <2>1. CandidateRejected(c) => StepInv'
    BY EndSteps
  <2> QED
    BY <1>1, <1>3, <2>1, FailedStepSteps, BeginStepSteps, SaveCandidateSteps,
       CommitStepSteps, FinishCollectionSteps, CommitJobSteps DEF Advance
<1>4. ASSUME NEW c \in Collectors, Busy(c) \/ Crash(c) PROVE StepInv'
  BY <1>4, EndSteps
<1>5. CASE UNCHANGED vars
  <2>1. UNCHANGED <<db, work, writer, pc, mode, query, batch, found, seen, stepCount>>
    BY <1>5 DEF vars, localVars
  <2>2. \A d \in Collectors: StepOK(d)' /\ (StepsOpen(d) => StepsOpen(d)')
    BY <2>1, StepFrame DEF StepInv, StepsOpen, StepRow
  <2> QED
    BY <2>1, <2>2 DEF StepInv, StepsFinished
<1> QED
  BY <1>2, <1>3, <1>4, <1>5 DEF Next, AllEnded

LEMMA StepInit == Init => StepInv
<1> SUFFICES ASSUME Init PROVE StepInv
  OBVIOUS
<1>1. db.steps = {} /\ writer = NoCollector
  BY DEF Init, EmptyDb
<1>2. \A c \in Collectors: writer # c /\ StepOK(c)
  BY <1>1, CollectAssumption DEF Init, StepOK
<1> QED
  BY <1>1, <1>2 DEF StepInv, StepsFinished

(***************************************************************************)
(* The catalogue is what the steps and jobs found                           *)
(***************************************************************************)
SourcesOf(F, u) == {p[2]: p \in {q \in F: q[1] = u}}

\* what the step r found first, of the steps S of its run
First(r, S) ==
    {p \in r.found:
        \A e \in S: e.query = r.query /\ e.number < r.number => p[1] \notin UrlsOf(e.found)}
FoundFirst(S) == UNION {First(r, S): r \in S}
FoundByJobs(E) == UNION {e.found: e \in E}
Finds(t) == FoundFirst(t.steps) \cup FoundByJobs(t.events)

CatalogOK(t, F) ==
    /\ DOMAIN t.urls = UrlsOf(F)
    /\ \A u \in DOMAIN t.urls: t.urls[u].sources = SourcesOf(F, u)

\* the places of the batch that the transaction of c saves
Saves(c) ==
    IF mode[c] = "collect" THEN Fresh(batch[c], FoundIn(RowsOf(db.steps, query[c])))
    ELSE DOMAIN batch[c]

\* The open transaction of c has the rows of what it has saved so far of all it has to
\* save, on top of the committed ones.
OpenOK(c) ==
    /\ todo[c] \subseteq Saves(c)
    /\ CatalogOK(work, Finds(db) \cup FoundAt(batch[c], Saves(c) \ todo[c]))

CatalogInv ==
    /\ CatalogOK(db, Finds(db))
    /\ \A c \in Collectors: writer = c => OpenOK(c)

\* b found a too
OneMore(G, F, a, b) == G = F \cup {<<a, b>>}

\* One find more is its URL more,
LEMMA UrlFound ==
    ASSUME NEW F, NEW a, NEW b, NEW G, OneMore(G, F, a, b)
    PROVE  UrlsOf(G) = UrlsOf(F) \cup {a}
<1> USE DEF OneMore
<1>1. ASSUME NEW x \in UrlsOf(G) PROVE x \in UrlsOf(F) \cup {a}
  <2>1. PICK p \in G: x = p[1]
    BY <1>1 DEF UrlsOf
  <2>2. CASE p \in F
    BY <2>1, <2>2 DEF UrlsOf
  <2>3. CASE p = <<a, b>>
    BY <2>1, <2>3
  <2> QED
    BY <2>2, <2>3
<1>2. a \in UrlsOf(G)
  <2>1. <<a, b>> \in G /\ <<a, b>>[1] = a
    OBVIOUS
  <2> QED
    BY <2>1 DEF UrlsOf
<1>3. UrlsOf(F) \subseteq UrlsOf(G)
  BY DEF UrlsOf
<1> QED
  BY <1>1, <1>2, <1>3

\* What SourcesOf is, element by element.
LEMMA SourceMembers ==
    ASSUME NEW F, NEW u, NEW x
    PROVE  x \in SourcesOf(F, u) <=> \E p \in F: p[1] = u /\ p[2] = x
BY DEF SourcesOf

\* A URL that was not found has no source.
LEMMA NoSource ==
    ASSUME NEW F, NEW u, u \notin UrlsOf(F)
    PROVE  SourcesOf(F, u) = {}
BY DEF UrlsOf, SourcesOf

\* and its source more for its URL.
LEMMA SourceFound ==
    ASSUME NEW F, NEW a, NEW b, NEW G, OneMore(G, F, a, b), NEW u
    PROVE  /\ u = a => SourcesOf(G, u) = SourcesOf(F, u) \cup {b}
           /\ u # a => SourcesOf(G, u) = SourcesOf(F, u)
<1> USE DEF OneMore
<1>1. \A x: x \in SourcesOf(F, u) => x \in SourcesOf(G, u)
  BY SourceMembers
<1>2. ASSUME NEW x \in SourcesOf(G, u) PROVE x \in SourcesOf(F, u) \/ (u = a /\ x = b)
  <2>1. PICK p \in G: p[1] = u /\ p[2] = x
    BY <1>2, SourceMembers
  <2>2. CASE p \in F
    BY <2>1, <2>2, SourceMembers
  <2>3. CASE p = <<a, b>>
    BY <2>1, <2>3
  <2> QED
    BY <2>2, <2>3
<1>3. b \in SourcesOf(G, a)
  <2>1. <<a, b>> \in G /\ <<a, b>>[1] = a /\ <<a, b>>[2] = b
    OBVIOUS
  <2> QED
    BY <2>1, SourceMembers
<1> QED
  BY <1>1, <1>2, <1>3

\* A saved candidate is one find more in the catalogue.
LEMMA SavedCatalog ==
    ASSUME NEW t \in Tables, NEW cand \in Candidates, NEW q \in Nat, NEW F, CatalogOK(t, F)
    PROVE  CatalogOK(Saved(t, cand, q), F \cup {<<cand.url, cand.source>>})
<1> DEFINE s == Saved(t, cand, q)
           G == F \cup {<<cand.url, cand.source>>}
<1>0. t.urls \in UrlTables /\ DOMAIN t.urls = UrlsOf(F)
         /\ \A u \in DOMAIN t.urls: t.urls[u].sources = SourcesOf(F, u)
  BY DEF Tables, CatalogOK
<1>1. /\ UrlsOf(G) = UrlsOf(F) \cup {cand.url}
      /\ SourcesOf(G, cand.url) = SourcesOf(F, cand.url) \cup {cand.source}
      /\ \A u: u # cand.url => SourcesOf(G, u) = SourcesOf(F, u)
      /\ \A u: u \notin UrlsOf(F) => SourcesOf(F, u) = {}
  <2>1. OneMore(G, F, cand.url, cand.source)
    BY DEF OneMore
  <2> HIDE DEF G
  <2> QED
    BY <2>1, UrlFound, SourceFound, NoSource
<1> HIDE DEF s, G
<1>5. ASSUME SourceLearned(t, s, cand) PROVE CatalogOK(s, G)
  <2>1. DOMAIN s.urls = DOMAIN t.urls /\ cand.url \in DOMAIN t.urls
    BY <1>5 DEF SourceLearned
  <2>2. ASSUME NEW u \in DOMAIN t.urls PROVE s.urls[u].sources = SourcesOf(G, u)
    <3>1. CASE u = cand.url
      BY <1>0, <1>1, <1>5, <3>1 DEF SourceLearned
    <3>2. CASE u # cand.url
      BY <1>0, <1>1, <1>5, <3>2 DEF SourceLearned
    <3> QED
      BY <3>1, <3>2
  <2> QED
    BY <1>0, <1>1, <2>1, <2>2 DEF CatalogOK
<1>6. ASSUME NEW doc \in Nat, UrlAdded(t, s, cand, doc, q) PROVE CatalogOK(s, G)
  <2>1. s.urls[cand.url].sources = {cand.source}
    BY <1>6 DEF UrlAdded
  <2> QED
    BY <1>0, <1>1, <1>6, <2>1 DEF UrlAdded, CatalogOK
<1> QED
  BY <1>5, <1>6, SavedShape DEF s, G

\* Before the first candidate nothing is saved.
LEMMA NothingSaved ==
    ASSUME NEW t, NEW F, CatalogOK(t, F), NEW b, NEW P
    PROVE  CatalogOK(t, F \cup FoundAt(b, P \ P))
<1>1. F \cup FoundAt(b, P \ P) = F
  BY DEF FoundAt
<1> QED
  BY <1>1

\* What a step finds first of its run is at the places that _filter_seen_collection_candidates
\* leaves: the candidates of one step are of one source, so it does not matter which of
\* those with one URL is taken.
LEMMA FreshFinds ==
    ASSUME NEW b \in Seq(Candidates), OneSource(b), NEW U
    PROVE  FoundAt(b, Fresh(b, U)) = {p \in FoundAt(b, DOMAIN b): p[1] \notin U}
<1>1. ASSUME NEW p \in FoundAt(b, Fresh(b, U)) PROVE p \in FoundAt(b, DOMAIN b) /\ p[1] \notin U
  BY <1>1 DEF FoundAt, Fresh
<1>2. ASSUME NEW p \in FoundAt(b, DOMAIN b), p[1] \notin U PROVE p \in FoundAt(b, Fresh(b, U))
  <2>1. PICK i \in DOMAIN b: p = <<b[i].url, b[i].source>>
    BY <1>2 DEF FoundAt
  <2> DEFINE P == {k \in DOMAIN b: b[k].url = b[i].url}
  <2>2. Len(b) \in Nat /\ DOMAIN b = 1 .. Len(b)
    OBVIOUS
  <2>3. P \in SUBSET (1 .. Len(b)) /\ i \in P
    BY <2>2
  <2>4. PICK m \in P: \A k \in P: m <= k
    <3> HIDE DEF P
    <3> QED
      BY <2>2, <2>3, Least
  <2>5. m \in DOMAIN b /\ b[m].url = b[i].url /\ b[m].source = b[i].source
    BY <2>4 DEF OneSource
  <2>6. \A k \in 1 .. m - 1: b[k].url # b[m].url
    <3> SUFFICES ASSUME NEW k \in 1 .. m - 1, b[k].url = b[m].url PROVE FALSE
      OBVIOUS
    <3>1. m \in 1 .. Len(b)
      BY <2>2, <2>5
    <3>2. k \in 1 .. Len(b) /\ ~(m <= k)
      BY <2>2, <3>1
    <3>3. k \in P
      BY <2>2, <2>5, <3>2
    <3> QED
      BY <2>4, <3>2, <3>3
  <2>7. m \in Fresh(b, U)
    BY <1>2, <2>1, <2>5, <2>6 DEF Fresh
  <2>8. p = <<b[m].url, b[m].source>>
    BY <2>1, <2>5
  <2> QED
    BY <2>7, <2>8 DEF FoundAt
<1> QED
  BY <1>1, <1>2

\* A step that is numbered after the others of its run adds what it found first.
LEMMA StepAdded ==
    ASSUME NEW S, NEW row, row.number \in Nat,
           \A r \in S: r.number \in Nat /\ (r.query = row.query => r.number < row.number)
    PROVE  FoundFirst(S \cup {row})
              = FoundFirst(S) \cup {p \in row.found: p[1] \notin FoundIn(RowsOf(S, row.query))}
<1>1. ASSUME NEW r \in S PROVE First(r, S \cup {row}) = First(r, S)
  <2>1. ~(row.query = r.query /\ row.number < r.number)
    BY <1>1
  <2> QED
    BY <2>1 DEF First
<1>2. First(row, S \cup {row}) = {p \in row.found: p[1] \notin FoundIn(RowsOf(S, row.query))}
  <2>1. ~(row.number < row.number)
    OBVIOUS
  <2>2. ASSUME NEW p \in row.found
        PROVE  (\A e \in S \cup {row}: e.query = row.query /\ e.number < row.number => p[1] \notin UrlsOf(e.found))
                  <=> p[1] \notin FoundIn(RowsOf(S, row.query))
    BY <2>1 DEF FoundIn, RowsOf
  <2> QED
    BY <2>2 DEF First
<1> QED
  BY <1>1, <1>2 DEF FoundFirst

\* A URL that a step found was found first by one.
LEMMA SomeFirst ==
    ASSUME NEW S, \A r \in S: r.number \in Nat
    PROVE  UrlsOf(FoundFirst(S)) = FoundIn(S)
<1>1. UrlsOf(FoundFirst(S)) \subseteq FoundIn(S)
  BY DEF UrlsOf, First, FoundFirst, FoundIn
<1>2. ASSUME NEW u \in FoundIn(S) PROVE u \in UrlsOf(FoundFirst(S))
  <2>1. PICK r \in S: u \in UrlsOf(r.found)
    BY <1>2 DEF FoundIn
  <2> DEFINE H == {e \in S: e.query = r.query /\ u \in UrlsOf(e.found)}
             N == {e.number: e \in H}
  <2>2. N \in SUBSET Nat /\ N # {}
    BY <2>1
  <2>3. PICK m \in N: \A n \in N: m <= n
    <3> HIDE DEF N
    <3> QED
      BY <2>2, LeastElement
  <2>4. PICK e \in H: e.number = m
    BY <2>3
  <2>5. PICK p \in e.found: p[1] = u
    BY <2>4 DEF UrlsOf
  <2>6. ASSUME NEW d \in S, d.query = e.query, d.number < e.number PROVE u \notin UrlsOf(d.found)
    <3> SUFFICES ASSUME u \in UrlsOf(d.found) PROVE FALSE
      OBVIOUS
    <3>1. d \in H
      BY <2>4, <2>6
    <3>2. m <= d.number
      BY <2>3, <3>1
    <3> QED
      BY <2>2, <2>4, <2>6, <3>1, <3>2
  <2>7. p \in First(e, S)
    BY <2>5, <2>6 DEF First
  <2> QED
    BY <2>4, <2>5, <2>7 DEF UrlsOf, FoundFirst
<1> QED
  BY <1>1, <1>2

\* A step of c that leaves no transaction open.
LEMMA Closed ==
    ASSUME writer' = NoCollector, CatalogOK(db', Finds(db'))
    PROVE  CatalogInv'
<1>1. \A d \in Collectors: writer' # d
  BY CollectAssumption
<1>2. CatalogOK(db, Finds(db))'
  BY DEF CatalogOK, Finds, FoundFirst, FoundByJobs, First
<1> QED
  BY <1>1, <1>2 DEF CatalogInv

\* What the catalogue is does not change when it is not written.
LEMMA NotWritten ==
    ASSUME CatalogOK(db, Finds(db)), db' = db
    PROVE  Finds(db)' = Finds(db) /\ CatalogOK(db, Finds(db))'
<1>1. Finds(db') = Finds(db) /\ CatalogOK(db', Finds(db'))
  OBVIOUS
<1>2. CatalogOK(db, Finds(db))'
  BY <1>1 DEF CatalogOK, Finds, FoundFirst, FoundByJobs, First
<1>3. Finds(db)' = Finds(db)
  BY <1>1 DEF Finds, FoundFirst, FoundByJobs, First
<1> QED
  BY <1>2, <1>3

\* No row of steps or events, no find.
LEMMA NothingFound ==
    ASSUME NEW t, NEW s, s.urls = t.urls, s.events = t.events, s.steps = t.steps
    PROVE  Finds(s) = Finds(t) /\ \A F: CatalogOK(t, F) => CatalogOK(s, F)
BY DEF Finds, CatalogOK, First

\* StartCollect keeps the catalogue exact.
LEMMA StartCollectCatalog ==
    ASSUME TypeInv, CatalogInv, NEW c \in Collectors, StartCollect(c)
    PROVE  CatalogInv'
<1>1. /\ db' = [db EXCEPT !.queries = db.queries + 1] /\ db \in Tables /\ db.queries + 1 \in Nat
      /\ writer' = NoCollector
  BY DEF StartCollect, Commit, Free, TypeInv, Tables
<1>2. db'.urls = db.urls /\ db'.events = db.events /\ db'.steps = db.steps
  BY <1>1, QueriesWritten DEF Kept
<1>3. CatalogOK(db', Finds(db'))
  BY <1>2, NothingFound DEF CatalogInv
<1> QED
  BY <1>1, <1>3, Closed

\* FailedStep keeps the catalogue exact.
LEMMA FailedStepCatalog ==
    ASSUME CountInv, StepInv, CatalogInv, NEW c \in Collectors, FailedStep(c)
    PROVE  CatalogInv'
<1> DEFINE row == StepRow(c, stepCount[c] + 1, "failed", {})
           rows == db.steps \cup {row}
<1>1. /\ db' = [db EXCEPT !.steps = rows] /\ db \in Tables /\ pc[c] = "searching"
      /\ writer' = NoCollector
  BY DEF FailedStep, Commit, Free, CountInv, TypeInv
<1>2. row.query = query[c] /\ row.number = stepCount[c] + 1 /\ row.found = {}
  BY DEF StepRow
<1>3. (\A r \in db.steps: r.number \in Nat) /\ stepCount[c] \in Nat
  BY StepNumbers DEF CountInv
<1>4. row \in StepRows
  BY <1>3, StepRowType DEF CountInv, Found
<1> HIDE DEF row
<1>5. rows \in SUBSET StepRows
  BY <1>1, <1>4 DEF Tables
<1>6. db'.urls = db.urls /\ db'.events = db.events /\ db'.steps = rows
  BY <1>1, <1>5, StepsWritten DEF Kept
<1>7. \A r \in db.steps: r.query = row.query => r.number < row.number
  <2>1. \A r \in RowsOf(db.steps, query[c]): r.number <= stepCount[c]
    BY <1>1 DEF StepInv, StepOK
  <2>2. \A r \in db.steps: r.query = row.query => r.number <= stepCount[c]
    BY <1>2, <2>1 DEF RowsOf
  <2> QED
    BY <1>2, <1>3, <2>2
<1>8. FoundFirst(rows) = FoundFirst(db.steps)
  <2>1. row.number \in Nat
    BY <1>2, <1>3
  <2>2. FoundFirst(rows)
           = FoundFirst(db.steps)
                \cup {p \in row.found: p[1] \notin FoundIn(RowsOf(db.steps, row.query))}
    BY <1>3, <1>7, <2>1, StepAdded
  <2> QED
    BY <1>2, <2>2
<1>9. Finds(db') = Finds(db)
  BY <1>6, <1>8 DEF Finds
<1>10. CatalogOK(db', Finds(db'))
  BY <1>6, <1>9 DEF CatalogInv, CatalogOK
<1> QED
  BY <1>1, <1>10, Closed

\* FinishCollection keeps the catalogue exact.
LEMMA FinishCollectionCatalog ==
    ASSUME TypeInv, CatalogInv, NEW c \in Collectors, FinishCollection(c)
    PROVE  CatalogInv'
<1> DEFINE row == Event(query[c], summary[c], {})
           rows == db.events \cup {row}
<1>1. /\ db' = [db EXCEPT !.events = rows] /\ db \in Tables /\ writer' = NoCollector
  BY DEF FinishCollection, Commit, Free, TypeInv
<1>2. rows \in SUBSET EventRows /\ row.found = {}
  <2>1. query[c] \in Nat /\ summary[c] \in Summaries /\ {} \in Found
    BY DEF TypeInv, TypeOK, Found
  <2>2. row \in EventRows
    BY <2>1, EventType
  <2> QED
    BY <1>1, <2>2 DEF Tables, Event
<1>3. db'.urls = db.urls /\ db'.steps = db.steps /\ db'.events = rows
  BY <1>1, <1>2, EventsWritten DEF Kept
<1> HIDE DEF row
<1>4. Finds(db') = Finds(db)
  BY <1>2, <1>3 DEF Finds, FoundFirst, FoundByJobs, First
<1>5. CatalogOK(db', Finds(db'))
  BY <1>3, <1>4 DEF CatalogInv, CatalogOK
<1> QED
  BY <1>1, <1>5, Closed

\* A transaction of c begins.
LEMMA Opened ==
    ASSUME CatalogInv, NEW c \in Collectors, OpenOK(c)', writer' = c, db' = db
    PROVE  CatalogInv'
<1>1. CatalogOK(db, Finds(db))'
  BY NotWritten DEF CatalogInv
<1> QED
  BY <1>1 DEF CatalogInv

\* BeginStep keeps the catalogue exact.
LEMMA BeginStepCatalog ==
    ASSUME CountInv, StepInv, CatalogInv, NEW c \in Collectors, NEW b \in Batches, BeginStep(c, b)
    PROVE  CatalogInv'
<1> DEFINE row == StepRow(c, stepCount[c] + 1, "running", {})
           rows == db.steps \cup {row}
           P == Fresh(b, seen[c])
<1>1. /\ work' = [db EXCEPT !.steps = rows] /\ db' = db /\ db \in Tables
      /\ mode' = mode /\ query' = query /\ mode[c] = "collect" /\ pc[c] = "searching"
      /\ writer' = c
  BY DEF BeginStep, CountInv, TypeInv
<1>2. rows \in SUBSET StepRows
  <2>1. stepCount[c] \in Nat
    BY StepNumbers DEF CountInv
  <2>2. row \in StepRows
    BY <2>1, StepRowType DEF CountInv, Found
  <2> HIDE DEF row
  <2> QED
    BY <1>1, <2>2 DEF Tables
<1>3. work'.urls = db.urls
  BY <1>1, <1>2, StepsWritten DEF Kept
<1>4. batch'[c] = b /\ todo'[c] = P
  BY DEF BeginStep, SaveFrom, CountInv, TypeInv, TypeOK
<1>5. seen[c] = FoundIn(RowsOf(db.steps, query[c]))
  BY <1>1 DEF StepInv, StepOK
<1>6. Saves(c)' = P
  BY <1>1, <1>4, <1>5 DEF Saves
<1> HIDE DEF row, P
<1>7. CatalogOK(work', Finds(db))
  BY <1>3 DEF CatalogInv, CatalogOK
<1>8. CatalogOK(work', Finds(db) \cup FoundAt(b, P \ P))
  BY <1>7, NothingSaved
<1>9. OpenOK(c)'
  <2>1. Finds(db)' = Finds(db)
    BY <1>1, NotWritten DEF CatalogInv
  <2> QED
    BY <1>4, <1>6, <1>8, <2>1 DEF OpenOK
<1> QED
  BY <1>1, <1>9, Opened

\* StartJob keeps the catalogue exact.
LEMMA StartJobCatalog ==
    ASSUME TypeInv, CatalogInv, NEW c \in Collectors, NEW b \in Batches, StartJob(c, b)
    PROVE  CatalogInv'
<1> DEFINE P == DOMAIN b
<1>1. /\ work' = [db EXCEPT !.queries = db.queries + 1] /\ db' = db /\ db \in Tables
      /\ db.queries + 1 \in Nat /\ mode'[c] = "job" /\ writer' = c
  BY DEF StartJob, TypeInv, TypeOK, Tables
<1>2. work'.urls = db.urls
  BY <1>1, QueriesWritten DEF Kept
<1>3. batch'[c] = b /\ todo'[c] = P
  BY DEF StartJob, SaveFrom, TypeInv, TypeOK
<1>4. Saves(c)' = P
  BY <1>1, <1>3 DEF Saves
<1>5. CatalogOK(work', Finds(db))
  BY <1>2 DEF CatalogInv, CatalogOK
<1> HIDE DEF P
<1>6. CatalogOK(work', Finds(db) \cup FoundAt(b, P \ P))
  BY <1>5, NothingSaved
<1>7. OpenOK(c)'
  <2>1. Finds(db)' = Finds(db)
    BY <1>1, NotWritten DEF CatalogInv
  <2> QED
    BY <1>3, <1>4, <1>6, <2>1 DEF OpenOK
<1> QED
  BY <1>1, <1>7, Opened

\* SaveCandidate keeps the catalogue exact.
LEMMA SaveCandidateCatalog ==
    ASSUME CountInv, CatalogInv, NEW c \in Collectors, SaveCandidate(c)
    PROVE  CatalogInv'
<1> DEFINE i == NextOf(c)
           cand == batch[c][i]
           P == Saves(c)
<1>1. TypeInv /\ todo[c] # {}
  BY DEF CountInv, SaveCandidate
<1>2. i \in todo[c] /\ i \in DOMAIN batch[c] /\ cand \in Candidates
  BY <1>1, NextOfType
<1>3. work \in Tables /\ query[c] \in Nat
  BY <1>1 DEF TypeInv, TypeOK
<1>4. /\ work' = Saved(work, cand, query[c])
      /\ todo'[c] = todo[c] \ {i}
      /\ UNCHANGED <<db, writer, pc, mode, query, batch>>
      /\ pc[c] = "saving"
  BY <1>1 DEF SaveCandidate, TypeInv, TypeOK
<1>5. writer = c /\ OpenOK(c)
  BY <1>4 DEF CountInv, CatalogInv
<1>6. todo[c] \subseteq P /\ CatalogOK(work, Finds(db) \cup FoundAt(batch[c], P \ todo[c]))
  BY <1>5 DEF OpenOK
<1>7. Saves(c)' = P
  BY <1>4 DEF Saves
<1> HIDE DEF i, P
<1>8. Finds(db) \cup FoundAt(batch[c], P \ todo'[c])
         = (Finds(db) \cup FoundAt(batch[c], P \ todo[c])) \cup {<<cand.url, cand.source>>}
  <2>1. P \ todo'[c] = (P \ todo[c]) \cup {i}
    BY <1>2, <1>4, <1>6
  <2> QED
    BY <2>1 DEF FoundAt
<1>9. CatalogOK(work', Finds(db) \cup FoundAt(batch[c], P \ todo'[c]))
  BY <1>2, <1>3, <1>4, <1>6, <1>8, SavedCatalog
<1>10. Finds(db)' = Finds(db) /\ CatalogOK(db, Finds(db))'
  BY <1>4, NotWritten DEF CatalogInv
<1>11. OpenOK(c)'
  <2>1. todo'[c] \subseteq P
    BY <1>4, <1>6
  <2> QED
    BY <1>4, <1>7, <1>9, <1>10, <2>1 DEF OpenOK
<1>12. \A d \in Collectors: writer' = d => d = c
  BY <1>4, <1>5
<1> QED
  BY <1>10, <1>11, <1>12 DEF CatalogInv

\* When the transaction of c has saved all, what it found and what was found before is
\* the catalogue it commits.
LEMMA AllSaved ==
    ASSUME CountInv, CatalogInv, NEW c \in Collectors, pc[c] = "saving", todo[c] = {}
    PROVE  CatalogOK(work, Finds(db) \cup FoundAt(batch[c], Saves(c)))
<1>1. OpenOK(c)
  BY DEF CountInv, CatalogInv
<1>2. Saves(c) \ todo[c] = Saves(c)
  OBVIOUS
<1> QED
  BY <1>1, <1>2 DEF OpenOK

\* CommitStep keeps the catalogue exact.
LEMMA CommitStepCatalog ==
    ASSUME CountInv, StepInv, CatalogInv, NEW c \in Collectors, CommitStep(c)
    PROVE  CatalogInv'
<1> DEFINE row == StepRow(c, stepCount[c], "completed", found[c])
           rows == db.steps \cup {row}
           U == FoundIn(RowsOf(db.steps, query[c]))
<1>1. db'.steps = rows /\ db'.urls = work.urls /\ db'.events = db.events
  BY StepRowsCommitted
<1>2. pc[c] = "saving" /\ mode[c] = "collect" /\ todo[c] = {} /\ writer' = NoCollector
  BY DEF CommitStep
<1>3. CatalogOK(work, Finds(db) \cup FoundAt(batch[c], Fresh(batch[c], U)))
  BY <1>2, AllSaved DEF Saves
<1>4. row.query = query[c] /\ row.number = stepCount[c] /\ row.found = found[c]
  BY DEF StepRow
<1>5. /\ OneSource(batch[c]) /\ found[c] = FoundAt(batch[c], DOMAIN batch[c])
      /\ \A r \in RowsOf(db.steps, query[c]): r.number < stepCount[c]
  BY <1>2 DEF StepInv, StepOK
<1>6. (\A r \in db.steps: r.number \in Nat) /\ row.number \in Nat
  BY <1>4, StepNumbers DEF CountInv
<1>7. batch[c] \in Seq(Candidates)
  BY DEF CountInv, TypeInv, TypeOK
<1> HIDE DEF row, U
<1>8. FoundAt(batch[c], Fresh(batch[c], U)) = {p \in row.found: p[1] \notin U}
  BY <1>4, <1>5, <1>7, FreshFinds
<1>9. FoundFirst(rows)
         = FoundFirst(db.steps) \cup {p \in row.found: p[1] \notin U}
  <2>1. \A r \in db.steps: r.query = row.query => r.number < row.number
    BY <1>4, <1>5 DEF RowsOf
  <2>2. FoundIn(RowsOf(db.steps, row.query)) = U
    BY <1>4 DEF U
  <2>3. FoundFirst(rows)
           = FoundFirst(db.steps)
                \cup {p \in row.found: p[1] \notin FoundIn(RowsOf(db.steps, row.query))}
    BY <1>6, <2>1, StepAdded
  <2> QED
    BY <2>2, <2>3
<1>10. Finds(db') = Finds(db) \cup FoundAt(batch[c], Fresh(batch[c], U))
  BY <1>1, <1>8, <1>9 DEF Finds
<1>11. CatalogOK(db', Finds(db'))
  BY <1>1, <1>3, <1>10 DEF CatalogOK
<1> QED
  BY <1>2, <1>11, Closed

\* CommitJob keeps the catalogue exact.
LEMMA CommitJobCatalog ==
    ASSUME CountInv, StepInv, CatalogInv, NEW c \in Collectors, CommitJob(c)
    PROVE  CatalogInv'
<1> DEFINE row == Event(query[c], stepSum[c], found[c])
<1>1. /\ db'.steps = db.steps /\ db'.events = db.events \cup {row} /\ db'.urls = work.urls
  BY JobCommitted
<1>2. pc[c] = "saving" /\ mode[c] = "job" /\ todo[c] = {} /\ writer' = NoCollector
  BY DEF CommitJob
<1>3. CatalogOK(work, Finds(db) \cup FoundAt(batch[c], DOMAIN batch[c]))
  BY <1>2, AllSaved DEF Saves
<1>4. row.found = FoundAt(batch[c], DOMAIN batch[c])
  BY <1>2 DEF StepInv, StepOK, Event
<1> HIDE DEF row
<1>5. Finds(db') = Finds(db) \cup row.found
  BY <1>1 DEF Finds, FoundFirst, FoundByJobs, First
<1>6. CatalogOK(db', Finds(db'))
  BY <1>1, <1>3, <1>4, <1>5 DEF CatalogOK
<1> QED
  BY <1>2, <1>6, Closed

\* A run that is refused or killed keeps the catalogue exact.
LEMMA EndCatalog ==
    ASSUME CatalogInv, NEW c \in Collectors, CandidateRejected(c) \/ Busy(c) \/ Crash(c)
    PROVE  CatalogInv'
<1>1. /\ UNCHANGED <<db, mode, query, batch, todo>>
      /\ writer' = NoCollector \/ UNCHANGED <<work, writer>>
  BY DEF CandidateRejected, Busy, Crash, Rollback
<1>2. Finds(db)' = Finds(db) /\ CatalogOK(db, Finds(db))'
  BY <1>1, NotWritten DEF CatalogInv
<1>3. \A d \in Collectors: writer' = d => OpenOK(d)'
  <2>1. CASE writer' = NoCollector
    BY <2>1, CollectAssumption
  <2>2. CASE UNCHANGED <<work, writer>>
    <3>1. \A d \in Collectors: Saves(d)' = Saves(d)
      BY <1>1 DEF Saves
    <3> QED
      BY <1>1, <1>2, <2>2, <3>1 DEF CatalogInv, OpenOK, CatalogOK
  <2> QED
    BY <1>1, <2>1, <2>2
<1> QED
  BY <1>2, <1>3 DEF CatalogInv

\* Every step keeps the catalogue exact.
LEMMA CatalogNext == CountInv /\ StepInv /\ CatalogInv /\ [Next]_vars => CatalogInv'
<1> SUFFICES ASSUME CountInv, StepInv, CatalogInv, [Next]_vars PROVE CatalogInv'
  OBVIOUS
<1>1. TypeInv
  BY DEF CountInv
<1>2. ASSUME NEW c \in Collectors, Start(c) PROVE CatalogInv'
  BY <1>1, <1>2, StartCollectCatalog, StartJobCatalog DEF Start
<1>3. ASSUME NEW c \in Collectors, Advance(c) PROVE CatalogInv'
  <2>1. CandidateRejected(c) => CatalogInv'
    BY EndCatalog
  <2> QED
    BY <1>1, <1>3, <2>1, FailedStepCatalog, BeginStepCatalog, SaveCandidateCatalog,
       CommitStepCatalog, FinishCollectionCatalog, CommitJobCatalog DEF Advance
<1>4. ASSUME NEW c \in Collectors, Busy(c) \/ Crash(c) PROVE CatalogInv'
  BY <1>4, EndCatalog
<1>5. CASE UNCHANGED vars
  <2>1. UNCHANGED <<db, work, writer, mode, query, batch, todo>>
    BY <1>5 DEF vars, localVars
  <2>2. Finds(db)' = Finds(db) /\ CatalogOK(db, Finds(db))'
    BY <2>1, NotWritten DEF CatalogInv
  <2>3. \A d \in Collectors: Saves(d)' = Saves(d)
    BY <2>1 DEF Saves
  <2> QED
    BY <2>1, <2>2, <2>3 DEF CatalogInv, OpenOK, CatalogOK
<1> QED
  BY <1>2, <1>3, <1>4, <1>5 DEF Next, AllEnded

LEMMA CatalogInit == Init => CatalogInv
<1> SUFFICES ASSUME Init PROVE CatalogInv
  OBVIOUS
<1>1. db = EmptyDb /\ writer = NoCollector
  BY DEF Init
<1>2. Finds(db) = {} /\ DOMAIN db.urls = {}
  BY <1>1 DEF EmptyDb, Finds, FoundFirst, FoundByJobs
<1>3. CatalogOK(db, Finds(db))
  BY <1>2 DEF CatalogOK, UrlsOf
<1> QED
  BY <1>1, <1>3, CollectAssumption DEF CatalogInv

\* Wherever processes die, are refused or wait for each other, the committed catalogue
\* is what the committed steps and jobs found: every URL of theirs and no other, with the
\* sources that were the first of a run to find it; and no step is left "running".
THEOREM CatalogExact == Spec => []CatalogIsWhatStepsFound
<1>1. CountInv /\ StepInv /\ CatalogInv => CatalogIsWhatStepsFound
  <2> SUFFICES ASSUME CountInv, StepInv, CatalogInv PROVE CatalogIsWhatStepsFound
    OBVIOUS
  <2>1. Finds(db) = RecordedFinds
    BY DEF Finds, FoundFirst, FoundByJobs, First, RecordedFinds, FoundFirst, FoundByJobs, FirstFinds, UrlsOf
  <2>2. UrlsOf(Finds(db)) = UrlsOf(CommittedFinds)
    <3>1. UrlsOf(FoundFirst(db.steps)) = FoundIn(db.steps)
      BY StepNumbers, SomeFirst DEF CountInv
    <3>2. UrlsOf(Finds(db)) = FoundIn(db.steps) \cup UrlsOf(FoundByJobs(db.events))
      BY <3>1 DEF Finds, FoundByJobs, UrlsOf
    <3>3. UrlsOf(CommittedFinds) = FoundIn(db.steps) \cup UrlsOf(FoundByJobs(db.events))
      BY DEF CommittedFinds, FoundByJobs, UrlsOf, FoundIn
    <3> QED
      BY <3>2, <3>3
  <2> QED
    BY <2>1, <2>2 DEF CatalogInv, CatalogOK, StepInv, CatalogIsWhatStepsFound, UrlsOf, SourcesOf
<1> QED
  BY <1>1, CountInit, StepInit, CatalogInit, CountNext, StepNext, CatalogNext, PTL DEF Spec
=============================================================================
