------------------------------- MODULE Collect -------------------------------
(***************************************************************************)
(* What `bookhound collect` and the daemon's jobs write to the catalogue:   *)
(* RepositorySet (repositories.py) driven by                                *)
(* _save_incremental_collect_result (cli.py), one transaction per discovery *)
(* step, or by CollectJobExecutor (app_factory.py), one transaction for the *)
(* whole result.                                                            *)
(*                                                                          *)
(* The first statement of every transaction writes, so SQLite lets one      *)
(* process at a time into one: `writer`.  `work` is what that process sees, *)
(* `db` what everybody else sees; commit copies the one to the other.       *)
(* A candidate is the part of a RawCandidate that persistence looks at.     *)
(* The sources table is only an id for each source name and is left out.    *)
(***************************************************************************)
EXTENDS Integers, Sequences, FiniteSets

CONSTANTS
    Collectors,         \* processes that collect; each runs once
    NoCollector,        \* "nobody": no write transaction is open
    Candidates,         \* what a source may find: [url, doi, isbn, source, evidence]
    Urls, Dois, Isbns,  \* canonical URLs and identifiers
    None,               \* an identifier the source did not give
    Sources,
    Evidence,           \* license evidence a candidate may carry
    MaxBatch,           \* bound: candidates of one step
    MaxSteps,           \* bound: steps of one run
    MaxFaults           \* bound: killed processes and "database is locked" errors

ASSUME CollectAssumption ==
    /\ NoCollector \notin Collectors
    /\ None \notin Dois \cup Isbns
    /\ Candidates \subseteq [url : Urls, doi : Dois \cup {None},
                             isbn : Isbns \cup {None}, source : Sources,
                             evidence : SUBSET Evidence]
    /\ MaxBatch \in Nat /\ MaxSteps \in Nat /\ MaxFaults \in Nat

VARIABLES
    db, work,           \* the tables as committed, and as the open transaction sees them
    writer,             \* the process whose write transaction is open
    pc, mode,           \* of each process: where it is; "collect" or "job"
    query,              \* the id of its queries row
    batch, todo,        \* the candidates it saves now, the positions still to save
    found,              \* history: the (URL, source) pairs the step or job has found
    seen,               \* seen_canonical_urls
    summary, stepSum,   \* the CollectSummary of the run and of this transaction
    stepCount, faults   \* counters, for the bounds

localVars == <<pc, mode, query, batch, todo, found, seen, summary, stepSum, stepCount>>
vars == <<db, work, writer, localVars, faults>>

(* documents.by, document_urls.by and the `found` of steps and events are    *)
(* history: which run inserted the row, and what the step or job found.      *)
Documents == [doi : Dois \cup {None}, isbn : Isbns \cup {None}, by : Nat]
UrlRows == [doc : Nat, sources : SUBSET Sources, by : Nat]
EvidenceRows == [doc : Nat, url : Urls, value : Evidence]
Found == SUBSET (Urls \X Sources)
StepRows == [query : Nat, number : Nat, status : {"running", "completed", "failed"},
             found : Found]
Summaries == [total : Nat, new : Nat, updated : Nat, duplicate : Nat]
EventRows == [query : Nat, summary : Summaries, found : Found]

DbOK(t) ==
    /\ t.documents \in Seq(Documents)
    /\ DOMAIN t.urls \subseteq Urls
    /\ \A u \in DOMAIN t.urls: t.urls[u] \in UrlRows
    /\ t.evidence \subseteq EvidenceRows
    /\ t.steps \subseteq StepRows
    /\ t.events \subseteq EventRows
    /\ t.queries \in Nat

TypeOK ==
    /\ DbOK(db) /\ DbOK(work)
    /\ writer \in Collectors \cup {NoCollector}
    /\ pc \in [Collectors -> {"idle", "searching", "saving", "ended", "failed"}]
    /\ mode \in [Collectors -> {"collect", "job"}]
    /\ query \in [Collectors -> Nat]
    /\ batch \in [Collectors -> Seq(Candidates)]
    /\ \A c \in Collectors: todo[c] \subseteq DOMAIN batch[c]
    /\ found \in [Collectors -> Found]
    /\ seen \in [Collectors -> SUBSET Urls]
    /\ summary \in [Collectors -> Summaries]
    /\ stepSum \in [Collectors -> Summaries]
    /\ stepCount \in [Collectors -> Nat]
    /\ faults \in Nat

EmptyDb == [documents |-> <<>>, urls |-> <<>>, evidence |-> {}, steps |-> {},
            events |-> {}, queries |-> 0]
NoSummary == [total |-> 0, new |-> 0, updated |-> 0, duplicate |-> 0]

Init ==
    /\ db = EmptyDb /\ work = EmptyDb
    /\ writer = NoCollector
    /\ pc = [c \in Collectors |-> "idle"]
    /\ mode = [c \in Collectors |-> "collect"]
    /\ query = [c \in Collectors |-> 0]
    /\ batch = [c \in Collectors |-> <<>>]
    /\ todo = [c \in Collectors |-> {}]
    /\ found = [c \in Collectors |-> {}]
    /\ seen = [c \in Collectors |-> {}]
    /\ summary = [c \in Collectors |-> NoSummary]
    /\ stepSum = [c \in Collectors |-> NoSummary]
    /\ stepCount = [c \in Collectors |-> 0]
    /\ faults = 0

-----------------------------------------------------------------------------
(* Saving one candidate: RepositorySet._save_discovery_candidate            *)

\* the documents a candidate is taken to be: by DOI first, by ISBN only if no
\* row has the DOI
SameDoi(t, cand) ==
    {i \in DOMAIN t.documents: cand.doi # None /\ t.documents[i].doi = cand.doi}
SameIsbn(t, cand) ==
    {i \in DOMAIN t.documents: cand.isbn # None /\ t.documents[i].isbn = cand.isbn}
Existing(t, cand) ==
    IF SameDoi(t, cand) # {} THEN SameDoi(t, cand) ELSE SameIsbn(t, cand)

Coalesce(new, old) == IF new # None THEN new ELSE old

\* SET doi = COALESCE(?, doi), isbn = COALESCE(?, isbn)
Identified(doc, cand) ==
    [doc EXCEPT !.doi = Coalesce(cand.doi, @), !.isbn = Coalesce(cand.isbn, @)]

\* doi and isbn are UNIQUE: the update would give two rows the same identifier
Rejected(t, cand) ==
    /\ cand.url \notin DOMAIN t.urls
    /\ \E i \in Existing(t, cand):
          (SameDoi(t, cand) \cup SameIsbn(t, cand)) \ {i} # {}

\* Mistake: counted after documents.upsert, when the document is always there.
OutcomeAfterUpsert(t, cand) ==
    IF cand.url \in DOMAIN t.urls THEN "duplicate" ELSE "updated"

Outcome(t, cand) ==
    IF cand.url \in DOMAIN t.urls THEN "duplicate"
    ELSE IF Existing(t, cand) = {} THEN "new" ELSE "updated"

Counted(s, outcome) ==
    LET one(o) == IF outcome = o THEN 1 ELSE 0
    IN  [total |-> s.total, new |-> s.new + one("new"),
         updated |-> s.updated + one("updated"), duplicate |-> s.duplicate + one("duplicate")]

\* Mistake: the occurrences are overwritten instead of merged.
WithOccurrenceOnly(t, cand) == [t EXCEPT !.urls[cand.url].sources = {cand.source}]

\* DocumentUrlRepository.merge_source_occurrence: the row of a known URL learns
\* another source, and nothing else is written
WithOccurrence(t, cand) ==
    [t EXCEPT !.urls[cand.url].sources = @ \cup {cand.source}]

\* the document inserted or updated, its URL and the evidence inserted
WithDocument(t, cand, doc, q) ==
    [t EXCEPT
        !.documents =
            IF doc \in DOMAIN t.documents
            THEN [t.documents EXCEPT ![doc] = Identified(t.documents[doc], cand)]
            ELSE Append(t.documents, [doi |-> cand.doi, isbn |-> cand.isbn, by |-> q]),
        !.urls =
            [u \in DOMAIN t.urls \cup {cand.url} |->
                IF u \in DOMAIN t.urls THEN t.urls[u]
                ELSE [doc |-> doc, sources |-> {cand.source}, by |-> q]],
        !.evidence =
            t.evidence
                \cup {[doc |-> doc, url |-> cand.url, value |-> e]: e \in cand.evidence}]

\* Mistake: a known URL goes through documents.upsert and document_urls.upsert,
\* which moves it to the document of the new candidate.
SavedRelinking(t, cand, q) ==
    LET doc == IF Existing(t, cand) = {} THEN Len(t.documents) + 1
               ELSE CHOOSE i \in Existing(t, cand): TRUE
        linked == WithDocument(t, cand, doc, q)
    IN  [linked EXCEPT !.urls[cand.url].doc = doc,
                       !.urls[cand.url].sources = @ \cup {cand.source}]

Saved(t, cand, q) ==
    IF cand.url \in DOMAIN t.urls THEN WithOccurrence(t, cand)
    ELSE IF Existing(t, cand) = {}
         THEN WithDocument(t, cand, Len(t.documents) + 1, q)
         ELSE WithDocument(t, cand, CHOOSE i \in Existing(t, cand): TRUE, q)

-----------------------------------------------------------------------------
(* Helpers of a run                                                         *)

Batches == UNION {[1 .. n -> Candidates]: n \in 0 .. MaxBatch}
OneSource(b) == \A i, j \in DOMAIN b: b[i].source = b[j].source

\* Mistake: every step starts anew, so that what comes first is known of the step only.
FreshInStep(b, urls) ==
    {i \in DOMAIN b: \A k \in 1 .. i - 1: b[k].url # b[i].url}

\* _filter_seen_collection_candidates: the positions of a step's candidates
\* whose canonical URL the run has not met before
Fresh(b, urls) ==
    {i \in DOMAIN b: b[i].url \notin urls /\ \A k \in 1 .. i - 1: b[k].url # b[i].url}

FoundAt(b, positions) == {<<b[i].url, b[i].source>>: i \in positions}

Plus(s1, s2) ==
    [total |-> s1.total + s2.total, new |-> s1.new + s2.new,
     updated |-> s1.updated + s2.updated, duplicate |-> s1.duplicate + s2.duplicate]

\* the row of the current step, in create_running or record_failed or mark_completed
StepRow(c, number, status, pairs) ==
    [query |-> query[c], number |-> number, status |-> status, found |-> pairs]

Event(q, s, pairs) == [query |-> q, summary |-> s, found |-> pairs]

Free == writer = NoCollector
Commit(t) == db' = t /\ work' = t
Rollback == work' = db /\ UNCHANGED db
Goto(c, label) == pc' = [pc EXCEPT ![c] = label]

\* Mistake: the positions of the candidates kept, in a list that no longer has the
\* others.
SaveFromShortened(c, b, positions) ==
    /\ batch' = [batch EXCEPT ![c] = SubSeq(b, 1, Cardinality(positions))]
    /\ todo' = [todo EXCEPT ![c] = positions]
    /\ found' = [found EXCEPT ![c] = FoundAt(b, DOMAIN b)]
    /\ stepSum' = [stepSum EXCEPT ![c] = [NoSummary EXCEPT !.total = Cardinality(positions)]]

\* the summary a transaction starts from, and what is left to save in it
SaveFrom(c, b, positions) ==
    /\ batch' = [batch EXCEPT ![c] = b]
    /\ todo' = [todo EXCEPT ![c] = positions]
    /\ found' = [found EXCEPT ![c] = FoundAt(b, DOMAIN b)]
    /\ stepSum' = [stepSum EXCEPT ![c] = [NoSummary EXCEPT !.total = Cardinality(positions)]]

\* candidates are saved in their order
NextOf(c) == CHOOSE i \in todo[c]: \A k \in todo[c]: i <= k

-----------------------------------------------------------------------------
(* Mistakes a change of the transactions could make; each one takes the     *)
(* place of the action it is named after in a run that must then fail.      *)

\* license_evidence.add without commit=False
SaveCandidateCommitted(c) ==
    LET cand == batch[c][NextOf(c)]
    IN  /\ pc[c] = "saving" /\ todo[c] # {}
        /\ ~Rejected(work, cand)
        /\ Commit(Saved(work, cand, query[c]))
        /\ stepSum' = [stepSum EXCEPT ![c] = Counted(@, Outcome(work, cand))]
        /\ todo' = [todo EXCEPT ![c] = @ \ {NextOf(c)}]
        /\ UNCHANGED <<writer, pc, mode, query, batch, found, seen, summary,
                       stepCount, faults>>

\* no commit at the end of a step
CommitStepForgotten(c) ==
    /\ pc[c] = "saving" /\ mode[c] = "collect" /\ todo[c] = {}
    /\ summary' = [summary EXCEPT ![c] = Plus(@, stepSum[c])]
    /\ Goto(c, "searching")
    /\ UNCHANGED <<db, work, writer, mode, query, batch, todo, found, seen, stepSum,
                   stepCount, faults>>

-----------------------------------------------------------------------------
(* `bookhound collect`: one transaction per step                            *)

\* begin_collection
StartCollect(c) ==
    /\ pc[c] = "idle" /\ Free
    /\ Commit([db EXCEPT !.queries = @ + 1])
    /\ query' = [query EXCEPT ![c] = db.queries + 1]
    /\ Goto(c, "searching")
    /\ UNCHANGED <<writer, mode, batch, todo, found, seen, summary, stepSum, stepCount,
                   faults>>

\* save_collection_step of a step that found nothing but errors
FailedStep(c) ==
    /\ pc[c] = "searching" /\ Free
    /\ stepCount[c] < MaxSteps
    /\ Commit([db EXCEPT !.steps = @ \cup {StepRow(c, stepCount[c] + 1, "failed", {})}])
    /\ stepCount' = [stepCount EXCEPT ![c] = @ + 1]
    /\ UNCHANGED <<writer, pc, mode, query, batch, todo, found, seen, summary, stepSum,
                   faults>>

\* the loop body up to create_running: the candidates of URLs met before are
\* dropped from the step
BeginStep(c, b) ==
    /\ pc[c] = "searching" /\ Free
    /\ stepCount[c] < MaxSteps
    /\ OneSource(b)
    /\ SaveFrom(c, b, Fresh(b, seen[c]))
    /\ seen' = [seen EXCEPT ![c] = @ \cup {b[i].url: i \in DOMAIN b}]
    /\ stepCount' = [stepCount EXCEPT ![c] = @ + 1]
    /\ work' = [db EXCEPT !.steps = @ \cup {StepRow(c, stepCount[c] + 1, "running", {})}]
    /\ writer' = c
    /\ Goto(c, "saving")
    /\ UNCHANGED <<db, mode, query, summary, faults>>

\* mark_completed and commit; then _add_collect_summaries
CommitStep(c) ==
    /\ pc[c] = "saving" /\ mode[c] = "collect" /\ todo[c] = {}
    /\ Commit([work EXCEPT
          !.steps = (@ \ {StepRow(c, stepCount[c], "running", {})})
                       \cup {StepRow(c, stepCount[c], "completed", found[c])}])
    /\ writer' = NoCollector
    /\ summary' = [summary EXCEPT ![c] = Plus(@, stepSum[c])]
    /\ Goto(c, "searching")
    /\ UNCHANGED <<mode, query, batch, todo, found, seen, stepSum, stepCount, faults>>

\* the pipeline has no further step: finish_collection
FinishCollection(c) ==
    /\ pc[c] = "searching" /\ Free
    /\ Commit([db EXCEPT !.events = @ \cup {Event(query[c], summary[c], {})}])
    /\ Goto(c, "ended")
    /\ UNCHANGED <<writer, mode, query, batch, todo, found, seen, summary, stepSum,
                   stepCount, faults>>

-----------------------------------------------------------------------------
(* The executor of a daemon job: save_discovery_result, one transaction     *)

\* the pipeline has merged the candidates by canonical URL
StartJob(c, b) ==
    /\ pc[c] = "idle" /\ Free
    /\ Fresh(b, {}) = DOMAIN b
    /\ SaveFrom(c, b, DOMAIN b)
    /\ work' = [db EXCEPT !.queries = @ + 1]
    /\ query' = [query EXCEPT ![c] = db.queries + 1]
    /\ mode' = [mode EXCEPT ![c] = "job"]
    /\ writer' = c
    /\ Goto(c, "saving")
    /\ UNCHANGED <<db, seen, summary, stepCount, faults>>

CommitJob(c) ==
    /\ pc[c] = "saving" /\ mode[c] = "job" /\ todo[c] = {}
    /\ Commit([work EXCEPT !.events = @ \cup {Event(query[c], stepSum[c], found[c])}])
    /\ writer' = NoCollector
    /\ Goto(c, "ended")
    /\ UNCHANGED <<mode, query, batch, todo, found, seen, summary, stepSum, stepCount,
                   faults>>

-----------------------------------------------------------------------------
(* Both                                                                     *)

SaveCandidate(c) ==
    LET cand == batch[c][NextOf(c)]
    IN  /\ pc[c] = "saving" /\ todo[c] # {}
        /\ ~Rejected(work, cand)
        /\ work' = Saved(work, cand, query[c])
        /\ stepSum' = [stepSum EXCEPT ![c] = Counted(@, Outcome(work, cand))]
        /\ todo' = [todo EXCEPT ![c] = @ \ {NextOf(c)}]
        /\ UNCHANGED <<db, writer, pc, mode, query, batch, found, seen, summary,
                       stepCount, faults>>

\* IntegrityError: rollback, and the exception ends the run
CandidateRejected(c) ==
    /\ pc[c] = "saving" /\ todo[c] # {}
    /\ Rejected(work, batch[c][NextOf(c)])
    /\ Rollback
    /\ writer' = NoCollector
    /\ Goto(c, "failed")
    /\ UNCHANGED <<mode, query, batch, todo, found, seen, summary, stepSum, stepCount,
                   faults>>

\* another process holds the write transaction for longer than the busy timeout
\* (sqlite3's 5 seconds): "database is locked" ends the run
Busy(c) ==
    /\ pc[c] \in {"idle", "searching"}
    /\ writer # NoCollector
    /\ faults < MaxFaults
    /\ faults' = faults + 1
    /\ Goto(c, "failed")
    /\ UNCHANGED <<db, work, writer, mode, query, batch, todo, found, seen, summary,
                   stepSum, stepCount>>

\* the process is killed; SQLite discards its open transaction
Crash(c) ==
    /\ pc[c] \in {"searching", "saving"}
    /\ faults < MaxFaults
    /\ faults' = faults + 1
    /\ IF writer = c THEN Rollback /\ writer' = NoCollector
                     ELSE UNCHANGED <<db, work, writer>>
    /\ Goto(c, "failed")
    /\ UNCHANGED <<mode, query, batch, todo, found, seen, summary, stepSum, stepCount>>

Ended == \A c \in Collectors: pc[c] \in {"ended", "failed"}
AllEnded == Ended /\ UNCHANGED vars

Start(c) == StartCollect(c) \/ \E b \in Batches: StartJob(c, b)

Advance(c) ==
    \/ FailedStep(c)
    \/ \E b \in Batches: BeginStep(c, b)
    \/ SaveCandidate(c)
    \/ CandidateRejected(c)
    \/ CommitStep(c)
    \/ FinishCollection(c)
    \/ CommitJob(c)

Next ==
    \/ \E c \in Collectors: Start(c) \/ Advance(c) \/ Busy(c) \/ Crash(c)
    \/ AllEnded

Spec == Init /\ [][Next]_vars

\* a command that runs is scheduled; that a command is ever started is not assumed
Fairness == \A c \in Collectors: WF_vars(Advance(c))
FairSpec == Spec /\ Fairness

-----------------------------------------------------------------------------
(* Properties                                                               *)

\* what the committed steps and jobs found
CommittedFinds == UNION {r.found: r \in db.steps \cup db.events}

\* what a step found before all others of its run
FirstFinds(s) ==
    {p \in s.found:
        \A e \in db.steps:
            e.query = s.query /\ e.number < s.number => p[1] \notin {f[1]: f \in e.found}}
RecordedFinds == UNION ({FirstFinds(s): s \in db.steps} \cup {e.found: e \in db.events})

\* create_running and mark_completed are in one transaction
StepsFinished == \A s \in db.steps: s.status # "running"

\* A step or a job is all or nothing, wherever the process dies or the database
\* refuses a candidate: no reader meets a step that is still "running", and the
\* catalogue holds exactly the URLs that the committed steps and jobs found, though a
\* run saves a URL only the first time it meets it.  The sources of a URL are exactly
\* those that were the first of a run to find it, in any of the committed runs: one
\* that comes with a URL its run has had already is not recorded
\* (_filter_seen_collection_candidates).
CatalogIsWhatStepsFound ==
    /\ StepsFinished
    /\ DOMAIN db.urls = {p[1]: p \in CommittedFinds}
    /\ \A u \in DOMAIN db.urls:
          db.urls[u].sources = {p[2]: p \in {q \in RecordedFinds: q[1] = u}}

\* The counts of a collect.completed event, added up over the steps of a run in
\* which other processes wrote too, are the rows that run inserted.
SummaryMatchesCatalog ==
    \A e \in db.events:
        /\ e.summary.new =
              Cardinality({i \in DOMAIN db.documents: db.documents[i].by = e.query})
        /\ e.summary.new + e.summary.updated =
              Cardinality({u \in DOMAIN db.urls: db.urls[u].by = e.query})
        /\ e.summary.total = e.summary.new + e.summary.updated + e.summary.duplicate

\* License evidence is about the document its URL belongs to: a later candidate
\* with the same URL and other identifiers does not come between them.
EvidenceFollowsUrl ==
    \A e \in db.evidence: e.url \in DOMAIN db.urls /\ db.urls[e.url].doc = e.doc

\* Whoever the catalogue once showed as the document of a URL stays it, and no
\* document, evidence or source of a URL is ever lost.
KnownStaysKnown ==
    [][ /\ Len(db.documents) <= Len(db'.documents)
        /\ db.evidence \subseteq db'.evidence
        /\ \A u \in DOMAIN db.urls:
              /\ u \in DOMAIN db'.urls
              /\ db'.urls[u].doc = db.urls[u].doc
              /\ db.urls[u].sources \subseteq db'.urls[u].sources ]_vars

\* The tests say that conflicting strong identifiers do not merge, so a DOI or an
\* ISBN the catalogue has shown for a document would stay (it does not).
Keeps(old, new) == old # None => new = old
IdentifiersNeverReplaced ==
    [][ \A i \in DOMAIN db.documents:
          /\ Keeps(db.documents[i].doi, db'.documents[i].doi)
          /\ Keeps(db.documents[i].isbn, db'.documents[i].isbn) ]_vars

\* A run that began comes to its end: its collect.completed event is committed, or
\* it stops with the error that a fault or a candidate with the identifiers of two
\* documents causes; it never waits for ever.
RunsComplete ==
    \A c \in Collectors:
        pc[c] \in {"searching", "saving"}
            ~> \/ pc[c] = "failed"
               \/ \E e \in db.events: e.query = query[c]
=============================================================================
