------------------------------ MODULE Download ------------------------------
(***************************************************************************)
(* `bookhound download`: the license gate (DownloadWorkflowService.run and  *)
(* LicenseClassifier.classify), the file that is written                    *)
(* (DownloadService.download) and the row that says so                      *)
(* (DownloadRepository.add), while other commands write to the same         *)
(* database and may download to the same directory.                         *)
(*                                                                          *)
(* A file name carries the URL's id and the hash of the content, so a path  *)
(* is that pair.  Files are inodes: a name may come to stand for what       *)
(* another process has open.  An inode is named after the run that created  *)
(* it and the URL; a run handles each URL once.                             *)
(* Evidence is kept as what classify makes of its text: "manual", "denied", *)
(* "permissive" or "other".                                                 *)
(***************************************************************************)
EXTENDS Integers, FiniteSets

CONSTANTS
    Runs,               \* invocations of the command
    Collector,          \* any other command that writes to the database
    NoWriter,           \* "nobody": no write transaction is open
    NoFile,             \* the name does not exist
    UrlIds,             \* document_urls.id
    DocOf,              \* document_urls.document_id
    Trusted,            \* the URLs of a trusted domain
    Contents,           \* contents, each with its hash
    Served,             \* the contents a URL may answer with
    MaxActive,          \* bound: invocations that run at the same time
    MaxEvidence,        \* bound: rows of license_evidence
    MaxFaults           \* bound: killed runs, failed writes, a busy database

ASSUME DownloadAssumption ==
    /\ Collector \notin Runs /\ NoWriter \notin Runs \cup {Collector}
    /\ NoFile \notin Runs \X UrlIds
    /\ IsFiniteSet(UrlIds) /\ UrlIds # {} /\ Contents # {}
    /\ DOMAIN DocOf = UrlIds
    /\ Trusted \subseteq UrlIds
    /\ Served \in [UrlIds -> SUBSET Contents]
    /\ MaxActive \in Nat /\ MaxEvidence \in Nat /\ MaxFaults \in Nat

VARIABLES
    evidence,           \* license_evidence, as committed
    downloads,          \* rows of downloads; `run` is history
    writer,             \* whose write transaction is open
    tmp, final,         \* the directory: path -> inode, for <path>.tmp and <path>
    whole,              \* the inodes that hold the entire content
    opener,             \* inode -> the run that truncated it last
    pc, todo, total,    \* of a run: where it is, the candidates left, how many it had
    known,              \* the license evidence it read with its candidates
    url, content, fd,   \* the candidate in hand, its content, the open file
    confirmed,          \* history: the URLs its user said yes to
    summary,            \* DownloadSummary
    faults

dbVars == <<evidence, downloads, writer>>
fileVars == <<tmp, final, whole, opener>>
candidateVars == <<url, content, fd, confirmed>>
listVars == <<todo, total, known>>
vars == <<dbVars, fileVars, pc, listVars, candidateVars, summary, faults>>

Kinds == {"manual", "denied", "permissive", "other"}
Paths == UrlIds \X Contents
Inodes == Runs \X UrlIds
Rows == [run : Runs, url : UrlIds, sha256 : Contents]
Evidence == [url : UrlIds, kind : Kinds]
Outcomes == {"downloaded", "blocked", "pending", "failed"}

TypeOK ==
    /\ evidence \subseteq Evidence
    /\ downloads \subseteq Rows
    /\ writer \in Runs \cup {Collector, NoWriter}
    /\ tmp \in [Paths -> Inodes \cup {NoFile}]
    /\ final \in [Paths -> Inodes \cup {NoFile}]
    /\ whole \subseteq Inodes
    /\ opener \in [Inodes -> Runs \cup {NoWriter}]
    /\ pc \in [Runs -> {"idle", "classify", "prompt", "fetch", "open", "write",
                        "replace", "cleanup", "insert", "ended", "killed"}]
    /\ todo \in [Runs -> SUBSET UrlIds]
    /\ total \in [Runs -> Nat]
    /\ known \in [Runs -> SUBSET Evidence]
    /\ url \in [Runs -> UrlIds]
    /\ content \in [Runs -> Contents]
    /\ fd \in [Runs -> Inodes \cup {NoFile}]
    /\ confirmed \in [Runs -> SUBSET UrlIds]
    /\ summary \in [Runs -> [Outcomes -> Nat]]
    /\ faults \in Nat

\* url and content have no meaning before the first candidate: any value will do
Init ==
    /\ evidence = {} /\ downloads = {} /\ writer = NoWriter
    /\ tmp = [p \in Paths |-> NoFile] /\ final = [p \in Paths |-> NoFile]
    /\ whole = {} /\ opener = [i \in Inodes |-> NoWriter]
    /\ pc = [r \in Runs |-> "idle"]
    /\ todo = [r \in Runs |-> {}] /\ total = [r \in Runs |-> 0]
    /\ known = [r \in Runs |-> {}]
    /\ url = [r \in Runs |-> CHOOSE u \in UrlIds: TRUE]
    /\ content = [r \in Runs |-> CHOOSE c \in Contents: TRUE]
    /\ fd = [r \in Runs |-> NoFile]
    /\ confirmed = [r \in Runs |-> {}]
    /\ summary = [r \in Runs |-> [o \in Outcomes |-> 0]]
    /\ faults = 0

-----------------------------------------------------------------------------
(* Helpers                                                                  *)

Goto(r, label) == pc' = [pc EXCEPT ![r] = label]

\* one candidate is done; the loop of DownloadWorkflowService.run goes on
Count(r, outcome) ==
    /\ summary' = [summary EXCEPT ![r][outcome] = @ + 1]
    /\ Goto(r, "classify")

Active(r) == pc[r] \notin {"idle", "ended", "killed"}
MayStart == Cardinality({r \in Runs: Active(r)}) < MaxActive
MayFail == faults < MaxFaults /\ faults' = faults + 1

\* list_persisted_for_document_url: evidence of the URL or of its document
KindsFor(u, rows) == {e.kind: e \in {x \in rows: x.url = u \/ DocOf[x.url] = DocOf[u]}}

\* Mistake: a denial counts only if nothing permissive was found.
ClassifyPermissiveFirst(u, rows) ==
    LET kinds == KindsFor(u, rows)
    IN  IF "manual" \in kinds THEN "manually_authorized"
        ELSE IF "permissive" \in kinds \/ u \in Trusted THEN "allowed"
        ELSE IF "denied" \in kinds THEN "denied"
        ELSE "unknown"

\* LicenseClassifier.classify
Classify(u, rows) ==
    LET kinds == KindsFor(u, rows)
    IN  IF "manual" \in kinds THEN "manually_authorized"
        ELSE IF "denied" \in kinds THEN "denied"
        ELSE IF "permissive" \in kinds \/ u \in Trusted THEN "allowed"
        ELSE "unknown"

\* the path the run is about to write
Path(r) == <<url[r], content[r]>>

Close(r) == writer' = IF writer = r THEN NoWriter ELSE writer

-----------------------------------------------------------------------------
(* Mistakes a change could make; each one takes the place of the action it  *)
(* is named after in a run that must then fail.                             *)

\* the row is inserted before the file has its name
ReplaceTempAfterRow(r) ==
    /\ pc[r] = "replace"
    /\ downloads' = downloads \cup {[run |-> r, url |-> url[r], sha256 |-> content[r]]}
    /\ Goto(r, "insert")
    /\ UNCHANGED <<evidence, writer, fileVars, listVars, candidateVars, summary, faults>>

\* the temporary file is opened but not created
OpenTempExisting(r) ==
    /\ pc[r] = "open"
    /\ fd' = [fd EXCEPT ![r] = tmp[Path(r)]]
    /\ Goto(r, "write")
    /\ UNCHANGED <<dbVars, fileVars, listVars, url, content, confirmed, summary, faults>>

\* the temporary file stays when the write fails
WriteFailsKept(r) ==
    /\ pc[r] = "write" /\ MayFail
    /\ Count(r, "failed")
    /\ UNCHANGED <<dbVars, fileVars, listVars, candidateVars>>

\* downloads.add with commit=False
InsertRowUncommitted(r) ==
    /\ pc[r] = "insert"
    /\ writer \in {NoWriter, r}
    /\ writer' = r
    /\ Count(r, "downloaded")
    /\ UNCHANGED <<evidence, downloads, fileVars, listVars, candidateVars, faults>>

\* the rejected row is taken for a success
InsertRowIgnored(r) ==
    /\ pc[r] = "insert"
    /\ writer \in {NoWriter, r}
    /\ downloads' = IF \E d \in downloads: d.sha256 = content[r] THEN downloads
                    ELSE downloads \cup {[run |-> r, url |-> url[r], sha256 |-> content[r]]}
    /\ writer' = NoWriter
    /\ Count(r, "downloaded")
    /\ UNCHANGED <<evidence, fileVars, listVars, candidateVars, faults>>

\* the repositories are not closed
FinishLeftOpen(r) ==
    /\ pc[r] = "classify" /\ todo[r] = {}
    /\ Goto(r, "ended")
    /\ UNCHANGED <<dbVars, fileVars, listVars, candidateVars, summary, faults>>

-----------------------------------------------------------------------------
(* The candidates and the gate                                              *)

\* _download_candidates: what the catalogue holds, or what a search just stored,
\* each with its evidence
Prepare(r) ==
    /\ pc[r] = "idle" /\ MayStart
    /\ \E urls \in SUBSET UrlIds:
          /\ todo' = [todo EXCEPT ![r] = urls]
          /\ total' = [total EXCEPT ![r] = Cardinality(urls)]
    /\ known' = [known EXCEPT ![r] = evidence]
    /\ Goto(r, "classify")
    /\ UNCHANGED <<dbVars, fileVars, candidateVars, summary, faults>>

\* the search result cannot be stored: every candidate has failed
PrepareFails(r) ==
    /\ pc[r] = "idle" /\ MayStart /\ MayFail
    /\ \E urls \in SUBSET UrlIds \ {{}}:
          /\ total' = [total EXCEPT ![r] = Cardinality(urls)]
          /\ summary' = [summary EXCEPT ![r].failed = Cardinality(urls)]
    /\ Goto(r, "classify")
    /\ UNCHANGED <<dbVars, fileVars, todo, known, candidateVars>>

\* the next candidate, in the order of discovery, which may be any
NextCandidate(r) ==
    /\ pc[r] = "classify"
    /\ \E u \in todo[r]:
          /\ todo' = [todo EXCEPT ![r] = @ \ {u}]
          /\ url' = [url EXCEPT ![r] = u]
          /\ \/ /\ Classify(u, known[r]) = "denied"
                /\ Count(r, "blocked")
             \/ /\ Classify(u, known[r]) = "unknown"
                /\ Goto(r, "prompt")
                /\ UNCHANGED summary
             \/ /\ Classify(u, known[r]) \in {"allowed", "manually_authorized"}
                /\ Goto(r, "fetch")
                /\ UNCHANGED summary
    /\ UNCHANGED <<dbVars, fileVars, total, known, content, fd, confirmed, faults>>

\* confirm_unknown_license
Prompt(r) ==
    /\ pc[r] = "prompt"
    /\ \/ /\ confirmed' = [confirmed EXCEPT ![r] = @ \cup {url[r]}]
          /\ Goto(r, "fetch")
          /\ UNCHANGED summary
       \/ /\ Count(r, "pending")
          /\ UNCHANGED confirmed
    /\ UNCHANGED <<dbVars, fileVars, listVars, url, content, fd, faults>>

-----------------------------------------------------------------------------
(* DownloadService.download                                                 *)

\* http_client.get raises, or _download_response_error refuses the response, or
\* there is a PDF
Fetch(r) ==
    /\ pc[r] = "fetch"
    /\ \/ /\ Count(r, "failed")
          /\ UNCHANGED content
       \/ /\ \E c \in Served[url[r]]: content' = [content EXCEPT ![r] = c]
          /\ Goto(r, "open")
          /\ UNCHANGED summary
    /\ UNCHANGED <<dbVars, fileVars, listVars, url, fd, confirmed, faults>>

\* write_bytes opens the temporary name: created, or truncated if it is there
OpenTemp(r) ==
    LET inode == IF tmp[Path(r)] = NoFile THEN <<r, url[r]>> ELSE tmp[Path(r)]
    IN  /\ pc[r] = "open"
        /\ tmp' = [tmp EXCEPT ![Path(r)] = inode]
        /\ whole' = whole \ {inode}
        /\ opener' = [opener EXCEPT ![inode] = r]
        /\ fd' = [fd EXCEPT ![r] = inode]
        /\ Goto(r, "write")
        /\ UNCHANGED <<dbVars, final, listVars, url, content, confirmed, summary, faults>>

\* the bytes are written; if another run has truncated the file in between, what
\* was written before that is missing
WriteTemp(r) ==
    /\ pc[r] = "write"
    /\ \/ whole' = whole \cup {fd[r]}
       \/ opener[fd[r]] # r /\ UNCHANGED whole
    /\ Goto(r, "replace")
    /\ UNCHANGED <<dbVars, tmp, final, opener, listVars, candidateVars, summary, faults>>

\* an OSError of the write
WriteFails(r) ==
    /\ pc[r] = "write" /\ MayFail
    /\ Goto(r, "cleanup")
    /\ UNCHANGED <<dbVars, fileVars, listVars, candidateVars, summary>>

\* temporary_path.replace(final_path); FileNotFoundError if another run was faster
ReplaceTemp(r) ==
    /\ pc[r] = "replace"
    /\ \/ /\ tmp[Path(r)] # NoFile
          /\ final' = [final EXCEPT ![Path(r)] = tmp[Path(r)]]
          /\ tmp' = [tmp EXCEPT ![Path(r)] = NoFile]
          /\ Goto(r, "insert")
       \/ /\ tmp[Path(r)] = NoFile
          /\ Goto(r, "cleanup")
          /\ UNCHANGED <<tmp, final>>
    /\ UNCHANGED <<dbVars, whole, opener, listVars, candidateVars, summary, faults>>

\* the except block of _write_pdf_atomically: the temporary name is unlinked, whoever's
\* file it stands for by now
UnlinkTemp(r) ==
    /\ pc[r] = "cleanup"
    /\ tmp' = [tmp EXCEPT ![Path(r)] = NoFile]
    /\ Count(r, "failed")
    /\ UNCHANGED <<dbVars, final, whole, opener, listVars, candidateVars, faults>>

\* downloads.add and its commit; downloads.sha256 is UNIQUE, and the IntegrityError
\* leaves the transaction that the INSERT began open: nobody rolls it back
InsertRow(r) ==
    /\ pc[r] = "insert"
    /\ writer \in {NoWriter, r}
    /\ \/ /\ \A d \in downloads: d.sha256 # content[r]
          /\ downloads' =
                downloads \cup {[run |-> r, url |-> url[r], sha256 |-> content[r]]}
          /\ writer' = NoWriter
          /\ Count(r, "downloaded")
       \/ /\ \E d \in downloads: d.sha256 = content[r]
          /\ writer' = r
          /\ Count(r, "failed")
          /\ UNCHANGED downloads
    /\ UNCHANGED <<evidence, fileVars, listVars, candidateVars, faults>>

\* "database is locked": another transaction is open for longer than the timeout
InsertBusy(r) ==
    /\ pc[r] = "insert"
    /\ writer \notin {NoWriter, r}
    /\ MayFail
    /\ Count(r, "failed")
    /\ UNCHANGED <<dbVars, fileVars, listVars, candidateVars>>

\* the summary is printed and the connection closed, which rolls back
Finish(r) ==
    /\ pc[r] = "classify" /\ todo[r] = {}
    /\ Close(r)
    /\ Goto(r, "ended")
    /\ UNCHANGED <<evidence, downloads, fileVars, listVars, candidateVars, summary, faults>>

\* the process is killed: files stay as they are, its transaction is discarded
Crash(r) ==
    /\ Active(r) /\ MayFail
    /\ Close(r)
    /\ Goto(r, "killed")
    /\ UNCHANGED <<evidence, downloads, fileVars, listVars, candidateVars, summary>>

-----------------------------------------------------------------------------
(* Any other command: a transaction that may store license evidence         *)

OtherBegin ==
    /\ writer = NoWriter
    /\ Cardinality(evidence) < MaxEvidence
    /\ writer' = Collector
    /\ UNCHANGED <<evidence, downloads, fileVars, pc, listVars, candidateVars, summary,
                   faults>>

OtherCommit ==
    /\ writer = Collector
    /\ \E e \in Evidence: evidence' = evidence \cup {e}
    /\ writer' = NoWriter
    /\ UNCHANGED <<downloads, fileVars, pc, listVars, candidateVars, summary, faults>>

AllEnded == (\A r \in Runs: pc[r] \in {"ended", "killed"}) /\ UNCHANGED vars

Download(r) ==
    \/ NextCandidate(r) \/ Prompt(r) \/ Fetch(r)
    \/ OpenTemp(r) \/ WriteTemp(r) \/ ReplaceTemp(r) \/ UnlinkTemp(r)
    \/ InsertRow(r) \/ Finish(r)

Next ==
    \/ \E r \in Runs:
          \/ Prepare(r) \/ PrepareFails(r) \/ Download(r)
          \/ WriteFails(r) \/ InsertBusy(r) \/ Crash(r)
    \/ OtherBegin \/ OtherCommit
    \/ AllEnded

Spec == Init /\ [][Next]_vars

\* running commands are scheduled, their prompts answered and their requests come
\* to an end (the HTTP client has a timeout)
Fairness == WF_vars(OtherCommit) /\ \A r \in Runs: WF_vars(Download(r))
FairSpec == Spec /\ Fairness

-----------------------------------------------------------------------------
(* Properties                                                               *)

\* what the evidence a run read lets it do with a URL
Permitted(r, u) ==
    LET kinds == KindsFor(u, known[r])
    IN  \/ "manual" \in kinds
        \/ /\ "denied" \notin kinds
           /\ "permissive" \in kinds \/ u \in Trusted \/ u \in confirmed[r]

\* No byte reaches the directory against the license evidence of the document:
\* a denial of any of its URLs that was stored before the run began forbids it
\* unless someone recorded a permission, and without evidence the user must have
\* said yes to this very URL.
GateRespected ==
    [][ \A r \in Runs:
          pc[r] = "open" /\ pc'[r] = "write" => Permitted(r, url[r]) ]_vars

\* A downloads row has its file under its name, with all of the content the hash
\* was taken of, whenever anybody looks and whenever a run was killed.
RowsMatchFiles ==
    \A d \in downloads: final[<<d.url, d.sha256>>] \in whole

\* The final names whose content no row has and that no run is about to record.
Unrecorded ==
    {p \in Paths: /\ final[p] # NoFile
                  /\ \A d \in downloads: d.sha256 # p[2]
                  /\ \A r \in Runs: ~(pc[r] = "insert" /\ Path(r) = p)}

\* Files and rows account for each other: a file gets its name before its row, and only
\* a run that is killed, or finds the database locked, in between leaves it without one;
\* each such fault leaves one file at most, whatever other runs do to the same names.
FilesAreRecorded == Cardinality(Unrecorded) <= faults

\* The summary a run prints is what it did: as many downloads as rows it inserted,
\* and every candidate counted once.
SummaryMatchesRows ==
    \A r \in Runs:
        pc[r] = "ended" =>
            /\ summary[r].downloaded = Cardinality({d \in downloads: d.run = r})
            /\ summary[r].downloaded + summary[r].blocked + summary[r].pending
                 + summary[r].failed = total[r]

\* No temporary name outlives the runs, unless one was killed.
NoTemporaryLeft ==
    (\A r \in Runs: ~Active(r)) /\ (\A r \in Runs: pc[r] # "killed")
        => \A p \in Paths: tmp[p] = NoFile

\* A write transaction a rejected row has left open ends with the run at the latest,
\* so that other commands can write again.
WriterReleased == writer # NoWriter ~> writer = NoWriter
=============================================================================
