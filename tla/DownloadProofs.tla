--------------------------- MODULE DownloadProofs ---------------------------
(***************************************************************************)
(* The license gate of `bookhound download` holds for any number of runs,   *)
(* URLs, documents and contents, whatever happens between the gate and the  *)
(* write; so do what it says of files, rows and the summary, and, for runs  *)
(* that write apart, that a row has its whole file.                         *)
(***************************************************************************)
EXTENDS Download, FiniteSetTheorems, TLAPS

\* A run's summary and total are counts.
LEMMA CardinalityIsCount ==
    ASSUME NEW urls \in SUBSET UrlIds
    PROVE  Cardinality(urls) \in Nat
BY DownloadAssumption, FS_Subset, FS_CardinalityType

\* What the gate lets pass: without denial and with a reason, or by permission.
LEMMA ClassifyGates ==
    ASSUME NEW r \in Runs, NEW u \in UrlIds
    PROVE  /\ Classify(u, known[r]) \in {"allowed", "manually_authorized"} => Permitted(r, u)
           /\ Classify(u, known[r]) = "unknown" /\ u \in confirmed[r] => Permitted(r, u)
<1>1. "denied" # "allowed" /\ "denied" # "unknown" /\ "denied" # "manually_authorized"
      /\ "unknown" # "allowed" /\ "unknown" # "manually_authorized"
      /\ "allowed" # "manually_authorized"
  OBVIOUS
<1> QED BY <1>1 DEF Classify, Permitted

(***************************************************************************)
(* Types                                                                    *)
(***************************************************************************)
\* A run that writes has a file open.
OpenFile == \A r \in Runs: pc[r] = "write" => fd[r] \in Inodes

TypeInv == TypeOK /\ OpenFile

\* The initial states have their types.
LEMMA TypeInit == Init => TypeInv
<1> SUFFICES ASSUME Init PROVE TypeInv
  OBVIOUS
<1>1. url \in [Runs -> UrlIds] /\ content \in [Runs -> Contents]
  BY DownloadAssumption DEF Init
<1> QED
  BY <1>1, DownloadAssumption DEF Init, TypeInv, TypeOK, OpenFile, Paths, Inodes, Outcomes

\* The parts of TypeOK that the actions change together.
Labels == {"idle", "classify", "prompt", "fetch", "open", "write", "replace", "cleanup",
           "insert", "ended", "killed"}
DbType ==
    /\ evidence \subseteq Evidence
    /\ downloads \subseteq Rows
    /\ writer \in Runs \cup {Collector, NoWriter}
FileType ==
    /\ tmp \in [Paths -> Inodes \cup {NoFile}]
    /\ final \in [Paths -> Inodes \cup {NoFile}]
    /\ whole \subseteq Inodes
    /\ opener \in [Inodes -> Runs \cup {NoWriter}]
ListType ==
    /\ todo \in [Runs -> SUBSET UrlIds]
    /\ total \in [Runs -> Nat]
    /\ known \in [Runs -> SUBSET Evidence]
CandidateType ==
    /\ url \in [Runs -> UrlIds]
    /\ content \in [Runs -> Contents]
    /\ fd \in [Runs -> Inodes \cup {NoFile}]
    /\ confirmed \in [Runs -> SUBSET UrlIds]
ProgressType ==
    /\ pc \in [Runs -> Labels]
    /\ summary \in [Runs -> [Outcomes -> Nat]]

\* The variables one by one.
LEMMA TypeParts ==
    TypeOK <=> /\ DbType /\ FileType /\ ListType /\ CandidateType /\ ProgressType
               /\ faults \in Nat
BY DEF TypeOK, DbType, FileType, ListType, CandidateType, ProgressType, Labels

\* What depends on nothing a step changes is kept.
LEMMA Untouched ==
    /\ DbType /\ UNCHANGED dbVars => DbType'
    /\ FileType /\ UNCHANGED fileVars => FileType'
    /\ ListType /\ UNCHANGED listVars => ListType'
    /\ CandidateType /\ UNCHANGED candidateVars => CandidateType'
    /\ ProgressType /\ UNCHANGED <<pc, summary>> => ProgressType'
    /\ faults \in Nat /\ (UNCHANGED faults \/ MayFail) => faults' \in Nat
BY DEF DbType, FileType, ListType, CandidateType, ProgressType, MayFail, dbVars,
       fileVars, listVars, candidateVars

\* One candidate more in a summary.
LEMMA CountType ==
    ASSUME ProgressType, NEW r \in Runs, NEW outcome \in Outcomes, Count(r, outcome)
    PROVE  ProgressType'
<1>1. summary[r] \in [Outcomes -> Nat]
  BY DEF ProgressType
<1>2. [summary[r] EXCEPT ![outcome] = @ + 1] \in [Outcomes -> Nat]
  BY <1>1
<1> QED
  BY <1>2 DEF ProgressType, Labels, Count, Goto

\* On to the next statement.
LEMMA GotoType ==
    ASSUME ProgressType, NEW r \in Runs, NEW label \in Labels, Goto(r, label),
           UNCHANGED summary
    PROVE  ProgressType'
BY DEF ProgressType, Goto

\* The outcomes and places the steps name are among them all.
LEMMA Names ==
    /\ {"failed", "downloaded", "blocked", "pending"} \subseteq Outcomes
    /\ {"classify", "prompt", "fetch", "open", "write", "replace", "cleanup", "insert",
        "ended", "killed"} \subseteq Labels
BY DEF Outcomes, Labels

\* Every step keeps the types, one case for each action.
LEMMA TypeNext == TypeInv /\ [Next]_vars => TypeInv'
<1> SUFFICES ASSUME TypeInv, [Next]_vars PROVE TypeInv'
  OBVIOUS
<1> USE DownloadAssumption
<1>t. /\ DbType /\ FileType /\ ListType /\ CandidateType /\ ProgressType /\ faults \in Nat
      /\ OpenFile
  BY TypeParts DEF TypeInv
<1>1. ASSUME NEW r \in Runs, \/ Prepare(r) \/ PrepareFails(r) \/ Download(r)
                            \/ WriteFails(r) \/ InsertBusy(r) \/ Crash(r)
      PROVE  TypeInv'
  <2> SUFFICES /\ DbType' /\ FileType' /\ ListType' /\ CandidateType' /\ ProgressType'
               /\ faults' \in Nat /\ OpenFile'
    BY DEF TypeInv, TypeInv, OpenFile, TypeOK, DbType, FileType, ListType, CandidateType, ProgressType, Labels
  <2>1. CASE Prepare(r)
    <3>1. ListType'
      <4> PICK urls \in SUBSET UrlIds:
                  /\ todo' = [todo EXCEPT ![r] = urls]
                  /\ total' = [total EXCEPT ![r] = Cardinality(urls)]
        BY <2>1 DEF Prepare
      <4> QED
        BY <1>t, <2>1, CardinalityIsCount DEF Prepare, ListType, DbType
    <3>2. ProgressType'
      BY <1>t, <2>1, CountType, GotoType, Names DEF Prepare
    <3>9. OpenFile'
      BY <1>t, <2>1 DEF OpenFile, ProgressType, Count, Goto, candidateVars, Prepare
    <3> QED
      BY <1>t, <2>1, <3>1, <3>2, <3>9, Untouched DEF Prepare
  <2>2. CASE PrepareFails(r)
    <3> PICK urls \in SUBSET UrlIds:
                /\ total' = [total EXCEPT ![r] = Cardinality(urls)]
                /\ summary' = [summary EXCEPT ![r].failed = Cardinality(urls)]
      BY <2>2 DEF PrepareFails
    <3>1. ListType'
      BY <1>t, <2>2, CardinalityIsCount DEF PrepareFails, ListType
    <3>2. ProgressType'
      <4>1. summary[r] \in [Outcomes -> Nat]
        BY <1>t DEF ProgressType
      <4>2. [summary[r] EXCEPT !.failed = Cardinality(urls)] \in [Outcomes -> Nat]
        BY <4>1, CardinalityIsCount
      <4> QED
        BY <1>t, <2>2, <4>2, Names DEF PrepareFails, ProgressType, Goto
    <3>9. OpenFile'
      BY <1>t, <2>2 DEF OpenFile, ProgressType, Count, Goto, candidateVars, PrepareFails
    <3> QED
      BY <1>t, <2>2, <3>1, <3>2, <3>9, Untouched DEF PrepareFails
  <2>3. CASE WriteFails(r)
    <3>2. ProgressType'
      BY <1>t, <2>3, CountType, GotoType, Names DEF WriteFails
    <3>9. OpenFile'
      BY <1>t, <2>3 DEF OpenFile, ProgressType, Count, Goto, candidateVars, WriteFails
    <3> QED
      BY <1>t, <2>3, <3>2, <3>9, Untouched DEF WriteFails
  <2>4. CASE InsertBusy(r)
    <3>1. ProgressType'
      BY <1>t, <2>4, CountType, GotoType, Names DEF InsertBusy
    <3>9. OpenFile'
      BY <1>t, <2>4 DEF OpenFile, ProgressType, Count, Goto, candidateVars, InsertBusy
    <3> QED
      BY <1>t, <2>4, <3>1, <3>9, Untouched DEF InsertBusy
  <2>5. CASE Crash(r)
    <3>1. DbType'
      BY <1>t, <2>5 DEF Crash, DbType, Close
    <3>2. ProgressType'
      BY <1>t, <2>5, CountType, GotoType, Names DEF Crash
    <3>9. OpenFile'
      BY <1>t, <2>5 DEF OpenFile, ProgressType, Count, Goto, candidateVars, Crash
    <3> QED
      BY <1>t, <2>5, <3>1, <3>2, <3>9, Untouched DEF Crash
  <2>6. CASE NextCandidate(r)
    <3>1. ListType'
      BY <1>t, <2>6 DEF NextCandidate, ListType
    <3>2. CandidateType'
      BY <1>t, <2>6 DEF NextCandidate, CandidateType, ListType
    <3>3. ProgressType'
      BY <1>t, <2>6, CountType, GotoType, Names DEF NextCandidate
    <3>9. OpenFile'
      BY <1>t, <2>6 DEF OpenFile, ProgressType, Count, Goto, candidateVars, NextCandidate
    <3> QED
      BY <1>t, <2>6, <3>1, <3>2, <3>3, <3>9, Untouched DEF NextCandidate
  <2>7. CASE Prompt(r)
    <3>1. CandidateType'
      BY <1>t, <2>7 DEF Prompt, CandidateType
    <3>2. ProgressType'
      BY <1>t, <2>7, CountType, GotoType, Names DEF Prompt
    <3>9. OpenFile'
      BY <1>t, <2>7 DEF OpenFile, ProgressType, Count, Goto, candidateVars, Prompt
    <3> QED
      BY <1>t, <2>7, <3>1, <3>2, <3>9, Untouched DEF Prompt
  <2>8. CASE Fetch(r)
    <3>1. CandidateType'
      BY <1>t, <2>8 DEF Fetch, CandidateType
    <3>2. ProgressType'
      BY <1>t, <2>8, CountType, GotoType, Names DEF Fetch
    <3>9. OpenFile'
      BY <1>t, <2>8 DEF OpenFile, ProgressType, Count, Goto, candidateVars, Fetch
    <3> QED
      BY <1>t, <2>8, <3>1, <3>2, <3>9, Untouched DEF Fetch
  <2>9. CASE OpenTemp(r)
    <3>1. FileType'
      BY <1>t, <2>9 DEF OpenTemp, FileType, Path, Inodes, Paths, CandidateType
    <3>2. CandidateType'
      BY <1>t, <2>9 DEF OpenTemp, CandidateType, FileType, Path, Inodes, Paths
    <3>3. ProgressType'
      BY <1>t, <2>9, CountType, GotoType, Names DEF OpenTemp
    <3>9. OpenFile'
      BY <1>t, <2>9 DEF OpenFile, ProgressType, CandidateType, FileType, Inodes, Path, Paths, Goto,
          OpenTemp
    <3> QED
      BY <1>t, <2>9, <3>1, <3>2, <3>3, <3>9, Untouched DEF OpenTemp
  <2>10. CASE WriteTemp(r)
    <3>1. FileType'
      BY <1>t, <2>10 DEF WriteTemp, FileType, OpenFile
    <3>2. ProgressType'
      BY <1>t, <2>10, CountType, GotoType, Names DEF WriteTemp
    <3>9. OpenFile'
      BY <1>t, <2>10 DEF OpenFile, ProgressType, Count, Goto, candidateVars, WriteTemp
    <3> QED
      BY <1>t, <2>10, <3>1, <3>2, <3>9, Untouched DEF WriteTemp
  <2>11. CASE ReplaceTemp(r)
    <3>1. FileType'
      BY <1>t, <2>11 DEF ReplaceTemp, FileType, Path, Inodes, Paths, CandidateType
    <3>2. ProgressType'
      BY <1>t, <2>11, CountType, GotoType, Names DEF ReplaceTemp
    <3>9. OpenFile'
      BY <1>t, <2>11 DEF OpenFile, ProgressType, Count, Goto, candidateVars, ReplaceTemp
    <3> QED
      BY <1>t, <2>11, <3>1, <3>2, <3>9, Untouched DEF ReplaceTemp
  <2>12. CASE InsertRow(r)
    <3>1. DbType'
      BY <1>t, <2>12 DEF InsertRow, DbType, Rows, CandidateType
    <3>2. ProgressType'
      BY <1>t, <2>12, CountType, GotoType, Names DEF InsertRow
    <3>9. OpenFile'
      BY <1>t, <2>12 DEF OpenFile, ProgressType, Count, Goto, candidateVars, InsertRow
    <3> QED
      BY <1>t, <2>12, <3>1, <3>2, <3>9, Untouched DEF InsertRow
  <2>13. CASE Finish(r)
    <3>1. DbType'
      BY <1>t, <2>13 DEF Finish, DbType, Close
    <3>2. ProgressType'
      BY <1>t, <2>13, CountType, GotoType, Names DEF Finish
    <3>9. OpenFile'
      BY <1>t, <2>13 DEF OpenFile, ProgressType, Count, Goto, candidateVars, Finish
    <3> QED
      BY <1>t, <2>13, <3>1, <3>2, <3>9, Untouched DEF Finish
  <2>14. CASE UnlinkTemp(r)
    <3>1. FileType'
      BY <1>t, <2>14 DEF UnlinkTemp, FileType, Path, Inodes, Paths, CandidateType
    <3>2. ProgressType'
      BY <1>t, <2>14, CountType, GotoType, Names DEF UnlinkTemp
    <3>9. OpenFile'
      BY <1>t, <2>14 DEF OpenFile, ProgressType, Count, Goto, candidateVars, UnlinkTemp
    <3> QED
      BY <1>t, <2>14, <3>1, <3>2, <3>9, Untouched DEF UnlinkTemp
  <2> QED
    BY <1>1, <2>1, <2>2, <2>3, <2>4, <2>5, <2>6, <2>7, <2>8, <2>9, <2>10, <2>11, <2>12, <2>13,
       <2>14 DEF Download
<1>2. CASE OtherBegin
  BY <1>2 DEF OtherBegin, TypeInv, OpenFile, TypeOK, fileVars, listVars, candidateVars
<1>3. CASE OtherCommit
  BY <1>3 DEF OtherCommit, TypeInv, OpenFile, TypeOK, fileVars, listVars, candidateVars
<1>4. CASE UNCHANGED vars
  BY <1>4 DEF vars, TypeInv, OpenFile, TypeOK, dbVars, fileVars, listVars, candidateVars
<1> QED
  BY <1>1, <1>2, <1>3, <1>4 DEF Next, AllEnded

\* Every variable keeps its type.
THEOREM TypeCorrect == Spec => []TypeOK
<1>1. TypeInv => TypeOK
  BY DEF TypeInv
<1> QED
  BY <1>1, TypeInit, TypeNext, PTL DEF Spec

(***************************************************************************)
(* The gate.  A run at the prompt has an unknown license; from there to the *)
(* write it has what the evidence it read asks for.  Nothing but Prepare,   *)
(* before the first candidate, changes that evidence.                       *)
(***************************************************************************)
GateInv ==
    \A r \in Runs:
        /\ pc[r] = "prompt" => Classify(url[r], known[r]) = "unknown"
        /\ pc[r] \in {"fetch", "open"} => Permitted(r, url[r])

\* No run has a URL in hand at first.
LEMMA GateInit == Init => GateInv
BY DEF Init, GateInv

\* Every step keeps what the gate rests on, one case for each action.
LEMMA GateNext == TypeOK /\ GateInv /\ [Next]_vars => GateInv'
<1> SUFFICES ASSUME TypeOK, GateInv, [Next]_vars PROVE GateInv'
  OBVIOUS
<1>t. /\ pc \in [Runs -> Labels] /\ url \in [Runs -> UrlIds]
      /\ known \in [Runs -> SUBSET Evidence] /\ confirmed \in [Runs -> SUBSET UrlIds]
  BY DEF TypeOK, Labels
<1>g. \A r \in Runs:
        /\ pc[r] = "prompt" => Classify(url[r], known[r]) = "unknown"
        /\ pc[r] \in {"fetch", "open"} => Permitted(r, url[r])
  BY DEF GateInv
<1>1. ASSUME NEW r \in Runs, \/ Prepare(r) \/ PrepareFails(r) \/ Download(r)
                            \/ WriteFails(r) \/ InsertBusy(r) \/ Crash(r)
      PROVE  GateInv'
  <2>0. CASE /\ UNCHANGED <<url, known, confirmed>>
             /\ \A s \in Runs: pc'[s] \in {"prompt", "fetch", "open"} => pc'[s] = pc[s]
    BY <2>0, <1>t, <1>g DEF GateInv, Classify, KindsFor, Permitted
  <2>1. CASE Prepare(r)
    <3>1. \A s \in Runs: pc'[s] \in {"prompt", "fetch", "open"} => s # r /\ pc'[s] = pc[s]
      BY <2>1, <1>t DEF Prepare, Goto
    <3>2. \A s \in Runs: s # r => known'[s] = known[s]
      BY <2>1, <1>t DEF Prepare
    <3> QED
      BY <2>1, <3>1, <3>2, <1>t, <1>g DEF Prepare, candidateVars, GateInv, Classify,
          KindsFor, Permitted
  <2>2. CASE PrepareFails(r)
    <3>1. UNCHANGED <<url, known, confirmed>>
      BY <2>2 DEF PrepareFails, candidateVars
    <3>2. \A s \in Runs: pc'[s] \in {"prompt", "fetch", "open"} => pc'[s] = pc[s]
      BY <2>2, <1>t DEF PrepareFails, Goto
    <3> QED
      BY <2>0, <3>1, <3>2
  <2>3. CASE WriteFails(r)
    <3>1. UNCHANGED <<url, known, confirmed>>
      BY <2>3 DEF WriteFails, listVars, candidateVars
    <3>2. \A s \in Runs: pc'[s] \in {"prompt", "fetch", "open"} => pc'[s] = pc[s]
      BY <2>3, <1>t DEF WriteFails, Count, Goto
    <3> QED
      BY <2>0, <3>1, <3>2
  <2>4. CASE InsertBusy(r)
    <3>1. UNCHANGED <<url, known, confirmed>>
      BY <2>4 DEF InsertBusy, listVars, candidateVars
    <3>2. \A s \in Runs: pc'[s] \in {"prompt", "fetch", "open"} => pc'[s] = pc[s]
      BY <2>4, <1>t DEF InsertBusy, Count, Goto
    <3> QED
      BY <2>0, <3>1, <3>2
  <2>5. CASE Crash(r)
    <3>1. UNCHANGED <<url, known, confirmed>>
      BY <2>5 DEF Crash, listVars, candidateVars
    <3>2. \A s \in Runs: pc'[s] \in {"prompt", "fetch", "open"} => pc'[s] = pc[s]
      BY <2>5, <1>t DEF Crash, Count, Goto
    <3> QED
      BY <2>0, <3>1, <3>2
  <2>6. CASE NextCandidate(r)
    <3> PICK u \in todo[r]:
              /\ url' = [url EXCEPT ![r] = u]
              /\ \/ Classify(u, known[r]) = "denied" /\ Count(r, "blocked")
                 \/ Classify(u, known[r]) = "unknown" /\ Goto(r, "prompt")
                 \/ /\ Classify(u, known[r]) \in {"allowed", "manually_authorized"}
                    /\ Goto(r, "fetch")
      BY <2>6 DEF NextCandidate
    <3>1. u \in UrlIds /\ url'[r] = u /\ UNCHANGED <<known, confirmed>>
      BY <2>6, <1>t DEF NextCandidate, TypeOK
    <3>2. pc'[r] = "prompt" => Classify(u, known[r]) = "unknown"
      BY <1>t DEF Count, Goto
    <3>3. pc'[r] \in {"fetch", "open"} => Permitted(r, u)
      BY <1>t, <3>1, ClassifyGates DEF Count, Goto
    <3>4. \A s \in Runs: s # r => pc'[s] = pc[s] /\ url'[s] = url[s]
      BY <1>t DEF Count, Goto
    <3> QED
      BY <1>t, <1>g, <3>1, <3>2, <3>3, <3>4 DEF GateInv, Classify, KindsFor, Permitted
  <2>7. CASE Prompt(r)
    <3>1. UNCHANGED <<url, known>>
      BY <2>7 DEF Prompt, listVars
    <3>2. \A s \in Runs: s # r => pc'[s] = pc[s] /\ confirmed'[s] = confirmed[s]
      BY <2>7, <1>t DEF Prompt, Count, Goto
    <3>3. pc'[r] \in {"fetch", "open"} => Permitted(r, url[r])'
      <4>1. Classify(url[r], known[r]) = "unknown"
        BY <2>7, <1>g DEF Prompt
      <4>2. Classify(url[r], known[r])' = "unknown"
        BY <4>1, <3>1 DEF Classify, KindsFor
      <4>3. pc'[r] \in {"fetch", "open"} => url'[r] \in confirmed'[r]
        BY <2>7, <1>t DEF Prompt, Count, Goto
      <4> QED
        BY <4>2, <4>3 DEF Classify, Permitted
    <3>4. pc'[r] # "prompt"
      BY <2>7, <1>t DEF Prompt, Count, Goto
    <3> QED
      BY <1>t, <1>g, <3>1, <3>2, <3>3, <3>4 DEF GateInv, Classify, KindsFor, Permitted
  <2>8. CASE Fetch(r)
    <3>1. UNCHANGED <<url, known, confirmed>>
      BY <2>8 DEF Fetch, listVars
    <3>2. pc[r] = "fetch"
      BY <2>8 DEF Fetch
    <3>3. pc'[r] # "prompt" /\ \A s \in Runs: s # r => pc'[s] = pc[s]
      BY <2>8, <1>t DEF Fetch, Count, Goto
    <3> QED
      BY <1>t, <1>g, <3>1, <3>2, <3>3 DEF GateInv, Classify, KindsFor, Permitted
  <2>9. CASE OpenTemp(r)
    <3>1. UNCHANGED <<url, known, confirmed>>
      BY <2>9 DEF OpenTemp, listVars, candidateVars
    <3>2. \A s \in Runs: pc'[s] \in {"prompt", "fetch", "open"} => pc'[s] = pc[s]
      BY <2>9, <1>t DEF OpenTemp, Count, Goto
    <3> QED
      BY <2>0, <3>1, <3>2
  <2>10. CASE WriteTemp(r)
    <3>1. UNCHANGED <<url, known, confirmed>>
      BY <2>10 DEF WriteTemp, listVars, candidateVars
    <3>2. \A s \in Runs: pc'[s] \in {"prompt", "fetch", "open"} => pc'[s] = pc[s]
      BY <2>10, <1>t DEF WriteTemp, Count, Goto
    <3> QED
      BY <2>0, <3>1, <3>2
  <2>11. CASE ReplaceTemp(r)
    <3>1. UNCHANGED <<url, known, confirmed>>
      BY <2>11 DEF ReplaceTemp, listVars, candidateVars
    <3>2. \A s \in Runs: pc'[s] \in {"prompt", "fetch", "open"} => pc'[s] = pc[s]
      BY <2>11, <1>t DEF ReplaceTemp, Count, Goto
    <3> QED
      BY <2>0, <3>1, <3>2
  <2>12. CASE InsertRow(r)
    <3>1. UNCHANGED <<url, known, confirmed>>
      BY <2>12 DEF InsertRow, listVars, candidateVars
    <3>2. \A s \in Runs: pc'[s] \in {"prompt", "fetch", "open"} => pc'[s] = pc[s]
      BY <2>12, <1>t DEF InsertRow, Count, Goto
    <3> QED
      BY <2>0, <3>1, <3>2
  <2>13. CASE Finish(r)
    <3>1. UNCHANGED <<url, known, confirmed>>
      BY <2>13 DEF Finish, listVars, candidateVars
    <3>2. \A s \in Runs: pc'[s] \in {"prompt", "fetch", "open"} => pc'[s] = pc[s]
      BY <2>13, <1>t DEF Finish, Count, Goto
    <3> QED
      BY <2>0, <3>1, <3>2
  <2>14. CASE UnlinkTemp(r)
    <3>1. UNCHANGED <<url, known, confirmed>>
      BY <2>14 DEF UnlinkTemp, listVars, candidateVars
    <3>2. \A s \in Runs: pc'[s] \in {"prompt", "fetch", "open"} => pc'[s] = pc[s]
      BY <2>14, <1>t DEF UnlinkTemp, Count, Goto
    <3> QED
      BY <2>0, <3>1, <3>2
  <2> QED
    BY <1>1, <2>1, <2>2, <2>3, <2>4, <2>5, <2>6, <2>7, <2>8, <2>9, <2>10, <2>11, <2>12, <2>13,
       <2>14 DEF Download
<1>2. CASE UNCHANGED <<pc, url, known, confirmed>>
  BY <1>2, <1>g DEF GateInv, Classify, KindsFor, Permitted
<1>3. CASE OtherBegin
  BY <1>2, <1>3 DEF OtherBegin, listVars, candidateVars
<1>4. CASE OtherCommit
  BY <1>2, <1>4 DEF OtherCommit, listVars, candidateVars
<1>5. CASE UNCHANGED vars
  BY <1>2, <1>5 DEF vars, listVars, candidateVars
<1> QED
  BY <1>1, <1>3, <1>4, <1>5 DEF Next, AllEnded

\* No byte reaches the directory against the license evidence the run read.
THEOREM GateHolds == Spec => GateRespected
<1>1. GateInv /\ [Next]_vars =>
        [\A r \in Runs: pc[r] = "open" /\ pc'[r] = "write" => Permitted(r, url[r])]_vars
  BY DEF GateInv
<1>2. TypeInv => TypeOK
  BY DEF TypeInv
<1> QED
  BY <1>1, <1>2, TypeInit, TypeNext, GateInit, GateNext, PTL DEF Spec, GateRespected

(***************************************************************************)
(* Files and names.  A step of one run leaves the place, the candidate and  *)
(* the path of every other run alone.                                       *)
(***************************************************************************)
Acts(r) ==
    \/ Prepare(r) \/ PrepareFails(r) \/ Download(r)
    \/ WriteFails(r) \/ InsertBusy(r) \/ Crash(r)

\* At these places the path of a run is fixed.
PathHeld == {"open", "write", "replace", "cleanup", "insert"}

\* How a step of r moves it, and what it does to names and rows.
LEMMA ActsFrame ==
    ASSUME TypeOK, NEW r \in Runs, Acts(r)
    PROVE  /\ \A s \in Runs: s # r => pc'[s] = pc[s] /\ url'[s] = url[s] /\ content'[s] = content[s]
           /\ pc[r] \in PathHeld => url'[r] = url[r] /\ content'[r] = content[r]
           /\ downloads \subseteq downloads'
<1>t. /\ pc \in [Runs -> Labels] /\ url \in [Runs -> UrlIds] /\ content \in [Runs -> Contents]
  BY DEF TypeOK, Labels
<1>1. CASE Prepare(r) \/ PrepareFails(r)
  BY <1>t, <1>1 DEF Prepare, PrepareFails, Goto, candidateVars, dbVars
<1>2. CASE NextCandidate(r)
  <2>1. \A s \in Runs: s # r => pc'[s] = pc[s] /\ url'[s] = url[s]
    BY <1>t, <1>2 DEF NextCandidate, Count, Goto
  <2>2. content' = content /\ downloads' = downloads /\ pc[r] \notin PathHeld
    BY <1>2 DEF NextCandidate, dbVars, PathHeld
  <2> QED
    BY <2>1, <2>2
<1>3. CASE Prompt(r) \/ WriteFails(r) \/ InsertBusy(r) \/ Crash(r) \/ Finish(r)
  BY <1>t, <1>3 DEF Prompt, WriteFails, InsertBusy, Crash, Finish, Count, Goto, candidateVars, dbVars
<1>4. CASE Fetch(r)
  <2>1. \A s \in Runs: s # r => pc'[s] = pc[s] /\ content'[s] = content[s]
    BY <1>t, <1>4 DEF Fetch, Count, Goto
  <2>2. url' = url /\ downloads' = downloads /\ pc[r] \notin PathHeld
    BY <1>4 DEF Fetch, dbVars, PathHeld
  <2> QED
    BY <2>1, <2>2
<1>5. CASE OpenTemp(r) \/ WriteTemp(r) \/ ReplaceTemp(r) \/ UnlinkTemp(r)
  BY <1>t, <1>5 DEF OpenTemp, WriteTemp, ReplaceTemp, UnlinkTemp, Count, Goto, candidateVars, dbVars
<1>6. CASE InsertRow(r)
  BY <1>t, <1>6 DEF InsertRow, Count, Goto, candidateVars
<1> QED
  BY <1>1, <1>2, <1>3, <1>4, <1>5, <1>6 DEF Acts, Download

\* Which steps touch names.
LEMMA NamesFrame ==
    ASSUME TypeOK, NEW r \in Runs, Acts(r)
    PROVE  \/ OpenTemp(r) \/ UnlinkTemp(r) \/ ReplaceTemp(r)
           \/ UNCHANGED <<tmp, final>>
BY DEF Acts, Download, Prepare, PrepareFails, NextCandidate, Prompt, Fetch, WriteTemp, WriteFails,
       InsertRow, Finish, InsertBusy, Crash, fileVars

(***************************************************************************)
(* No file without a row                                                    *)
(***************************************************************************)
\* The path a run has named and not yet recorded.
AboutToRecord(r, p) == pc[r] = "insert" /\ Path(r) = p

\* A step that gives one more path to the unrecorded ones is a fault of the run that had
\* named it.
LEMMA UnrecordedGrows ==
    ASSUME TypeOK, NEW r \in Runs, Acts(r), NEW p \in Unrecorded', p \notin Unrecorded
    PROVE  p = Path(r) /\ faults' = faults + 1
<1>t. /\ pc \in [Runs -> Labels] /\ final \in [Paths -> Inodes \cup {NoFile}]
      /\ url \in [Runs -> UrlIds] /\ content \in [Runs -> Contents]
  BY DEF TypeOK, Labels
<1>p. /\ p \in Paths /\ final'[p] # NoFile
      /\ \A d \in downloads': d.sha256 # p[2]
      /\ \A s \in Runs: ~(pc'[s] = "insert" /\ Path(s)' = p)
  BY DEF Unrecorded
<1>1. \A d \in downloads: d.sha256 # p[2]
  BY <1>p, ActsFrame
<1>2. final[p] # NoFile
  <2> SUFFICES ASSUME final[p] = NoFile PROVE FALSE
    OBVIOUS
  <2>1. ReplaceTemp(r) /\ p = Path(r) /\ pc'[r] = "insert"
    BY <1>t, <1>p, NamesFrame DEF OpenTemp, UnlinkTemp, ReplaceTemp, Count, Goto, Path, Paths
  <2>2. Path(r)' = p
    BY <2>1 DEF ReplaceTemp, candidateVars, Path
  <2> QED
    BY <1>p, <2>1, <2>2
<1>3. PICK s \in Runs: AboutToRecord(s, p)
  BY <1>p, <1>1, <1>2 DEF Unrecorded, AboutToRecord
<1>4. s = r
  <2> SUFFICES ASSUME s # r PROVE FALSE
    OBVIOUS
  <2>1. pc'[s] = "insert" /\ Path(s)' = p
    BY <1>3, ActsFrame DEF AboutToRecord, Path
  <2> QED
    BY <1>p, <2>1
<1>5. InsertRow(r) \/ InsertBusy(r) \/ Crash(r)
  BY <1>3, <1>4 DEF AboutToRecord, Acts, Download, Prepare, PrepareFails, NextCandidate, Prompt,
     Fetch, OpenTemp, WriteTemp, ReplaceTemp, UnlinkTemp, Finish, WriteFails
<1>6. ~InsertRow(r)
  <2> SUFFICES ASSUME InsertRow(r) PROVE FALSE
    OBVIOUS
  <2>1. p[2] = content[r]
    BY <1>3, <1>4 DEF AboutToRecord, Path
  <2>2. \E d \in downloads': d.sha256 = content[r]
    <3> DEFINE row == [run |-> r, url |-> url[r], sha256 |-> content[r]]
    <3>1. row.sha256 = content[r]
      OBVIOUS
    <3>2. downloads' = downloads \cup {row} \/ \E d \in downloads': d.sha256 = content[r]
      BY DEF InsertRow
    <3> HIDE DEF row
    <3> QED
      BY <3>1, <3>2
  <2> QED
    BY <1>p, <2>1, <2>2
<1> QED
  BY <1>3, <1>4, <1>5, <1>6 DEF AboutToRecord, InsertBusy, Crash, MayFail

\* The unrecorded paths are finitely many, at most one for each fault.
RecordInv == IsFiniteSet(Unrecorded) /\ FilesAreRecorded

\* One path more at most, and then one fault more.
LEMMA RecordedStep ==
    ASSUME NEW old, NEW new, NEW path, NEW n \in Nat, NEW m \in Nat,
           IsFiniteSet(old), Cardinality(old) <= n, n <= m,
           new \subseteq old \/ (new \subseteq old \cup {path} /\ m = n + 1)
    PROVE  IsFiniteSet(new) /\ Cardinality(new) <= m
<1>1. CASE new \subseteq old
  BY <1>1, FS_Subset, FS_CardinalityType
<1>2. CASE new \subseteq old \cup {path} /\ m = n + 1
  <2>1. /\ IsFiniteSet(old \cup {path})
        /\ Cardinality(old \cup {path}) <= n + 1
    <3>1. IsFiniteSet(old \cup {path}) /\ Cardinality(old) \in Nat
      BY FS_AddElement, FS_CardinalityType
    <3>2. \/ Cardinality(old \cup {path}) = Cardinality(old)
          \/ Cardinality(old \cup {path}) = Cardinality(old) + 1
      BY FS_AddElement
    <3> QED
      BY <3>1, <3>2
  <2>2. /\ IsFiniteSet(new) /\ Cardinality(new) <= Cardinality(old \cup {path})
        /\ Cardinality(new) \in Nat /\ Cardinality(old \cup {path}) \in Nat
    BY <1>2, <2>1, FS_Subset, FS_CardinalityType
  <2> QED
    BY <1>2, <2>1, <2>2
<1> QED
  BY <1>1, <1>2

\* Every step keeps the account.
LEMMA RecordedNext == TypeOK /\ RecordInv /\ [Next]_vars => RecordInv'
<1> SUFFICES ASSUME TypeOK, RecordInv, [Next]_vars PROVE RecordInv'
  OBVIOUS
<1>1. ASSUME NEW r \in Runs, Acts(r) PROVE RecordInv'
  <2>1. faults \in Nat /\ (faults' = faults \/ faults' = faults + 1)
    BY <1>1 DEF TypeOK, Acts, Download, Prepare, PrepareFails, NextCandidate, Prompt, Fetch,
       OpenTemp, WriteTemp, ReplaceTemp, UnlinkTemp, InsertRow, Finish, WriteFails, InsertBusy,
       Crash, MayFail
  <2>2. \/ Unrecorded' \subseteq Unrecorded
        \/ Unrecorded' \subseteq Unrecorded \cup {Path(r)} /\ faults' = faults + 1
    BY <1>1, UnrecordedGrows
  <2>3. /\ IsFiniteSet(Unrecorded) /\ Cardinality(Unrecorded) <= faults
        /\ faults' \in Nat /\ faults <= faults'
    BY <2>1 DEF RecordInv, FilesAreRecorded
  <2>4. IsFiniteSet(Unrecorded') /\ Cardinality(Unrecorded') <= faults'
    BY <2>1, <2>2, <2>3, RecordedStep
  <2> QED
    BY <2>4 DEF RecordInv, FilesAreRecorded
<1>2. CASE UNCHANGED <<final, downloads, pc, url, content, faults>>
  <2>1. Unrecorded' = Unrecorded
    BY <1>2 DEF Unrecorded, Path
  <2> QED
    BY <1>2, <2>1 DEF RecordInv, FilesAreRecorded
<1>3. CASE OtherBegin \/ OtherCommit \/ UNCHANGED vars
  BY <1>2, <1>3 DEF OtherBegin, OtherCommit, vars, dbVars, fileVars, candidateVars
<1> QED
  BY <1>1, <1>3 DEF Next, AllEnded, Acts

\* For any number of runs in one directory: each fault leaves at most one file without a
\* row, and nothing else does.
THEOREM EveryFileRecorded == Spec => []FilesAreRecorded
<1>1. Init => RecordInv
  <2> SUFFICES ASSUME Init PROVE RecordInv
    OBVIOUS
  <2>1. Unrecorded = {} /\ faults = 0
    BY DEF Init, Unrecorded
  <2> QED
    BY <2>1, FS_EmptySet DEF RecordInv, FilesAreRecorded
<1>2. RecordInv => FilesAreRecorded
  BY DEF RecordInv
<1>3. TypeInv => TypeOK
  BY DEF TypeInv
<1> QED
  BY <1>1, <1>2, <1>3, TypeInit, TypeNext, RecordedNext, PTL DEF Spec

(***************************************************************************)
(* Temporary names                                                          *)
(***************************************************************************)
\* A temporary name is that of a run that has still to give it its own name or to
\* remove it, unless a run was killed.
TempInv ==
    \A p \in Paths:
        tmp[p] # NoFile =>
            \/ \E r \in Runs: pc[r] \in {"write", "replace", "cleanup"} /\ Path(r) = p
            \/ \E r \in Runs: pc[r] = "killed"

\* Every step keeps the owner of each temporary name.
LEMMA TempNext == TypeOK /\ TempInv /\ [Next]_vars => TempInv'
<1> SUFFICES ASSUME TypeOK, TempInv, [Next]_vars PROVE TempInv'
  OBVIOUS
<1>t. /\ pc \in [Runs -> Labels] /\ tmp \in [Paths -> Inodes \cup {NoFile}]
      /\ url \in [Runs -> UrlIds] /\ content \in [Runs -> Contents]
  BY DEF TypeOK, Labels
<1>1. ASSUME NEW r \in Runs, Acts(r), NEW p \in Paths, tmp'[p] # NoFile
      PROVE  \/ \E s \in Runs: pc'[s] \in {"write", "replace", "cleanup"} /\ Path(s)' = p
             \/ \E s \in Runs: pc'[s] = "killed"
  <2>1. CASE OpenTemp(r) /\ p = Path(r)
    <3>1. pc'[r] = "write" /\ Path(r)' = p
      BY <1>t, <2>1 DEF OpenTemp, Goto, Path
    <3> QED
      BY <3>1
  <2>2. CASE ~(OpenTemp(r) /\ p = Path(r))
    <3>1. tmp[p] # NoFile
      BY <1>t, <1>1, <2>2, NamesFrame DEF OpenTemp, UnlinkTemp, ReplaceTemp, Path, Paths
    <3>2. CASE \E s \in Runs: pc[s] = "killed"
      <4>1. PICK s \in Runs: pc[s] = "killed"
        BY <3>2
      <4>2. pc'[s] = "killed"
        <5>1. pc[r] # "killed"
          BY <1>1 DEF Acts, Download, Prepare, PrepareFails, NextCandidate, Prompt, Fetch, OpenTemp,
             WriteTemp, ReplaceTemp, UnlinkTemp, InsertRow, Finish, WriteFails, InsertBusy, Crash, Active
        <5> QED
          BY <1>1, <4>1, <5>1, ActsFrame
      <4> QED
        BY <4>2
    <3>3. ASSUME NEW s \in Runs, pc[s] \in {"write", "replace", "cleanup"}, Path(s) = p
          PROVE  \/ pc'[s] \in {"write", "replace", "cleanup"} /\ Path(s)' = p
                 \/ pc'[s] = "killed"
      <4>1. CASE s # r
        BY <1>1, <3>3, <4>1, ActsFrame DEF Path
      <4>2. CASE s = r
        <5>1. WriteTemp(r) \/ WriteFails(r) \/ ReplaceTemp(r) \/ UnlinkTemp(r) \/ Crash(r)
          BY <1>1, <3>3, <4>2 DEF Acts, Download, Prepare, PrepareFails, NextCandidate, Prompt, Fetch,
             OpenTemp, InsertRow, Finish, InsertBusy
        <5>2. CASE WriteTemp(r) \/ WriteFails(r)
          BY <1>t, <3>3, <4>2, <5>2 DEF WriteTemp, WriteFails, Goto, candidateVars, Path
        <5>3. CASE Crash(r)
          BY <1>t, <4>2, <5>3 DEF Crash, Goto
        <5>4. CASE ReplaceTemp(r) \/ UnlinkTemp(r)
          BY <1>t, <1>1, <3>3, <4>2, <5>4 DEF ReplaceTemp, UnlinkTemp
        <5> QED
          BY <5>1, <5>2, <5>3, <5>4
      <4> QED
        BY <4>1, <4>2
    <3> QED
      BY <3>1, <3>2, <3>3 DEF TempInv
  <2> QED
    BY <2>1, <2>2
<1>2. CASE UNCHANGED <<tmp, pc, url, content>>
  BY <1>2 DEF TempInv, Path
<1>3. CASE OtherBegin \/ OtherCommit \/ UNCHANGED vars
  BY <1>2, <1>3 DEF OtherBegin, OtherCommit, vars, fileVars, candidateVars
<1>4. CASE \E r \in Runs: Acts(r)
  BY <1>1, <1>4 DEF TempInv
<1> QED
  BY <1>3, <1>4 DEF Next, AllEnded, Acts

\* When no run is active and none was killed, no temporary name is left, for any number
\* of runs in one directory, failing writes and vanished files.
THEOREM TemporariesRemoved == Spec => []NoTemporaryLeft
<1>1. Init => TempInv
  BY DEF Init, TempInv
<1>2. TempInv => NoTemporaryLeft
  BY DEF TempInv, NoTemporaryLeft, Active
<1>3. TypeInv => TypeOK
  BY DEF TypeInv
<1> QED
  BY <1>1, <1>2, <1>3, TypeInit, TypeNext, TempNext, PTL DEF Spec

(***************************************************************************)
(* The summary.  Every candidate of a run is still to do, in hand or        *)
(* counted, and as many are counted as downloads as there are rows.         *)
(***************************************************************************)
RowsOf(r) == {d \in downloads: d.run = r}
InHand(r) ==
    IF pc[r] \in {"prompt", "fetch", "open", "write", "replace", "cleanup", "insert"} THEN 1 ELSE 0
Counts(x) == x.downloaded + x.blocked + x.pending + x.failed

RunSum(r) ==
    /\ summary[r].downloaded = Cardinality(RowsOf(r))
    /\ pc[r] = "idle" => todo[r] = {} /\ total[r] = 0 /\ Counts(summary[r]) = 0
    /\ pc[r] # "killed" => Counts(summary[r]) + Cardinality(todo[r]) + InHand(r) = total[r]
    /\ pc[r] = "ended" => todo[r] = {}

SumInv == IsFiniteSet(downloads) /\ \A r \in Runs: RunSum(r)

\* One more of one outcome.
LEMMA CountAdds ==
    ASSUME TypeOK, NEW r \in Runs, NEW outcome \in Outcomes, Count(r, outcome)
    PROVE  /\ Counts(summary'[r]) = Counts(summary[r]) + 1 /\ Counts(summary[r]) \in Nat
           /\ outcome # "downloaded" => summary'[r].downloaded = summary[r].downloaded
           /\ outcome = "downloaded" => summary'[r].downloaded = summary[r].downloaded + 1
           /\ InHand(r)' = 0
           /\ \A s \in Runs: s # r => summary'[s] = summary[s] /\ pc'[s] = pc[s]
           /\ pc'[r] = "classify"
<1>1. /\ summary \in [Runs -> [Outcomes -> Nat]]
      /\ pc \in [Runs -> Labels]
  BY DEF TypeOK, Labels
<1>2. /\ summary[r] \in [Outcomes -> Nat]
      /\ summary'[r] = [summary[r] EXCEPT ![outcome] = summary[r][outcome] + 1]
      /\ pc'[r] = "classify"
      /\ \A s \in Runs: s # r => summary'[s] = summary[s] /\ pc'[s] = pc[s]
  BY <1>1 DEF Count, Goto
<1>3. /\ summary[r].downloaded \in Nat /\ summary[r].blocked \in Nat
      /\ summary[r].pending \in Nat /\ summary[r].failed \in Nat
  BY <1>2 DEF Outcomes
<1>4. CASE outcome = "downloaded"
  BY <1>2, <1>3, <1>4 DEF Counts, Outcomes, InHand
<1>5. CASE outcome = "blocked"
  BY <1>2, <1>3, <1>5 DEF Counts, Outcomes, InHand
<1>6. CASE outcome = "pending"
  BY <1>2, <1>3, <1>6 DEF Counts, Outcomes, InHand
<1>7. CASE outcome = "failed"
  BY <1>2, <1>3, <1>7 DEF Counts, Outcomes, InHand
<1> QED
  BY <1>4, <1>5, <1>6, <1>7 DEF Outcomes

\* The sets and numbers of the sum are finite and natural.
LEMMA SumTypes ==
    ASSUME TypeOK, SumInv, NEW r \in Runs
    PROVE  /\ IsFiniteSet(todo[r]) /\ Cardinality(todo[r]) \in Nat
           /\ IsFiniteSet(RowsOf(r)) /\ Cardinality(RowsOf(r)) \in Nat
           /\ total[r] \in Nat /\ Counts(summary[r]) \in Nat
<1>1. todo[r] \in SUBSET UrlIds /\ total[r] \in Nat /\ summary[r] \in [Outcomes -> Nat]
  BY DEF TypeOK
<1>2. IsFiniteSet(todo[r])
  BY <1>1, DownloadAssumption, FS_Subset
<1>3. IsFiniteSet(RowsOf(r))
  BY FS_Subset DEF SumInv, RowsOf
<1>4. Counts(summary[r]) \in Nat
  BY <1>1 DEF Counts, Outcomes
<1> QED
  BY <1>1, <1>2, <1>3, <1>4, FS_CardinalityType

\* A step of one run touches no list, row or count of another.
LEMMA SumFrame ==
    ASSUME TypeOK, SumInv, NEW r \in Runs, Acts(r), NEW s \in Runs, s # r
    PROVE  RunSum(s)'
<1>t. /\ pc \in [Runs -> Labels] /\ todo \in [Runs -> SUBSET UrlIds] /\ total \in [Runs -> Nat]
      /\ summary \in [Runs -> [Outcomes -> Nat]]
  BY DEF TypeOK, Labels
<1>1. pc'[s] = pc[s]
  BY ActsFrame
<1>2. todo'[s] = todo[s] /\ total'[s] = total[s]
  BY <1>t DEF Acts, Download, Prepare, PrepareFails, NextCandidate, Prompt, Fetch, OpenTemp,
     WriteTemp, ReplaceTemp, UnlinkTemp, InsertRow, Finish, WriteFails, InsertBusy, Crash, listVars
<1>3. summary'[s] = summary[s]
  <2>1. ASSUME NEW o \in Outcomes, Count(r, o) PROVE summary'[s] = summary[s]
    BY <2>1, CountAdds
  <2>2. "failed" \in Outcomes /\ "blocked" \in Outcomes /\ "pending" \in Outcomes
           /\ "downloaded" \in Outcomes
    BY DEF Outcomes
  <2>3. CASE PrepareFails(r)
    BY <1>t, <2>3 DEF PrepareFails
  <2>4. CASE ~PrepareFails(r)
    <3>1. UNCHANGED summary \/ \E o \in Outcomes: Count(r, o)
      BY <2>2, <2>4 DEF Acts, Download, Prepare, NextCandidate, Prompt, Fetch, OpenTemp,
         WriteTemp, ReplaceTemp, UnlinkTemp, InsertRow, Finish, WriteFails, InsertBusy, Crash
    <3> QED
      BY <2>1, <3>1
  <2> QED
    BY <2>3, <2>4
<1>4. RowsOf(s)' = RowsOf(s)
  <2>1. CASE InsertRow(r)
    <3> DEFINE row == [run |-> r, url |-> url[r], sha256 |-> content[r]]
    <3>1. downloads' = downloads \cup {row} \/ downloads' = downloads
      BY <2>1 DEF InsertRow
    <3>2. row.run # s
      OBVIOUS
    <3> HIDE DEF row
    <3> QED
      BY <3>1, <3>2 DEF RowsOf
  <2>2. CASE ~InsertRow(r)
    <3>1. downloads' = downloads
      BY <2>2 DEF Acts, Download, Prepare, PrepareFails, NextCandidate, Prompt, Fetch, OpenTemp,
         WriteTemp, ReplaceTemp, UnlinkTemp, Finish, WriteFails, InsertBusy, Crash, dbVars
    <3> QED
      BY <3>1 DEF RowsOf
  <2> QED
    BY <2>1, <2>2
<1> QED
  BY <1>1, <1>2, <1>3, <1>4 DEF SumInv, RunSum, InHand, Counts

\* On with the candidate in hand, or with none.
LEMMA SumGoto ==
    ASSUME TypeOK, SumInv, NEW r \in Runs, RowsOf(r)' = RowsOf(r),
           UNCHANGED <<summary, total, todo>>,
           pc[r] \notin {"idle", "killed"}, pc'[r] # "idle", pc'[r] = "ended" => todo[r] = {},
           pc'[r] # "killed" => InHand(r)' = InHand(r)
    PROVE  RunSum(r)'
BY DEF SumInv, RunSum, Counts

\* The candidate in hand is counted.
LEMMA SumCount ==
    ASSUME TypeOK, SumInv, NEW r \in Runs, NEW outcome \in Outcomes, Count(r, outcome),
           UNCHANGED <<total, todo>>, InHand(r) = 1, pc[r] \notin {"idle", "killed"},
           Cardinality(RowsOf(r)') = IF outcome = "downloaded" THEN Cardinality(RowsOf(r)) + 1
                                     ELSE Cardinality(RowsOf(r))
    PROVE  RunSum(r)'
<1>1. /\ Counts(summary[r]) \in Nat /\ total[r] \in Nat /\ Cardinality(todo[r]) \in Nat
      /\ Counts(summary[r]) + Cardinality(todo[r]) + 1 = total[r]
      /\ summary[r].downloaded = Cardinality(RowsOf(r))
  BY SumTypes DEF SumInv, RunSum
<1>2. /\ Counts(summary'[r]) = Counts(summary[r]) + 1 /\ InHand(r)' = 0 /\ pc'[r] = "classify"
      /\ outcome # "downloaded" => summary'[r].downloaded = summary[r].downloaded
      /\ outcome = "downloaded" => summary'[r].downloaded = summary[r].downloaded + 1
  BY CountAdds
<1>3. Counts(summary'[r]) + Cardinality(todo'[r]) + 0 = total'[r]
  BY <1>1, <1>2
<1>4. summary'[r].downloaded = Cardinality(RowsOf(r)')
  BY <1>1, <1>2
<1> QED
  BY <1>2, <1>3, <1>4 DEF RunSum, Counts, RowsOf

\* A step of a run keeps its own sum.
LEMMA SumActs ==
    ASSUME TypeOK, SumInv, NEW r \in Runs, Acts(r)
    PROVE  RunSum(r)' /\ IsFiniteSet(downloads')
<1>t. /\ pc \in [Runs -> Labels] /\ todo \in [Runs -> SUBSET UrlIds] /\ total \in [Runs -> Nat]
      /\ summary \in [Runs -> [Outcomes -> Nat]]
  BY DEF TypeOK, Labels
<1>o. /\ "failed" \in Outcomes /\ "blocked" \in Outcomes /\ "pending" \in Outcomes
      /\ "downloaded" \in Outcomes
  BY DEF Outcomes
<1>s. RunSum(r) /\ IsFiniteSet(downloads)
  BY DEF SumInv
<1>1. CASE Prepare(r)
  <2>1. PICK urls \in SUBSET UrlIds:
                /\ todo' = [todo EXCEPT ![r] = urls]
                /\ total' = [total EXCEPT ![r] = Cardinality(urls)]
    BY <1>1 DEF Prepare
  <2>2. /\ todo'[r] = urls /\ total'[r] = Cardinality(urls) /\ pc[r] = "idle"
        /\ pc'[r] = "classify" /\ summary' = summary /\ downloads' = downloads
    BY <1>t, <1>1, <2>1 DEF Prepare, Goto, dbVars
  <2>3. Counts(summary'[r]) = 0 /\ summary'[r].downloaded = Cardinality(RowsOf(r))
    BY <1>s, <2>2 DEF RunSum
  <2>4. Counts(summary'[r]) + Cardinality(todo'[r]) + 0 = total'[r]
    BY <2>2, <2>3, CardinalityIsCount
  <2> QED
    BY <1>s, <2>2, <2>3, <2>4 DEF RunSum, InHand, RowsOf, Counts
<1>2. CASE PrepareFails(r)
  <2>1. PICK urls \in SUBSET UrlIds:
                /\ total' = [total EXCEPT ![r] = Cardinality(urls)]
                /\ summary' = [summary EXCEPT ![r].failed = Cardinality(urls)]
    BY <1>2 DEF PrepareFails
  <2>2. /\ total'[r] = Cardinality(urls) /\ pc[r] = "idle" /\ todo' = todo
        /\ pc'[r] = "classify" /\ downloads' = downloads
        /\ summary'[r] = [summary[r] EXCEPT !.failed = Cardinality(urls)]
    BY <1>t, <1>2, <2>1 DEF PrepareFails, Goto, dbVars
  <2>3. summary[r] \in [Outcomes -> Nat] /\ Cardinality(urls) \in Nat
    BY <1>t, CardinalityIsCount
  <2>4. /\ summary'[r].downloaded = summary[r].downloaded
        /\ summary'[r].blocked = summary[r].blocked
        /\ summary'[r].pending = summary[r].pending
        /\ summary'[r].failed = Cardinality(urls)
    BY <1>o, <2>2, <2>3
  <2>5. /\ todo[r] = {} /\ Counts(summary[r]) = 0
        /\ summary[r].downloaded = Cardinality(RowsOf(r))
    BY <1>s, <2>2 DEF RunSum
  <2>6. summary[r].downloaded = 0 /\ summary[r].blocked = 0 /\ summary[r].pending = 0
    BY <2>3, <2>5 DEF Counts, Outcomes
  <2>7. Counts(summary'[r]) + Cardinality(todo'[r]) + 0 = total'[r]
    BY <2>2, <2>3, <2>4, <2>5, <2>6, FS_EmptySet DEF Counts
  <2> QED
    BY <1>s, <2>2, <2>4, <2>5, <2>7 DEF RunSum, InHand, RowsOf, Counts
<1>3. CASE NextCandidate(r)
  <2>1. PICK u \in todo[r]:
          /\ todo' = [todo EXCEPT ![r] = @ \ {u}]
          /\ \/ Count(r, "blocked")
             \/ (Goto(r, "prompt") \/ Goto(r, "fetch")) /\ UNCHANGED summary
    BY <1>3 DEF NextCandidate
  <2>2. /\ todo'[r] = todo[r] \ {u} /\ pc[r] = "classify" /\ total' = total /\ downloads' = downloads
    BY <1>t, <1>3, <2>1 DEF NextCandidate, dbVars
  <2>3. /\ Counts(summary[r]) \in Nat /\ total[r] \in Nat /\ Cardinality(todo[r]) \in Nat
        /\ IsFiniteSet(todo[r])
        /\ Counts(summary[r]) + Cardinality(todo[r]) + 0 = total[r]
        /\ summary[r].downloaded = Cardinality(RowsOf(r))
    BY <1>s, <2>2, SumTypes DEF RunSum, InHand
  <2>4. Cardinality(todo'[r]) = Cardinality(todo[r]) - 1 /\ Cardinality(todo'[r]) \in Nat
    <3>1. IsFiniteSet(todo'[r])
      BY <2>2, <2>3, FS_RemoveElement
    <3> QED
      BY <2>2, <2>3, <3>1, FS_RemoveElement, FS_CardinalityType
  <2>5. CASE Count(r, "blocked")
    <3>1. /\ Counts(summary'[r]) = Counts(summary[r]) + 1 /\ InHand(r)' = 0 /\ pc'[r] = "classify"
          /\ summary'[r].downloaded = summary[r].downloaded
      BY <1>o, <2>5, CountAdds
    <3>2. Counts(summary'[r]) + Cardinality(todo'[r]) + 0 = total'[r]
      BY <2>2, <2>3, <2>4, <3>1
    <3> QED
      BY <1>s, <2>2, <2>3, <3>1, <3>2 DEF RunSum, RowsOf, Counts
  <2>6. CASE (Goto(r, "prompt") \/ Goto(r, "fetch")) /\ UNCHANGED summary
    <3>1. InHand(r)' = 1 /\ pc'[r] \in {"prompt", "fetch"}
      BY <1>t, <2>6 DEF InHand, Goto
    <3>2. Counts(summary'[r]) + Cardinality(todo'[r]) + 1 = total'[r]
      BY <2>2, <2>3, <2>4, <2>6
    <3> QED
      BY <1>s, <2>2, <2>3, <2>6, <3>1, <3>2 DEF RunSum, RowsOf, Counts
  <2> QED
    BY <2>1, <2>5, <2>6
<1>4. CASE \/ Prompt(r) \/ Fetch(r) \/ OpenTemp(r) \/ WriteTemp(r) \/ WriteFails(r)
           \/ ReplaceTemp(r) \/ UnlinkTemp(r) \/ InsertBusy(r)
  <2>1. /\ pc[r] \in {"prompt", "fetch", "open", "write", "replace", "cleanup", "insert"}
        /\ UNCHANGED <<todo, total, downloads>>
        /\ \/ Count(r, "failed") \/ Count(r, "pending")
           \/ /\ UNCHANGED summary
              /\ \E l \in {"fetch", "open", "write", "replace", "cleanup", "insert"}: Goto(r, l)
    BY <1>4 DEF Prompt, Fetch, OpenTemp, WriteTemp, WriteFails, ReplaceTemp, UnlinkTemp, InsertBusy, dbVars,
       listVars
  <2>2. InHand(r) = 1 /\ pc[r] \notin {"idle", "killed"} /\ RowsOf(r)' = RowsOf(r)
    BY <2>1 DEF InHand, RowsOf
  <2>3. CASE Count(r, "failed")
    BY <1>o, <2>1, <2>2, <2>3, SumCount, <1>s
  <2>4. CASE Count(r, "pending")
    BY <1>o, <2>1, <2>2, <2>4, SumCount, <1>s
  <2>5. CASE UNCHANGED summary /\ \E l \in {"fetch", "open", "write", "replace", "cleanup", "insert"}: Goto(r, l)
    <3>1. pc'[r] \in {"fetch", "open", "write", "replace", "cleanup", "insert"}
      BY <1>t, <2>5 DEF Goto
    <3>2. InHand(r)' = InHand(r)
      BY <2>2, <3>1 DEF InHand
    <3> QED
      BY <1>s, <2>1, <2>2, <2>5, <3>1, <3>2, SumGoto
  <2> QED
    BY <2>1, <2>3, <2>4, <2>5
<1>5. CASE InsertRow(r)
  <2> DEFINE row == [run |-> r, url |-> url[r], sha256 |-> content[r]]
  <2>1. /\ pc[r] = "insert" /\ UNCHANGED <<todo, total>> /\ InHand(r) = 1
    BY <1>5 DEF InsertRow, listVars, InHand
  <2>2. \/ /\ \A d \in downloads: d.sha256 # content[r]
           /\ downloads' = downloads \cup {row} /\ Count(r, "downloaded")
        \/ downloads' = downloads /\ Count(r, "failed")
    BY <1>5 DEF InsertRow
  <2>3. ASSUME /\ \A d \in downloads: d.sha256 # content[r]
               /\ downloads' = downloads \cup {row} /\ Count(r, "downloaded")
        PROVE  RunSum(r)' /\ IsFiniteSet(downloads')
    <3>1. row.run = r /\ row \notin downloads
      BY <2>3
    <3> HIDE DEF row
    <3>2. RowsOf(r)' = RowsOf(r) \cup {row} /\ row \notin RowsOf(r)
      BY <2>3, <3>1 DEF RowsOf
    <3>3. Cardinality(RowsOf(r)') = Cardinality(RowsOf(r)) + 1
      BY <3>2, SumTypes, FS_AddElement
    <3>4. IsFiniteSet(downloads')
      BY <1>s, <2>3, FS_AddElement
    <3> QED
      BY <1>o, <2>1, <2>3, <3>3, <3>4, SumCount
  <2>4. ASSUME downloads' = downloads, Count(r, "failed")
        PROVE  RunSum(r)' /\ IsFiniteSet(downloads')
    <3>1. RowsOf(r)' = RowsOf(r)
      BY <2>4 DEF RowsOf
    <3> QED
      BY <1>o, <1>s, <2>1, <2>4, <3>1, SumCount
  <2> QED
    BY <2>2, <2>3, <2>4
<1>6. CASE Finish(r) \/ Crash(r)
  <2>1. /\ pc[r] \notin {"idle", "ended", "killed"} /\ UNCHANGED <<todo, total, downloads, summary>>
        /\ pc'[r] = "killed" \/ (pc[r] = "classify" /\ pc'[r] = "ended" /\ todo[r] = {})
    BY <1>t, <1>6 DEF Finish, Crash, Active, Goto, listVars
  <2>2. RowsOf(r)' = RowsOf(r) /\ (pc'[r] # "killed" => InHand(r)' = InHand(r))
    BY <2>1 DEF RowsOf, InHand
  <2> QED
    BY <1>s, <2>1, <2>2, SumGoto
<1> QED
  BY <1>1, <1>2, <1>3, <1>4, <1>5, <1>6 DEF Acts, Download

\* Every step keeps every sum.
LEMMA SumNext == TypeOK /\ SumInv /\ [Next]_vars => SumInv'
<1> SUFFICES ASSUME TypeOK, SumInv, [Next]_vars PROVE SumInv'
  OBVIOUS
<1>1. ASSUME NEW r \in Runs, Acts(r) PROVE SumInv'
  BY <1>1, SumActs, SumFrame DEF SumInv
<1>2. CASE UNCHANGED <<pc, todo, total, downloads, summary>>
  BY <1>2 DEF SumInv, RunSum, RowsOf, InHand, Counts
<1>3. CASE OtherBegin \/ OtherCommit \/ UNCHANGED vars
  BY <1>2, <1>3 DEF OtherBegin, OtherCommit, vars, dbVars, listVars
<1> QED
  BY <1>1, <1>3 DEF Next, AllEnded, Acts

\* The summary a run prints counts every candidate once, and as downloaded exactly the
\* rows it inserted, whatever other runs insert, fail at or leave locked.
THEOREM SummaryExact == Spec => []SummaryMatchesRows
<1>1. Init => SumInv
  <2> SUFFICES ASSUME Init, NEW r \in Runs PROVE RunSum(r)
    BY FS_EmptySet DEF SumInv, Init
  <2>1. downloads = {} /\ RowsOf(r) = {} /\ todo[r] = {} /\ total[r] = 0 /\ pc[r] = "idle"
    BY DEF Init, RowsOf
  <2>2. summary[r] = [o \in Outcomes |-> 0]
    BY DEF Init
  <2>3. Counts(summary[r]) = 0 /\ summary[r].downloaded = 0
    BY <2>2 DEF Counts, Outcomes
  <2> QED
    BY <2>1, <2>3, FS_EmptySet DEF RunSum, InHand
<1>2. TypeOK /\ SumInv => SummaryMatchesRows
  <2> SUFFICES ASSUME TypeOK, SumInv, NEW r \in Runs, pc[r] = "ended"
               PROVE  /\ summary[r].downloaded = Cardinality(RowsOf(r))
                      /\ Counts(summary[r]) = total[r]
    BY DEF SummaryMatchesRows, RowsOf, Counts
  <2>1. /\ todo[r] = {} /\ InHand(r) = 0
        /\ Counts(summary[r]) + Cardinality(todo[r]) + InHand(r) = total[r]
        /\ summary[r].downloaded = Cardinality(RowsOf(r))
    BY DEF SumInv, RunSum, InHand
  <2>2. Counts(summary[r]) \in Nat /\ Cardinality(todo[r]) = 0
    BY <2>1, SumTypes, FS_EmptySet
  <2> QED
    BY <2>1, <2>2
<1>3. TypeInv => TypeOK
  BY DEF TypeInv
<1> QED
  BY <1>1, <1>2, <1>3, TypeInit, TypeNext, SumNext, PTL DEF Spec

(***************************************************************************)
(* Rows and files.  A file is torn only if two runs write the same name at  *)
(* the same time.  As long as they keep apart, a run has the temporary name *)
(* for itself, and no file that has its final name is opened again.         *)
(***************************************************************************)
Writing(r) == pc[r] \in {"write", "replace"}
UsesTemp(r) == pc[r] \in {"write", "replace", "cleanup"}
PathsApart == \A r, s \in Runs: r # s /\ UsesTemp(r) /\ UsesTemp(s) => Path(r) # Path(s)

\* What is named is whole, and no temporary name stands for it; no two temporary names
\* stand for the same file.
FinalsWhole ==
    \A p \in Paths: final[p] # NoFile => final[p] \in whole /\ \A q \in Paths: tmp[q] # final[p]
TempsApart == \A p, q \in Paths: p # q /\ tmp[p] # NoFile => tmp[p] # tmp[q]

\* What a run has in hand: the file it opened last, whole once it is written, named once
\* it is replaced.
Held(r) ==
    /\ Writing(r) => fd[r] # NoFile /\ tmp[Path(r)] = fd[r] /\ opener[fd[r]] = r
    /\ pc[r] = "replace" => fd[r] \in whole
    /\ pc[r] = "insert" => final[Path(r)] # NoFile

RowsNamed == \A d \in downloads: final[<<d.url, d.sha256>>] # NoFile

FileInv == FinalsWhole /\ TempsApart /\ (\A r \in Runs: Held(r)) /\ RowsNamed

\* The URLs a run has still to open a file for; no name stands for the file it will create.
Ahead(r) ==
    IF pc[r] = "idle" THEN UrlIds
    ELSE todo[r] \cup (IF pc[r] \in {"prompt", "fetch", "open"} THEN {url[r]} ELSE {})
Unnamed(i) == \A p \in Paths: tmp[p] # i /\ final[p] # i
NewInv ==
    \A r \in Runs:
        /\ \A u \in Ahead(r): Unnamed(<<r, u>>)
        /\ pc[r] \in {"prompt", "fetch", "open"} => url[r] \notin todo[r]

\* A path is a URL and a content.
LEMMA PathType == TypeOK => \A r \in Runs: Path(r) \in Paths
BY DEF TypeOK, Path, Paths

\* No step adds to what a run has ahead, and the file that is opened is no longer ahead.
LEMMA AheadNext ==
    ASSUME TypeOK, NewInv, NEW r \in Runs, Acts(r)
    PROVE  /\ \A s \in Runs: Ahead(s)' \subseteq Ahead(s)
           /\ OpenTemp(r) => url[r] \in Ahead(r) /\ url[r] \notin Ahead(r)'
           /\ \A s \in Runs: pc'[s] \in {"prompt", "fetch", "open"} => url'[s] \notin todo'[s]
<1>t. /\ pc \in [Runs -> Labels] /\ todo \in [Runs -> SUBSET UrlIds] /\ url \in [Runs -> UrlIds]
  BY DEF TypeOK, Labels
<1>n. \A s \in Runs: pc[s] \in {"prompt", "fetch", "open"} => url[s] \notin todo[s]
  BY DEF NewInv
<1>1. \A s \in Runs: s # r => pc'[s] = pc[s] /\ url'[s] = url[s] /\ todo'[s] = todo[s]
  <2>1. \A s \in Runs: s # r => todo'[s] = todo[s]
    BY <1>t DEF Acts, Download, Prepare, PrepareFails, NextCandidate, Prompt, Fetch, OpenTemp, WriteTemp,
                ReplaceTemp, UnlinkTemp, InsertRow, Finish, WriteFails, InsertBusy, Crash, listVars
  <2> QED
    BY <2>1, ActsFrame
<1>2. ASSUME NEW s \in Runs, s # r
      PROVE  /\ Ahead(s)' = Ahead(s)
             /\ pc'[s] \in {"prompt", "fetch", "open"} => url'[s] \notin todo'[s]
  BY <1>n, <1>1, <1>2 DEF Ahead
<1>3. /\ Ahead(r)' \subseteq Ahead(r)
      /\ OpenTemp(r) => url[r] \in Ahead(r) /\ url[r] \notin Ahead(r)'
      /\ pc'[r] \in {"prompt", "fetch", "open"} => url'[r] \notin todo'[r]
  <2>1. CASE Prepare(r) \/ PrepareFails(r)
    BY <1>t, <2>1 DEF Prepare, PrepareFails, Goto, Ahead, OpenTemp
  <2>2. CASE NextCandidate(r)
    <3>1. PICK u \in todo[r]: /\ todo'[r] = todo[r] \ {u} /\ url'[r] = u
                              /\ pc'[r] \in {"classify", "prompt", "fetch"}
      BY <1>t, <2>2 DEF NextCandidate, Count, Goto
    <3> QED
      BY <1>t, <2>2, <3>1 DEF NextCandidate, Ahead, OpenTemp
  <2>3. CASE Prompt(r) \/ Fetch(r)
    BY <1>t, <1>n, <2>3 DEF Prompt, Fetch, Count, Goto, Ahead, OpenTemp, listVars
  <2>4. CASE OpenTemp(r)
    BY <1>t, <1>n, <2>4 DEF OpenTemp, Goto, Ahead, listVars
  <2>5. CASE \/ WriteTemp(r) \/ ReplaceTemp(r) \/ UnlinkTemp(r) \/ InsertRow(r) \/ WriteFails(r)
             \/ InsertBusy(r) \/ Finish(r)
    <3>1. /\ pc[r] \in {"write", "replace", "cleanup", "insert", "classify"} /\ todo'[r] = todo[r]
          /\ pc'[r] \in {"replace", "cleanup", "insert", "classify", "ended"}
      BY <1>t, <2>5 DEF WriteTemp, ReplaceTemp, UnlinkTemp, InsertRow, WriteFails, InsertBusy, Finish, Count, Goto,
                        listVars
    <3> QED
      BY <3>1 DEF Ahead, OpenTemp
  <2>6. CASE Crash(r)
    BY <1>t, <2>6 DEF Crash, Goto, Ahead, OpenTemp, Active, listVars
  <2> QED
    BY <2>1, <2>2, <2>3, <2>4, <2>5, <2>6 DEF Acts, Download
<1> QED
  BY <1>1, <1>2, <1>3

\* A name comes to stand for the file that is created or for what another name stood for.
LEMMA NamesNext ==
    ASSUME TypeOK, NEW r \in Runs, Acts(r), NEW i, i # NoFile, Unnamed(i),
           OpenTemp(r) => i # <<r, url[r]>>
    PROVE  Unnamed(i)'
<1>t. /\ tmp \in [Paths -> Inodes \cup {NoFile}] /\ final \in [Paths -> Inodes \cup {NoFile}]
      /\ Path(r) \in Paths
  BY PathType DEF TypeOK
<1>1. CASE OpenTemp(r)
  BY <1>t, <1>1 DEF OpenTemp, Unnamed
<1>2. CASE UnlinkTemp(r)
  BY <1>t, <1>2 DEF UnlinkTemp, Unnamed
<1>3. CASE ReplaceTemp(r)
  BY <1>t, <1>3 DEF ReplaceTemp, Unnamed
<1> QED
  BY <1>1, <1>2, <1>3, NamesFrame DEF Unnamed

\* Every step keeps what is ahead unnamed.
LEMMA NewNext == TypeOK /\ NewInv /\ [Next]_vars => NewInv'
<1> SUFFICES ASSUME TypeOK, NewInv, [Next]_vars PROVE NewInv'
  OBVIOUS
<1>1. ASSUME NEW r \in Runs, Acts(r) PROVE NewInv'
  <2>1. ASSUME NEW s \in Runs, NEW u \in Ahead(s)' PROVE Unnamed(<<s, u>>)'
    <3>1. u \in Ahead(s) /\ Unnamed(<<s, u>>) /\ u \in UrlIds
      <4>1. u \in Ahead(s)
        BY <1>1, <2>1, AheadNext
      <4>2. Ahead(s) \subseteq UrlIds
        BY DEF Ahead, TypeOK
      <4> QED
        BY <4>1, <4>2 DEF NewInv
    <3>2. <<s, u>> # NoFile
      BY <3>1, DownloadAssumption
    <3>3. OpenTemp(r) => <<s, u>> # <<r, url[r]>>
      BY <1>1, <2>1, AheadNext
    <3> QED
      BY <1>1, <3>1, <3>2, <3>3, NamesNext
  <2> QED
    BY <1>1, <2>1, AheadNext DEF NewInv
<1>2. CASE UNCHANGED <<pc, todo, url, tmp, final>>
  BY <1>2 DEF NewInv, Ahead, Unnamed
<1>3. CASE OtherBegin \/ OtherCommit \/ UNCHANGED vars
  BY <1>2, <1>3 DEF OtherBegin, OtherCommit, vars, fileVars, listVars, candidateVars
<1> QED
  BY <1>1, <1>3 DEF Next, AllEnded, Acts

\* What a run has in hand another does not disturb that writes elsewhere.
LEMMA FilesNext ==
    ASSUME TypeOK, PathsApart, PathsApart', FileInv, NewInv, NEW r \in Runs, Acts(r)
    PROVE  FileInv'
<1>t. /\ pc \in [Runs -> Labels] /\ tmp \in [Paths -> Inodes \cup {NoFile}]
      /\ final \in [Paths -> Inodes \cup {NoFile}] /\ whole \subseteq Inodes
      /\ opener \in [Inodes -> Runs \cup {NoWriter}] /\ fd \in [Runs -> Inodes \cup {NoFile}]
      /\ \A s \in Runs: Path(s) \in Paths
  BY PathType DEF TypeOK, Labels
<1>f. \A s \in Runs: s # r => pc'[s] = pc[s] /\ Path(s)' = Path(s)
  BY ActsFrame DEF Path
<1>p. pc[r] \in PathHeld => Path(r)' = Path(r)
  BY ActsFrame DEF Path
<1>i. FinalsWhole /\ TempsApart /\ (\A s \in Runs: Held(s)) /\ RowsNamed
  BY DEF FileInv
<1>1. CASE OpenTemp(r)
  <2>1. PICK i: /\ i = IF tmp[Path(r)] = NoFile THEN <<r, url[r]>> ELSE tmp[Path(r)]
                /\ tmp' = [tmp EXCEPT ![Path(r)] = i] /\ whole' = whole \ {i}
                /\ opener' = [opener EXCEPT ![i] = r] /\ fd' = [fd EXCEPT ![r] = i]
                /\ pc[r] = "open" /\ pc'[r] = "write"
                /\ final' = final /\ downloads' = downloads
    BY <1>t, <1>1 DEF OpenTemp, Goto, dbVars
  <2>2. i \in Inodes /\ i # NoFile
    <3>1. <<r, url[r]>> \in Inodes
      BY DEF TypeOK, Inodes
    <3>2. NoFile \notin Inodes
      BY DownloadAssumption DEF Inodes
    <3> QED
      BY <1>t, <2>1, <3>1, <3>2
  <2>3. \A p \in Paths: (p # Path(r) => tmp[p] # i) /\ final[p] # i
    <3>1. CASE tmp[Path(r)] = NoFile
      <4>1. url[r] \in Ahead(r)
        BY <2>1 DEF Ahead
      <4> QED
        BY <2>1, <3>1, <4>1 DEF NewInv, Unnamed
    <3>2. CASE tmp[Path(r)] # NoFile
      BY <1>t, <1>i, <2>1, <3>2 DEF FinalsWhole, TempsApart
    <3> QED
      BY <3>1, <3>2
  <2>4. FinalsWhole'
    BY <1>t, <1>i, <2>1, <2>3 DEF FinalsWhole
  <2>5. TempsApart'
    BY <1>t, <1>i, <2>1, <2>2, <2>3 DEF TempsApart
  <2>6. Held(r)'
    BY <1>t, <1>p, <2>1, <2>2 DEF Held, Writing, PathHeld
  <2>7. ASSUME NEW s \in Runs, s # r PROVE Held(s)'
    <3>1. Writing(s) => Path(s) # Path(r)
      BY <1>f, <1>p, <2>1, <2>7 DEF PathsApart, Writing, UsesTemp, PathHeld
    <3>2. Writing(s) => fd[s] # i /\ tmp'[Path(s)] = tmp[Path(s)] /\ fd[s] \in Inodes
      BY <1>t, <1>i, <2>1, <2>3, <3>1 DEF Held
    <3>3. Writing(s)' <=> Writing(s)
      BY <1>f, <2>7 DEF Writing
    <3> QED
      BY <1>t, <1>f, <1>i, <2>1, <2>7, <3>2, <3>3 DEF Held, Writing
  <2>8. RowsNamed'
    BY <1>i, <2>1 DEF RowsNamed
  <2> QED
    BY <2>4, <2>5, <2>6, <2>7, <2>8 DEF FileInv
<1>2. CASE WriteTemp(r)
  <2>1. /\ pc[r] = "write" /\ pc'[r] = "replace" /\ whole' = whole \cup {fd[r]}
        /\ UNCHANGED <<tmp, final, opener, fd, downloads>>
    <3>1. opener[fd[r]] = r
      BY <1>i, <1>2 DEF WriteTemp, Held, Writing
    <3> QED
      BY <1>t, <1>2, <3>1 DEF WriteTemp, Goto, dbVars, candidateVars
  <2>2. FinalsWhole' /\ TempsApart' /\ RowsNamed'
    BY <1>i, <2>1 DEF FinalsWhole, TempsApart, RowsNamed
  <2>3. Held(r)'
    BY <1>i, <1>p, <2>1 DEF Held, Writing, PathHeld
  <2>4. ASSUME NEW s \in Runs, s # r PROVE Held(s)'
    BY <1>i, <1>f, <2>1, <2>4 DEF Held, Writing
  <2> QED
    BY <2>2, <2>3, <2>4 DEF FileInv
<1>3. CASE UnlinkTemp(r)
  <2>1. /\ pc[r] = "cleanup" /\ pc'[r] = "classify" /\ tmp' = [tmp EXCEPT ![Path(r)] = NoFile]
        /\ UNCHANGED <<final, whole, opener, fd, downloads>>
    BY <1>t, <1>3 DEF UnlinkTemp, Count, Goto, dbVars, candidateVars
  <2>2. FinalsWhole' /\ TempsApart' /\ RowsNamed'
    BY <1>t, <1>i, <2>1 DEF FinalsWhole, TempsApart, RowsNamed
  <2>3. Held(r)'
    BY <2>1 DEF Held, Writing
  <2>4. ASSUME NEW s \in Runs, s # r PROVE Held(s)'
    <3>1. Writing(s) => Path(s) # Path(r)
      BY <2>1, <2>4 DEF PathsApart, Writing, UsesTemp
    <3> QED
      BY <1>t, <1>i, <1>f, <2>1, <2>4, <3>1 DEF Held, Writing
  <2> QED
    BY <2>2, <2>3, <2>4 DEF FileInv
<1>4. CASE ReplaceTemp(r)
  <2>1. /\ pc[r] = "replace" /\ pc'[r] = "insert" /\ fd[r] # NoFile /\ fd[r] \in whole
        /\ tmp[Path(r)] = fd[r]
        /\ final' = [final EXCEPT ![Path(r)] = fd[r]] /\ tmp' = [tmp EXCEPT ![Path(r)] = NoFile]
        /\ UNCHANGED <<whole, opener, fd, downloads>>
    <3>1. pc[r] = "replace" /\ Held(r)
      BY <1>i, <1>4 DEF ReplaceTemp
    <3>2. fd[r] # NoFile /\ fd[r] \in whole /\ tmp[Path(r)] = fd[r]
      BY <3>1 DEF Held, Writing
    <3> QED
      BY <1>t, <1>4, <3>1, <3>2 DEF ReplaceTemp, Goto, dbVars, candidateVars
  <2>2. FinalsWhole'
    <3> SUFFICES ASSUME NEW p \in Paths, final'[p] # NoFile
                 PROVE  final'[p] \in whole /\ \A q \in Paths: tmp'[q] # final'[p]
      BY <2>1 DEF FinalsWhole
    <3>1. CASE p = Path(r)
      <4>1. \A q \in Paths: q # Path(r) => tmp[q] # fd[r]
        BY <1>t, <1>i, <2>1 DEF TempsApart
      <4> QED
        BY <1>t, <2>1, <3>1, <4>1
    <3>2. CASE p # Path(r)
      BY <1>t, <1>i, <2>1, <3>2 DEF FinalsWhole
    <3> QED
      BY <3>1, <3>2
  <2>3. TempsApart' /\ RowsNamed'
    <3>1. \A p \in Paths: final[p] # NoFile => final'[p] # NoFile
      BY <1>t, <2>1
    <3>2. \A d \in downloads: <<d.url, d.sha256>> \in Paths
      BY DEF TypeOK, Rows, Paths
    <3> QED
      BY <1>t, <1>i, <2>1, <3>1, <3>2 DEF TempsApart, RowsNamed
  <2>4. Held(r)'
    BY <1>t, <1>p, <2>1 DEF Held, Writing, PathHeld
  <2>5. ASSUME NEW s \in Runs, s # r PROVE Held(s)'
    <3>1. Writing(s) => Path(s) # Path(r)
      BY <2>1, <2>5 DEF PathsApart, Writing, UsesTemp
    <3>2. final[Path(s)] # NoFile => final'[Path(s)] # NoFile
      BY <1>t, <2>1
    <3> QED
      BY <1>t, <1>i, <1>f, <2>1, <2>5, <3>1, <3>2 DEF Held, Writing
  <2> QED
    BY <2>2, <2>3, <2>4, <2>5 DEF FileInv
<1>5. CASE ~(OpenTemp(r) \/ WriteTemp(r) \/ UnlinkTemp(r) \/ ReplaceTemp(r))
  <2>1. UNCHANGED <<tmp, final, whole, opener, fd>> /\ pc'[r] \notin {"write", "replace", "insert"}
    BY <1>t, <1>5 DEF Acts, Download, Prepare, PrepareFails, NextCandidate, Prompt, Fetch, WriteFails,
                      InsertRow, Finish, InsertBusy, Crash, Count, Goto, fileVars, candidateVars
  <2>2. FinalsWhole' /\ TempsApart'
    BY <1>i, <2>1 DEF FinalsWhole, TempsApart
  <2>3. Held(r)'
    BY <2>1 DEF Held, Writing
  <2>4. ASSUME NEW s \in Runs, s # r PROVE Held(s)'
    BY <1>i, <1>f, <2>1, <2>4 DEF Held, Writing
  <2>5. RowsNamed'
    <3>1. CASE InsertRow(r)
      <4>1. pc[r] = "insert" /\ downloads' \subseteq
               downloads \cup {[run |-> r, url |-> url[r], sha256 |-> content[r]]}
        BY <3>1 DEF InsertRow
      <4>2. final[<<url[r], content[r]>>] # NoFile
        BY <1>i, <4>1 DEF Held, Path
      <4> SUFFICES ASSUME NEW d \in downloads' PROVE final[<<d.url, d.sha256>>] # NoFile
        BY <2>1 DEF RowsNamed
      <4>3. CASE d \in downloads
        BY <1>i, <4>3 DEF RowsNamed
      <4>4. CASE d = [run |-> r, url |-> url[r], sha256 |-> content[r]]
        <5>1. d.url = url[r] /\ d.sha256 = content[r]
          BY <4>4
        <5> QED
          BY <4>2, <5>1
      <4> QED
        BY <4>1, <4>3, <4>4
    <3>2. CASE ~InsertRow(r)
      <4>1. downloads' = downloads
        BY <1>5, <3>2 DEF Acts, Download, Prepare, PrepareFails, NextCandidate, Prompt, Fetch, WriteFails,
                          Finish, InsertBusy, Crash, dbVars
      <4> QED
        BY <1>i, <2>1, <4>1 DEF RowsNamed
    <3> QED
      BY <3>1, <3>2
  <2> QED
    BY <2>2, <2>3, <2>4, <2>5 DEF FileInv
<1> QED
  BY <1>1, <1>2, <1>3, <1>4, <1>5

\* Every step that leaves the runs apart keeps rows and files together.
LEMMA FileNext ==
    TypeOK /\ PathsApart /\ PathsApart' /\ FileInv /\ NewInv /\ [Next]_vars => FileInv'
<1> SUFFICES ASSUME TypeOK, PathsApart, PathsApart', FileInv, NewInv, [Next]_vars PROVE FileInv'
  OBVIOUS
<1>1. CASE UNCHANGED <<pc, url, content, fd, downloads, tmp, final, whole, opener>>
  BY <1>1 DEF FileInv, FinalsWhole, TempsApart, Held, Writing, Path, RowsNamed
<1>2. CASE OtherBegin \/ OtherCommit \/ UNCHANGED vars
  BY <1>1, <1>2 DEF OtherBegin, OtherCommit, vars, fileVars, dbVars, candidateVars
<1> QED
  BY <1>2, FilesNext DEF Next, AllEnded, Acts

\* At first there is no file and no row.
LEMMA FileInit == Init => FileInv /\ NewInv
<1> SUFFICES ASSUME Init PROVE FileInv /\ NewInv
  OBVIOUS
<1>1. \A p \in Paths: tmp[p] = NoFile /\ final[p] = NoFile
  BY DEF Init
<1>2. \A r \in Runs: pc[r] = "idle" /\ downloads = {}
  BY DEF Init
<1>3. FileInv
  BY <1>1, <1>2 DEF FileInv, FinalsWhole, TempsApart, Held, Writing, RowsNamed, Init
<1>4. \A r \in Runs: Ahead(r) = UrlIds
  BY <1>2 DEF Ahead
<1>5. \A r \in Runs, u \in UrlIds: <<r, u>> # NoFile
  BY DownloadAssumption
<1> QED
  BY <1>1, <1>2, <1>3, <1>4, <1>5 DEF NewInv, Unnamed

\* A row has its file.
LEMMA FileImplies == TypeOK /\ FileInv => RowsMatchFiles
<1> SUFFICES ASSUME TypeOK, FileInv, NEW d \in downloads PROVE final[<<d.url, d.sha256>>] \in whole
  BY DEF RowsMatchFiles
<1>1. <<d.url, d.sha256>> \in Paths
  BY DEF TypeOK, Rows, Paths
<1> QED
  BY <1>1 DEF FileInv, RowsNamed, FinalsWhole

\* For any number of runs, kills, failing writes and rejected rows: if no two runs are ever
\* writing the same name at the same time, every row has its file with all of the content.
THEOREM RowsWholeApart == Spec /\ []PathsApart => []RowsMatchFiles
<1>1. TypeInv => TypeOK
  BY DEF TypeInv
<1> QED
  BY <1>1, TypeInit, TypeNext, FileInit, NewNext, FileNext, FileImplies, PTL DEF Spec

\* With one run at a time none is active beside another.
OneActive == \A r, s \in Runs: Active(r) /\ Active(s) => r = s

\* A run starts only if none is active.
LEMMA OneNext ==
    ASSUME MaxActive = 1 PROVE TypeOK /\ OneActive /\ [Next]_vars => OneActive'
<1> SUFFICES ASSUME TypeOK, OneActive, [Next]_vars PROVE OneActive'
  OBVIOUS
<1>t. pc \in [Runs -> Labels]
  BY DEF TypeOK, Labels
<1>1. ASSUME NEW r \in Runs, Acts(r) PROVE OneActive'
  <2>1. \A s \in Runs: s # r => (Active(s)' <=> Active(s))
    BY <1>1, ActsFrame DEF Active
  <2>2. CASE Prepare(r) \/ PrepareFails(r)
    <3> DEFINE A == {s \in Runs: Active(s)}
    <3>1. Cardinality(A) < 1
      BY <2>2 DEF Prepare, PrepareFails, MayStart
    <3>2. A = {}
      <4> SUFFICES ASSUME NEW a \in A PROVE FALSE
        OBVIOUS
      <4>1. A = {a}
        BY DEF OneActive
      <4>2. Cardinality(A) = 1
        BY <4>1, FS_Singleton
      <4> QED
        BY <3>1, <4>2
    <3> QED
      BY <2>1, <3>2 DEF OneActive
  <2>3. CASE ~(Prepare(r) \/ PrepareFails(r))
    <3>1. Active(r)
      BY <1>1, <2>3 DEF Acts, Download, NextCandidate, Prompt, Fetch, OpenTemp, WriteTemp, ReplaceTemp,
                        UnlinkTemp, InsertRow, Finish, WriteFails, InsertBusy, Crash, Active
    <3> QED
      BY <2>1, <3>1 DEF OneActive
  <2> QED
    BY <2>2, <2>3
<1>2. CASE UNCHANGED pc
  BY <1>2 DEF OneActive, Active
<1>3. CASE OtherBegin \/ OtherCommit \/ UNCHANGED vars
  BY <1>2, <1>3 DEF OtherBegin, OtherCommit, vars
<1> QED
  BY <1>1, <1>3 DEF Next, AllEnded, Acts

\* With one run at a time, however many there are, wherever one of them is killed and
\* whatever it leaves behind, a row has its file with all of the content.
THEOREM RowsHaveFiles == ASSUME MaxActive = 1 PROVE Spec => []RowsMatchFiles
<1>1. TypeInv => TypeOK
  BY DEF TypeInv
<1>2. Init => OneActive
  BY DEF Init, OneActive, Active
<1>3. TypeOK /\ OneActive /\ [Next]_vars => OneActive'
  BY OneNext
<1>4. OneActive => PathsApart
  BY DEF OneActive, PathsApart, UsesTemp, Active
<1>5. Spec => []PathsApart
  BY <1>1, <1>2, <1>3, <1>4, TypeInit, TypeNext, PTL DEF Spec
<1> QED
  BY <1>5, RowsWholeApart, PTL
=============================================================================
