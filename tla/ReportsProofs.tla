----------------------------- MODULE ReportsProofs -----------------------------
(***************************************************************************)
(* Proofs about the services of reporting: the report engine, the alert    *)
(* rule engine, the notification service, and the dashboard.               *)
(***************************************************************************)
EXTENDS MCReports, FiniteSetTheorems, SequenceTheorems, WellFoundedInduction, NaturalsInduction, TLAPS

-----------------------------------------------------------------------------
(* Histories that are cut *)

\* The first of a set of numbers has no one before it, and goes.
LEMMA CutIsSmaller ==
  ASSUME NEW S, S \subseteq Nat, IsFiniteSet(S), NEW most \in Nat, NEW cut \in Nat \ {0},
         Cardinality(S) = most + 1
  PROVE  LET T == {i \in S : Cardinality({j \in S : j < i}) >= cut}
         IN IsFiniteSet(T) /\ Cardinality(T) <= most
  <1> DEFINE T == {i \in S : Cardinality({j \in S : j < i}) >= cut}
             R == OpToRel(<, Nat)
  <1>1. S # {}
    BY FS_EmptySet
  <1>2. IsWellFoundedOn(R, Nat)
    BY NatLessThanWellFounded
  <1>3. R = {x \in Nat \X Nat : x[1] < x[2]}
    BY DEF OpToRel
  <1> HIDE DEF R
  <1>4. \A x, y \in Nat : y < x => <<y, x>> \in R
    BY <1>3
  <1>5. PICK x \in S : \A y \in S : ~(<<y, x>> \in R)
    BY <1>1, <1>2, WFMin
  <1>6. {j \in S : j < x} = {}
    BY <1>4, <1>5
  <1>7. Cardinality({j \in S : j < x}) = 0
    BY <1>6, FS_EmptySet
  <1>8. T \subseteq S \ {x}
    <2> SUFFICES ASSUME NEW i \in S, i = x, Cardinality({j \in S : j < i}) >= cut PROVE FALSE
      OBVIOUS
    <2>1. Cardinality({j \in S : j < i}) = 0
      BY <1>7
    <2>2. 0 >= cut
      BY <2>1
    <2> QED
      BY <2>2
  <1> HIDE DEF T
  <1>9. IsFiniteSet(S \ {x}) /\ Cardinality(S \ {x}) = (most + 1) - 1
    BY FS_RemoveElement
  <1>10. IsFiniteSet(T) /\ Cardinality(T) <= Cardinality(S \ {x})
    BY <1>8, <1>9, FS_Subset
  <1>11. (most + 1) - 1 = most
    OBVIOUS
  <1> QED
    BY <1>9, <1>10, <1>11 DEF T

LEMMA OneMoreOf ==
  ASSUME NEW S, IsFiniteSet(S), NEW x
  PROVE  /\ IsFiniteSet(S \cup {x})
         /\ Cardinality(S \cup {x}) \in Nat /\ Cardinality(S) \in Nat
         /\ Cardinality(S) <= Cardinality(S \cup {x}) /\ Cardinality(S \cup {x}) <= Cardinality(S) + 1
         /\ x \notin S => Cardinality(S \cup {x}) = Cardinality(S) + 1
  <1>1. IsFiniteSet(S \cup {x}) /\ Cardinality(S) \in Nat /\ Cardinality(S \cup {x}) \in Nat
    BY FS_AddElement, FS_CardinalityType
  <1>2. CASE x \in S
    <2>1. S \cup {x} = S
      BY <1>2
    <2> QED
      BY <1>1, <1>2, <2>1
  <1>3. CASE x \notin S
    <2>1. Cardinality(S \cup {x}) = Cardinality(S) + 1
      BY <1>3, FS_AddElement
    <2> QED
      BY <1>1, <1>3, <2>1
  <1> QED
    BY <1>2, <1>3

-----------------------------------------------------------------------------
(* The report engine *)

CallRecords == [at : {"free", "data"}, id : Nat, format : Formats \cup {"unknown", "none"},
                path : GivenPaths \cup {OwnPath}]

\* Every call has an id of its own, which nothing is recorded under before the call ends.
ReportCallsOK ==
    /\ reportCall \in [ReportCalls -> CallRecords] /\ unusedIds \subseteq ReportIds
    /\ DOMAIN reportsDone \subseteq ReportIds \ unusedIds
    /\ \A c \in ReportCalls : reportCall[c].at = "data" =>
          reportCall[c].id \in ReportIds \ unusedIds /\ reportCall[c].id \notin DOMAIN reportsDone
    /\ \A c, d \in ReportCalls :
          reportCall[c].at = "data" /\ reportCall[d].at = "data" /\ reportCall[c].id = reportCall[d].id
              => c = d

HistoryKept ==
    /\ IsFiniteSet(DOMAIN reportsDone)
    /\ reportHistory = [i \in DOMAIN reportHistory |-> reportHistory[i]]
    /\ RecordsAreKept

\* A path outside those the callers give is the engine's own, made from the id.
OwnPaths ==
    \A i \in DOMAIN reportsDone :
        reportsDone[i].answer /\ reportsDone[i].path[1] \notin GivenPaths
            => reportsDone[i].path = <<i, "report">>

ReportIndInv == ReportCallsOK /\ HistoryKept /\ OwnPaths /\ OwnReportsStay

LEMMA ReportsInitially == ReportsInit => ReportIndInv
  <1> SUFFICES ASSUME ReportsInit PROVE ReportIndInv
    OBVIOUS
  <1>1. DOMAIN reportsDone = {} /\ DOMAIN reportHistory = {} /\ reportHistory = reportsDone
    BY DEF ReportsInit
  <1>2. NoReport \in CallRecords /\ NoReport.at = "free"
    BY DEF NoReport, CallRecords
  <1>3. ReportCallsOK
    BY <1>1, <1>2 DEF ReportsInit, ReportCallsOK
  <1>4. HistoryKept
    <2>1. IsFiniteSet({}) /\ Cardinality({}) = 0
      BY FS_EmptySet
    <2>2. reportHistory = [i \in DOMAIN reportHistory |-> reportHistory[i]]
      BY <1>1 DEF ReportsInit
    <2> QED
      BY <1>1, <2>1, <2>2, ReportAssumption DEF HistoryKept, RecordsAreKept
  <1> QED
    BY <1>1, <1>3, <1>4 DEF ReportIndInv, OwnPaths, OwnReportsStay

\* What is kept of a history that may have one record too many.
LEMMA KeptOf ==
  ASSUME NEW h, h = [i \in DOMAIN h |-> h[i]], DOMAIN h \subseteq Nat, IsFiniteSet(DOMAIN h),
         Cardinality(DOMAIN h) <= MaxReports + 1
  PROVE  /\ Kept(h) = [i \in DOMAIN Kept(h) |-> Kept(h)[i]]
         /\ DOMAIN Kept(h) \subseteq DOMAIN h
         /\ \A i \in DOMAIN Kept(h) : Kept(h)[i] = h[i]
         /\ Cardinality(DOMAIN Kept(h)) <= MaxReports
         /\ Cardinality(DOMAIN h) <= MaxReports => Kept(h) = h
  <1> DEFINE n == Cardinality(DOMAIN h)
  <1>1. n \in Nat /\ MaxReports \in Nat /\ ReportsCut \in Nat \ {0}
    BY FS_CardinalityType, ReportAssumption
  <1>2. CASE n <= MaxReports
    <2>1. ~(n > MaxReports)
      BY <1>1, <1>2
    <2>2. Kept(h) = h
      BY <2>1 DEF Kept
    <2> QED
      BY <1>2, <2>2
  <1>3. CASE ~(n <= MaxReports)
    <2> DEFINE T == {i \in DOMAIN h : Cardinality({j \in DOMAIN h : j < i}) >= ReportsCut}
    <2>1. n > MaxReports /\ n = MaxReports + 1
      BY <1>1, <1>3
    <2>2. Kept(h) = [i \in T |-> h[i]]
      BY <2>1 DEF Kept, Restrict
    <2>3. Cardinality(T) <= MaxReports
      BY <1>1, <2>1, CutIsSmaller
    <2> QED
      BY <1>3, <2>2, <2>3
  <1> QED
    BY <1>2, <1>3

\* A call that ends is recorded, whatever else it does to the files.
LEMMA ReportRecorded ==
  ASSUME ReportIndInv, NEW c \in ReportCalls, reportCall[c].at = "data", NEW success, NEW path,
         NEW answer, Record(c, success, path, answer), unusedIds' = unusedIds
  PROVE  /\ ReportCallsOK' /\ HistoryKept'
         /\ DOMAIN reportsDone' = DOMAIN reportsDone \cup {reportCall[c].id}
         /\ reportCall[c].id \notin DOMAIN reportsDone
         /\ reportsDone'[reportCall[c].id] = [success |-> success, path |-> path, answer |-> answer]
         /\ \A i \in DOMAIN reportsDone : reportsDone'[i] = reportsDone[i]
  <1>0. ReportCallsOK /\ HistoryKept
    BY DEF ReportIndInv
  <1>1. PICK k \in ReportIds : k = reportCall[c].id /\ k \notin DOMAIN reportsDone /\ k \notin unusedIds
    BY <1>0 DEF ReportCallsOK
  <1>2. PICK entry : entry = [success |-> success, path |-> path, answer |-> answer]
    OBVIOUS
  <1>3. /\ reportHistory' = Kept(Put(reportHistory, k, entry))
        /\ reportsDone' = Put(reportsDone, k, entry)
        /\ reportCall' = [reportCall EXCEPT ![c] = NoReport]
    BY <1>1, <1>2 DEF Record
  <1>4. /\ DOMAIN reportsDone' = DOMAIN reportsDone \cup {k} /\ reportsDone'[k] = entry
        /\ \A i \in DOMAIN reportsDone : reportsDone'[i] = reportsDone[i]
    BY <1>1, <1>3 DEF Put
  <1>5. ReportCallsOK'
    <2>1. NoReport \in CallRecords /\ NoReport.at = "free"
      BY DEF NoReport, CallRecords
    <2>2. /\ reportCall' \in [ReportCalls -> CallRecords] /\ reportCall'[c].at = "free"
          /\ \A d \in ReportCalls \ {c} : reportCall'[d] = reportCall[d]
      BY <1>0, <1>3, <2>1 DEF ReportCallsOK
    <2>3. \A d \in ReportCalls \ {c} : reportCall[d].at = "data" => reportCall[d].id # k
      BY <1>0, <1>1 DEF ReportCallsOK
    <2> QED
      BY <1>0, <1>1, <1>4, <2>2, <2>3 DEF ReportCallsOK
  <1>6. HistoryKept'
    <2> DEFINE h == Put(reportHistory, k, entry)
    <2>1. /\ DOMAIN reportHistory \subseteq DOMAIN reportsDone /\ IsFiniteSet(DOMAIN reportsDone)
          /\ Cardinality(DOMAIN reportHistory) <= MaxReports
          /\ \A i \in DOMAIN reportHistory : reportHistory[i] = reportsDone[i]
          /\ Cardinality(DOMAIN reportsDone) <= MaxReports => reportHistory = reportsDone
      BY <1>0 DEF HistoryKept, RecordsAreKept
    <2>2. IsFiniteSet(DOMAIN reportHistory) /\ MaxReports \in Nat
      BY <2>1, FS_Subset, ReportAssumption
    <2>3. /\ h = [i \in DOMAIN h |-> h[i]] /\ DOMAIN h = DOMAIN reportHistory \cup {k}
          /\ h[k] = entry /\ \A i \in DOMAIN reportHistory : i # k => h[i] = reportHistory[i]
      BY DEF Put
    <2> HIDE DEF h
    <2>4. IsFiniteSet(DOMAIN h) /\ Cardinality(DOMAIN h) <= MaxReports + 1 /\ DOMAIN h \subseteq Nat
      <3>1. IsFiniteSet(DOMAIN h) /\ Cardinality(DOMAIN h) <= Cardinality(DOMAIN reportHistory) + 1
        BY <2>2, <2>3, OneMoreOf
      <3>2. Cardinality(DOMAIN h) \in Nat /\ Cardinality(DOMAIN reportHistory) \in Nat
        BY <2>2, <3>1, FS_CardinalityType
      <3>3. DOMAIN h \subseteq Nat
        BY <1>0, <2>1, <2>3, ReportAssumption DEF ReportCallsOK
      <3> QED
        BY <2>1, <2>2, <3>1, <3>2, <3>3
    <2>5. /\ reportHistory' = [i \in DOMAIN reportHistory' |-> reportHistory'[i]]
          /\ DOMAIN reportHistory' \subseteq DOMAIN h
          /\ \A i \in DOMAIN reportHistory' : reportHistory'[i] = h[i]
          /\ Cardinality(DOMAIN reportHistory') <= MaxReports
          /\ Cardinality(DOMAIN h) <= MaxReports => reportHistory' = h
      <3>1. reportHistory' = Kept(h)
        BY <1>3 DEF h
      <3> QED
        BY <2>3, <2>4, <3>1, KeptOf
    <2>6. \A i \in DOMAIN reportHistory' : i \in DOMAIN reportsDone' /\ reportHistory'[i] = reportsDone'[i]
      BY <1>1, <1>4, <2>1, <2>3, <2>5
    <2>7. IsFiniteSet(DOMAIN reportsDone')
      BY <1>4, <2>1, OneMoreOf
    <2>8. Cardinality(DOMAIN reportsDone') <= MaxReports => reportHistory' = reportsDone'
      <3> SUFFICES ASSUME Cardinality(DOMAIN reportsDone') <= MaxReports PROVE reportHistory' = reportsDone'
        OBVIOUS
      <3>1. /\ Cardinality(DOMAIN reportsDone) <= Cardinality(DOMAIN reportsDone')
            /\ Cardinality(DOMAIN reportsDone) \in Nat /\ Cardinality(DOMAIN reportsDone') \in Nat
        BY <1>4, <2>1, OneMoreOf
      <3>2. Cardinality(DOMAIN reportsDone) <= MaxReports
        BY <2>2, <3>1
      <3>3. h = reportsDone'
        BY <1>3, <2>1, <3>2 DEF h
      <3> QED
        BY <2>5, <3>3
    <2> QED
      BY <2>5, <2>6, <2>7, <2>8 DEF HistoryKept, RecordsAreKept
  <1> QED
    BY <1>1, <1>2, <1>4, <1>5, <1>6

\* A call ends: k is its id, written the file it changes if it changes one.
Ends(c, k, success, path, answer, written, holds) ==
    /\ c \in ReportCalls /\ reportCall[c].at = "data" /\ k = reportCall[c].id
    /\ Record(c, success, path, answer) /\ unusedIds' = unusedIds
    /\ files' = files \/ files' = Put(files, written, holds)
    /\ \A i \in ReportIds : i # k /\ i \notin GivenPaths => written # <<i, "report">>
    /\ \/ answer = FALSE \/ path[1] \in GivenPaths
       \/ files' = Put(files, written, k) /\ path = <<k, "report">> /\ written = path

\* Whatever becomes of the files of a call that ends: what another report has stays.
LEMMA FilesStay ==
  ASSUME ReportIndInv, NEW c, NEW k, NEW success, NEW path, NEW answer, NEW written, NEW holds,
         Ends(c, k, success, path, answer, written, holds)
  PROVE  ReportIndInv'
  <1>0. ReportCallsOK /\ OwnPaths /\ OwnReportsStay
    BY DEF ReportIndInv
  <1>a. /\ c \in ReportCalls /\ reportCall[c].at = "data" /\ k = reportCall[c].id
        /\ Record(c, success, path, answer) /\ unusedIds' = unusedIds
        /\ files' = files \/ files' = Put(files, written, holds)
        /\ \A i \in ReportIds : i # k /\ i \notin GivenPaths => written # <<i, "report">>
        /\ \/ answer = FALSE \/ path[1] \in GivenPaths
           \/ files' = Put(files, written, k) /\ path = <<k, "report">> /\ written = path
    BY DEF Ends
  <1>1. k \in ReportIds
    BY <1>0, <1>a DEF ReportCallsOK
  <1>2. /\ ReportCallsOK' /\ HistoryKept'
        /\ DOMAIN reportsDone' = DOMAIN reportsDone \cup {k} /\ k \notin DOMAIN reportsDone
        /\ reportsDone'[k] = [success |-> success, path |-> path, answer |-> answer]
        /\ \A i \in DOMAIN reportsDone : reportsDone'[i] = reportsDone[i]
    BY <1>1, <1>a, ReportRecorded
  <1>3. OwnPaths'
    <2> SUFFICES ASSUME NEW i \in DOMAIN reportsDone', reportsDone'[i].answer,
                        reportsDone'[i].path[1] \notin GivenPaths
                 PROVE  reportsDone'[i].path = <<i, "report">>
      BY DEF OwnPaths
    <2>1. CASE i = k
      BY <1>1, <1>2, <1>a, <2>1
    <2>2. CASE i # k
      BY <1>0, <1>2, <2>2 DEF OwnPaths
    <2> QED
      BY <2>1, <2>2
  <1>4. OwnReportsStay'
    <2> SUFFICES ASSUME NEW i \in DOMAIN reportsDone', reportsDone'[i].answer,
                        reportsDone'[i].path[1] \notin GivenPaths
                 PROVE  reportsDone'[i].path \in DOMAIN files' /\ files'[reportsDone'[i].path] = i
      BY DEF OwnReportsStay
    <2>1. CASE i = k
      <3>1. files' = Put(files, written, k) /\ reportsDone'[i].path = written
        BY <1>1, <1>2, <1>a, <2>1
      <3> QED
        BY <2>1, <3>1 DEF Put
    <2>2. CASE i # k
      <3>1. i \in DOMAIN reportsDone /\ reportsDone'[i] = reportsDone[i] /\ i \in ReportIds
        BY <1>0, <1>2, <2>2 DEF ReportCallsOK
      <3>2. /\ reportsDone[i].path = <<i, "report">> /\ i \notin GivenPaths
            /\ <<i, "report">> \in DOMAIN files /\ files[<<i, "report">>] = i
        BY <1>0, <3>1 DEF OwnPaths, OwnReportsStay
      <3>3. written # <<i, "report">>
        BY <1>1, <1>a, <2>2, <3>1, <3>2
      <3>4. <<i, "report">> \in DOMAIN files' /\ files'[<<i, "report">>] = i
        BY <1>a, <3>2, <3>3 DEF Put
      <3> QED
        BY <3>1, <3>2, <3>4
    <2> QED
      BY <2>1, <2>2
  <1> QED
    BY <1>2, <1>3, <1>4 DEF ReportIndInv

LEMMA ReportsKeep == ReportIndInv /\ [ReportsNext]_reportVars => ReportIndInv'
  <1> SUFFICES ASSUME ReportIndInv, [ReportsNext]_reportVars PROVE ReportIndInv'
    OBVIOUS
  <1>0. ReportCallsOK /\ HistoryKept /\ OwnPaths /\ OwnReportsStay
    BY DEF ReportIndInv
  <1>1. ASSUME NEW c \in ReportCalls, NEW format \in Formats \cup {"unknown"},
               NEW path \in GivenPaths \cup {OwnPath}, GenerateReport(c, format, path)
        PROVE  ReportIndInv'
    <2>1. PICK i \in unusedIds :
            /\ unusedIds' = unusedIds \ {i}
            /\ reportCall' = [reportCall EXCEPT
                   ![c] = [at |-> "data", id |-> i, format |-> format, path |-> path]]
      BY <1>1 DEF GenerateReport
    <2>2. i \in ReportIds /\ i \in Nat /\ i \notin DOMAIN reportsDone
      BY <1>0, ReportAssumption DEF ReportCallsOK
    <2>3. PICK r \in CallRecords :
            r = [at |-> "data", id |-> i, format |-> format, path |-> path] /\ r.at = "data" /\ r.id = i
      <3>1. [at |-> "data", id |-> i, format |-> format, path |-> path] \in CallRecords
        BY <2>2 DEF CallRecords
      <3> QED
        BY <3>1
    <2>4. /\ reportCall' \in [ReportCalls -> CallRecords] /\ reportCall'[c] = r
          /\ \A d \in ReportCalls \ {c} : reportCall'[d] = reportCall[d]
      BY <1>0, <2>1, <2>3 DEF ReportCallsOK
    <2>5. UNCHANGED <<reportHistory, files, reportsDone>>
      BY <1>1 DEF GenerateReport
    <2>6. \A d \in ReportCalls : reportCall[d].at = "data" => reportCall[d].id # i
      BY <1>0 DEF ReportCallsOK
    <2>7. ReportCallsOK'
      BY <1>0, <2>1, <2>2, <2>3, <2>4, <2>5, <2>6 DEF ReportCallsOK
    <2> QED
      BY <1>0, <2>5, <2>7 DEF ReportIndInv, HistoryKept, RecordsAreKept, OwnPaths, OwnReportsStay
  <1>2. ASSUME NEW c \in ReportCalls, ReportFails(c) PROVE ReportIndInv'
    <2>1. /\ reportCall[c].at = "data" /\ Record(c, FALSE, <<0, "none">>, FALSE)
          /\ unusedIds' = unusedIds /\ files' = files
      BY <1>2 DEF ReportFails
    <2>2. PICK k, path, answer : k = reportCall[c].id /\ path = <<0, "none">> /\ answer = FALSE
      OBVIOUS
    <2>3. \A i \in ReportIds : i # k /\ i \notin GivenPaths => path # <<i, "report">>
      BY <2>2
    <2>4. Record(c, FALSE, path, answer) /\ (files' = files \/ files' = Put(files, path, 0))
      BY <2>1, <2>2
    <2>5. Ends(c, k, FALSE, path, answer, path, 0)
      BY <2>1, <2>2, <2>3, <2>4 DEF Ends
    <2> QED
      BY <2>5, FilesStay
  <1>3. ASSUME NEW c \in ReportCalls, ReportGenerated(c) PROVE ReportIndInv'
    <2>1. PICK k, p : k = reportCall[c].id /\ p = reportCall[c].path
      OBVIOUS
    <2>2. PICK path : path = <<IF p = OwnPath THEN k ELSE p, "report">> /\ path = PathOf(k, p)
      BY DEF PathOf
    <2>3. PICK text \in BOOLEAN : text = Fallback(reportCall[c].format)
      BY DEF Fallback
    <2>4. PICK written : written = IF text THEN AsText(path) ELSE path
      OBVIOUS
    <2>5. /\ reportCall[c].at = "data" /\ ~(text /\ p = OwnPath) /\ files' = Put(files, written, k)
          /\ Record(c, TRUE, path, TRUE) /\ unusedIds' = unusedIds
      BY <1>3, <2>1, <2>2, <2>3, <2>4 DEF ReportGenerated
    <2>6. p \in GivenPaths \cup {OwnPath}
      BY <1>0, <2>1 DEF ReportCallsOK, CallRecords
    <2>7. path[1] = (IF p = OwnPath THEN k ELSE p) /\ path[2] = "report"
      BY <2>2
    <2>8. written[1] = path[1]
      BY <2>4 DEF AsText
    <2>9. ASSUME NEW i \in ReportIds, i # k, i \notin GivenPaths PROVE written # <<i, "report">>
      <3>1. written[1] # i
        BY <2>6, <2>7, <2>8, <2>9
      <3>2. <<i, "report">>[1] = i
        OBVIOUS
      <3> QED
        BY <3>1, <3>2
    <2>10. path[1] \in GivenPaths \/ (path = <<k, "report">> /\ written = path)
      BY <2>2, <2>4, <2>5, <2>6, <2>7
    <2>11. PICK answer : answer = TRUE
      OBVIOUS
    <2>12. Record(c, TRUE, path, answer) /\ (files' = files \/ files' = Put(files, written, k))
      BY <2>5, <2>11
    <2>13. \A i \in ReportIds : i # k /\ i \notin GivenPaths => written # <<i, "report">>
      BY <2>9
    <2>14. answer = FALSE \/ path[1] \in GivenPaths
              \/ (files' = Put(files, written, k) /\ path = <<k, "report">> /\ written = path)
      BY <2>5, <2>10
    <2>15. Ends(c, k, TRUE, path, answer, written, k)
      BY <2>1, <2>5, <2>12, <2>13, <2>14 DEF Ends
    <2> QED
      BY <2>15, FilesStay
  <1>4. ASSUME NEW c \in ReportCalls, GeneratorFails(c) PROVE ReportIndInv'
    <2>1. PICK k, p : k = reportCall[c].id /\ p = reportCall[c].path
      OBVIOUS
    <2>2. PICK path : path = <<IF p = OwnPath THEN k ELSE p, "report">> /\ path = PathOf(k, p)
      BY DEF PathOf
    <2>3. /\ reportCall[c].at = "data" /\ (files' = files \/ files' = Put(files, path, 0))
          /\ Record(c, TRUE, path, FALSE) /\ unusedIds' = unusedIds
      BY <1>4, <2>1, <2>2 DEF GeneratorFails
    <2>4. p \in GivenPaths \cup {OwnPath} /\ path[1] = (IF p = OwnPath THEN k ELSE p)
      BY <1>0, <2>1, <2>2 DEF ReportCallsOK, CallRecords
    <2>5. ASSUME NEW i \in ReportIds, i # k, i \notin GivenPaths PROVE path # <<i, "report">>
      <3>1. path[1] # i
        BY <2>4, <2>5
      <3>2. <<i, "report">>[1] = i
        OBVIOUS
      <3> QED
        BY <3>1, <3>2
    <2>6. \A i \in ReportIds : i # k /\ i \notin GivenPaths => path # <<i, "report">>
      BY <2>5
    <2>7. PICK answer : answer = FALSE
      OBVIOUS
    <2>8. Record(c, TRUE, path, answer)
      BY <2>3, <2>7
    <2>9. Ends(c, k, TRUE, path, answer, path, 0)
      BY <2>1, <2>3, <2>6, <2>7, <2>8 DEF Ends
    <2> QED
      BY <2>9, FilesStay
  <1>5. CASE UNCHANGED reportVars
    BY <1>0, <1>5 DEF reportVars, ReportIndInv, ReportCallsOK, HistoryKept, RecordsAreKept, OwnPaths,
                      OwnReportsStay
  <1> QED
    BY <1>1, <1>2, <1>3, <1>4, <1>5 DEF ReportsNext, ReportStep

\* Whatever reports are generated beside each other: the history says what each came to, has all of
\* them until it is cut, and a report on a path of its own stays where it is said to be
\* (ReportEngine.generate_report).
THEOREM ReportsAreKept == ReportsSpec => []ReportInv
  <1>1. ReportIndInv => ReportInv
    BY DEF ReportIndInv, HistoryKept, ReportInv
  <1> QED
    BY <1>1, ReportsInitially, ReportsKeep, PTL DEF ReportsSpec

-----------------------------------------------------------------------------
(* The alert rule engine *)

\* One list of rules comes before another.
Before(first, next) ==
    \A i \in DOMAIN first, j \in DOMAIN next :
        RulePriority[first[i]] <= RulePriority[next[j]] /\ first[i] # next[j]

WellFormed(alert) ==
    LevelOf(alert) \in Nat /\ \E k \in 1 .. 4 : SeverityOf(alert) = Severities[k]

\* An alert was escalated from a given one, and its severity is what the levels say.
Raised(given, alert) ==
    /\ WellFormed(given) /\ WellFormed(alert) /\ LevelOf(given) <= LevelOf(alert)
    /\ LET raised == Rank(SeverityOf(given)) + (LevelOf(alert) - LevelOf(given))
       IN Rank(SeverityOf(alert)) = IF raised > 4 THEN 4 ELSE raised

\* The rules a call has not begun with yet.
Rest(at, todo) == IF at = "actions" THEN Tail(todo) ELSE todo

RuleCallOK(call) ==
    /\ DOMAIN call = {"at", "alert", "todo", "actions", "given", "matched"}
    /\ call.at \in {"free", "rule", "actions"}
    /\ call.todo \in Seq(Rules) /\ call.matched \in Seq(Rules)
    /\ call.at = "actions" => call.todo # <<>>
    /\ InOrder(call.matched) /\ InOrder(Rest(call.at, call.todo))
    /\ Before(call.matched, Rest(call.at, call.todo))
    /\ call.at # "free" => Raised(call.given, call.alert)

RuleCallsOK ==
    /\ ruleCall = [c \in AlertCalls |-> ruleCall[c]] /\ engineRules \subseteq Rules
    /\ \A c \in AlertCalls : RuleCallOK(ruleCall[c])

\* The engine remembers when an execution ended last.
EndsRemembered ==
    /\ lastEnd \in [Rules -> Nat] /\ lastExecuted = lastEnd /\ ruleTime \in Nat
    /\ \A r \in Rules : lastEnd[r] <= ruleTime

RuleIndInv == RuleCallsOK /\ EndsRemembered /\ executions \in [Rules -> Nat] /\ ExecutionsBounded

\* Severities have their ranks.
LEMMA RankIs == \A k \in 1 .. 4 : Rank(Severities[k]) = k
  <1>1. DOMAIN Severities = 1 .. 4
    BY DEF Severities
  <1>2. \A j, k \in 1 .. 4 : Severities[j] = Severities[k] => j = k
    BY DEF Severities
  <1> SUFFICES ASSUME NEW k \in 1 .. 4 PROVE Rank(Severities[k]) = k
    OBVIOUS
  <1>3. \E j \in DOMAIN Severities : Severities[j] = Severities[k]
    BY <1>1
  <1>4. Rank(Severities[k]) \in DOMAIN Severities /\ Severities[Rank(Severities[k])] = Severities[k]
    BY <1>3 DEF Rank
  <1> QED
    BY <1>1, <1>2, <1>4

LEMMA WithIs ==
  ASSUME NEW alert, NEW f, NEW v
  PROVE  \A g, d : Field(With(alert, f, v), g, d) = IF g = f THEN v ELSE Field(alert, g, d)
  BY DEF Field, With

\* Whatever an action does to an alert, its severity is what its levels say.
LEMMA EffectRaises ==
  ASSUME NEW given, NEW alert, Raised(given, alert), NEW action
  PROVE  Raised(given, Effect(alert, action))
  <1>1. PICK g \in 1 .. 4, k \in 1 .. 4 : SeverityOf(given) = Severities[g] /\ SeverityOf(alert) = Severities[k]
    BY DEF Raised, WellFormed
  <1>2. Rank(SeverityOf(given)) = g /\ Rank(SeverityOf(alert)) = k
    BY <1>1, RankIs
  <1>3. PICK first, level \in Nat : first = LevelOf(given) /\ level = LevelOf(alert)
    BY DEF Raised, WellFormed
  <1>4. WellFormed(given) /\ first <= level /\ k = IF g + (level - first) > 4 THEN 4 ELSE g + (level - first)
    BY <1>2, <1>3 DEF Raised
  <1>5. CASE action = "escalate"
    <2> DEFINE next == IF k = 4 THEN 4 ELSE k + 1
               a == With(With(alert, "escalation_level", level + 1), "severity", Severities[next])
    <2>1. Effect(alert, action) = a
      BY <1>2, <1>3, <1>5 DEF Effect, Escalate
    <2>2. SeverityOf(a) = Severities[next] /\ LevelOf(a) = level + 1
      BY WithIs DEF SeverityOf, LevelOf
    <2>3. next \in 1 .. 4
      OBVIOUS
    <2>4. Rank(SeverityOf(a)) = next
      BY <2>2, <2>3, RankIs
    <2>5. next = IF g + ((level + 1) - first) > 4 THEN 4 ELSE g + ((level + 1) - first)
      BY <1>4
    <2> HIDE DEF next, a
    <2>6. WellFormed(a)
      BY <2>2, <2>3 DEF WellFormed
    <2>7. first <= level + 1
      BY <1>4
    <2> QED
      BY <1>2, <1>3, <1>4, <2>1, <2>2, <2>4, <2>5, <2>6, <2>7 DEF Raised
  <1>6. CASE action = "suppress" \/ action = "auto_resolve"
    <2>1. PICK v : Effect(alert, action) = With(alert, "status", v)
      BY <1>6 DEF Effect
    <2>2. /\ SeverityOf(Effect(alert, action)) = SeverityOf(alert)
          /\ LevelOf(Effect(alert, action)) = LevelOf(alert)
      BY <2>1, WithIs DEF SeverityOf, LevelOf
    <2> QED
      BY <2>2 DEF Raised, WellFormed
  <1>7. CASE action # "escalate" /\ action # "suppress" /\ action # "auto_resolve"
    BY <1>7 DEF Effect
  <1> QED
    BY <1>5, <1>6, <1>7

\* The next of the rules in order may be taken from the front, and put behind those before it.
LEMMA OrderKept ==
  ASSUME NEW m \in Seq(Rules), NEW t \in Seq(Rules), t # <<>>, InOrder(m), InOrder(t), Before(m, t)
  PROVE  /\ Tail(t) \in Seq(Rules) /\ InOrder(Tail(t)) /\ Before(m, Tail(t))
         /\ Head(t) \in Rules /\ Append(m, Head(t)) \in Seq(Rules)
         /\ InOrder(Append(m, Head(t))) /\ Before(Append(m, Head(t)), Tail(t))
  <1>1. PICK h, u, n : h = Head(t) /\ u = Tail(t) /\ n = Append(m, h)
    OBVIOUS
  <1>2. /\ h \in Rules /\ u \in Seq(Rules) /\ h = t[1] /\ Len(t) \in Nat /\ Len(t) > 0
        /\ DOMAIN u = 1 .. Len(t) - 1 /\ \A i \in DOMAIN u : u[i] = t[i + 1]
    BY <1>1
  <1>3. /\ n \in Seq(Rules) /\ DOMAIN n = 1 .. Len(m) + 1 /\ n[Len(m) + 1] = h /\ Len(m) \in Nat
        /\ \A i \in 1 .. Len(m) : n[i] = m[i]
    BY <1>1, <1>2
  <1>4. DOMAIN t = 1 .. Len(t) /\ DOMAIN m = 1 .. Len(m)
    OBVIOUS
  <1>5. InOrder(u)
    <2> SUFFICES ASSUME NEW i \in DOMAIN u, NEW j \in DOMAIN u, i < j
                 PROVE  RulePriority[u[i]] <= RulePriority[u[j]] /\ u[i] # u[j]
      BY DEF InOrder
    <2>1. /\ i + 1 \in DOMAIN t /\ j + 1 \in DOMAIN t /\ i + 1 < j + 1
          /\ u[i] = t[i + 1] /\ u[j] = t[j + 1]
      BY <1>2, <1>4
    <2>2. RulePriority[t[i + 1]] <= RulePriority[t[j + 1]] /\ t[i + 1] # t[j + 1]
      BY <2>1 DEF InOrder
    <2> QED
      BY <2>1, <2>2
  <1>6. Before(m, u)
    BY <1>2, <1>4 DEF Before
  <1>7. \A j \in DOMAIN u : RulePriority[h] <= RulePriority[u[j]] /\ h # u[j]
    <2> SUFFICES ASSUME NEW j \in DOMAIN u
                 PROVE  RulePriority[h] <= RulePriority[u[j]] /\ h # u[j]
      OBVIOUS
    <2>1. 1 \in DOMAIN t /\ j + 1 \in DOMAIN t /\ 1 < j + 1 /\ u[j] = t[j + 1]
      BY <1>2, <1>4
    <2>2. RulePriority[t[1]] <= RulePriority[t[j + 1]] /\ t[1] # t[j + 1]
      BY <2>1 DEF InOrder
    <2> QED
      BY <1>2, <2>1, <2>2
  <1>8. \A i \in DOMAIN m : RulePriority[m[i]] <= RulePriority[h] /\ m[i] # h
    BY <1>2, <1>4 DEF Before
  <1>9. InOrder(n)
    BY <1>3, <1>4, <1>8 DEF InOrder
  <1>10. Before(n, u)
    BY <1>3, <1>4, <1>6, <1>7 DEF Before
  <1> QED
    BY <1>1, <1>2, <1>3, <1>5, <1>6, <1>9, <1>10

\* The calls in which a rule is executed.
Running(calls, r) == {c \in AlertCalls : calls[c].at = "actions" /\ Head(calls[c].todo) = r}

LEMMA RunningIsFinite ==
  ASSUME NEW calls, NEW r
  PROVE  /\ IsFiniteSet(Running(calls, r)) /\ IsFiniteSet(AlertCalls)
         /\ Cardinality(Running(calls, r)) \in Nat /\ Cardinality(AlertCalls) \in Nat
         /\ Cardinality(Running(calls, r)) <= Cardinality(AlertCalls)
  <1>1. Running(calls, r) \subseteq AlertCalls
    BY DEF Running
  <1>2. IsFiniteSet(AlertCalls)
    BY AlertRulesAssumption
  <1> QED
    BY <1>1, <1>2, FS_Subset, FS_CardinalityType

\* A step that begins no execution keeps the limits.
LEMMA NoneBegins ==
  ASSUME ExecutionsBounded, executions \in [Rules -> Nat], executions' = executions,
         \A r \in Rules : Running(ruleCall', r) \subseteq Running(ruleCall, r)
  PROVE  ExecutionsBounded'
  <1> SUFFICES ASSUME NEW r \in Rules, MaxExecutions[r] > 0
               PROVE  executions'[r] + Cardinality(Running(ruleCall', r))
                          <= MaxExecutions[r] + Cardinality(AlertCalls) - 1
    BY DEF ExecutionsBounded, Running
  <1>1. Cardinality(Running(ruleCall', r)) <= Cardinality(Running(ruleCall, r))
    BY RunningIsFinite, FS_Subset
  <1>2. executions[r] + Cardinality(Running(ruleCall, r)) <= MaxExecutions[r] + Cardinality(AlertCalls) - 1
    BY DEF ExecutionsBounded, Running
  <1> DEFINE n == Cardinality(Running(ruleCall', r))
             m == Cardinality(Running(ruleCall, r))
             k == Cardinality(AlertCalls)
  <1>3. n \in Nat /\ m \in Nat /\ k \in Nat /\ MaxExecutions[r] \in Nat /\ executions[r] \in Nat
    BY RunningIsFinite, AlertRulesAssumption
  <1>4. n <= m /\ executions[r] + m <= MaxExecutions[r] + k - 1 /\ executions'[r] = executions[r]
    BY <1>1, <1>2
  <1> HIDE DEF n, m, k
  <1>5. executions'[r] + n <= MaxExecutions[r] + k - 1
    BY <1>3, <1>4
  <1> QED
    BY <1>5 DEF n, k

\* One call changes.
LEMMA OneRuleCall ==
  ASSUME RuleCallsOK, NEW c \in AlertCalls, engineRules' \subseteq Rules,
         ruleCall' = [d \in AlertCalls |-> ruleCall'[d]], RuleCallOK(ruleCall'[c]),
         \A d \in AlertCalls \ {c} : ruleCall'[d] = ruleCall[d]
  PROVE  RuleCallsOK'
  <1>1. \A d \in AlertCalls : RuleCallOK(ruleCall'[d])
    BY DEF RuleCallsOK
  <1> QED
    BY <1>1 DEF RuleCallsOK

LEMMA RulesInitially == RulesInit => RuleIndInv
  <1> SUFFICES ASSUME RulesInit PROVE RuleIndInv
    OBVIOUS
  <1>1. RuleCallOK(NoCall)
    <2>1. <<>> \in Seq(Rules) /\ DOMAIN <<>> = {}
      OBVIOUS
    <2>2. InOrder(<<>>) /\ Before(<<>>, <<>>)
      BY <2>1 DEF InOrder, Before
    <2>3. Rest("free", <<>>) = <<>>
      BY DEF Rest
    <2> QED
      BY <2>1, <2>2, <2>3 DEF NoCall, RuleCallOK
  <1>2. RuleCallsOK
    BY <1>1 DEF RulesInit, RuleCallsOK
  <1>3. EndsRemembered /\ executions \in [Rules -> Nat]
    BY DEF RulesInit, EndsRemembered
  <1>4. ExecutionsBounded
    <2> SUFFICES ASSUME NEW r \in Rules, MaxExecutions[r] > 0
                 PROVE  executions[r] + Cardinality(Running(ruleCall, r))
                            <= MaxExecutions[r] + Cardinality(AlertCalls) - 1
      BY DEF ExecutionsBounded, Running
    <2>1. Running(ruleCall, r) = {}
      BY DEF RulesInit, NoCall, Running
    <2>2. Cardinality(Running(ruleCall, r)) = 0 /\ executions[r] = 0 /\ MaxExecutions[r] \in Nat
      BY <2>1, FS_EmptySet, AlertRulesAssumption DEF RulesInit
    <2> DEFINE k == Cardinality(AlertCalls)
    <2>3. k \in Nat
      BY RunningIsFinite
    <2> HIDE DEF k
    <2>4. 0 + 0 <= MaxExecutions[r] + k - 1
      BY <2>2, <2>3
    <2> QED
      BY <2>2, <2>4 DEF k
  <1> QED
    BY <1>2, <1>3, <1>4 DEF RuleIndInv

LEMMA RulesKeep == RuleIndInv /\ [RulesNext]_ruleVars => RuleIndInv'
  <1> SUFFICES ASSUME RuleIndInv, [RulesNext]_ruleVars PROVE RuleIndInv'
    OBVIOUS
  <1>0. /\ RuleCallsOK /\ EndsRemembered /\ executions \in [Rules -> Nat] /\ ExecutionsBounded
        /\ ruleCall = [c \in AlertCalls |-> ruleCall[c]] /\ engineRules \subseteq Rules
        /\ \A c \in AlertCalls : RuleCallOK(ruleCall[c])
    BY DEF RuleIndInv, RuleCallsOK
  \* Steps that leave the calls and the counters alone.
  <1>a. ASSUME engineRules' \subseteq Rules, ruleCall' = ruleCall, executions' = executions,
               lastEnd' = lastEnd, lastExecuted' = lastExecuted,
               ruleTime' = ruleTime \/ ruleTime' = ruleTime + 1
        PROVE  RuleIndInv'
    <2>1. RuleCallsOK' /\ executions' \in [Rules -> Nat]
      BY <1>0, <1>a DEF RuleCallsOK
    <2>2. EndsRemembered'
      BY <1>0, <1>a DEF EndsRemembered
    <2>3. ExecutionsBounded'
      BY <1>0, <1>a, NoneBegins
    <2> QED
      BY <2>1, <2>2, <2>3 DEF RuleIndInv
  \* Steps of a call that count nothing and begin nothing.
  <1>b. ASSUME NEW c \in AlertCalls, ruleCall' = [d \in AlertCalls |-> ruleCall'[d]],
               RuleCallOK(ruleCall'[c]), \A d \in AlertCalls \ {c} : ruleCall'[d] = ruleCall[d],
               ruleCall'[c].at = "actions" => ruleCall[c].at = "actions" /\ ruleCall'[c].todo = ruleCall[c].todo,
               UNCHANGED <<engineRules, executions, lastEnd, lastExecuted, ruleTime>>
        PROVE  RuleIndInv'
    <2>1. RuleCallsOK' /\ executions' \in [Rules -> Nat]
      BY <1>0, <1>b, OneRuleCall
    <2>2. EndsRemembered'
      BY <1>0, <1>b DEF EndsRemembered
    <2>3. \A r \in Rules : Running(ruleCall', r) \subseteq Running(ruleCall, r)
      BY <1>b DEF Running
    <2>4. ExecutionsBounded'
      BY <1>0, <1>b, <2>3, NoneBegins
    <2> QED
      BY <2>1, <2>2, <2>4 DEF RuleIndInv
  <1>1. ASSUME NEW r \in Rules, AddRule(r) \/ RemoveRule(r) \/ SetEnabled(r) PROVE RuleIndInv'
    BY <1>0, <1>1, <1>a DEF AddRule, RemoveRule, SetEnabled
  <1>2. CASE RuleTimePasses
    BY <1>0, <1>2, <1>a DEF RuleTimePasses
  <1>3. CASE UNCHANGED ruleVars
    BY <1>0, <1>3, <1>a DEF ruleVars
  <1>4. ASSUME NEW c \in AlertCalls, NEW alert \in NewAlerts, ProcessAlert(c, alert) PROVE RuleIndInv'
    <2> DEFINE enabled == {r \in engineRules : ruleEnabled[r]}
    <2>1. PICK list \in [1 .. Cardinality(enabled) -> enabled] :
             /\ InOrder(list)
             /\ ruleCall' = [ruleCall EXCEPT ![c] =
                    [NoCall EXCEPT !.at = "rule", !.alert = alert, !.given = alert, !.todo = list]]
      BY <1>4 DEF ProcessAlert, ListRules
    <2>2. list \in Seq(Rules)
      <3>1. IsFiniteSet(enabled) /\ Cardinality(enabled) \in Nat /\ enabled \subseteq Rules
        BY <1>0, AlertRulesAssumption, FS_Subset, FS_CardinalityType
      <3>2. PICK n \in Nat : list \in [1 .. n -> Rules]
        BY <3>1
      <3> QED
        BY <3>2, SeqDef
    <2>3. PICK new : /\ ruleCall' = [ruleCall EXCEPT ![c] = new]
                     /\ new = [NoCall EXCEPT !.at = "rule", !.alert = alert, !.given = alert, !.todo = list]
      BY <2>1
    <2>4. /\ DOMAIN new = {"at", "alert", "todo", "actions", "given", "matched"}
          /\ new.at = "rule" /\ new.alert = alert /\ new.todo = list /\ new.given = alert
          /\ new.matched = <<>>
      BY <2>3 DEF NoCall
    <2>5. /\ ruleCall' = [d \in AlertCalls |-> ruleCall'[d]] /\ ruleCall'[c] = new
          /\ \A d \in AlertCalls \ {c} : ruleCall'[d] = ruleCall[d]
      BY <1>0, <2>3
    <2>6. Raised(alert, alert)
      <3>1. PICK k \in 1 .. 4, level \in Nat : SeverityOf(alert) = Severities[k] /\ LevelOf(alert) = level
        BY NewAlertsAssumption DEF Severities
      <3>2. Rank(SeverityOf(alert)) = k /\ k + (level - level) = k /\ level <= level /\ ~(k > 4)
        BY <3>1, RankIs
      <3> QED
        BY <3>1, <3>2 DEF Raised, WellFormed
    <2>7. RuleCallOK(new)
      <3>1. <<>> \in Seq(Rules) /\ DOMAIN <<>> = {}
        OBVIOUS
      <3>2. InOrder(<<>>) /\ Before(<<>>, list) /\ Rest("rule", list) = list
        BY <3>1 DEF InOrder, Before, Rest
      <3> QED
        BY <2>1, <2>2, <2>4, <2>6, <3>1, <3>2 DEF RuleCallOK
    <2>8. new.at = "rule" /\ UNCHANGED <<engineRules, executions, lastEnd, lastExecuted, ruleTime>>
      BY <1>4, <2>4 DEF ProcessAlert
    <2> QED
      BY <2>5, <2>7, <2>8, <1>b
  <1>5. ASSUME NEW c \in AlertCalls, PassRule(c) PROVE RuleIndInv'
    <2>1. PICK m, t, n : m = ruleCall[c].matched /\ t = ruleCall[c].todo /\ (n = m \/ n = Append(m, Head(t)))
              /\ ruleCall' = [ruleCall EXCEPT ![c].todo = Tail(t), ![c].matched = n]
      BY <1>5 DEF PassRule
    <2>2. /\ ruleCall' = [d \in AlertCalls |-> ruleCall'[d]]
          /\ \A d \in AlertCalls \ {c} : ruleCall'[d] = ruleCall[d]
          /\ DOMAIN ruleCall'[c] = DOMAIN ruleCall[c]
          /\ ruleCall'[c].at = ruleCall[c].at /\ ruleCall'[c].alert = ruleCall[c].alert
          /\ ruleCall'[c].todo = Tail(t) /\ ruleCall'[c].matched = n /\ ruleCall'[c].given = ruleCall[c].given
      BY <1>0, <2>1 DEF RuleCallOK
    <2>3. /\ ruleCall[c].at = "rule" /\ t # <<>>
          /\ UNCHANGED <<engineRules, executions, lastEnd, lastExecuted, ruleTime>>
      BY <1>5, <2>1 DEF PassRule
    <2>4. /\ m \in Seq(Rules) /\ t \in Seq(Rules) /\ InOrder(m) /\ InOrder(t) /\ Before(m, t)
          /\ Raised(ruleCall[c].given, ruleCall[c].alert)
      BY <1>0, <2>1, <2>3 DEF RuleCallOK, Rest
    <2>5. n \in Seq(Rules) /\ Tail(t) \in Seq(Rules) /\ InOrder(n) /\ InOrder(Tail(t)) /\ Before(n, Tail(t))
      BY <2>1, <2>3, <2>4, OrderKept
    <2>6. RuleCallOK(ruleCall'[c])
      BY <1>0, <2>2, <2>3, <2>4, <2>5 DEF RuleCallOK, Rest
    <2> QED
      BY <2>2, <2>3, <2>6, <1>b
  <1>6. ASSUME NEW c \in AlertCalls, BeginRule(c) PROVE RuleIndInv'
    <2>1. PICK m, t, n, r : /\ m = ruleCall[c].matched /\ t = ruleCall[c].todo /\ r = Head(t) /\ n = Append(m, r)
              /\ ruleCall' = [ruleCall EXCEPT ![c].at = "actions", ![c].actions = RuleActions[r], ![c].matched = n]
              /\ CanExecute(r)
      BY <1>6 DEF BeginRule
    <2>2. /\ ruleCall' = [d \in AlertCalls |-> ruleCall'[d]]
          /\ \A d \in AlertCalls \ {c} : ruleCall'[d] = ruleCall[d]
          /\ DOMAIN ruleCall'[c] = DOMAIN ruleCall[c]
          /\ ruleCall'[c].at = "actions" /\ ruleCall'[c].alert = ruleCall[c].alert
          /\ ruleCall'[c].todo = t /\ ruleCall'[c].matched = n /\ ruleCall'[c].given = ruleCall[c].given
      BY <1>0, <2>1 DEF RuleCallOK
    <2>3. /\ ruleCall[c].at = "rule" /\ t # <<>>
          /\ UNCHANGED <<engineRules, executions, lastEnd, lastExecuted, ruleTime>>
      BY <1>6, <2>1 DEF BeginRule
    <2>4. /\ m \in Seq(Rules) /\ t \in Seq(Rules) /\ InOrder(m) /\ InOrder(t) /\ Before(m, t)
          /\ Raised(ruleCall[c].given, ruleCall[c].alert)
      BY <1>0, <2>1, <2>3 DEF RuleCallOK, Rest
    <2>5. /\ n \in Seq(Rules) /\ r \in Rules /\ InOrder(n) /\ InOrder(Tail(t)) /\ Before(n, Tail(t))
      BY <2>1, <2>3, <2>4, OrderKept
    <2>6. RuleCallOK(ruleCall'[c])
      BY <1>0, <2>2, <2>3, <2>4, <2>5 DEF RuleCallOK, Rest
    <2>7. RuleCallsOK' /\ EndsRemembered' /\ executions' \in [Rules -> Nat]
      BY <1>0, <2>2, <2>3, <2>6, OneRuleCall DEF EndsRemembered
    <2>8. ExecutionsBounded'
      <3> SUFFICES ASSUME NEW q \in Rules, MaxExecutions[q] > 0
                   PROVE  executions'[q] + Cardinality(Running(ruleCall', q))
                              <= MaxExecutions[q] + Cardinality(AlertCalls) - 1
        BY DEF ExecutionsBounded, Running
      <3> DEFINE n1 == Cardinality(Running(ruleCall', q))
                 n0 == Cardinality(Running(ruleCall, q))
                 k == Cardinality(AlertCalls)
      <3>1. n1 \in Nat /\ n0 \in Nat /\ k \in Nat /\ n1 <= k /\ executions[q] \in Nat /\ MaxExecutions[q] \in Nat
        BY <1>0, RunningIsFinite, AlertRulesAssumption
      <3>2. CASE q = r
        <4>1. executions'[q] = executions[q] /\ executions[q] < MaxExecutions[q]
          BY <2>1, <2>3, <3>1, <3>2 DEF CanExecute
        <4> HIDE DEF n1, n0, k
        <4>2. executions'[q] + n1 <= MaxExecutions[q] + k - 1
          BY <3>1, <4>1
        <4> QED
          BY <4>2 DEF n1, k
      <3>3. CASE q # r
        <4>1. Running(ruleCall', q) = Running(ruleCall, q)
          <5>1. c \notin Running(ruleCall, q)
            BY <2>3 DEF Running
          <5>2. c \notin Running(ruleCall', q)
            BY <2>1, <2>2, <3>3 DEF Running
          <5>3. \A d \in AlertCalls \ {c} : d \in Running(ruleCall', q) <=> d \in Running(ruleCall, q)
            BY <2>2 DEF Running
          <5>4. Running(ruleCall', q) \subseteq AlertCalls /\ Running(ruleCall, q) \subseteq AlertCalls
            BY DEF Running
          <5> QED
            BY <5>1, <5>2, <5>3, <5>4
        <4>2. executions[q] + Cardinality(Running(ruleCall, q)) <= MaxExecutions[q] + Cardinality(AlertCalls) - 1
          BY <1>0 DEF ExecutionsBounded, Running
        <4> QED
          BY <2>3, <4>1, <4>2
      <3> QED
        BY <3>2, <3>3
    <2> QED
      BY <2>7, <2>8 DEF RuleIndInv
  <1>7. ASSUME NEW c \in AlertCalls, Act(c) PROVE RuleIndInv'
    <2>1. PICK a, e : /\ e = Effect(ruleCall[c].alert, a)
              /\ ruleCall' = [ruleCall EXCEPT ![c].actions = Tail(@), ![c].alert = e]
      BY <1>7 DEF Act
    <2>2. /\ ruleCall' = [d \in AlertCalls |-> ruleCall'[d]]
          /\ \A d \in AlertCalls \ {c} : ruleCall'[d] = ruleCall[d]
          /\ DOMAIN ruleCall'[c] = DOMAIN ruleCall[c]
          /\ ruleCall'[c].at = ruleCall[c].at /\ ruleCall'[c].alert = e /\ ruleCall'[c].todo = ruleCall[c].todo
          /\ ruleCall'[c].matched = ruleCall[c].matched /\ ruleCall'[c].given = ruleCall[c].given
      BY <1>0, <2>1 DEF RuleCallOK
    <2>3. /\ ruleCall[c].at = "actions"
          /\ UNCHANGED <<engineRules, executions, lastEnd, lastExecuted, ruleTime>>
      BY <1>7 DEF Act
    <2>4. Raised(ruleCall[c].given, e)
      BY <1>0, <2>1, <2>3, EffectRaises DEF RuleCallOK
    <2>5. RuleCallOK(ruleCall'[c])
      BY <1>0, <2>2, <2>3, <2>4 DEF RuleCallOK
    <2> QED
      BY <2>2, <2>3, <2>5, <1>b
  <1>8. ASSUME NEW c \in AlertCalls, CallHook(c) PROVE RuleIndInv'
    <2>1. ruleCall' = [ruleCall EXCEPT ![c].actions = Tail(@)]
      BY <1>8 DEF CallHook
    <2>2. /\ ruleCall' = [d \in AlertCalls |-> ruleCall'[d]]
          /\ \A d \in AlertCalls \ {c} : ruleCall'[d] = ruleCall[d]
          /\ DOMAIN ruleCall'[c] = DOMAIN ruleCall[c]
          /\ ruleCall'[c].at = ruleCall[c].at /\ ruleCall'[c].alert = ruleCall[c].alert
          /\ ruleCall'[c].todo = ruleCall[c].todo
          /\ ruleCall'[c].matched = ruleCall[c].matched /\ ruleCall'[c].given = ruleCall[c].given
      BY <1>0, <2>1 DEF RuleCallOK
    <2>3. UNCHANGED <<engineRules, executions, lastEnd, lastExecuted, ruleTime>>
      BY <1>8 DEF CallHook
    <2>4. RuleCallOK(ruleCall'[c])
      BY <1>0, <2>2 DEF RuleCallOK
    <2> QED
      BY <2>2, <2>3, <2>4, <1>b
  <1>9. ASSUME NEW c \in AlertCalls, HookAnswers(c) PROVE RuleIndInv'
    BY <1>0, <1>9, <1>a DEF HookAnswers
  <1>10. ASSUME NEW c \in AlertCalls, RuleDone(c) PROVE RuleIndInv'
    <2>1. PICK t, r : /\ t = ruleCall[c].todo /\ r = Head(t)
              /\ ruleCall' = [ruleCall EXCEPT ![c].at = "rule", ![c].todo = Tail(t)]
              /\ executions' = [executions EXCEPT ![r] = @ + 1]
              /\ lastExecuted' = [lastExecuted EXCEPT ![r] = ruleTime]
              /\ lastEnd' = [lastEnd EXCEPT ![r] = ruleTime]
      BY <1>10 DEF RuleDone
    <2>2. /\ ruleCall' = [d \in AlertCalls |-> ruleCall'[d]]
          /\ \A d \in AlertCalls \ {c} : ruleCall'[d] = ruleCall[d]
          /\ DOMAIN ruleCall'[c] = DOMAIN ruleCall[c]
          /\ ruleCall'[c].at = "rule" /\ ruleCall'[c].alert = ruleCall[c].alert
          /\ ruleCall'[c].todo = Tail(t)
          /\ ruleCall'[c].matched = ruleCall[c].matched /\ ruleCall'[c].given = ruleCall[c].given
      BY <1>0, <2>1 DEF RuleCallOK
    <2>3. /\ ruleCall[c].at = "actions" /\ t # <<>> /\ t \in Seq(Rules)
          /\ UNCHANGED <<engineRules, ruleTime>>
      BY <1>0, <1>10, <2>1 DEF RuleDone, RuleCallOK
    <2>4. r \in Rules /\ Tail(t) \in Seq(Rules)
      BY <2>1, <2>3
    <2>5. RuleCallOK(ruleCall'[c])
      <3>1. /\ RuleCallOK(ruleCall[c])
            /\ Rest("rule", Tail(t)) = Tail(t) /\ Rest("actions", t) = Tail(t)
        BY <1>0 DEF Rest
      <3> QED
        BY <2>1, <2>2, <2>3, <2>4, <3>1 DEF RuleCallOK
    <2>6. RuleCallsOK'
      BY <1>0, <2>2, <2>3, <2>5, OneRuleCall
    <2>7. EndsRemembered' /\ executions' \in [Rules -> Nat]
      BY <1>0, <2>1, <2>3, <2>4 DEF EndsRemembered
    <2>8. ExecutionsBounded'
      <3> SUFFICES ASSUME NEW q \in Rules, MaxExecutions[q] > 0
                   PROVE  executions'[q] + Cardinality(Running(ruleCall', q))
                              <= MaxExecutions[q] + Cardinality(AlertCalls) - 1
        BY DEF ExecutionsBounded, Running
      <3> DEFINE n1 == Cardinality(Running(ruleCall', q))
                 n0 == Cardinality(Running(ruleCall, q))
                 k == Cardinality(AlertCalls)
      <3>1. n1 \in Nat /\ n0 \in Nat /\ k \in Nat /\ executions[q] \in Nat /\ MaxExecutions[q] \in Nat
        BY <1>0, RunningIsFinite, AlertRulesAssumption
      <3>2. executions[q] + n0 <= MaxExecutions[q] + k - 1
        BY <1>0 DEF ExecutionsBounded, Running
      <3>3. CASE q = r
        <4>1. Running(ruleCall', q) = Running(ruleCall, q) \ {c} /\ c \in Running(ruleCall, q)
          BY <2>1, <2>2, <2>3, <3>3 DEF Running
        <4>2. n1 = n0 - 1
          <5>1. IsFiniteSet(Running(ruleCall, q))
            BY RunningIsFinite
          <5>2. Cardinality(Running(ruleCall, q) \ {c}) = Cardinality(Running(ruleCall, q)) - 1
            BY <4>1, <5>1, FS_RemoveElement
          <5> QED
            BY <4>1, <5>2
        <4>3. executions'[q] = executions[q] + 1
          BY <1>0, <2>1, <3>3
        <4> HIDE DEF n1, n0, k
        <4>4. executions'[q] + n1 <= MaxExecutions[q] + k - 1
          BY <3>1, <3>2, <4>2, <4>3
        <4> QED
          BY <4>4 DEF n1, k
      <3>4. CASE q # r
        <4>1. Running(ruleCall', q) = Running(ruleCall, q)
          BY <2>1, <2>2, <2>3, <3>4 DEF Running
        <4>2. executions'[q] = executions[q]
          BY <1>0, <2>1, <3>4
        <4> QED
          BY <3>2, <4>1, <4>2
      <3> QED
        BY <3>3, <3>4
    <2> QED
      BY <2>6, <2>7, <2>8 DEF RuleIndInv
  <1>11. ASSUME NEW c \in AlertCalls, AlertProcessed(c) PROVE RuleIndInv'
    <2>1. ruleCall' = [ruleCall EXCEPT ![c] = NoCall]
      BY <1>11 DEF AlertProcessed
    <2>2. /\ ruleCall' = [d \in AlertCalls |-> ruleCall'[d]] /\ ruleCall'[c] = NoCall
          /\ \A d \in AlertCalls \ {c} : ruleCall'[d] = ruleCall[d]
      BY <1>0, <2>1
    <2>3. UNCHANGED <<engineRules, executions, lastEnd, lastExecuted, ruleTime>>
      BY <1>11 DEF AlertProcessed
    <2>4. RuleCallOK(NoCall) /\ NoCall.at = "free"
      <3>1. <<>> \in Seq(Rules) /\ DOMAIN <<>> = {}
        OBVIOUS
      <3>2. InOrder(<<>>) /\ Before(<<>>, <<>>) /\ Rest("free", <<>>) = <<>>
        BY <3>1 DEF InOrder, Before, Rest
      <3> QED
        BY <3>1, <3>2 DEF NoCall, RuleCallOK
    <2> QED
      BY <2>2, <2>3, <2>4, <1>b
  <1> QED
    BY <1>1, <1>2, <1>3, <1>4, <1>5, <1>6, <1>7, <1>8, <1>9, <1>10, <1>11 DEF RulesNext, RuleStep

\* Whatever calls overlap: a rule exceeds its limit by no more than the calls beside the first, the
\* rules report in order, and severities are what the levels say (AlertRuleEngine.process_alert).
THEOREM RulesHold == RulesSpec => []RuleInv
  <1>1. RuleIndInv => RuleInv
    <2> SUFFICES ASSUME RuleIndInv PROVE RuleInv
      OBVIOUS
    <2>1. ExecutionsBounded /\ \A c \in AlertCalls : RuleCallOK(ruleCall[c])
      BY DEF RuleIndInv, RuleCallsOK
    <2>2. ReportedInOrder
      BY <2>1 DEF ReportedInOrder, RuleCallOK
    <2>3. EscalationAddsUp
      BY <2>1 DEF EscalationAddsUp, RuleCallOK, Raised
    <2> QED
      BY <2>1, <2>2, <2>3 DEF RuleInv
  <1> QED
    BY <1>1, RulesInitially, RulesKeep, PTL DEF RulesSpec

\* A rule begins when it is enabled and its cooldown has passed since every execution that ended
\* (AlertRule.can_execute).
THEOREM RulesWaitForTheirCooldown == RulesSpec => CooldownBetween
  <1>1. RuleIndInv /\ [RulesNext]_ruleVars =>
          [\A c \in AlertCalls, r \in Rules :
             (ruleCall[c].at = "rule" /\ ruleCall'[c].at = "actions" /\ Head(ruleCall[c].todo) = r)
                 => /\ ruleEnabled[r]
                    /\ lastEnd[r] = 0 \/ ruleTime >= lastEnd[r] + Cooldown[r]]_ruleVars
    <2> SUFFICES ASSUME RuleIndInv, RulesNext, NEW c \in AlertCalls, NEW r \in Rules,
                        ruleCall[c].at = "rule", ruleCall'[c].at = "actions", Head(ruleCall[c].todo) = r
                 PROVE  ruleEnabled[r] /\ (lastEnd[r] = 0 \/ ruleTime >= lastEnd[r] + Cooldown[r])
      OBVIOUS
    <2>0. /\ EndsRemembered /\ ruleCall = [d \in AlertCalls |-> ruleCall[d]]
          /\ \A d \in AlertCalls : RuleCallOK(ruleCall[d])
      BY DEF RuleIndInv, RuleCallsOK
    <2>1. BeginRule(c)
      <3>1. /\ ~(ruleCall' = ruleCall) /\ ruleCall'[c].at # ruleCall[c].at
        OBVIOUS
      <3>2. ~RuleTimePasses /\ \A q \in Rules : ~AddRule(q) /\ ~RemoveRule(q) /\ ~SetEnabled(q)
        BY <3>1 DEF RuleTimePasses, AddRule, RemoveRule, SetEnabled
      <3>3. PICK d \in AlertCalls : RuleStep(d) \/ (\E alert \in NewAlerts : ProcessAlert(d, alert))
        BY <3>2 DEF RulesNext
      <3>4. /\ ~HookAnswers(d) /\ ~Act(d) /\ ~CallHook(d) /\ ~RuleDone(d) /\ ~AlertProcessed(d) /\ ~PassRule(d)
        <4>1. ~HookAnswers(d)
          BY <3>1 DEF HookAnswers
        <4>2. ASSUME NEW e, ruleCall' = [ruleCall EXCEPT ![d].actions = Tail(@), ![d].alert = e] PROVE FALSE
          BY <2>0, <3>1, <4>2 DEF RuleCallOK
        <4>3. ~CallHook(d) /\ ~Act(d)
          BY <2>0, <3>1, <4>2 DEF CallHook, Act, RuleCallOK
        <4>4. ~RuleDone(d)
          BY <2>0 DEF RuleDone, RuleCallOK
        <4>5. ~AlertProcessed(d)
          BY <2>0, <3>1 DEF AlertProcessed, NoCall
        <4>6. ~PassRule(d)
          <5>1. ASSUME NEW m, ruleCall' = [ruleCall EXCEPT ![d].todo = Tail(@), ![d].matched = m] PROVE FALSE
            BY <2>0, <3>1, <5>1 DEF RuleCallOK
          <5> QED
            BY <5>1 DEF PassRule
        <4> QED
          BY <4>1, <4>3, <4>4, <4>5, <4>6
      <3>5. ~(\E alert \in NewAlerts : ProcessAlert(d, alert))
        BY <2>0, <3>1 DEF ProcessAlert, NoCall
      <3>6. BeginRule(d)
        BY <3>3, <3>4, <3>5 DEF RuleStep
      <3>7. d = c
        BY <2>0, <3>1, <3>6 DEF BeginRule, RuleCallOK
      <3> QED
        BY <3>6, <3>7
    <2>2. CanExecute(r)
      BY <2>1 DEF BeginRule
    <2> QED
      BY <2>0, <2>2, AlertRulesAssumption DEF CanExecute, EndsRemembered
  <1> QED
    BY <1>1, RulesInitially, RulesKeep, PTL DEF RulesSpec, CooldownBetween

-----------------------------------------------------------------------------
(* The notification service *)

Distinct(list) == \A j, k \in DOMAIN list : list[j] = list[k] => j = k

Named == Channels \cup {CustomChannels[k] : k \in DOMAIN CustomChannels}

\* What arrived of a notification, taken together.
Reached(arrived) == {arrived[m][1] : m \in DOMAIN arrived}
Copies(arrived, c, r) == {m \in DOMAIN arrived : arrived[m] = <<c, r>>}
Yes(results) == {k \in DOMAIN results : results[k]}
Tries(c) == IF c = "webhook" THEN RetryAttempts ELSE 1

SenderOK(n) ==
    /\ DOMAIN n = {"at", "id", "channels", "recipients", "targets", "try", "good", "results", "due"}
    /\ n.at \in {"idle", "channel", "sending"} /\ n.channels \in Seq(Named)
    /\ n.recipients \subseteq Recipients /\ n.targets \in Seq(Recipients)
    /\ n.try \in Nat /\ n.good \in Nat /\ n.results \in Seq(BOOLEAN) /\ n.due \in Nat

\* Nothing of a notification went to a channel yet, to anybody.
Untouched(i, c, arrived, told) ==
    c \notin Reached(arrived) /\ \A r \in Recipients : <<i, c, r>> \notin told

\* The targets of a channel: who is still to be called has not answered, and nothing arrived but by
\* the tries that were made.
TargetsFit(n, arrived, told) ==
    LET c == Head(n.channels)
    IN /\ n.channels # <<>> /\ c \in Channels \ {"email"} /\ n.targets # <<>> /\ Distinct(n.targets)
       /\ n.try \in 1 .. Tries(c) /\ (n.good > 0 => c \in Reached(arrived))
       /\ \A k \in DOMAIN n.targets :
             /\ <<n.id, c, n.targets[k]>> \notin told
             /\ Cardinality(Copies(arrived, c, n.targets[k])) <= IF k = 1 THEN n.try - 1 ELSE 0

\* A notification under way, or done.
SenderFits(n, arrived, told) ==
    /\ Distinct(n.channels) /\ (n.at = "idle" => n.channels = <<>>)
    /\ n.at = "channel" => n.try = 1 /\ n.good = 0
    /\ \A k \in DOMAIN n.channels :
          k > 1 \/ n.at = "channel" => Untouched(n.id, n.channels[k], arrived, told)
    /\ n.at = "sending" => TargetsFit(n, arrived, told)
    /\ Cardinality(Yes(n.results)) <= Cardinality(Reached(arrived) \ Range(n.channels))
    /\ Len(n.results) + WithNotifier(n.channels) = n.due

Live(n) == n.at # "idle" \/ n.results # <<>>

SendersOK ==
    /\ sender = [s \in Senders |-> sender[s]] /\ unused \subseteq NotificationIds
    /\ \A s \in Senders : SenderOK(sender[s])
    /\ \A s \in Senders : Live(sender[s]) => sender[s].id \in NotificationIds \ unused
    /\ \A s, t \in Senders : Live(sender[s]) /\ Live(sender[t]) /\ sender[s].id = sender[t].id => s = t

ReceivedOK ==
    /\ received \in [NotificationIds -> Seq(Channels \X Recipients)]
    /\ \A i \in unused : received[i] = <<>> /\ \A x \in answered : x[1] # i
    /\ \A i \in NotificationIds, c \in Channels, r \in Recipients :
          Cardinality(Copies(received[i], c, r)) <= Tries(c)

AllFit ==
    \A s \in Senders : Live(sender[s]) => SenderFits(sender[s], received[sender[s].id], answered)

HistoriesOK ==
    /\ histories = [b \in Books |-> histories[b]] /\ finished = [b \in Books |-> finished[b]]
    /\ \A b \in Books : finished[b] \subseteq Nat /\ IsFiniteSet(finished[b])
    /\ HistoriesKeep

NotificationIndInv == SendersOK /\ ReceivedOK /\ AllFit /\ HistoriesOK

\* A finite set as a sequence has each of its elements once.
LEMMA SetToSeqIs ==
  ASSUME NEW S, IsFiniteSet(S)
  PROVE  /\ SetToSeq(S) \in Seq(S) /\ Distinct(SetToSeq(S)) /\ Len(SetToSeq(S)) = Cardinality(S)
         /\ SetToSeq(S) \in [1 .. Cardinality(S) -> S] /\ Cardinality(S) \in Nat
         /\ S # {} => SetToSeq(S) # <<>>
  <1>1. Cardinality(S) \in Nat /\ ExistsBijection(1 .. Cardinality(S), S)
    BY FS_CardinalityType
  <1>2. \E f \in [1 .. Cardinality(S) -> S] : IsInjective(f)
    BY <1>1 DEF ExistsBijection, Bijection, Injection
  <1>3. PICK q : q = SetToSeq(S) /\ q \in [1 .. Cardinality(S) -> S] /\ IsInjective(q)
    BY <1>2 DEF SetToSeq
  <1>4. PICK n \in Nat : n = Cardinality(S) /\ q \in [1 .. n -> S]
    BY <1>1, <1>3
  <1>5. q \in Seq(S) /\ Len(q) = n /\ DOMAIN q = 1 .. n
    <2>1. q \in Seq(S)
      BY <1>4, SeqDef
    <2>2. DOMAIN q = 1 .. n
      BY <1>4
    <2> QED
      BY <2>1, <2>2, <1>4
  <1>6. Distinct(q)
    BY <1>3 DEF Distinct, IsInjective
  <1>7. S # {} => q # <<>>
    <2> SUFFICES ASSUME S # {}, q = <<>> PROVE FALSE
      OBVIOUS
    <2>1. n = 0
      BY <1>5
    <2> QED
      BY <1>4, <2>1, FS_EmptySet
  <1> QED
    BY <1>1, <1>3, <1>4, <1>5, <1>6, <1>7

\* One more message arrives.
OneMoreCopy(more, arrived, c, r) == more = Append(arrived, <<c, r>>)

LEMMA OneArrives ==
  ASSUME NEW arrived \in Seq(Channels \X Recipients), NEW c \in Channels, NEW r \in Recipients,
         NEW more, OneMoreCopy(more, arrived, c, r)
  PROVE  /\ more \in Seq(Channels \X Recipients) /\ Reached(more) = Reached(arrived) \cup {c}
         /\ Last(more) = <<c, r>>
         /\ Copies(more, c, r) = Copies(arrived, c, r) \cup {Len(arrived) + 1}
         /\ \A d, q : <<d, q>> # <<c, r>> => Copies(more, d, q) = Copies(arrived, d, q)
  <1>1. /\ more \in Seq(Channels \X Recipients) /\ Len(arrived) \in Nat /\ Len(more) = Len(arrived) + 1
        /\ DOMAIN more = 1 .. Len(arrived) + 1 /\ DOMAIN arrived = 1 .. Len(arrived)
        /\ more[Len(arrived) + 1] = <<c, r>> /\ \A m \in DOMAIN arrived : more[m] = arrived[m]
    BY DEF OneMoreCopy
  <1>2. DOMAIN more = DOMAIN arrived \cup {Len(arrived) + 1} /\ Len(arrived) + 1 \notin DOMAIN arrived
    BY <1>1
  <1>3. Reached(more) = Reached(arrived) \cup {c}
    BY <1>1, <1>2 DEF Reached
  <1>4. Copies(more, c, r) = Copies(arrived, c, r) \cup {Len(arrived) + 1}
    BY <1>1, <1>2 DEF Copies
  <1>5. ASSUME NEW d, NEW q, <<d, q>> # <<c, r>> PROVE Copies(more, d, q) = Copies(arrived, d, q)
    BY <1>1, <1>2, <1>5 DEF Copies
  <1>6. Last(more) = <<c, r>>
    BY <1>1 DEF Last
  <1> QED
    BY <1>1, <1>3, <1>4, <1>5, <1>6

LEMMA CopiesAreFinite ==
  ASSUME NEW arrived \in Seq(Channels \X Recipients), NEW c, NEW r
  PROVE  /\ IsFiniteSet(Copies(arrived, c, r)) /\ Cardinality(Copies(arrived, c, r)) \in Nat
         /\ IsFiniteSet(Reached(arrived))
  <1>1. PICK n \in Nat : DOMAIN arrived = 1 .. n
    OBVIOUS
  <1>2. IsFiniteSet(1 .. n)
    BY FS_Interval
  <1>3. Copies(arrived, c, r) \subseteq 1 .. n
    BY <1>1 DEF Copies
  <1>4. Reached(arrived) \subseteq Channels
    <2> SUFFICES ASSUME NEW m \in DOMAIN arrived PROVE arrived[m][1] \in Channels
      BY DEF Reached
    <2>1. arrived[m] \in Channels \X Recipients
      OBVIOUS
    <2> QED
      BY <2>1
  <1>5. IsFiniteSet(Channels)
    <2>1. IsFiniteSet({"email"} \cup {"sms"})
      BY FS_Singleton, OneMoreOf
    <2>2. IsFiniteSet({"email"} \cup {"sms"} \cup {"webhook"})
      BY <2>1, OneMoreOf
    <2>3. IsFiniteSet({"email"} \cup {"sms"} \cup {"webhook"} \cup {"slack"})
      BY <2>2, OneMoreOf
    <2>4. Channels = {"email"} \cup {"sms"} \cup {"webhook"} \cup {"slack"}
      BY DEF Channels
    <2> QED
      BY <2>3, <2>4
  <1> QED
    BY <1>2, <1>3, <1>4, <1>5, FS_Subset, FS_CardinalityType

\* The first channel gone, one channel with a notifier is gone if it had one.
LEMMA NotifiersLeft ==
  ASSUME NEW list \in Seq(Named), list # <<>>
  PROVE  /\ WithNotifier(list) \in Nat /\ WithNotifier(Tail(list)) \in Nat
         /\ WithNotifier(list) = WithNotifier(Tail(list)) + (IF Head(list) \in Channels THEN 1 ELSE 0)
  <1> DEFINE S == {k \in DOMAIN list : list[k] \in Channels}
             T == {k \in DOMAIN Tail(list) : Tail(list)[k] \in Channels}
             R == S \ {1}
             f == [k \in T |-> k + 1]
  <1>1. PICK n \in Nat : DOMAIN list = 1 .. n + 1 /\ DOMAIN Tail(list) = 1 .. n
    <2>1. Len(list) \in Nat /\ Len(list) > 0 /\ DOMAIN list = 1 .. Len(list)
          /\ DOMAIN Tail(list) = 1 .. Len(list) - 1
      OBVIOUS
    <2>2. Len(list) - 1 \in Nat /\ (Len(list) - 1) + 1 = Len(list)
      BY <2>1
    <2>3. PICK n : n = Len(list) - 1
      OBVIOUS
    <2>4. n \in Nat /\ n + 1 = Len(list)
      BY <2>2, <2>3
    <2>5. DOMAIN list = 1 .. n + 1 /\ DOMAIN Tail(list) = 1 .. n
      BY <2>1, <2>3, <2>4
    <2> QED
      BY <2>4, <2>5
  <1>2. \A k \in 1 .. n : Tail(list)[k] = list[k + 1]
    BY <1>1
  <1>3. Head(list) = list[1]
    OBVIOUS
  <1>4. f \in [T -> R] /\ (\A j, k \in T : f[j] = f[k] => j = k) /\ \A j \in R : \E k \in T : f[k] = j
    <2>1. f \in [T -> R]
      BY <1>1, <1>2
    <2>2. \A j, k \in T : f[j] = f[k] => j = k
      BY <1>1
    <2>3. \A j \in R : j - 1 \in T /\ f[j - 1] = j
      BY <1>1, <1>2
    <2> QED
      BY <2>1, <2>2, <2>3
  <1>5. IsFiniteSet(T) /\ IsFiniteSet(S)
    <2>1. IsFiniteSet(1 .. n) /\ IsFiniteSet(1 .. n + 1)
      BY FS_Interval
    <2>2. T \subseteq 1 .. n /\ S \subseteq 1 .. n + 1
      BY <1>1
    <2> QED
      BY <2>1, <2>2, FS_Subset
  <1>6. ExistsBijection(T, R)
    BY <1>4 DEF ExistsBijection, Bijection, Injection, Surjection, IsInjective
  <1>7. IsFiniteSet(R) /\ Cardinality(R) = Cardinality(T)
    BY <1>5, <1>6, FS_Bijection
  <1>8. 1 \in S <=> Head(list) \in Channels
    BY <1>1, <1>3
  <1> HIDE DEF S, T, R, f
  <1>9. Cardinality(S) \in Nat /\ Cardinality(T) \in Nat
    BY <1>5, FS_CardinalityType
  <1>10. Cardinality(S) = Cardinality(T) + (IF Head(list) \in Channels THEN 1 ELSE 0)
    <2>1. CASE Head(list) \in Channels
      <3>1. Cardinality(R) = Cardinality(S) - 1
        BY <1>5, <1>8, <2>1, FS_RemoveElement DEF R
      <3> QED
        BY <1>7, <1>9, <2>1, <3>1
    <2>2. CASE Head(list) \notin Channels
      <3>1. R = S
        BY <1>8, <2>2 DEF R
      <3> QED
        BY <1>7, <1>9, <2>2, <3>1
    <2> QED
      BY <2>1, <2>2
  <1>11. WithNotifier(list) = Cardinality(S) /\ WithNotifier(Tail(list)) = Cardinality(T)
    BY DEF WithNotifier, S, T
  <1> QED
    BY <1>9, <1>10, <1>11

\* A channel has a result: it counts if the channel reached somebody.
LEMMA ResultCounts ==
  ASSUME NEW list \in Seq(Named), list # <<>>, Distinct(list), NEW results \in Seq(BOOLEAN),
         NEW before, NEW after, IsFiniteSet(after), before \subseteq after, after \subseteq before \cup {Head(list)},
         Cardinality(Yes(results)) <= Cardinality(before \ Range(list)), NEW good \in BOOLEAN,
         good = FALSE \/ Head(list) \in after
  PROVE  /\ Append(results, good) \in Seq(BOOLEAN) /\ Len(Append(results, good)) = Len(results) + 1
         /\ Cardinality(Yes(Append(results, good))) <= Cardinality(after \ Range(Tail(list)))
         /\ Tail(list) \in Seq(Named) /\ Distinct(Tail(list))
  <1>0. PICK h, t, n : h = Head(list) /\ t = Tail(list) /\ n = Len(list)
    OBVIOUS
  <1>1. /\ h = Head(list) /\ t = Tail(list) /\ n = Len(list) /\ n \in Nat /\ n > 0
        /\ DOMAIN list = 1 .. n /\ list[1] = h /\ t \in Seq(Named) /\ DOMAIN t = 1 .. n - 1
        /\ \A k \in DOMAIN t : t[k] = list[k + 1]
    BY <1>0
  <1>2. Distinct(t)
    BY <1>1 DEF Distinct
  <1>3. h \notin Range(t)
    BY <1>1 DEF Distinct, Range
  <1>4. Range(list) = Range(t) \cup {h}
    <2>1. ASSUME NEW k \in 1 .. n PROVE list[k] = h \/ \E j \in DOMAIN t : t[j] = list[k]
      <3>1. k = 1 \/ (k - 1 \in DOMAIN t /\ t[k - 1] = list[(k - 1) + 1] /\ (k - 1) + 1 = k)
        BY <1>1
      <3> QED
        BY <1>1, <3>1
    <2>2. Range(list) \subseteq Range(t) \cup {h}
      <3> SUFFICES ASSUME NEW x \in Range(list), x # h PROVE x \in Range(t)
        OBVIOUS
      <3>1. PICK k \in 1 .. n : x = list[k]
        BY <1>1 DEF Range
      <3> QED
        BY <2>1, <3>1 DEF Range
    <2>3. \A k \in DOMAIN t : k + 1 \in DOMAIN list /\ list[k + 1] = t[k]
      BY <1>1
    <2>4. Range(t) \subseteq Range(list) /\ h \in Range(list)
      BY <1>1, <2>3 DEF Range
    <2> QED
      BY <2>2, <2>4
  <1>5. PICK more : more = Append(results, good)
    OBVIOUS
  <1>6. PICK m \in Nat : /\ m = Len(results) /\ DOMAIN results = 1 .. m /\ more \in Seq(BOOLEAN) /\ Len(more) = m + 1
           /\ DOMAIN more = 1 .. m + 1 /\ more[m + 1] = good /\ \A k \in 1 .. m : more[k] = results[k]
    BY <1>5
  <1> DEFINE A == before \ Range(list)
             B == after \ Range(t)
  <1>7. A \subseteq B /\ IsFiniteSet(B) /\ IsFiniteSet(A)
    <2>1. A \subseteq B
      BY <1>4
    <2>2. B \subseteq after
      OBVIOUS
    <2> QED
      BY <2>1, <2>2, FS_Subset
  <1>8. IsFiniteSet(Yes(results))
    <2>1. Yes(results) \subseteq 1 .. m
      BY <1>6 DEF Yes
    <2>2. IsFiniteSet(1 .. m)
      BY FS_Interval
    <2> QED
      BY <2>1, <2>2, FS_Subset
  <1>9. good => h \in B /\ h \notin A
    BY <1>1, <1>3, <1>4
  <1>10. Cardinality(Yes(more)) <= Cardinality(B)
    <2>1. CASE good
      <3>1. Yes(more) = Yes(results) \cup {m + 1}
        <4>1. DOMAIN more = DOMAIN results \cup {m + 1} /\ m + 1 \notin DOMAIN results
          BY <1>6
        <4>2. more[m + 1]
          BY <1>6, <2>1
        <4>3. \A k \in DOMAIN results : more[k] = results[k]
          BY <1>6
        <4> QED
          BY <4>1, <4>2, <4>3, Zenon DEF Yes
      <3>2. Cardinality(Yes(more)) <= Cardinality(Yes(results)) + 1
        BY <1>8, <3>1, OneMoreOf
      <3>3. A \cup {h} \subseteq B /\ Cardinality(A \cup {h}) = Cardinality(A) + 1
        BY <1>7, <1>9, <2>1, OneMoreOf
      <3>4. Cardinality(A \cup {h}) <= Cardinality(B)
        BY <1>7, <3>3, FS_Subset
      <3>5. /\ Cardinality(Yes(more)) \in Nat /\ Cardinality(Yes(results)) \in Nat
            /\ Cardinality(A) \in Nat /\ Cardinality(B) \in Nat
        BY <1>7, <1>8, <3>1, OneMoreOf, FS_CardinalityType
      <3>6. Cardinality(Yes(results)) <= Cardinality(A)
        OBVIOUS
      <3> HIDE DEF A, B
      <3> QED
        BY <3>2, <3>3, <3>4, <3>5, <3>6
    <2>2. CASE ~good
      <3>1. Yes(more) = Yes(results)
        <4>1. DOMAIN more = DOMAIN results \cup {m + 1} /\ m + 1 \notin DOMAIN results
          BY <1>6
        <4>2. ~more[m + 1]
          BY <1>6, <2>2
        <4>3. \A k \in DOMAIN results : more[k] = results[k]
          BY <1>6
        <4> QED
          BY <4>1, <4>2, <4>3, Zenon DEF Yes
      <3>2. /\ Cardinality(Yes(results)) \in Nat /\ Cardinality(A) \in Nat /\ Cardinality(B) \in Nat
            /\ Cardinality(A) <= Cardinality(B)
        BY <1>7, <1>8, FS_CardinalityType, FS_Subset
      <3>3. Cardinality(Yes(results)) <= Cardinality(A)
        OBVIOUS
      <3> HIDE DEF A, B
      <3> QED
        BY <3>1, <3>2, <3>3
    <2> QED
      BY <2>1, <2>2
  <1> QED
    BY <1>1, <1>2, <1>5, <1>6, <1>10

\* What is told is told of one notification.
ToldOf(i, told, more) == \A x \in more : x \in told \/ x[1] = i

\* What is told of one notification is nothing to another.
LEMMA FitsStay ==
  ASSUME NEW n, NEW arrived, NEW told, NEW more, NEW i, n.id # i,
         ToldOf(i, told, more), SenderFits(n, arrived, told)
  PROVE  SenderFits(n, arrived, more)
  <1>1. ASSUME NEW c, NEW r, <<n.id, c, r>> \notin told PROVE <<n.id, c, r>> \notin more
    <2>1. <<n.id, c, r>>[1] = n.id
      OBVIOUS
    <2> QED
      BY <1>1, <2>1 DEF ToldOf
  <1>2. \A c : Untouched(n.id, c, arrived, told) => Untouched(n.id, c, arrived, more)
    BY <1>1 DEF Untouched
  <1>3. TargetsFit(n, arrived, told) => TargetsFit(n, arrived, more)
    BY <1>1 DEF TargetsFit
  <1> QED
    BY <1>2, <1>3 DEF SenderFits

\* A step of one sender: the others see nothing of it.
LEMMA SenderMoves ==
  ASSUME NotificationIndInv, NEW s \in Senders, sender[s].at # "idle", NEW i, i = sender[s].id,
         sender' = [t \in Senders |-> sender'[t]], \A t \in Senders \ {s} : sender'[t] = sender[t],
         SenderOK(sender'[s]), sender'[s].id = i, unused' = unused,
         received' \in [NotificationIds -> Seq(Channels \X Recipients)],
         \A j \in NotificationIds \ {i} : received'[j] = received[j],
         \A c \in Channels, r \in Recipients : Cardinality(Copies(received'[i], c, r)) <= Tries(c),
         \A x \in answered' : x \in answered \/ x[1] = i,
         SenderFits(sender'[s], received'[i], answered')
  PROVE  SendersOK' /\ ReceivedOK' /\ AllFit' /\ i \in NotificationIds
  <1>0. SendersOK /\ ReceivedOK /\ AllFit
    BY DEF NotificationIndInv
  <1>1. Live(sender[s]) /\ i \in NotificationIds \ unused
    BY <1>0 DEF Live, SendersOK
  <1>2. SendersOK'
    <2>1. \A t \in Senders : SenderOK(sender'[t])
      BY <1>0 DEF SendersOK
    <2>2. \A t \in Senders : Live(sender'[t]) => Live(sender[t]) /\ sender'[t].id = sender[t].id
      BY <1>1
    <2> QED
      BY <1>0, <1>1, <2>1, <2>2 DEF SendersOK
  <1>3. ReceivedOK'
    <2>1. \A j \in unused' : received'[j] = <<>> /\ \A x \in answered' : x[1] # j
      BY <1>0, <1>1 DEF ReceivedOK, SendersOK
    <2>2. \A j \in NotificationIds, c \in Channels, r \in Recipients :
              Cardinality(Copies(received'[j], c, r)) <= Tries(c)
      BY <1>0 DEF ReceivedOK
    <2> QED
      BY <2>1, <2>2 DEF ReceivedOK
  <1>4. AllFit'
    <2> SUFFICES ASSUME NEW t \in Senders, Live(sender'[t])
                 PROVE  SenderFits(sender'[t], received'[sender'[t].id], answered')
      BY DEF AllFit
    <2>1. CASE t = s
      BY <2>1
    <2>2. CASE t # s
      <3>1. sender'[t] = sender[t] /\ Live(sender[t])
        BY <2>2
      <3>2. sender[t].id \in NotificationIds /\ sender[t].id # i
        BY <1>0, <1>1, <2>2, <3>1 DEF SendersOK
      <3>3. SenderFits(sender[t], received[sender[t].id], answered)
        BY <1>0, <3>1 DEF AllFit
      <3>4. PICK n, arrived, told, more :
               n = sender[t] /\ arrived = received[sender[t].id] /\ told = answered /\ more = answered'
        OBVIOUS
      <3>5. n.id # i /\ SenderFits(n, arrived, told) /\ ToldOf(i, told, more)
        BY <3>2, <3>3, <3>4 DEF ToldOf
      <3>6. SenderFits(n, arrived, more)
        BY <3>5, FitsStay
      <3>7. received'[sender[t].id] = received[sender[t].id]
        BY <3>2
      <3> QED
        BY <3>1, <3>4, <3>6, <3>7
    <2> QED
      BY <2>1, <2>2
  <1> QED
    BY <1>1, <1>2, <1>3, <1>4

\* A history is cut when it has grown too long.
LEMMA TrimmedOf ==
  ASSUME NEW book, book \subseteq Nat, IsFiniteSet(book), Cardinality(book) <= MaxHistory + 1
  PROVE  /\ Trimmed(book) \subseteq book /\ Cardinality(Trimmed(book)) <= MaxHistory
         /\ Cardinality(book) <= MaxHistory => Trimmed(book) = book
  <1> DEFINE n == Cardinality(book)
  <1>1. n \in Nat /\ MaxHistory \in Nat /\ HistoryCut \in Nat \ {0}
    BY FS_CardinalityType, NotificationAssumption
  <1>2. CASE n <= MaxHistory
    <2>1. Trimmed(book) = book
      BY <1>1, <1>2 DEF Trimmed
    <2> QED
      BY <1>2, <2>1
  <1>3. CASE ~(n <= MaxHistory)
    <2> DEFINE T == {i \in book : Cardinality({j \in book : j < i}) >= HistoryCut}
    <2>1. n > MaxHistory /\ n = MaxHistory + 1
      BY <1>1, <1>3
    <2>2. Trimmed(book) = T
      BY <2>1 DEF Trimmed
    <2>3. Cardinality(T) <= MaxHistory
      BY <1>1, <2>1, CutIsSmaller
    <2> QED
      BY <1>3, <2>2, <2>3
  <1> QED
    BY <1>2, <1>3

LEMMA Tracked ==
  ASSUME HistoriesOK, NEW b \in Books, NEW i \in Nat, Track(b, i)
  PROVE  HistoriesOK'
  <1> DEFINE h == histories[b] \cup {i}
             f == finished[b] \cup {i}
  <1>0. /\ histories = [d \in Books |-> histories[d]] /\ finished = [d \in Books |-> finished[d]]
        /\ \A d \in Books : finished[d] \subseteq Nat /\ IsFiniteSet(finished[d])
        /\ \A d \in Books :
              /\ histories[d] \subseteq finished[d] /\ Cardinality(histories[d]) <= MaxHistory
              /\ Cardinality(finished[d]) <= MaxHistory => histories[d] = finished[d]
    BY DEF HistoriesOK, HistoriesKeep
  <1>1. /\ histories' = [d \in Books |-> IF d = b THEN Trimmed(h) ELSE histories[d]]
        /\ finished' = [d \in Books |-> IF d = b THEN f ELSE finished[d]]
    BY <1>0 DEF Track
  <1>2. IsFiniteSet(histories[b]) /\ IsFiniteSet(finished[b]) /\ MaxHistory \in Nat
    BY <1>0, FS_Subset, NotificationAssumption
  <1>3. /\ IsFiniteSet(h) /\ IsFiniteSet(f) /\ Cardinality(h) <= Cardinality(histories[b]) + 1
        /\ Cardinality(finished[b]) <= Cardinality(f) /\ h \subseteq f
        /\ Cardinality(h) \in Nat /\ Cardinality(f) \in Nat
        /\ Cardinality(histories[b]) \in Nat /\ Cardinality(finished[b]) \in Nat
    BY <1>0, <1>2, OneMoreOf
  <1>4. h \subseteq Nat /\ f \subseteq Nat
    BY <1>0
  <1>5. Cardinality(h) <= MaxHistory + 1
    BY <1>0, <1>2, <1>3
  <1>6. /\ Trimmed(h) \subseteq h /\ Cardinality(Trimmed(h)) <= MaxHistory
        /\ Cardinality(h) <= MaxHistory => Trimmed(h) = h
    BY <1>3, <1>4, <1>5, TrimmedOf
  <1>7. Cardinality(f) <= MaxHistory => Trimmed(h) = f
    <2> SUFFICES ASSUME Cardinality(f) <= MaxHistory PROVE Trimmed(h) = f
      OBVIOUS
    <2>1. Cardinality(finished[b]) <= MaxHistory
      BY <1>2, <1>3
    <2>2. h = f
      BY <1>0, <2>1
    <2> QED
      BY <1>6, <2>2
  <1> HIDE DEF h, f
  <1>8. HistoriesKeep'
    BY <1>0, <1>1, <1>3, <1>6, <1>7 DEF HistoriesKeep
  <1> QED
    BY <1>0, <1>1, <1>3, <1>4, <1>8 DEF HistoriesOK

\* A sender calls the next of its targets, with a message that may arrive.
Calls(s, i, c, r) ==
    /\ s \in Senders /\ sender[s].at = "sending"
    /\ i = sender[s].id /\ c = Head(sender[s].channels) /\ r = Head(sender[s].targets)
    /\ received' = received \/ received' = [received EXCEPT ![i] = Append(@, <<c, r>>)]

Arrived(s, i, c, r) ==
    /\ i \in NotificationIds /\ c \in Channels \ {"email"} /\ r \in Recipients
    /\ SenderOK(sender[s]) /\ SenderFits(sender[s], received[i], answered)
    /\ received' \in [NotificationIds -> Seq(Channels \X Recipients)]
    /\ \A j \in NotificationIds \ {i} : received'[j] = received[j]
    /\ Reached(received[i]) \subseteq Reached(received'[i])
    /\ Reached(received'[i]) \subseteq Reached(received[i]) \cup {c}
    /\ received' # received => c \in Reached(received'[i]) /\ Last(received'[i]) = <<c, r>>
    /\ Cardinality(Copies(received'[i], c, r)) <= sender[s].try
    /\ \A d, q : <<d, q>> # <<c, r>> => Copies(received'[i], d, q) = Copies(received[i], d, q)
    /\ \A d \in Channels, q \in Recipients : Cardinality(Copies(received'[i], d, q)) <= Tries(d)

\* Where a message arrives, it arrives on the channel of the sender.
LEMMA Arrival ==
  ASSUME NotificationIndInv, NEW s, NEW i, NEW c, NEW r, Calls(s, i, c, r)
  PROVE  Arrived(s, i, c, r)
  <1>0. SendersOK /\ ReceivedOK /\ AllFit
    BY DEF NotificationIndInv
  <1>a. /\ s \in Senders /\ sender[s].at = "sending"
        /\ i = sender[s].id /\ c = Head(sender[s].channels) /\ r = Head(sender[s].targets)
        /\ received' = received \/ received' = [received EXCEPT ![i] = Append(@, <<c, r>>)]
    BY DEF Calls
  <1>1. /\ SenderOK(sender[s]) /\ i \in NotificationIds /\ SenderFits(sender[s], received[i], answered)
    BY <1>0, <1>a DEF SendersOK, AllFit, Live
  <1>2. /\ c \in Channels \ {"email"} /\ sender[s].targets # <<>> /\ sender[s].targets \in Seq(Recipients)
        /\ sender[s].try \in 1 .. Tries(c) /\ sender[s].try \in Nat
        /\ \A k \in DOMAIN sender[s].targets :
              Cardinality(Copies(received[i], c, sender[s].targets[k]))
                  <= IF k = 1 THEN sender[s].try - 1 ELSE 0
    BY <1>1, <1>a DEF SenderFits, TargetsFit, SenderOK
  <1>3. r \in Recipients /\ Cardinality(Copies(received[i], c, r)) <= sender[s].try - 1
    <2>1. r \in Recipients /\ 1 \in DOMAIN sender[s].targets /\ r = sender[s].targets[1]
      BY <1>2, <1>a
    <2> QED
      BY <1>2, <2>1
  <1>4. PICK arrived \in Seq(Channels \X Recipients) : arrived = received[i]
    BY <1>0, <1>1 DEF ReceivedOK
  <1>5. PICK after : after = received'[i]
    OBVIOUS
  <1>6. Cardinality(Copies(arrived, c, r)) \in Nat /\ IsFiniteSet(Copies(arrived, c, r))
    BY <1>4, CopiesAreFinite
  <1>7. Tries(c) \in Nat
    BY NotificationAssumption DEF Tries
  <1>8. CASE received' = received
    <2>1. Cardinality(Copies(arrived, c, r)) <= sender[s].try
      BY <1>2, <1>3, <1>4, <1>6
    <2> QED
      BY <1>0, <1>1, <1>2, <1>3, <1>4, <1>8, <2>1 DEF ReceivedOK, Arrived
  <1>9. CASE received' # received
    <2>1. received' = [received EXCEPT ![i] = Append(@, <<c, r>>)]
      BY <1>9, <1>a
    <2>2. after = Append(arrived, <<c, r>>)
      BY <1>0, <1>1, <1>4, <1>5, <2>1 DEF ReceivedOK
    <2>3. /\ after \in Seq(Channels \X Recipients) /\ Reached(after) = Reached(arrived) \cup {c}
          /\ Last(after) = <<c, r>>
          /\ Copies(after, c, r) = Copies(arrived, c, r) \cup {Len(arrived) + 1}
          /\ \A d, q : <<d, q>> # <<c, r>> => Copies(after, d, q) = Copies(arrived, d, q)
      <3>1. c \in Channels /\ r \in Recipients
        BY <1>2, <1>3
      <3>2. OneMoreCopy(after, arrived, c, r)
        BY <2>2 DEF OneMoreCopy
      <3> QED
        BY <3>1, <3>2, OneArrives
    <2>4. /\ received' \in [NotificationIds -> Seq(Channels \X Recipients)]
          /\ \A j \in NotificationIds \ {i} : received'[j] = received[j]
      BY <1>0, <1>1, <1>4, <2>1, <2>2, <2>3 DEF ReceivedOK
    <2>5. /\ Cardinality(Copies(after, c, r)) <= Cardinality(Copies(arrived, c, r)) + 1
          /\ Cardinality(Copies(after, c, r)) \in Nat
      BY <1>6, <2>3, OneMoreOf
    <2>6. Cardinality(Copies(after, c, r)) <= sender[s].try
      BY <1>2, <1>3, <1>4, <1>6, <2>5
    <2>7. Cardinality(Copies(after, c, r)) <= Tries(c)
      BY <1>2, <1>7, <2>5, <2>6
    <2>8. ASSUME NEW d \in Channels, NEW q \in Recipients
          PROVE  Cardinality(Copies(after, d, q)) <= Tries(d)
      <3>1. CASE <<d, q>> = <<c, r>>
        BY <2>7, <3>1
      <3>2. CASE <<d, q>> # <<c, r>>
        <4>1. Copies(after, d, q) = Copies(received[i], d, q)
          BY <1>4, <2>3, <3>2
        <4> QED
          BY <1>0, <1>1, <4>1 DEF ReceivedOK
      <3> QED
        BY <3>1, <3>2
    <2>9. /\ Reached(received[i]) \subseteq Reached(received'[i])
          /\ Reached(received'[i]) \subseteq Reached(received[i]) \cup {c}
          /\ c \in Reached(received'[i]) /\ Last(received'[i]) = <<c, r>>
      BY <1>4, <1>5, <2>3
    <2>10. /\ Cardinality(Copies(received'[i], c, r)) <= sender[s].try
           /\ \A d, q : <<d, q>> # <<c, r>> => Copies(received'[i], d, q) = Copies(received[i], d, q)
           /\ \A d \in Channels, q \in Recipients : Cardinality(Copies(received'[i], d, q)) <= Tries(d)
      BY <1>4, <1>5, <2>3, <2>6, <2>8
    <2> QED
      BY <1>1, <1>2, <1>3, <2>4, <2>9, <2>10 DEF Arrived
  <1> QED
    BY <1>8, <1>9 DEF Arrived

\* The channel is done: it has its result, and nothing more goes to it.
LEMMA ChannelEnds ==
  ASSUME NotificationIndInv, NEW s \in Senders, sender[s].at # "idle", sender[s].channels # <<>>,
         NEW i, i = sender[s].id, NEW c, c = Head(sender[s].channels), c \in Channels,
         NEW good \in Nat, ChannelDone(s, good), unused' = unused,
         received' \in [NotificationIds -> Seq(Channels \X Recipients)],
         \A j \in NotificationIds \ {i} : received'[j] = received[j],
         Reached(received[i]) \subseteq Reached(received'[i]),
         Reached(received'[i]) \subseteq Reached(received[i]) \cup {c},
         good > 0 => c \in Reached(received'[i]),
         \A d \in Channels, q \in Recipients : Cardinality(Copies(received'[i], d, q)) <= Tries(d),
         \A x \in answered' : x \in answered \/ (x[1] = i /\ x[2] = c)
  PROVE  SendersOK' /\ ReceivedOK' /\ AllFit' /\ i \in NotificationIds
  <1>0. SendersOK /\ ReceivedOK /\ AllFit
    BY DEF NotificationIndInv
  <1>1. SenderOK(sender[s]) /\ i \in NotificationIds /\ SenderFits(sender[s], received[i], answered)
    BY <1>0 DEF SendersOK, AllFit, Live
  <1>3. PICK list, results : list = sender[s].channels /\ results = sender[s].results
    OBVIOUS
  <1>2. PICK yes \in BOOLEAN : Append(results, good > 0) = Append(results, yes) /\ (yes = FALSE \/ good > 0)
    <2>1. CASE good > 0
      <3>1. (good > 0) = TRUE
        BY <2>1
      <3>2. Append(results, good > 0) = Append(results, TRUE)
        BY <3>1
      <3> QED
        BY <2>1, <3>2
    <2>2. CASE ~(good > 0)
      <3>1. (good > 0) = FALSE
        BY <2>2
      <3>2. Append(results, good > 0) = Append(results, FALSE)
        BY <3>1
      <3> QED
        BY <3>2
    <2> QED
      BY <2>1, <2>2
  <1>4. PICK more : more = Append(results, yes)
    OBVIOUS
  <1>5. sender' = [sender EXCEPT
            ![s].at = "channel", ![s].channels = Tail(list), ![s].targets = <<>>, ![s].try = 1,
            ![s].good = 0, ![s].results = more]
    BY <1>2, <1>3, <1>4 DEF ChannelDone, Result
  <1>6. /\ list \in Seq(Named) /\ list # <<>> /\ Distinct(list) /\ results \in Seq(BOOLEAN)
        /\ \A k \in DOMAIN list : k > 1 => Untouched(i, list[k], received[i], answered)
        /\ Cardinality(Yes(results)) <= Cardinality(Reached(received[i]) \ Range(list))
        /\ Len(results) + WithNotifier(list) = sender[s].due
    BY <1>1, <1>3 DEF SenderOK, SenderFits
  <1>7. IsFiniteSet(Reached(received'[i]))
    BY <1>1, CopiesAreFinite
  <1>8. /\ more \in Seq(BOOLEAN) /\ Len(more) = Len(results) + 1
        /\ Cardinality(Yes(more)) <= Cardinality(Reached(received'[i]) \ Range(Tail(list)))
        /\ Tail(list) \in Seq(Named) /\ Distinct(Tail(list))
    <2>1. PICK before, after : before = Reached(received[i]) /\ after = Reached(received'[i])
      OBVIOUS
    <2>2. /\ IsFiniteSet(after) /\ before \subseteq after /\ after \subseteq before \cup {Head(list)}
          /\ Cardinality(Yes(results)) <= Cardinality(before \ Range(list)) /\ (yes = FALSE \/ Head(list) \in after)
      BY <1>2, <1>3, <1>6, <1>7, <2>1
    <2> QED
      BY <1>4, <1>6, <2>1, <2>2, ResultCounts
  <1>9. /\ sender' = [t \in Senders |-> sender'[t]] /\ \A t \in Senders \ {s} : sender'[t] = sender[t]
        /\ DOMAIN sender'[s] = DOMAIN sender[s] /\ sender'[s].at = "channel"
        /\ sender'[s].channels = Tail(list) /\ sender'[s].targets = <<>> /\ sender'[s].try = 1
        /\ sender'[s].good = 0 /\ sender'[s].results = more /\ sender'[s].id = i
        /\ sender'[s].recipients = sender[s].recipients /\ sender'[s].due = sender[s].due
    BY <1>0, <1>1, <1>5 DEF SendersOK, SenderOK
  <1>10. SenderOK(sender'[s])
    BY <1>1, <1>8, <1>9 DEF SenderOK
  <1>11. ASSUME NEW k \in DOMAIN Tail(list)
         PROVE  Untouched(i, Tail(list)[k], received'[i], answered')
    <2>1. PICK d : d = Tail(list)[k]
      OBVIOUS
    <2>2. k + 1 \in DOMAIN list /\ 1 \in DOMAIN list /\ k + 1 > 1 /\ d = list[k + 1] /\ c = list[1]
      BY <1>3, <1>6, <2>1
    <2>3. d # c /\ Untouched(i, d, received[i], answered)
      BY <1>6, <2>2 DEF Distinct
    <2>4. d \notin Reached(received'[i])
      BY <2>3 DEF Untouched
    <2>5. ASSUME NEW q \in Recipients PROVE <<i, d, q>> \notin answered'
      <3>1. <<i, d, q>>[2] = d /\ <<i, d, q>> \notin answered
        BY <2>3 DEF Untouched
      <3> QED
        BY <2>3, <3>1
    <2> QED
      BY <2>1, <2>4, <2>5 DEF Untouched
  <1>12. Len(more) + WithNotifier(Tail(list)) = sender[s].due
    <2>1. /\ WithNotifier(list) \in Nat /\ WithNotifier(Tail(list)) \in Nat
          /\ WithNotifier(list) = WithNotifier(Tail(list)) + 1
      BY <1>3, <1>6, NotifiersLeft
    <2>2. Len(results) \in Nat
      BY <1>6
    <2> QED
      BY <1>6, <1>8, <2>1, <2>2
  <1>13. SenderFits(sender'[s], received'[i], answered')
    BY <1>8, <1>9, <1>11, <1>12 DEF SenderFits
  <1>14. \A x \in answered' : x \in answered \/ x[1] = i
    OBVIOUS
  <1> QED
    BY <1>1, <1>9, <1>10, <1>13, <1>14, SenderMoves

\* The sender goes on with the same channel, whose next target it calls, or the same once more.
LEMMA SameChannel ==
  ASSUME NotificationIndInv, NEW s, NEW i, NEW c, NEW r, Calls(s, i, c, r), unused' = unused, NEW good \in Nat, NEW list, NEW try,
         sender' = [sender EXCEPT ![s].targets = list, ![s].try = try, ![s].good = good],
         good > 0 => c \in Reached(received'[i]),
         \/ /\ list = Tail(sender[s].targets) /\ list # <<>> /\ try = 1
            /\ \A x \in answered' : x \in answered \/ x = <<i, c, r>>
         \/ list = sender[s].targets /\ try = sender[s].try + 1 /\ try <= Tries(c) /\ answered' = answered
  PROVE  SendersOK' /\ ReceivedOK' /\ AllFit'
  <1>0. SendersOK /\ ReceivedOK /\ AllFit
    BY DEF NotificationIndInv
  <1>b. Arrived(s, i, c, r)
    BY Arrival
  <1>1. /\ i \in NotificationIds /\ c \in Channels \ {"email"} /\ r \in Recipients
        /\ SenderOK(sender[s]) /\ SenderFits(sender[s], received[i], answered)
        /\ received' \in [NotificationIds -> Seq(Channels \X Recipients)]
        /\ \A j \in NotificationIds \ {i} : received'[j] = received[j]
        /\ Reached(received[i]) \subseteq Reached(received'[i])
        /\ Reached(received'[i]) \subseteq Reached(received[i]) \cup {c}
        /\ Cardinality(Copies(received'[i], c, r)) <= sender[s].try
        /\ \A d, q : <<d, q>> # <<c, r>> => Copies(received'[i], d, q) = Copies(received[i], d, q)
        /\ \A d \in Channels, q \in Recipients : Cardinality(Copies(received'[i], d, q)) <= Tries(d)
    BY <1>b DEF Arrived
  <1>a. s \in Senders /\ sender[s].at = "sending" /\ i = sender[s].id /\ c = Head(sender[s].channels)
        /\ r = Head(sender[s].targets)
    BY DEF Calls
  <1>2. PICK chs, old : chs = sender[s].channels /\ old = sender[s].targets
    OBVIOUS
  <1>3. /\ chs \in Seq(Named) /\ chs # <<>> /\ Distinct(chs) /\ old \in Seq(Recipients) /\ old # <<>>
        /\ Distinct(old) /\ sender[s].try \in Nat /\ sender[s].try \in 1 .. Tries(c)
        /\ \A k \in DOMAIN chs : k > 1 => Untouched(i, chs[k], received[i], answered)
        /\ \A k \in DOMAIN old :
             /\ <<i, c, old[k]>> \notin answered
             /\ Cardinality(Copies(received[i], c, old[k])) <= IF k = 1 THEN sender[s].try - 1 ELSE 0
        /\ Cardinality(Yes(sender[s].results)) <= Cardinality(Reached(received[i]) \ Range(chs))
        /\ Len(sender[s].results) + WithNotifier(chs) = sender[s].due
    BY <1>1, <1>2, <1>a DEF SenderFits, TargetsFit, SenderOK
  <1>4. c = chs[1] /\ 1 \in DOMAIN chs /\ r = old[1] /\ 1 \in DOMAIN old
    BY <1>2, <1>3, <1>a
  <1>5. Tries(c) \in Nat \ {0}
    BY NotificationAssumption DEF Tries
  <1>6. /\ sender' = [t \in Senders |-> sender'[t]] /\ \A t \in Senders \ {s} : sender'[t] = sender[t]
        /\ DOMAIN sender'[s] = DOMAIN sender[s] /\ sender'[s].at = "sending"
        /\ sender'[s].channels = chs /\ sender'[s].targets = list /\ sender'[s].try = try
        /\ sender'[s].good = good /\ sender'[s].results = sender[s].results /\ sender'[s].id = i
        /\ sender'[s].recipients = sender[s].recipients /\ sender'[s].due = sender[s].due
    BY <1>0, <1>1, <1>2, <1>a DEF SendersOK, SenderOK
  <1>7. \A x \in answered' : x \in answered \/ x = <<i, c, r>>
    OBVIOUS
  <1>8. /\ list \in Seq(Recipients) /\ list # <<>> /\ Distinct(list) /\ try \in Nat /\ try \in 1 .. Tries(c)
        /\ \A k \in DOMAIN list : /\ <<i, c, list[k]>> \notin answered'
                 /\ Cardinality(Copies(received'[i], c, list[k])) <= IF k = 1 THEN try - 1 ELSE 0
    <2>1. CASE list = Tail(old) /\ list # <<>> /\ try = 1
      <3>1. /\ list \in Seq(Recipients)
            /\ \A k \in DOMAIN list : k + 1 \in DOMAIN old /\ list[k] = old[k + 1] /\ k + 1 # 1
        BY <1>3, <2>1
      <3>2. Distinct(list)
        BY <1>3, <2>1 DEF Distinct
      <3>3. ASSUME NEW k \in DOMAIN list
            PROVE  /\ <<i, c, list[k]>> \notin answered'
                   /\ Cardinality(Copies(received'[i], c, list[k])) <= 0
        <4>1. list[k] # r /\ k + 1 \in DOMAIN old /\ list[k] = old[k + 1] /\ k + 1 # 1
          BY <1>3, <1>4, <3>1 DEF Distinct
        <4>2. <<i, c, list[k]>> # <<i, c, r>> /\ <<c, list[k]>> # <<c, r>>
          BY <4>1
        <4>3. <<i, c, list[k]>> \notin answered'
          BY <1>3, <1>7, <4>1, <4>2
        <4>4. Copies(received'[i], c, list[k]) = Copies(received[i], c, list[k])
          BY <1>1, <4>2
        <4>5. Cardinality(Copies(received[i], c, list[k])) <= 0
          BY <1>3, <4>1
        <4> QED
          BY <4>3, <4>4, <4>5
      <3> QED
        BY <1>5, <2>1, <3>1, <3>2, <3>3
    <2>2. CASE list = old /\ try = sender[s].try + 1 /\ try <= Tries(c) /\ answered' = answered
      <3>1. ASSUME NEW k \in DOMAIN list
            PROVE  /\ <<i, c, list[k]>> \notin answered'
                   /\ Cardinality(Copies(received'[i], c, list[k])) <= IF k = 1 THEN try - 1 ELSE 0
        <4>1. <<i, c, list[k]>> \notin answered'
          BY <1>3, <2>2
        <4>2. CASE k = 1
          <5>1. list[k] = r /\ try - 1 = sender[s].try
            BY <1>3, <1>4, <2>2, <4>2
          <5> QED
            BY <1>1, <4>1, <4>2, <5>1
        <4>3. CASE k # 1
          <5>1. list[k] # r
            BY <1>3, <1>4, <2>2, <4>3 DEF Distinct
          <5>2. Copies(received'[i], c, list[k]) = Copies(received[i], c, list[k])
            BY <1>1, <5>1
          <5> QED
            BY <1>3, <2>2, <4>1, <4>3, <5>2
        <4> QED
          BY <4>2, <4>3
      <3> QED
        BY <1>3, <1>5, <2>2, <3>1
    <2> QED
      BY <1>2, <2>1, <2>2
  <1>9. ASSUME NEW k \in DOMAIN chs, k > 1 PROVE Untouched(i, chs[k], received'[i], answered')
    <2>1. PICK d : d = chs[k]
      OBVIOUS
    <2>2. d # c /\ Untouched(i, d, received[i], answered)
      BY <1>3, <1>4, <1>9, <2>1 DEF Distinct
    <2>3. d \notin Reached(received'[i])
      BY <1>1, <2>2 DEF Untouched
    <2>4. ASSUME NEW q \in Recipients PROVE <<i, d, q>> \notin answered'
      BY <1>7, <2>2 DEF Untouched
    <2> QED
      BY <2>1, <2>3, <2>4 DEF Untouched
  <1>10. Cardinality(Yes(sender[s].results)) <= Cardinality(Reached(received'[i]) \ Range(chs))
    <2>1. c \in Range(chs)
      BY <1>4 DEF Range
    <2>2. Reached(received[i]) \ Range(chs) = Reached(received'[i]) \ Range(chs)
      BY <1>1, <2>1
    <2> QED
      BY <1>3, <2>2
  <1>11. SenderOK(sender'[s])
    BY <1>1, <1>3, <1>6, <1>8 DEF SenderOK
  <1>12. PICK n, arrived, told : n = sender'[s] /\ arrived = received'[i] /\ told = answered'
    OBVIOUS
  <1>13. TargetsFit(n, arrived, told)
    <2>1. /\ n.id = i /\ n.channels = chs /\ n.targets = list /\ n.try = try /\ n.good = good
          /\ Head(chs) = c /\ (good > 0 => c \in Reached(arrived))
      BY <1>2, <1>6, <1>12, <1>a
    <2>2. \A k \in DOMAIN list : /\ <<i, c, list[k]>> \notin told
                 /\ Cardinality(Copies(arrived, c, list[k])) <= IF k = 1 THEN try - 1 ELSE 0
      BY <1>8, <1>12
    <2> QED
      BY <1>1, <1>3, <1>8, <2>1, <2>2 DEF TargetsFit
  <1>16. SenderFits(n, arrived, told)
    BY <1>3, <1>6, <1>9, <1>10, <1>12, <1>13 DEF SenderFits
  <1>14. \A x \in answered' : x \in answered \/ x[1] = i
    <2>1. <<i, c, r>>[1] = i
      OBVIOUS
    <2> QED
      BY <1>7, <2>1
  <1> QED
    BY <1>1, <1>6, <1>11, <1>12, <1>16, <1>14, <1>a, SenderMoves

LEMMA NotifiersAreCounted ==
  ASSUME NEW list \in Seq(Named) PROVE WithNotifier(list) \in Nat
  <1>1. PICK n \in Nat : DOMAIN list = 1 .. n
    OBVIOUS
  <1>2. IsFiniteSet(1 .. n)
    BY FS_Interval
  <1>3. IsFiniteSet({k \in DOMAIN list : list[k] \in Channels})
    BY <1>1, <1>2, FS_Subset
  <1> QED
    BY <1>3, FS_CardinalityType DEF WithNotifier

LEMMA ShortLists ==
  ASSUME NEW S, NEW a \in S, NEW b \in S, NEW c \in S
  PROVE  <<a>> \in Seq(S) /\ <<a, b>> \in Seq(S) /\ <<a, b, c>> \in Seq(S)
  OBVIOUS

LEMMA RoutesAreDistinct ==
  ASSUME NEW kind \in Kinds PROVE Route(kind) \in Seq(Named) /\ Distinct(Route(kind))
  <1>0. "email" \in Named /\ "sms" \in Named /\ "slack" \in Named
    BY DEF Named, Channels
  <1>1. CASE kind = "custom"
    <2>1. PICK S, list : S = STRING /\ list = CustomChannels
      OBVIOUS
    <2>2. list \in Seq(S)
      BY <2>1, NotificationAssumption
    <2>3. PICK n \in Nat : DOMAIN list = 1 .. n /\ list = [k \in 1 .. n |-> list[k]]
      BY <2>2
    <2>4. \A k \in 1 .. n : list[k] \in Named
      BY <2>1, <2>3 DEF Named
    <2>5. list \in [1 .. n -> Named]
      BY <2>3, <2>4
    <2>6. list \in Seq(Named)
      BY <2>5, SeqDef
    <2> QED
      BY <1>1, <2>1, <2>6, CustomChannelsAssumption DEF Route, Distinct
  <1>2. CASE kind = "critical"
    <2>1. Route(kind) = <<"email", "sms", "slack">> /\ Route(kind) \in Seq(Named)
      BY <1>0, <1>2, ShortLists DEF Route
    <2>2. PICK list : list = <<"email", "sms", "slack">>
      OBVIOUS
    <2>3. DOMAIN list = 1 .. 3 /\ list[1] = "email" /\ list[2] = "sms" /\ list[3] = "slack"
      BY <2>2
    <2>4. Distinct(list)
      BY <2>3 DEF Distinct
    <2> QED
      BY <2>1, <2>2, <2>4
  <1>3. CASE kind = "high"
    <2>1. Route(kind) = <<"email", "slack">> /\ Route(kind) \in Seq(Named)
      BY <1>0, <1>3, ShortLists DEF Route
    <2>2. PICK list : list = <<"email", "slack">>
      OBVIOUS
    <2>3. DOMAIN list = 1 .. 2 /\ list[1] = "email" /\ list[2] = "slack"
      BY <2>2
    <2>4. Distinct(list)
      BY <2>3 DEF Distinct
    <2> QED
      BY <2>1, <2>2, <2>4
  <1>4. CASE kind = "escalation"
    <2>1. Route(kind) = <<"email", "sms">> /\ Route(kind) \in Seq(Named)
      BY <1>0, <1>4, ShortLists DEF Route
    <2>2. PICK list : list = <<"email", "sms">>
      OBVIOUS
    <2>3. DOMAIN list = 1 .. 2 /\ list[1] = "email" /\ list[2] = "sms"
      BY <2>2
    <2>4. Distinct(list)
      BY <2>3 DEF Distinct
    <2> QED
      BY <2>1, <2>2, <2>4
  <1>5. CASE kind = "other"
    <2>1. Route(kind) = <<"email">> /\ Route(kind) \in Seq(Named)
      BY <1>0, <1>5, ShortLists DEF Route
    <2>2. PICK list : list = <<"email">>
      OBVIOUS
    <2>3. DOMAIN list = 1 .. 1 /\ list[1] = "email"
      BY <2>2
    <2>4. Distinct(list)
      BY <2>3 DEF Distinct
    <2> QED
      BY <2>1, <2>2, <2>4
  <1> QED
    BY <1>1, <1>2, <1>3, <1>4, <1>5 DEF Kinds

LEMMA NotificationsInitially == NotificationsInit => NotificationIndInv
  <1> SUFFICES ASSUME NotificationsInit PROVE NotificationIndInv
    OBVIOUS
  <1>1. SenderOK(Resting) /\ Resting.at = "idle" /\ Resting.results = <<>>
    BY DEF Resting, SenderOK
  <1>2. SendersOK
    BY <1>1 DEF NotificationsInit, SendersOK, Live
  <1>3. AllFit
    BY <1>1 DEF NotificationsInit, AllFit, Live
  <1>4. ReceivedOK
    <2>1. \A c, r : Copies(<<>>, c, r) = {}
      BY DEF Copies
    <2>2. Cardinality({}) = 0
      BY FS_EmptySet
    <2>3. \A c \in Channels : 0 <= Tries(c)
      BY NotificationAssumption DEF Tries
    <2>4. \A i \in NotificationIds : received[i] = <<>>
      BY DEF NotificationsInit
    <2>5. received \in [NotificationIds -> Seq(Channels \X Recipients)]
      <3>1. <<>> \in Seq(Channels \X Recipients)
        OBVIOUS
      <3> QED
        BY <3>1 DEF NotificationsInit
    <2>6. unused = NotificationIds /\ answered = {}
      BY DEF NotificationsInit
    <2> QED
      BY <2>1, <2>2, <2>3, <2>4, <2>5, <2>6 DEF ReceivedOK
  <1>5. HistoriesOK
    <2>1. IsFiniteSet({}) /\ Cardinality({}) = 0
      BY FS_EmptySet
    <2> QED
      BY <2>1, NotificationAssumption DEF NotificationsInit, HistoriesOK, HistoriesKeep
  <1> QED
    BY <1>2, <1>3, <1>4, <1>5 DEF NotificationIndInv

LEMMA SendKeeps ==
  ASSUME NotificationIndInv, NEW s \in Senders, NEW kind \in Kinds, Send(s, kind)
  PROVE  NotificationIndInv'
  <1>0. SendersOK /\ ReceivedOK /\ AllFit /\ HistoriesOK
    BY DEF NotificationIndInv
  <1>1. PICK list : list = Route(kind) /\ list \in Seq(Named) /\ Distinct(list) /\ WithNotifier(list) \in Nat
    BY RoutesAreDistinct, NotifiersAreCounted
  <1>2. PICK to : to \subseteq Recipients /\ to = IF kind = "custom" THEN CustomRecipients ELSE Mails
    BY NotificationAssumption
  <1>3. PICK i, n :
          /\ i \in unused /\ unused' = unused \ {i} /\ sender' = [sender EXCEPT ![s] = n]
          /\ n = [Resting EXCEPT !.at = "channel", !.id = i, !.channels = list, !.due = WithNotifier(list),
                                 !.recipients = to]
    BY <1>1, <1>2 DEF Send
  <1>4. sender[s].at = "idle" /\ UNCHANGED <<received, histories, finished, answered>>
    BY DEF Send
  <1>5. /\ DOMAIN n = {"at", "id", "channels", "recipients", "targets", "try", "good", "results", "due"}
        /\ n.at = "channel" /\ n.id = i /\ n.channels = list /\ n.recipients = to /\ n.targets = <<>>
        /\ n.try = 1 /\ n.good = 0 /\ n.results = <<>> /\ n.due = WithNotifier(list)
    BY <1>3 DEF Resting
  <1>6. SenderOK(n) /\ Live(n)
    <2>1. <<>> \in Seq(BOOLEAN) /\ <<>> \in Seq(Recipients)
      OBVIOUS
    <2> QED
      BY <1>1, <1>2, <1>5, <2>1 DEF SenderOK, Live
  <1>7. /\ sender' = [t \in Senders |-> sender'[t]] /\ sender'[s] = n
        /\ \A t \in Senders \ {s} : sender'[t] = sender[t]
    BY <1>0, <1>3 DEF SendersOK
  <1>8. i \in NotificationIds /\ received[i] = <<>> /\ \A x \in answered : x[1] # i
    BY <1>0, <1>3 DEF SendersOK, ReceivedOK
  <1>9. SendersOK'
    <2>1. \A t \in Senders \ {s} : Live(sender[t]) => sender[t].id # i
      BY <1>0, <1>3 DEF SendersOK
    <2>2. unused' \subseteq NotificationIds /\ i \notin unused'
      BY <1>0, <1>3 DEF SendersOK
    <2>3. \A t \in Senders : SenderOK(sender'[t])
      BY <1>0, <1>6, <1>7 DEF SendersOK
    <2>4. \A t \in Senders : Live(sender'[t]) => sender'[t].id \in NotificationIds \ unused'
      BY <1>0, <1>3, <1>5, <1>7, <1>8, <2>2 DEF SendersOK
    <2>5. \A t, u \in Senders :
            Live(sender'[t]) /\ Live(sender'[u]) /\ sender'[t].id = sender'[u].id => t = u
      BY <1>0, <1>5, <1>7, <2>1 DEF SendersOK
    <2> QED
      BY <1>7, <2>2, <2>3, <2>4, <2>5 DEF SendersOK
  <1>10. ReceivedOK'
    BY <1>0, <1>3, <1>4 DEF ReceivedOK
  <1>11. SenderFits(n, received[i], answered)
    <2>1. Reached(received[i]) = {}
      BY <1>8 DEF Reached
    <2>2. Yes(n.results) = {} /\ Len(n.results) = 0
      BY <1>5 DEF Yes
    <2>3. Cardinality(Yes(n.results)) = 0 /\ Cardinality(Reached(received[i]) \ Range(n.channels)) = 0
      <3>1. Reached(received[i]) \ Range(n.channels) = {}
        BY <2>1
      <3> QED
        BY <2>2, <3>1, FS_EmptySet
    <2>4. ASSUME NEW c PROVE Untouched(i, c, received[i], answered)
      <3>1. \A r \in Recipients : <<i, c, r>>[1] = i
        OBVIOUS
      <3>2. \A r \in Recipients : <<i, c, r>> \notin answered
        BY <1>8, <3>1
      <3> QED
        BY <2>1, <3>2 DEF Untouched
    <2>5. Len(n.results) + WithNotifier(n.channels) = n.due
      BY <1>1, <1>5, <2>2
    <2> QED
      BY <1>1, <1>5, <2>3, <2>4, <2>5 DEF SenderFits
  <1>12. AllFit'
    <2> SUFFICES ASSUME NEW t \in Senders, Live(sender'[t])
                 PROVE  SenderFits(sender'[t], received'[sender'[t].id], answered')
      BY DEF AllFit
    <2>1. CASE t = s
      BY <1>4, <1>5, <1>7, <1>11, <2>1
    <2>2. CASE t # s
      BY <1>0, <1>4, <1>7, <2>2 DEF AllFit
    <2> QED
      BY <2>1, <2>2
  <1>13. HistoriesOK'
    BY <1>0, <1>4 DEF HistoriesOK, HistoriesKeep
  <1> QED
    BY <1>9, <1>10, <1>12, <1>13 DEF NotificationIndInv

\* A sender that is under way, and what is known of it.
LEMMA SenderIs ==
  ASSUME NotificationIndInv, NEW s \in Senders, sender[s].at # "idle", NEW i, i = sender[s].id
  PROVE  /\ SenderOK(sender[s]) /\ SenderFits(sender[s], received[i], answered)
         /\ i \in NotificationIds /\ i \in Nat /\ received[i] \in Seq(Channels \X Recipients)
         /\ received \in [NotificationIds -> Seq(Channels \X Recipients)]
         /\ \A c \in Channels, r \in Recipients : Cardinality(Copies(received[i], c, r)) <= Tries(c)
         /\ sender = [t \in Senders |-> sender[t]]
  <1>0. SendersOK /\ ReceivedOK /\ AllFit
    BY DEF NotificationIndInv
  <1> QED
    BY <1>0, NotificationAssumption DEF SendersOK, ReceivedOK, AllFit, Live

LEMMA SkipKeeps ==
  ASSUME NotificationIndInv, NEW s \in Senders, SkipChannel(s)
  PROVE  SendersOK' /\ ReceivedOK' /\ AllFit'
  <1>1. PICK i, list : i = sender[s].id /\ list = sender[s].channels
    OBVIOUS
  <1>2. /\ sender[s].at = "channel" /\ list # <<>> /\ Head(list) \notin Channels
        /\ sender' = [sender EXCEPT ![s].channels = Tail(list)]
        /\ UNCHANGED <<unused, received, answered>>
    BY <1>1 DEF SkipChannel
  <1>3. /\ SenderOK(sender[s]) /\ SenderFits(sender[s], received[i], answered)
        /\ i \in NotificationIds /\ received[i] \in Seq(Channels \X Recipients)
        /\ received \in [NotificationIds -> Seq(Channels \X Recipients)]
        /\ \A c \in Channels, r \in Recipients : Cardinality(Copies(received[i], c, r)) <= Tries(c)
        /\ sender = [t \in Senders |-> sender[t]]
    BY <1>1, <1>2, SenderIs
  <1>4. /\ sender' = [t \in Senders |-> sender'[t]] /\ \A t \in Senders \ {s} : sender'[t] = sender[t]
        /\ DOMAIN sender'[s] = DOMAIN sender[s] /\ sender'[s].at = "channel"
        /\ sender'[s].channels = Tail(list) /\ sender'[s].targets = sender[s].targets
        /\ sender'[s].try = sender[s].try /\ sender'[s].good = sender[s].good
        /\ sender'[s].results = sender[s].results /\ sender'[s].id = i
        /\ sender'[s].recipients = sender[s].recipients /\ sender'[s].due = sender[s].due
    BY <1>1, <1>2, <1>3 DEF SenderOK
  <1>5. /\ list \in Seq(Named) /\ Distinct(list) /\ sender[s].results \in Seq(BOOLEAN)
        /\ \A k \in DOMAIN list : Untouched(i, list[k], received[i], answered)
        /\ Cardinality(Yes(sender[s].results)) <= Cardinality(Reached(received[i]) \ Range(list))
        /\ Len(sender[s].results) + WithNotifier(list) = sender[s].due
        /\ sender[s].try = 1 /\ sender[s].good = 0
    BY <1>1, <1>2, <1>3 DEF SenderOK, SenderFits
  <1>6. /\ Tail(list) \in Seq(Named)
        /\ \A k \in DOMAIN Tail(list) : k + 1 \in DOMAIN list /\ Tail(list)[k] = list[k + 1]
    BY <1>2, <1>5
  <1>7. Distinct(Tail(list))
    BY <1>2, <1>5 DEF Distinct
  <1>8. WithNotifier(list) = WithNotifier(Tail(list))
    <2>1. /\ WithNotifier(list) \in Nat /\ WithNotifier(Tail(list)) \in Nat
          /\ WithNotifier(list) = WithNotifier(Tail(list)) + (IF Head(list) \in Channels THEN 1 ELSE 0)
      BY <1>2, <1>5, NotifiersLeft
    <2> QED
      BY <1>2, <2>1
  <1>9. Cardinality(Yes(sender[s].results)) <= Cardinality(Reached(received[i]) \ Range(Tail(list)))
    <2> DEFINE A == Reached(received[i]) \ Range(list)
               B == Reached(received[i]) \ Range(Tail(list))
    <2>1. Range(Tail(list)) \subseteq Range(list)
      BY <1>6 DEF Range
    <2>2. IsFiniteSet(Reached(received[i]))
      BY <1>3, CopiesAreFinite
    <2>3. A \subseteq B /\ B \subseteq Reached(received[i])
      BY <2>1
    <2>4. IsFiniteSet(B) /\ IsFiniteSet(A) /\ Cardinality(A) <= Cardinality(B)
      BY <2>2, <2>3, FS_Subset
    <2>5. IsFiniteSet(Yes(sender[s].results))
      <3>1. PICK m \in Nat : DOMAIN sender[s].results = 1 .. m
        BY <1>5
      <3>2. IsFiniteSet(1 .. m)
        BY FS_Interval
      <3>3. Yes(sender[s].results) \subseteq 1 .. m
        BY <3>1 DEF Yes
      <3> QED
        BY <3>2, <3>3, FS_Subset
    <2>6. Cardinality(A) \in Nat /\ Cardinality(B) \in Nat /\ Cardinality(Yes(sender[s].results)) \in Nat
      BY <2>4, <2>5, FS_CardinalityType
    <2>7. Cardinality(Yes(sender[s].results)) <= Cardinality(A)
      BY <1>5
    <2> HIDE DEF A, B
    <2>8. Cardinality(Yes(sender[s].results)) <= Cardinality(B)
      BY <2>4, <2>6, <2>7
    <2> QED
      BY <2>8 DEF B
  <1>10. SenderOK(sender'[s])
    BY <1>3, <1>4, <1>6 DEF SenderOK
  <1>11. SenderFits(sender'[s], received[i], answered)
    BY <1>4, <1>5, <1>6, <1>7, <1>8, <1>9 DEF SenderFits
  <1>12. SenderFits(sender'[s], received'[i], answered')
    BY <1>2, <1>11
  <1> QED
    BY <1>1, <1>2, <1>3, <1>4, <1>10, <1>12, SenderMoves

LEMMA BeginTargetsKeeps ==
  ASSUME NotificationIndInv, NEW s \in Senders, BeginTargets(s)
  PROVE  SendersOK' /\ ReceivedOK' /\ AllFit'
  <1>1. PICK i, list, c, to, seq :
          /\ i = sender[s].id /\ list = sender[s].channels /\ c = Head(list)
          /\ to = Targets(c, sender[s].recipients) /\ seq = SetToSeq(to)
    OBVIOUS
  <1>2. /\ sender[s].at = "channel" /\ list # <<>> /\ c \in Channels \ {"email"} /\ to # {}
        /\ sender' = [sender EXCEPT ![s].at = "sending", ![s].targets = seq]
        /\ UNCHANGED <<unused, received, answered>>
    BY <1>1 DEF BeginTargets
  <1>3. /\ SenderOK(sender[s]) /\ SenderFits(sender[s], received[i], answered)
        /\ i \in NotificationIds /\ received[i] \in Seq(Channels \X Recipients)
        /\ received \in [NotificationIds -> Seq(Channels \X Recipients)]
        /\ \A d \in Channels, r \in Recipients : Cardinality(Copies(received[i], d, r)) <= Tries(d)
        /\ sender = [t \in Senders |-> sender[t]]
    BY <1>1, <1>2, SenderIs
  <1>4. to \subseteq Recipients /\ IsFiniteSet(to)
    <2>1. to \subseteq Recipients
      BY <1>1, <1>3 DEF Targets, SenderOK
    <2> QED
      BY <2>1, NotificationAssumption, FS_Subset
  <1>5. seq \in Seq(to) /\ Distinct(seq) /\ seq # <<>>
    BY <1>1, <1>2, <1>4, SetToSeqIs
  <1>6. seq \in Seq(Recipients) /\ \A k \in DOMAIN seq : seq[k] \in Recipients
    BY <1>4, <1>5
  <1>7. /\ sender' = [t \in Senders |-> sender'[t]] /\ \A t \in Senders \ {s} : sender'[t] = sender[t]
        /\ DOMAIN sender'[s] = DOMAIN sender[s] /\ sender'[s].at = "sending"
        /\ sender'[s].channels = list /\ sender'[s].targets = seq
        /\ sender'[s].try = sender[s].try /\ sender'[s].good = sender[s].good
        /\ sender'[s].results = sender[s].results /\ sender'[s].id = i
        /\ sender'[s].recipients = sender[s].recipients /\ sender'[s].due = sender[s].due
    BY <1>1, <1>2, <1>3 DEF SenderOK
  <1>8. /\ list \in Seq(Named) /\ Distinct(list)
        /\ \A k \in DOMAIN list : Untouched(i, list[k], received[i], answered)
        /\ Cardinality(Yes(sender[s].results)) <= Cardinality(Reached(received[i]) \ Range(list))
        /\ Len(sender[s].results) + WithNotifier(list) = sender[s].due
        /\ sender[s].try = 1 /\ sender[s].good = 0
    BY <1>1, <1>2, <1>3 DEF SenderOK, SenderFits
  <1>9. SenderOK(sender'[s])
    <2>1. /\ DOMAIN sender[s] = {"at", "id", "channels", "recipients", "targets", "try", "good", "results", "due"}
          /\ sender[s].channels \in Seq(Named) /\ sender[s].recipients \subseteq Recipients
          /\ sender[s].results \in Seq(BOOLEAN) /\ sender[s].due \in Nat
          /\ sender[s].try \in Nat /\ sender[s].good \in Nat
      BY <1>3 DEF SenderOK
    <2> QED
      BY <1>6, <1>7, <1>8, <2>1 DEF SenderOK
  <1>10. c = list[1] /\ 1 \in DOMAIN list
    BY <1>1, <1>2, <1>8
  <1>11. Untouched(i, c, received[i], answered)
    BY <1>8, <1>10
  <1>12. PICK n, arrived, told : n = sender'[s] /\ arrived = received'[i] /\ told = answered'
    OBVIOUS
  <1>13. TargetsFit(n, arrived, told)
    <2>1. Tries(c) \in Nat \ {0}
      BY NotificationAssumption DEF Tries
    <2>2. ASSUME NEW k \in DOMAIN seq
          PROVE  <<i, c, seq[k]>> \notin told /\ Cardinality(Copies(arrived, c, seq[k])) = 0
      <3>1. <<i, c, seq[k]>> \notin told
        BY <1>2, <1>6, <1>11, <1>12 DEF Untouched
      <3>2. ASSUME NEW m \in DOMAIN arrived, arrived[m] = <<c, seq[k]>> PROVE FALSE
        <4>1. arrived[m][1] = c
          BY <3>2
        <4> QED
          BY <1>2, <1>11, <1>12, <4>1 DEF Untouched, Reached
      <3>3. Copies(arrived, c, seq[k]) = {}
        BY <3>2 DEF Copies
      <3> QED
        BY <3>1, <3>3, FS_EmptySet
    <2>3. /\ n.id = i /\ n.channels = list /\ n.targets = seq /\ n.try = 1 /\ n.good = 0
          /\ Head(list) = c
      BY <1>1, <1>7, <1>8, <1>12
    <2> QED
      BY <1>2, <1>5, <2>1, <2>2, <2>3 DEF TargetsFit
  <1>14. SenderFits(n, arrived, told)
    <2>1. arrived = received[i] /\ told = answered
      BY <1>2, <1>12
    <2>2. /\ n.id = i /\ n.channels = list /\ n.at = "sending" /\ n.results = sender[s].results
          /\ n.due = sender[s].due
      BY <1>7, <1>12
    <2> QED
      BY <1>8, <1>13, <2>1, <2>2 DEF SenderFits
  <1> QED
    BY <1>1, <1>2, <1>3, <1>7, <1>9, <1>12, <1>14, SenderMoves

LEMMA NoTargetsKeeps ==
  ASSUME NotificationIndInv, NEW s \in Senders, NoTargets(s)
  PROVE  SendersOK' /\ ReceivedOK' /\ AllFit'
  <1>1. PICK i, c : i = sender[s].id /\ c = Head(sender[s].channels)
    OBVIOUS
  <1>2. /\ sender[s].at # "idle" /\ sender[s].channels # <<>> /\ c \in Channels /\ ChannelDone(s, 0)
        /\ UNCHANGED <<unused, received, answered>>
    BY <1>1 DEF NoTargets
  <1>3. /\ received \in [NotificationIds -> Seq(Channels \X Recipients)]
        /\ \A d \in Channels, r \in Recipients : Cardinality(Copies(received[i], d, r)) <= Tries(d)
    BY <1>1, <1>2, SenderIs
  <1>4. PICK good \in Nat : good = 0
    OBVIOUS
  <1>5. ChannelDone(s, good) /\ ~(good > 0)
    BY <1>2, <1>4
  <1>6. /\ received' \in [NotificationIds -> Seq(Channels \X Recipients)]
        /\ \A j \in NotificationIds \ {i} : received'[j] = received[j]
        /\ Reached(received[i]) \subseteq Reached(received'[i])
        /\ Reached(received'[i]) \subseteq Reached(received[i]) \cup {c}
        /\ \A d \in Channels, q \in Recipients : Cardinality(Copies(received'[i], d, q)) <= Tries(d)
        /\ \A x \in answered' : x \in answered \/ (x[1] = i /\ x[2] = c)
    BY <1>2, <1>3
  <1> QED
    BY <1>1, <1>2, <1>5, <1>6, ChannelEnds

\* E-mail arrives at everybody it is taken from at once, and has not been sent before.
EmailTaken(s, i, taken) ==
    /\ sender[s].at = "channel" /\ sender[s].channels # <<>> /\ Head(sender[s].channels) = "email"
    /\ i \in NotificationIds /\ ChannelDone(s, Cardinality(taken)) /\ Cardinality(taken) \in Nat
    /\ Cardinality(taken) > 0 => "email" \in Reached(received'[i])
    /\ received' \in [NotificationIds -> Seq(Channels \X Recipients)]
    /\ \A j \in NotificationIds \ {i} : received'[j] = received[j]
    /\ Reached(received[i]) \subseteq Reached(received'[i])
    /\ Reached(received'[i]) \subseteq Reached(received[i]) \cup {"email"}
    /\ \A d \in Channels, q \in Recipients : Cardinality(Copies(received'[i], d, q)) <= Tries(d)
    /\ answered' = answered \cup {<<i, "email", r>> : r \in taken}
    /\ Untouched(i, "email", received[i], answered)
    /\ received'[i] # received[i] => Last(received'[i]) \in {"email"} \X taken

LEMMA SendEmailArrives ==
  ASSUME NotificationIndInv, NEW s \in Senders, SendEmail(s), NEW i, i = sender[s].id
  PROVE  \E taken \in SUBSET Recipients : EmailTaken(s, i, taken)
  <1>1. PICK list, to : list = sender[s].channels /\ to = Targets("email", sender[s].recipients)
    OBVIOUS
  <1>2. /\ sender[s].at = "channel" /\ list # <<>> /\ Head(list) = "email"
        /\ unused' = unused
    BY <1>1 DEF SendEmail
  <1>3. PICK taken \in SUBSET to :
          /\ received' = [received EXCEPT ![i] = @ \o SetToSeq({"email"} \X taken)]
          /\ answered' = answered \cup {<<i, "email", r>> : r \in taken}
          /\ ChannelDone(s, Cardinality(taken))
    <2>1. \E taken \in SUBSET Targets("email", sender[s].recipients) :
             /\ received' = [received EXCEPT ![sender[s].id] = @ \o SetToSeq({"email"} \X taken)]
             /\ answered' = answered \cup {<<sender[s].id, "email", r>> : r \in taken}
             /\ ChannelDone(s, Cardinality(taken))
      BY DEF SendEmail
    <2>2. PICK taken \in SUBSET Targets("email", sender[s].recipients) :
             /\ received' = [received EXCEPT ![sender[s].id] = @ \o SetToSeq({"email"} \X taken)]
             /\ answered' = answered \cup {<<sender[s].id, "email", r>> : r \in taken}
             /\ ChannelDone(s, Cardinality(taken))
      BY <2>1
    <2>3. taken \in SUBSET to
      BY <1>1
    <2> QED
      BY <2>2, <2>3
  <1>4. /\ SenderOK(sender[s]) /\ SenderFits(sender[s], received[i], answered)
        /\ i \in NotificationIds /\ received[i] \in Seq(Channels \X Recipients)
        /\ received \in [NotificationIds -> Seq(Channels \X Recipients)]
        /\ \A d \in Channels, r \in Recipients : Cardinality(Copies(received[i], d, r)) <= Tries(d)
    BY <1>2, SenderIs
  <1>5. taken \subseteq Recipients /\ IsFiniteSet(taken)
    <2>1. to \subseteq Recipients
      BY <1>1, <1>4 DEF Targets, SenderOK
    <2>2. taken \subseteq Recipients
      BY <2>1
    <2> QED
      BY <2>2, NotificationAssumption, FS_Subset
  <1>6. IsFiniteSet({"email"} \X taken) /\ Cardinality(taken) \in Nat
    <2>1. IsFiniteSet({"email"})
      BY FS_Singleton
    <2> QED
      BY <1>5, <2>1, FS_Product, FS_CardinalityType
  <1>7. PICK old, new, q :
          /\ old = received[i] /\ new = received'[i] /\ q = SetToSeq({"email"} \X taken)
    OBVIOUS
  <1>8. /\ q \in Seq({"email"} \X taken) /\ Distinct(q) /\ ({"email"} \X taken # {} => q # <<>>)
    BY <1>6, <1>7, SetToSeqIs
  <1>9. "email" \in Channels /\ old \in Seq(Channels \X Recipients)
    BY <1>4, <1>7 DEF Channels
  <1>10. q \in Seq(Channels \X Recipients)
    <2>1. {"email"} \X taken \subseteq Channels \X Recipients
      BY <1>5, <1>9
    <2> QED
      BY <1>8, <2>1
  <1>11. new = old \o q /\ received' = [received EXCEPT ![i] = new]
    BY <1>3, <1>4, <1>7
  <1>12. PICK n, k \in Nat : /\ n = Len(old) /\ k = Len(q) /\ DOMAIN old = 1 .. n /\ DOMAIN q = 1 .. k
    BY <1>9, <1>10
  <1>13. /\ new \in Seq(Channels \X Recipients) /\ Len(new) = n + k /\ DOMAIN new = 1 .. n + k
         /\ \A m \in 1 .. n : new[m] = old[m]
         /\ \A m \in n + 1 .. n + k : new[m] = q[m - n]
    BY <1>9, <1>10, <1>11, <1>12
  <1>14. \A m \in 1 .. k : q[m] \in {"email"} \X taken /\ q[m][1] = "email"
    <2> SUFFICES ASSUME NEW m \in 1 .. k PROVE q[m] \in {"email"} \X taken /\ q[m][1] = "email"
      OBVIOUS
    <2>1. q[m] \in {"email"} \X taken
      BY <1>8, <1>12
    <2> QED
      BY <2>1
  <1>15. \A m \in n + 1 .. n + k : m - n \in 1 .. k /\ new[m] \in {"email"} \X taken /\ new[m][1] = "email"
    BY <1>12, <1>13, <1>14
  <1>16. \A m \in DOMAIN new : m \in 1 .. n \/ m \in n + 1 .. n + k
    BY <1>12, <1>13
  <1>17. Reached(old) \subseteq Reached(new)
    <2>1. DOMAIN old \subseteq DOMAIN new
      BY <1>12, <1>13
    <2> QED
      BY <1>12, <1>13, <2>1 DEF Reached
  <1>18. Reached(new) \subseteq Reached(old) \cup {"email"}
    BY <1>12, <1>13, <1>15, <1>16 DEF Reached
  <1>19. Cardinality(taken) > 0 => "email" \in Reached(new)
    <2> SUFFICES ASSUME Cardinality(taken) > 0 PROVE "email" \in Reached(new)
      OBVIOUS
    <2>1. taken # {}
      BY FS_EmptySet
    <2>2. {"email"} \X taken # {}
      <3>1. PICK r \in taken : TRUE
        BY <2>1
      <3>2. <<"email", r>> \in {"email"} \X taken
        OBVIOUS
      <3> QED
        BY <3>2
    <2>3. q # <<>>
      BY <1>8, <2>2
    <2>4. k > 0
      BY <1>10, <1>12, <2>3
    <2>5. n + 1 \in DOMAIN new /\ n + 1 \in n + 1 .. n + k
      BY <1>12, <1>13, <2>4
    <2>6. new[n + 1][1] = "email"
      BY <1>15, <2>5
    <2> QED
      BY <2>5, <2>6 DEF Reached
  <1>20. Untouched(i, "email", old, answered)
    <2>1. list \in Seq(Named) /\ 1 \in DOMAIN list /\ list[1] = "email"
      BY <1>1, <1>2, <1>4 DEF SenderOK
    <2> QED
      BY <1>1, <1>2, <1>4, <1>7, <2>1 DEF SenderFits
  <1>21. ASSUME NEW d \in Channels, NEW r \in Recipients
         PROVE  Cardinality(Copies(new, d, r)) <= Tries(d)
    <2>1. CASE d # "email"
      <3>1. Copies(new, d, r) = Copies(old, d, r)
        <4>1. \A m \in n + 1 .. n + k : new[m] # <<d, r>>
          <5> SUFFICES ASSUME NEW m \in n + 1 .. n + k, new[m] = <<d, r>> PROVE FALSE
            OBVIOUS
          <5>1. new[m][1] = d
            OBVIOUS
          <5> QED
            BY <1>15, <2>1, <5>1
        <4>2. \A m \in 1 .. n : m \in DOMAIN new /\ m \in DOMAIN old
          BY <1>12, <1>13
        <4>3. \A m : m \in Copies(new, d, r) <=> m \in Copies(old, d, r)
          BY <1>12, <1>13, <1>16, <4>1, <4>2 DEF Copies
        <4> QED
          BY <4>3
      <3> QED
        BY <1>4, <1>7, <3>1
    <2>2. CASE d = "email"
      <3>1. ASSUME NEW m1 \in Copies(new, d, r), NEW m2 \in Copies(new, d, r) PROVE m1 = m2
        <4>1. m1 \in DOMAIN new /\ m2 \in DOMAIN new /\ new[m1] = <<d, r>> /\ new[m2] = <<d, r>>
          BY DEF Copies
        <4>2. ASSUME NEW m \in 1 .. n, new[m] = <<d, r>> PROVE FALSE
          <5>1. old[m][1] = "email" /\ m \in DOMAIN old
            BY <1>12, <1>13, <2>2, <4>2
          <5> QED
            BY <1>20, <5>1 DEF Untouched, Reached
        <4>3. m1 \in n + 1 .. n + k /\ m2 \in n + 1 .. n + k
          BY <1>16, <4>1, <4>2
        <4>4. q[m1 - n] = q[m2 - n] /\ m1 - n \in DOMAIN q /\ m2 - n \in DOMAIN q
          BY <1>12, <1>13, <1>15, <4>1, <4>3
        <4>5. m1 - n = m2 - n
          BY <1>8, <4>4 DEF Distinct
        <4> QED
          BY <1>12, <4>3, <4>5
      <3>2. Tries(d) \in Nat \ {0}
        BY NotificationAssumption DEF Tries
      <3>3. Cardinality(Copies(new, d, r)) <= 1
        <4>1. CASE Copies(new, d, r) = {}
          BY <4>1, FS_EmptySet
        <4>2. CASE Copies(new, d, r) # {}
          <5>1. PICK m : Copies(new, d, r) = {m}
            BY <3>1, <4>2
          <5>2. Cardinality({m}) = 1
            BY FS_Singleton
          <5> QED
            BY <5>1, <5>2
        <4> QED
          BY <4>1, <4>2
      <3>4. Cardinality(Copies(new, d, r)) \in Nat
        BY <1>13, CopiesAreFinite
      <3> QED
        BY <3>2, <3>3, <3>4
    <2> QED
      BY <2>1, <2>2
  <1>22. new # old => Last(new) \in {"email"} \X taken
    <2> SUFFICES ASSUME new # old PROVE Last(new) \in {"email"} \X taken
      OBVIOUS
    <2>1. k > 0
      <3> SUFFICES ASSUME k = 0 PROVE FALSE
        BY <1>12
      <3>1. q = <<>>
        BY <1>10, <1>12
      <3>2. old \o <<>> = old
        BY <1>9
      <3> QED
        BY <1>11, <3>1, <3>2
    <2>2. n + k \in n + 1 .. n + k
      BY <1>12, <2>1
    <2> QED
      BY <1>13, <1>15, <2>2 DEF Last
  <1>23. /\ received' \in [NotificationIds -> Seq(Channels \X Recipients)]
         /\ \A j \in NotificationIds \ {i} : received'[j] = received[j]
    BY <1>4, <1>11, <1>13
  <1>24. /\ Cardinality(taken) > 0 => "email" \in Reached(received'[i])
         /\ Reached(received[i]) \subseteq Reached(received'[i])
         /\ Reached(received'[i]) \subseteq Reached(received[i]) \cup {"email"}
         /\ Untouched(i, "email", received[i], answered)
         /\ received'[i] # received[i] => Last(received'[i]) \in {"email"} \X taken
    BY <1>7, <1>17, <1>18, <1>19, <1>20, <1>22
  <1>25. \A d \in Channels, r \in Recipients : Cardinality(Copies(received'[i], d, r)) <= Tries(d)
    BY <1>7, <1>21
  <1>26. EmailTaken(s, i, taken)
    BY <1>1, <1>2, <1>3, <1>4, <1>6, <1>23, <1>24, <1>25 DEF EmailTaken
  <1> QED
    BY <1>5, <1>26

LEMMA SendEmailKeeps ==
  ASSUME NotificationIndInv, NEW s \in Senders, SendEmail(s)
  PROVE  SendersOK' /\ ReceivedOK' /\ AllFit'
  <1>1. PICK i, c : i = sender[s].id /\ c = "email"
    OBVIOUS
  <1>2. PICK taken \in SUBSET Recipients : EmailTaken(s, i, taken)
    BY <1>1, SendEmailArrives
  <1>3. PICK good \in Nat : good = Cardinality(taken)
    BY <1>2 DEF EmailTaken
  <1>4. /\ ChannelDone(s, good) /\ (good > 0 => c \in Reached(received'[i])) /\ unused' = unused
        /\ c \in Channels /\ c = Head(sender[s].channels) /\ sender[s].at # "idle"
    BY <1>1, <1>2, <1>3 DEF SendEmail, EmailTaken, Channels
  <1>5. \A x \in answered' : x \in answered \/ (x[1] = i /\ x[2] = c)
    <2> SUFFICES ASSUME NEW x \in answered', x \notin answered PROVE x[1] = i /\ x[2] = c
      OBVIOUS
    <2>1. PICK r \in taken : x = <<i, "email", r>>
      BY <1>2 DEF EmailTaken
    <2> QED
      BY <1>1, <2>1
  <1>6. /\ received' \in [NotificationIds -> Seq(Channels \X Recipients)]
        /\ \A j \in NotificationIds \ {i} : received'[j] = received[j]
        /\ Reached(received[i]) \subseteq Reached(received'[i])
        /\ Reached(received'[i]) \subseteq Reached(received[i]) \cup {c}
        /\ \A d \in Channels, q \in Recipients : Cardinality(Copies(received'[i], d, q)) <= Tries(d)
        /\ sender[s].channels # <<>>
    BY <1>1, <1>2 DEF EmailTaken
  <1> QED
    BY <1>1, <1>4, <1>5, <1>6, ChannelEnds

\* The channel goes on with the next target, or is done.
LEMMA NextTargetKeeps ==
  ASSUME NotificationIndInv, NEW s, NEW i, NEW c, NEW r, Calls(s, i, c, r), unused' = unused,
         NEW good \in Nat, NextTarget(s, good), good > 0 => c \in Reached(received'[i]),
         \A x \in answered' : x \in answered \/ x = <<i, c, r>>
  PROVE  SendersOK' /\ ReceivedOK' /\ AllFit' /\ HistoriesOK'
  <1>1. Arrived(s, i, c, r)
    BY Arrival
  <1>2. /\ s \in Senders /\ sender[s].at = "sending" /\ i = sender[s].id /\ c = Head(sender[s].channels)
        /\ r = Head(sender[s].targets)
    BY DEF Calls
  <1>3. /\ i \in NotificationIds /\ i \in Nat /\ c \in Channels /\ sender[s].channels # <<>>
        /\ sender[s].targets \in Seq(Recipients) /\ sender[s].targets # <<>>
    BY <1>1, <1>2, NotificationAssumption DEF Arrived, SenderFits, TargetsFit, SenderOK
  <1>4. HistoriesOK
    BY DEF NotificationIndInv
  <1>5. CASE Len(sender[s].targets) > 1
    <2>1. PICK list, try : list = Tail(sender[s].targets) /\ try = 1
      OBVIOUS
    <2>2. sender' = [sender EXCEPT ![s].targets = list, ![s].try = try, ![s].good = good]
      BY <1>5, <2>1 DEF NextTarget
    <2>3. list # <<>>
      <3>1. \A q \in Seq(Recipients) : Len(q) > 1 => 1 \in DOMAIN Tail(q)
        OBVIOUS
      <3>2. 1 \in DOMAIN list
        BY <1>3, <1>5, <2>1, <3>1
      <3>3. DOMAIN <<>> = {}
        OBVIOUS
      <3> QED
        BY <3>2, <3>3
    <2>4. SendersOK' /\ ReceivedOK' /\ AllFit'
      BY <2>1, <2>2, <2>3, SameChannel
    <2>5. UNCHANGED <<histories, finished>>
      BY <1>5 DEF NextTarget
    <2>6. HistoriesOK'
      BY <1>4, <2>5 DEF HistoriesOK, HistoriesKeep
    <2> QED
      BY <2>4, <2>6
  <1>6. CASE ~(Len(sender[s].targets) > 1)
    <2>1. ChannelDone(s, good) /\ Track(c, i)
      BY <1>2, <1>6 DEF NextTarget
    <2>2. \A x \in answered' : x \in answered \/ (x[1] = i /\ x[2] = c)
      <3>1. <<i, c, r>>[1] = i /\ <<i, c, r>>[2] = c
        OBVIOUS
      <3> QED
        BY <3>1
    <2>3. /\ received' \in [NotificationIds -> Seq(Channels \X Recipients)]
          /\ \A j \in NotificationIds \ {i} : received'[j] = received[j]
          /\ Reached(received[i]) \subseteq Reached(received'[i])
          /\ Reached(received'[i]) \subseteq Reached(received[i]) \cup {c}
          /\ \A d \in Channels, q \in Recipients : Cardinality(Copies(received'[i], d, q)) <= Tries(d)
      BY <1>1 DEF Arrived
    <2>4. sender[s].at # "idle"
      BY <1>2
    <2>5. SendersOK' /\ ReceivedOK' /\ AllFit'
      BY <1>2, <1>3, <2>1, <2>2, <2>3, <2>4, ChannelEnds
    <2>6. c \in Books
      BY <1>3 DEF Books
    <2>7. HistoriesOK'
      BY <1>3, <1>4, <2>1, <2>6, Tracked
    <2> QED
      BY <2>5, <2>7
  <1> QED
    BY <1>5, <1>6

\* What counts as good has arrived.
LEMMA GoodArrived ==
  ASSUME NotificationIndInv, NEW s, NEW i, NEW c, NEW r, Calls(s, i, c, r), NEW taken \in BOOLEAN,
         taken => Arrives(i, c, r)
  PROVE  /\ sender[s].good \in Nat /\ sender[s].try \in Nat
         /\ sender[s].good > 0 \/ taken => c \in Reached(received'[i])
  <1>1. Arrived(s, i, c, r)
    BY Arrival
  <1>2. sender[s].at = "sending" /\ i = sender[s].id /\ c = Head(sender[s].channels)
    BY DEF Calls
  <1>3. sender[s].good \in Nat /\ sender[s].try \in Nat /\ (sender[s].good > 0 => c \in Reached(received[i]))
    BY <1>1, <1>2 DEF Arrived, SenderOK, SenderFits, TargetsFit
  <1>4. ASSUME taken PROVE c \in Reached(received'[i])
    <2>1. received' = [received EXCEPT ![i] = Append(@, <<c, r>>)] /\ i \in NotificationIds
      BY <1>1, <1>4 DEF Arrives, Arrived
    <2>2. PICK old : old = received[i] /\ old \in Seq(Channels \X Recipients) /\ DOMAIN received = NotificationIds
      BY <2>1 DEF NotificationIndInv, ReceivedOK
    <2>3. received'[i] = Append(old, <<c, r>>)
      BY <2>1, <2>2
    <2>4. Append(old, <<c, r>>) # old
      BY <2>2
    <2>5. received' # received
      BY <2>2, <2>3, <2>4
    <2> QED
      BY <1>1, <2>5 DEF Arrived
  <1> QED
    BY <1>1, <1>3, <1>4 DEF Arrived

LEMMA AnsweredKeeps ==
  ASSUME NotificationIndInv, NEW s \in Senders, NEW taken \in BOOLEAN, Answered(s, taken)
  PROVE  NotificationIndInv'
  <1>1. PICK i, c, r :
          i = sender[s].id /\ c = Head(sender[s].channels) /\ r = Head(sender[s].targets)
    OBVIOUS
  <1>2. PICK good : good = sender[s].good + (IF taken THEN 1 ELSE 0)
    OBVIOUS
  <1>3. /\ sender[s].at = "sending" /\ IF taken THEN Arrives(i, c, r) ELSE UNCHANGED received
        /\ answered' = answered \cup {<<i, c, r>>} /\ NextTarget(s, good) /\ unused' = unused
    BY <1>1, <1>2 DEF Answered
  <1>4. Calls(s, i, c, r)
    BY <1>1, <1>3 DEF Calls, Arrives
  <1>5. /\ sender[s].good \in Nat /\ (sender[s].good > 0 \/ taken => c \in Reached(received'[i]))
    BY <1>3, <1>4, GoodArrived
  <1>6. good \in Nat /\ (good > 0 => sender[s].good > 0 \/ taken)
    BY <1>2, <1>5
  <1>7. \A x \in answered' : x \in answered \/ x = <<i, c, r>>
    BY <1>3
  <1>8. SendersOK' /\ ReceivedOK' /\ AllFit' /\ HistoriesOK'
    BY <1>3, <1>4, <1>5, <1>6, <1>7, NextTargetKeeps
  <1> QED
    BY <1>8 DEF NotificationIndInv

LEMMA TimesOutKeeps ==
  ASSUME NotificationIndInv, NEW s \in Senders, NEW arrived \in BOOLEAN, TimesOut(s, arrived)
  PROVE  NotificationIndInv'
  <1>1. PICK i, c, r, good :
          /\ i = sender[s].id /\ c = Head(sender[s].channels) /\ r = Head(sender[s].targets)
          /\ good = sender[s].good
    OBVIOUS
  <1>2. /\ sender[s].at = "sending" /\ IF arrived THEN Arrives(i, c, r) ELSE UNCHANGED received
        /\ unused' = unused /\ answered' = answered
    BY <1>1 DEF TimesOut
  <1>3. Calls(s, i, c, r)
    BY <1>1, <1>2 DEF Calls, Arrives
  <1>4. good \in Nat /\ sender[s].try \in Nat /\ (good > 0 => c \in Reached(received'[i]))
    BY <1>1, <1>2, <1>3, GoodArrived
  <1>5. HistoriesOK
    BY DEF NotificationIndInv
  <1>6. CASE MayRetry(c, sender[s].try)
    <2>1. PICK list, try : list = sender[s].targets /\ try = sender[s].try + 1
      OBVIOUS
    <2>2. sender' = [sender EXCEPT ![s].try = try] /\ UNCHANGED <<histories, finished>>
      BY <1>1, <1>6, <2>1 DEF TimesOut
    <2>3. /\ DOMAIN sender[s] = {"at", "id", "channels", "recipients", "targets", "try", "good", "results", "due"}
          /\ sender = [t \in Senders |-> sender[t]]
      <3>1. sender[s].at # "idle"
        BY <1>2
      <3> QED
        BY <3>1, SenderIs DEF SenderOK
    <2>4. sender' = [sender EXCEPT ![s].targets = list, ![s].try = try, ![s].good = good]
      <3>1. [sender[s] EXCEPT !.try = try] = [sender[s] EXCEPT !.targets = list, !.try = try, !.good = good]
        BY <1>1, <2>1, <2>3
      <3> QED
        BY <2>2, <2>3, <3>1
    <2>5. try <= Tries(c)
      BY <1>4, <1>6, <2>1, NotificationAssumption DEF MayRetry, Tries
    <2>6. SendersOK' /\ ReceivedOK' /\ AllFit'
      BY <1>2, <1>3, <1>4, <2>1, <2>4, <2>5, SameChannel
    <2>7. HistoriesOK'
      BY <1>5, <2>2 DEF HistoriesOK, HistoriesKeep
    <2> QED
      BY <2>6, <2>7 DEF NotificationIndInv
  <1>7. CASE ~MayRetry(c, sender[s].try)
    <2>1. NextTarget(s, good)
      BY <1>1, <1>7 DEF TimesOut
    <2>2. \A x \in answered' : x \in answered \/ x = <<i, c, r>>
      BY <1>2
    <2>3. SendersOK' /\ ReceivedOK' /\ AllFit' /\ HistoriesOK'
      BY <1>2, <1>3, <1>4, <2>1, <2>2, NextTargetKeeps
    <2> QED
      BY <2>3 DEF NotificationIndInv
  <1> QED
    BY <1>6, <1>7

LEMMA FinishKeeps ==
  ASSUME NotificationIndInv, NEW s \in Senders, Finish(s)
  PROVE  NotificationIndInv'
  <1>1. PICK i : i = sender[s].id
    OBVIOUS
  <1>2. /\ sender[s].at = "channel" /\ sender[s].channels = <<>> /\ Track("service", i)
        /\ sender' = [sender EXCEPT ![s].at = "idle", ![s].recipients = {}]
        /\ UNCHANGED <<unused, received, answered>>
    BY <1>1 DEF Finish
  <1>3. /\ SenderOK(sender[s]) /\ SenderFits(sender[s], received[i], answered)
        /\ i \in NotificationIds /\ i \in Nat
        /\ received \in [NotificationIds -> Seq(Channels \X Recipients)]
        /\ \A c \in Channels, r \in Recipients : Cardinality(Copies(received[i], c, r)) <= Tries(c)
        /\ sender = [t \in Senders |-> sender[t]]
    BY <1>1, <1>2, SenderIs
  <1>4. /\ sender' = [t \in Senders |-> sender'[t]] /\ \A t \in Senders \ {s} : sender'[t] = sender[t]
        /\ DOMAIN sender'[s] = DOMAIN sender[s] /\ sender'[s].at = "idle"
        /\ sender'[s].channels = <<>> /\ sender'[s].targets = sender[s].targets
        /\ sender'[s].try = sender[s].try /\ sender'[s].good = sender[s].good
        /\ sender'[s].results = sender[s].results /\ sender'[s].id = i
        /\ sender'[s].recipients = {} /\ sender'[s].due = sender[s].due
    BY <1>1, <1>2, <1>3 DEF SenderOK
  <1>5. SenderOK(sender'[s])
    BY <1>3, <1>4, <1>2 DEF SenderOK
  <1>6. SenderFits(sender'[s], received'[i], answered')
    <2>1. PICK n, new, arrived : n = sender[s] /\ new = sender'[s] /\ arrived = received[i]
      OBVIOUS
    <2>2. /\ n.channels = <<>> /\ n.try = 1 /\ n.good = 0
          /\ Cardinality(Yes(n.results)) <= Cardinality(Reached(arrived) \ Range(<<>>))
          /\ Len(n.results) + WithNotifier(<<>>) = n.due
      BY <1>2, <1>3, <2>1 DEF SenderFits
    <2>3. Distinct(<<>>) /\ DOMAIN <<>> = {}
      BY DEF Distinct
    <2>4. /\ new.at = "idle" /\ new.channels = <<>> /\ new.results = n.results /\ new.due = n.due
      BY <1>4, <2>1
    <2>5. SenderFits(new, arrived, answered)
      BY <2>2, <2>3, <2>4 DEF SenderFits
    <2> QED
      BY <1>2, <2>1, <2>5
  <1>7. SendersOK' /\ ReceivedOK' /\ AllFit'
    BY <1>1, <1>2, <1>3, <1>4, <1>5, <1>6, SenderMoves
  <1>8. HistoriesOK'
    <2>1. HistoriesOK /\ "service" \in Books
      BY DEF NotificationIndInv, Books
    <2> QED
      BY <1>2, <1>3, <2>1, Tracked
  <1> QED
    BY <1>7, <1>8 DEF NotificationIndInv

LEMMA NotificationsKeep ==
  ASSUME NotificationIndInv, [NotificationsNext]_notificationVars
  PROVE  NotificationIndInv'
  <1>0. HistoriesOK
    BY DEF NotificationIndInv
  <1>1. CASE UNCHANGED notificationVars
    <2>1. SendersOK' /\ ReceivedOK' /\ AllFit' /\ HistoriesOK'
      BY <1>1 DEF NotificationIndInv, notificationVars, SendersOK, ReceivedOK, AllFit, HistoriesOK, HistoriesKeep
    <2> QED
      BY <2>1 DEF NotificationIndInv
  <1>2. ASSUME NEW s \in Senders, SenderStep(s) PROVE NotificationIndInv'
    <2>1. CASE SkipChannel(s)
      <3>1. SendersOK' /\ ReceivedOK' /\ AllFit'
        BY <2>1, SkipKeeps
      <3>2. HistoriesOK'
        BY <1>0, <2>1 DEF SkipChannel, HistoriesOK, HistoriesKeep
      <3> QED
        BY <3>1, <3>2 DEF NotificationIndInv
    <2>2. CASE NoTargets(s)
      <3>1. SendersOK' /\ ReceivedOK' /\ AllFit'
        BY <2>2, NoTargetsKeeps
      <3>2. HistoriesOK'
        BY <1>0, <2>2 DEF NoTargets, HistoriesOK, HistoriesKeep
      <3> QED
        BY <3>1, <3>2 DEF NotificationIndInv
    <2>3. CASE SendEmail(s)
      <3>1. SendersOK' /\ ReceivedOK' /\ AllFit'
        BY <2>3, SendEmailKeeps
      <3>2. PICK i : i = sender[s].id
        OBVIOUS
      <3>3. Track("email", i) /\ sender[s].at # "idle" /\ "email" \in Books
        BY <2>3, <3>2 DEF SendEmail, Books, Channels
      <3>4. i \in Nat
        BY <3>2, <3>3, SenderIs
      <3>5. HistoriesOK'
        BY <1>0, <3>3, <3>4, Tracked
      <3> QED
        BY <3>1, <3>5 DEF NotificationIndInv
    <2>4. CASE BeginTargets(s)
      <3>1. SendersOK' /\ ReceivedOK' /\ AllFit'
        BY <2>4, BeginTargetsKeeps
      <3>2. HistoriesOK'
        BY <1>0, <2>4 DEF BeginTargets, HistoriesOK, HistoriesKeep
      <3> QED
        BY <3>1, <3>2 DEF NotificationIndInv
    <2>5. CASE Finish(s)
      BY <2>5, FinishKeeps
    <2>6. CASE \E yes \in BOOLEAN : Answered(s, yes) \/ TimesOut(s, yes)
      BY <2>6, AnsweredKeeps, TimesOutKeeps
    <2> QED
      BY <1>2, <2>1, <2>2, <2>3, <2>4, <2>5, <2>6 DEF SenderStep
  <1>3. ASSUME NEW s \in Senders, NEW kind \in Kinds, Send(s, kind) PROVE NotificationIndInv'
    BY <1>3, SendKeeps
  <1> QED
    BY <1>1, <1>2, <1>3 DEF NotificationsNext

LEMMA NotificationsAreRight ==
  ASSUME NotificationIndInv PROVE NotificationInv
  <1>0. SendersOK /\ ReceivedOK /\ AllFit /\ HistoriesOK
    BY DEF NotificationIndInv
  <1>1. ASSUME NEW s \in Senders
        PROVE  /\ (\E k \in DOMAIN sender[s].results : sender[s].results[k]) => received[sender[s].id] # <<>>
               /\ \A k \in DOMAIN sender[s].results : sender[s].results[k] =>
                    Cardinality(Yes(sender[s].results)) <= Cardinality(Reached(received[sender[s].id]))
    <2> SUFFICES ASSUME NEW k \in DOMAIN sender[s].results, sender[s].results[k]
                 PROVE  /\ received[sender[s].id] # <<>>
                        /\ Cardinality(Yes(sender[s].results)) <= Cardinality(Reached(received[sender[s].id]))
      OBVIOUS
    <2>1. PICK arrived, results : arrived = received[sender[s].id] /\ results = sender[s].results
      OBVIOUS
    <2>2. results \in Seq(BOOLEAN)
      BY <1>0, <2>1 DEF SendersOK, SenderOK
    <2>3. results # <<>>
      BY <2>1
    <2>4. Live(sender[s])
      BY <2>1, <2>3 DEF Live
    <2>5. sender[s].id \in NotificationIds
      BY <1>0, <2>4 DEF SendersOK
    <2>6. arrived \in Seq(Channels \X Recipients)
      BY <1>0, <2>1, <2>5 DEF ReceivedOK
    <2>7. SenderFits(sender[s], arrived, answered)
      BY <1>0, <2>1, <2>4 DEF AllFit
    <2> DEFINE A == Reached(arrived) \ Range(sender[s].channels)
    <2>8. Cardinality(Yes(results)) <= Cardinality(A)
      BY <2>1, <2>7 DEF SenderFits
    <2>9. IsFiniteSet(Reached(arrived)) /\ A \subseteq Reached(arrived)
      BY <2>6, CopiesAreFinite
    <2>10. /\ IsFiniteSet(A) /\ Cardinality(A) <= Cardinality(Reached(arrived)) /\ Cardinality(A) \in Nat
           /\ Cardinality(Reached(arrived)) \in Nat
      BY <2>9, FS_Subset, FS_CardinalityType
    <2>11. IsFiniteSet(Yes(results))
      <3>1. PICK m \in Nat : DOMAIN results = 1 .. m
        BY <2>2
      <3>2. IsFiniteSet(1 .. m)
        BY FS_Interval
      <3>3. Yes(results) \subseteq 1 .. m
        BY <3>1 DEF Yes
      <3> QED
        BY <3>2, <3>3, FS_Subset
    <2>12. k \in Yes(results)
      BY <2>1 DEF Yes
    <2>13. Cardinality(Yes(results)) \in Nat /\ Cardinality(Yes(results)) # 0
      BY <2>11, <2>12, FS_CardinalityType, FS_EmptySet
    <2> HIDE DEF A
    <2>14. Cardinality(Yes(results)) <= Cardinality(Reached(arrived)) /\ Cardinality(Reached(arrived)) # 0
      BY <2>8, <2>10, <2>13
    <2>15. arrived # <<>>
      <3> SUFFICES ASSUME arrived = <<>> PROVE FALSE
        OBVIOUS
      <3>1. Reached(arrived) = {}
        BY DEF Reached
      <3> QED
        BY <2>14, <3>1, FS_EmptySet
    <2> QED
      BY <2>1, <2>14, <2>15
  <1>2. SuccessMeansReceived
    BY <1>1 DEF SuccessMeansReceived, Yes, Reached
  <1>3. RepeatsAreRetries
    BY <1>0 DEF ReceivedOK, RepeatsAreRetries, Copies, Tries
  <1>4. EveryChannelTried
    BY <1>0 DEF AllFit, Live, SenderFits, EveryChannelTried
  <1> QED
    BY <1>0, <1>2, <1>3, <1>4 DEF NotificationInv, HistoriesOK

\* What a notification says of its channels is true, at any time: a channel reported as delivered
\* has reached somebody, a recipient gets more than one copy only from a web hook that is tried
\* again, every channel is tried, and the histories are cut as they should be
\* (NotificationService.send and the notifiers).
THEOREM NotificationsHold == NotificationsSpec => []NotificationInv
  <1>1. NotificationIndInv /\ [NotificationsNext]_notificationVars => NotificationIndInv'
    BY NotificationsKeep
  <1>2. NotificationIndInv => NotificationInv
    BY NotificationsAreRight
  <1> QED
    BY <1>1, <1>2, NotificationsInitially, PTL DEF NotificationsSpec

LEMMA NothingAfterAnAnswer ==
  ASSUME NotificationIndInv, [NotificationsNext]_notificationVars, NEW j \in NotificationIds,
         received'[j] # received[j]
  PROVE  <<j, Last(received'[j])[1], Last(received'[j])[2]>> \notin answered
  <1>1. PICK s \in Senders :
          SendEmail(s) \/ \E yes \in BOOLEAN : Answered(s, yes) \/ TimesOut(s, yes)
    BY DEF NotificationsNext, SenderStep, SkipChannel, NoTargets, BeginTargets, Finish, Send,
           notificationVars
  <1>2. PICK i, c, r :
          i = sender[s].id /\ c = Head(sender[s].channels) /\ r = Head(sender[s].targets)
    OBVIOUS
  <1>3. CASE SendEmail(s)
    <2>1. PICK taken \in SUBSET Recipients : EmailTaken(s, i, taken)
      BY <1>2, <1>3, SendEmailArrives
    <2>2. j = i /\ Last(received'[i]) \in {"email"} \X taken /\ Untouched(i, "email", received[i], answered)
      BY <2>1 DEF EmailTaken
    <2>3. Last(received'[i])[1] = "email" /\ Last(received'[i])[2] \in Recipients
      BY <2>2
    <2> QED
      BY <2>2, <2>3 DEF Untouched
  <1>4. ASSUME NEW yes \in BOOLEAN, Answered(s, yes) \/ TimesOut(s, yes)
        PROVE  <<j, Last(received'[j])[1], Last(received'[j])[2]>> \notin answered
    <2>1. Calls(s, i, c, r)
      BY <1>2, <1>4 DEF Calls, Arrives, Answered, TimesOut
    <2>2. Arrived(s, i, c, r)
      BY <2>1, Arrival
    <2>3. j = i /\ received' # received
      BY <2>2 DEF Arrived
    <2>4. Last(received'[i]) = <<c, r>>
      BY <2>2, <2>3 DEF Arrived
    <2>5. Last(received'[i])[1] = c /\ Last(received'[i])[2] = r
      BY <2>4
    <2>6. <<i, c, r>> \notin answered
      <3>1. sender[s].at = "sending" /\ SenderFits(sender[s], received[i], answered) /\ SenderOK(sender[s])
        BY <2>1, <2>2 DEF Calls, Arrived
      <3>2. /\ sender[s].targets # <<>> /\ sender[s].targets \in Seq(Recipients)
            /\ \A k \in DOMAIN sender[s].targets : <<i, c, sender[s].targets[k]>> \notin answered
        BY <1>2, <3>1 DEF SenderFits, TargetsFit, SenderOK
      <3>3. 1 \in DOMAIN sender[s].targets /\ r = sender[s].targets[1]
        BY <1>2, <3>2
      <3> QED
        BY <3>2, <3>3
    <2> QED
      BY <2>3, <2>5, <2>6
  <1> QED
    BY <1>1, <1>3, <1>4

\* A recipient that has answered, be it to refuse, is not sent the notification on that channel
\* again (the retry loop of WebhookNotifier ends at the first answer).
THEOREM AnswersEndIt == NotificationsSpec => NeverAfterAnswer
  <1>1. NotificationIndInv /\ [NotificationsNext]_notificationVars => NotificationIndInv'
    BY NotificationsKeep
  <1>2. NotificationIndInv /\ [NotificationsNext]_notificationVars
        => [\A i \in NotificationIds : received'[i] # received[i]
              => <<i, Last(received'[i])[1], Last(received'[i])[2]>> \notin answered]_notificationVars
    BY NothingAfterAnAnswer
  <1> QED
    BY <1>1, <1>2, NotificationsInitially, PTL DEF NotificationsSpec, NeverAfterAnswer

-----------------------------------------------------------------------------
(* The dashboard *)

Stages == {"update", "told"}
Operations == {"idle", "off", "sleep", "add", "update", "told", "refresh", "render", "stop", "stopped"}

EntryRecords == [name : Names, id : Ids, source : Sources]
ShownRecords == [source : Sources, data : Sources]
TaskRecords == [op : Operations, within : BOOLEAN, id : Ids \cup {Null}, name : Names \cup {Null},
                source : Sources \cup {Null}, size : Nat, disturbed : BOOLEAN]

\* Who loads data knows what for and where from; who adds knows what.
TaskOK(v) ==
    /\ v \in TaskRecords
    /\ v.op \in Stages => v.id \in Ids /\ v.source \in Sources
    /\ v.op \notin Stages => v.id = Null
    /\ v.op = "add" => v.name \in Names /\ v.source \in Sources

TasksOK == viewer \in [Tasks -> TaskRecords] /\ \A t \in Tasks : TaskOK(viewer[t])

EngineOK == DOMAIN active \subseteq Ids /\ active \in [DOMAIN active -> ShownRecords]

\* No two entries share a name or an id, and the engine has what they stand for.
DictOK ==
    /\ entries \in Seq(EntryRecords)
    /\ \A i, j \in DOMAIN entries :
          entries[i].name = entries[j].name \/ entries[i].id = entries[j].id => i = j
    /\ ListedIds \subseteq DOMAIN active

Tells(id, s) == \E i \in DOMAIN entries : entries[i].id = id /\ entries[i].source = s

\* One task at most updates it; the engine has the source of that task, and its data once they are
\* loaded.  When nobody updates it, the engine has the source the dashboard tells, and its data.
UpdatedBy(id, s) ==
    /\ \A t, u \in Updating(id) : t = u
    /\ \A t \in Updating(id) :
        /\ active[id].source = viewer[t].source
        /\ viewer[t].op = "told" => active[id].data = viewer[t].source
    /\ Updating(id) = {} => active[id].source = s /\ active[id].data = s

UpdatesOK == \A id \in Ids, s \in Sources : Tells(id, s) /\ id \notin torn => UpdatedBy(id, s)

DashboardIndInv == TasksOK /\ EngineOK /\ DictOK /\ UpdatesOK /\ AxesAreListed

\* A task that is as far with its update as it was.
AsBefore(v, w) == v.op \in Stages \/ w.op \in Stages => v.op = w.op /\ v.id = w.id /\ v.source = w.source

LEMMA RemovedAt ==
  ASSUME NEW S, NEW s \in Seq(S), NEW i \in 1 .. Len(s)
  PROVE  /\ RemoveAt(s, i) \in Seq(S)
         /\ Len(RemoveAt(s, i)) = Len(s) - 1
         /\ \A j \in 1 .. Len(s) - 1 : RemoveAt(s, i)[j] = IF j < i THEN s[j] ELSE s[j + 1]
  <1>1. Len(s) \in Nat /\ i \in Nat /\ \A j \in 1 .. Len(s) : s[j] \in S
    BY LenProperties, ElementOfSeq
  <1> DEFINE a == SubSeq(s, 1, i - 1)  b == SubSeq(s, i + 1, Len(s))
  <1>2. a \in Seq(S) /\ Len(a) = i - 1 /\ \A j \in 1 .. i - 1 : a[j] = s[j]
    <2>1. \A j \in 1 .. i - 1 : s[j] \in S
      BY <1>1
    <2>2. /\ a \in Seq(S) /\ Len(a) = IF 1 <= i - 1 THEN (i - 1) - 1 + 1 ELSE 0
          /\ \A j \in 1 .. (i - 1) - 1 + 1 : a[j] = s[1 + j - 1]
      BY <1>1, <2>1, SubSeqProperties
    <2> HIDE DEF a
    <2> QED
      BY <1>1, <2>2
  <1>3. b \in Seq(S) /\ Len(b) = Len(s) - i /\ \A j \in 1 .. Len(s) - i : b[j] = s[i + j]
    <2>1. \A j \in i + 1 .. Len(s) : s[j] \in S
      BY <1>1
    <2>2. /\ b \in Seq(S) /\ Len(b) = IF i + 1 <= Len(s) THEN Len(s) - (i + 1) + 1 ELSE 0
          /\ \A j \in 1 .. Len(s) - (i + 1) + 1 : b[j] = s[(i + 1) + j - 1]
      BY <1>1, <2>1, SubSeqProperties
    <2> HIDE DEF b
    <2> QED
      BY <1>1, <2>2
  <1>4. RemoveAt(s, i) = a \o b
    BY DEF RemoveAt
  <1> HIDE DEF a, b
  <1>5. /\ a \o b \in Seq(S) /\ Len(a \o b) = Len(a) + Len(b)
        /\ \A j \in 1 .. Len(a) + Len(b) : (a \o b)[j] = IF j <= Len(a) THEN a[j] ELSE b[j - Len(a)]
    BY <1>2, <1>3, ConcatProperties
  <1>6. \A j \in 1 .. Len(s) - 1 : (a \o b)[j] = IF j < i THEN s[j] ELSE s[j + 1]
    <2> SUFFICES ASSUME NEW j \in 1 .. Len(s) - 1
                 PROVE  (a \o b)[j] = IF j < i THEN s[j] ELSE s[j + 1]
      OBVIOUS
    <2>1. j \in 1 .. Len(a) + Len(b)
      BY <1>1, <1>2, <1>3
    <2>2. CASE j < i
      BY <1>1, <1>2, <1>5, <2>1, <2>2
    <2>3. CASE ~(j < i)
      <3>1. (a \o b)[j] = b[j - Len(a)] /\ j - Len(a) = j - (i - 1)
        BY <1>1, <1>2, <1>5, <2>1, <2>3
      <3>2. j - (i - 1) \in 1 .. Len(s) - i /\ i + (j - (i - 1)) = j + 1
        BY <1>1, <2>3
      <3> QED
        BY <1>3, <2>3, <3>1, <3>2
    <2> QED
      BY <2>2, <2>3
  <1> QED
    BY <1>1, <1>2, <1>3, <1>4, <1>5, <1>6

LEMMA StoppedTask ==
  ASSUME NEW op \in Operations \ (Stages \cup {"add"})
  PROVE  At(op) \in TaskRecords /\ At(op).op = op /\ TaskOK(At(op))
  <1>1. At(op) \in TaskRecords
    BY DEF At, TaskRecords
  <1>2. At(op).op = op /\ At(op).id = Null
    BY DEF At
  <1> QED
    BY <1>1, <1>2 DEF TaskOK, Stages

LEMMA TaskChanges ==
  ASSUME TasksOK, NEW t \in Tasks, NEW w, TaskOK(w), viewer' = [viewer EXCEPT ![t] = w]
  PROVE  TasksOK' /\ viewer'[t] = w /\ \A u \in Tasks \ {t} : viewer'[u] = viewer[u]
  <1>1. viewer' \in [Tasks -> TaskRecords] /\ viewer'[t] = w /\ \A u \in Tasks \ {t} : viewer'[u] = viewer[u]
    BY DEF TasksOK, TaskOK
  <1>2. \A u \in Tasks : TaskOK(viewer'[u])
    BY <1>1 DEF TasksOK
  <1> QED
    BY <1>1, <1>2 DEF TasksOK

\* A walk that is disturbed is as far with its update as it was.
LEMMA DisturbedTasks ==
  ASSUME NEW vs, vs \in [Tasks -> TaskRecords], \A t \in Tasks : TaskOK(vs[t]), viewer' = Disturbed(vs)
  PROVE  TasksOK' /\ \A t \in Tasks : AsBefore(vs[t], viewer'[t])
  <1>1. ASSUME NEW t \in Tasks
        PROVE  /\ viewer'[t] \in TaskRecords /\ TaskOK(viewer'[t]) /\ AsBefore(vs[t], viewer'[t])
    <2>1. viewer'[t] = IF Walks(vs[t]) THEN [vs[t] EXCEPT !.disturbed = TRUE] ELSE vs[t]
      BY DEF Disturbed
    <2>2. PICK v \in TaskRecords : v = vs[t] /\ TaskOK(v)
      OBVIOUS
    <2>3. PICK w \in TaskRecords : w = [v EXCEPT !.disturbed = TRUE]
      BY DEF TaskRecords
    <2>4. w.op = v.op /\ w.id = v.id /\ w.name = v.name /\ w.source = v.source
      BY <2>2, <2>3 DEF TaskRecords
    <2>5. TaskOK(w) /\ AsBefore(v, w) /\ AsBefore(v, v)
      BY <2>2, <2>4 DEF TaskOK, AsBefore
    <2>6. viewer'[t] = v \/ viewer'[t] = w
      BY <2>1, <2>2, <2>3
    <2> QED
      BY <2>2, <2>5, <2>6
  <1>2. viewer' \in [Tasks -> TaskRecords]
    <2>1. viewer' = [t \in Tasks |-> IF Walks(vs[t]) THEN [vs[t] EXCEPT !.disturbed = TRUE] ELSE vs[t]]
      BY DEF Disturbed
    <2> QED
      BY <1>1, <2>1
  <1> QED
    BY <1>1, <1>2 DEF TasksOK

\* An id whose updates a step leaves alone.
LEMMA UpdatedElsewhere ==
  ASSUME TasksOK, TasksOK', NEW id \in Ids, NEW s, UpdatedBy(id, s), active'[id] = active[id],
         \A t \in Tasks :
            \/ AsBefore(viewer[t], viewer'[t])
            \/ /\ viewer[t].op \in Stages => viewer[t].id # id
               /\ viewer'[t].op \in Stages => viewer'[t].id # id
  PROVE  UpdatedBy(id, s)'
  <1>1. ASSUME NEW t \in Tasks
        PROVE  /\ t \in Updating(id)' <=> t \in Updating(id)
               /\ t \in Updating(id) => viewer'[t].op = viewer[t].op /\ viewer'[t].source = viewer[t].source
    BY DEF Updating, AsBefore, Stages
  <1>2. Updating(id)' \subseteq Tasks /\ Updating(id) \subseteq Tasks
    BY DEF Updating
  <1>3. Updating(id)' = Updating(id)
    BY <1>1, <1>2
  <1> QED
    BY <1>1, <1>2, <1>3 DEF UpdatedBy

\* A step that neither begins nor ends an update, and leaves the dict and the engine alone.
LEMMA DashboardQuiet ==
  ASSUME DashboardIndInv, UNCHANGED dataVars, TasksOK', AxesAreListed',
         \A t \in Tasks : AsBefore(viewer[t], viewer'[t])
  PROVE  DashboardIndInv'
  <1>1. entries' = entries /\ active' = active /\ torn' = torn
    BY DEF dataVars
  <1>2. EngineOK' /\ DictOK'
    BY <1>1 DEF DashboardIndInv, EngineOK, DictOK, ListedIds
  <1>3. UpdatesOK'
    <2> SUFFICES ASSUME NEW id \in Ids, NEW s \in Sources, Tells(id, s)', id \notin torn'
                 PROVE  UpdatedBy(id, s)'
      BY DEF UpdatesOK
    <2>1. Tells(id, s) /\ id \notin torn
      BY <1>1 DEF Tells
    <2>2. UpdatedBy(id, s) /\ TasksOK
      BY <2>1 DEF DashboardIndInv, UpdatesOK
    <2> QED
      BY <1>1, <2>2, UpdatedElsewhere
  <1> QED
    BY <1>2, <1>3 DEF DashboardIndInv

LEMMA PlaceOf ==
  ASSUME NEW n \in Listed
  PROVE  Place(n) \in DOMAIN entries /\ entries[Place(n)].name = n
  BY DEF Listed, Place

LEMMA TaskGoesOnAs ==
  ASSUME TasksOK, NEW t \in Tasks, NEW w, TaskOK(w),
         viewer' = [viewer EXCEPT ![t] = w] \/ viewer' = Disturbed([viewer EXCEPT ![t] = w])
  PROVE  /\ TasksOK' /\ AsBefore(w, viewer'[t])
         /\ \A u \in Tasks \ {t} : AsBefore(viewer[u], viewer'[u])
  <1> DEFINE vs == [viewer EXCEPT ![t] = w]
  <1>1. /\ vs \in [Tasks -> TaskRecords] /\ vs[t] = w
        /\ \A u \in Tasks \ {t} : vs[u] = viewer[u]
        /\ \A u \in Tasks : TaskOK(vs[u])
    BY DEF TasksOK, TaskOK
  <1>2. CASE viewer' = vs
    BY <1>1, <1>2 DEF TasksOK, AsBefore
  <1> HIDE DEF vs
  <1>3. CASE viewer' = Disturbed(vs)
    BY <1>1, <1>3, DisturbedTasks
  <1> QED
    BY <1>2, <1>3 DEF vs

\* A task at rest, or on a walk, goes on to another such stage.
LEMMA DashboardStops ==
  ASSUME DashboardIndInv, UNCHANGED dataVars, AxesAreListed', NEW t \in Tasks, NEW w, TaskOK(w),
         viewer[t].op \notin Stages, w.op \notin Stages, viewer' = [viewer EXCEPT ![t] = w]
  PROVE  DashboardIndInv'
  <1>1. /\ TasksOK' /\ AsBefore(w, viewer'[t])
        /\ \A u \in Tasks \ {t} : AsBefore(viewer[u], viewer'[u])
    BY TaskGoesOnAs DEF DashboardIndInv
  <1>2. viewer'[t].op \notin Stages
    BY <1>1 DEF AsBefore
  <1>3. \A u \in Tasks : AsBefore(viewer[u], viewer'[u])
    BY <1>1, <1>2 DEF AsBefore
  <1> QED
    BY <1>1, <1>3, DashboardQuiet

LEMMA FinishedTask ==
  ASSUME NEW t
  PROVE  TaskOK(Finished(t)) /\ Finished(t).op \notin Stages
  <1>1. \E op \in {"idle", "sleep"} : Finished(t) = At(op)
    BY DEF Finished
  <1>2. {"idle", "sleep"} \subseteq Operations \ (Stages \cup {"add"})
    BY DEF Operations, Stages
  <1>3. PICK op \in {"idle", "sleep"} : Finished(t) = At(op)
    BY <1>1
  <1>4. op \in Operations \ (Stages \cup {"add"})
    BY <1>2
  <1>5. TaskOK(At(op)) /\ At(op).op = op
    BY <1>4, StoppedTask
  <1> QED
    BY <1>3, <1>4, <1>5

LEMMA WalkingTask ==
  ASSUME DictOK, NEW op \in {"refresh", "render"}
  PROVE  TaskOK(Walking(op)) /\ Walking(op).op \notin Stages
  <1>1. op \in Operations \ (Stages \cup {"add"}) /\ Len(entries) \in Nat
    BY LenProperties DEF Operations, Stages, DictOK
  <1>2. PICK v \in TaskRecords : v = At(op) /\ v.op = op /\ TaskOK(v)
    BY <1>1, StoppedTask
  <1>3. Walking(op) = [v EXCEPT !.within = (op = "refresh"), !.size = Len(entries)]
    BY <1>2 DEF Walking
  <1>4. (op = "refresh") \in BOOLEAN
    OBVIOUS
  <1>5. PICK w \in TaskRecords : w = Walking(op) /\ w.op = op /\ w.id = v.id
    <2> DEFINE b == (op = "refresh")
    <2>1. b \in BOOLEAN /\ Walking(op) = [v EXCEPT !.within = b, !.size = Len(entries)]
      BY <1>3, <1>4
    <2> HIDE DEF b
    <2>2. [v EXCEPT !.within = b, !.size = Len(entries)] \in TaskRecords
      BY <1>1, <2>1 DEF TaskRecords
    <2>3. /\ [v EXCEPT !.within = b, !.size = Len(entries)].op = v.op
          /\ [v EXCEPT !.within = b, !.size = Len(entries)].id = v.id
      BY DEF TaskRecords
    <2> QED
      BY <1>2, <2>1, <2>2, <2>3
  <1> QED
    BY <1>1, <1>2, <1>5 DEF TaskOK, Stages

\* The other entries keep what they stand for.
LEMMA EntryRemoved ==
  ASSUME DashboardIndInv, NEW t \in Tasks, NEW n, RemoveEntry(t, n)
  PROVE  DashboardIndInv'
  <1>0. TasksOK /\ EngineOK /\ DictOK /\ UpdatesOK /\ AxesAreListed
    BY DEF DashboardIndInv
  <1>1. PICK p \in 1 .. Len(entries) : p = Place(n) /\ entries[p].name = n
    BY <1>0, PlaceOf, LenProperties DEF RemoveEntry, DictOK
  <1>2. /\ Len(entries) \in Nat /\ DOMAIN entries = 1 .. Len(entries)
        /\ \A i \in DOMAIN entries : entries[i] \in EntryRecords
    BY <1>0, LenProperties, ElementOfSeq DEF DictOK
  <1>3. PICK gone \in Ids : gone = entries[p].id
    BY <1>2 DEF EntryRecords
  <1>4. /\ active' = [i \in DOMAIN active \cap (DOMAIN active \ {gone}) |-> active[i]]
        /\ entries' = RemoveAt(entries, p) /\ axes' = axes \ {n}
        /\ viewer' = Disturbed(viewer) /\ torn' = torn \ {gone}
    BY <1>1, <1>3 DEF RemoveEntry, EngineKeeps, Entry
  <1>5. /\ entries' \in Seq(EntryRecords) /\ Len(entries') = Len(entries) - 1
        /\ DOMAIN entries' = 1 .. Len(entries) - 1
        /\ \A j \in 1 .. Len(entries) - 1 : entries'[j] = IF j < p THEN entries[j] ELSE entries[j + 1]
    <2>1. /\ entries' \in Seq(EntryRecords) /\ Len(entries') = Len(entries) - 1
          /\ \A j \in 1 .. Len(entries) - 1 : entries'[j] = IF j < p THEN entries[j] ELSE entries[j + 1]
      BY <1>0, <1>4, RemovedAt DEF DictOK
    <2> QED
      BY <2>1, LenProperties
  <1> DEFINE Old(j) == IF j < p THEN j ELSE j + 1
  <1>6. \A j \in DOMAIN entries' : Old(j) \in DOMAIN entries \ {p} /\ entries'[j] = entries[Old(j)]
    BY <1>2, <1>5
  <1>7. \A i, j \in DOMAIN entries' : Old(i) = Old(j) => i = j
    BY <1>2, <1>5
  <1>8. \A k \in DOMAIN entries \ {p} : \E j \in DOMAIN entries' : k = Old(j)
    <2> SUFFICES ASSUME NEW k \in DOMAIN entries \ {p} PROVE \E j \in DOMAIN entries' : k = Old(j)
      OBVIOUS
    <2>1. CASE k < p
      BY <1>2, <1>5, <2>1
    <2>2. CASE ~(k < p)
      <3>1. k - 1 \in DOMAIN entries' /\ ~(k - 1 < p) /\ (k - 1) + 1 = k
        BY <1>2, <1>5, <2>2
      <3> QED
        BY <3>1
    <2> QED
      BY <2>1, <2>2
  <1> HIDE DEF Old
  <1>9. DictOK'
    <2>1. ASSUME NEW i \in DOMAIN entries', NEW j \in DOMAIN entries',
                 entries'[i].name = entries'[j].name \/ entries'[i].id = entries'[j].id
          PROVE  i = j
      <3>1. Old(i) = Old(j)
        BY <1>0, <1>6, <2>1 DEF DictOK
      <3> QED
        BY <1>7, <3>1
    <2>2. ASSUME NEW j \in DOMAIN entries' PROVE entries'[j].id \in DOMAIN active'
      <3>1. entries'[j].id \in DOMAIN active /\ entries'[j].id # gone
        BY <1>0, <1>1, <1>2, <1>3, <1>6 DEF DictOK, ListedIds
      <3> QED
        BY <1>4, <3>1
    <2> QED
      BY <1>5, <2>1, <2>2 DEF DictOK, ListedIds
  <1>10. EngineOK'
    BY <1>0, <1>4 DEF EngineOK
  <1>11. TasksOK' /\ \A u \in Tasks : AsBefore(viewer[u], viewer'[u])
    BY <1>0, <1>4, DisturbedTasks DEF TasksOK
  <1>12. UpdatesOK'
    <2> SUFFICES ASSUME NEW id \in Ids, NEW s \in Sources, Tells(id, s)', id \notin torn'
                 PROVE  UpdatedBy(id, s)'
      BY DEF UpdatesOK
    <2>1. PICK j \in DOMAIN entries' : entries'[j].id = id /\ entries'[j].source = s
      BY DEF Tells
    <2>2. Tells(id, s) /\ id # gone /\ id \in DOMAIN active
      BY <1>0, <1>1, <1>2, <1>3, <1>6, <2>1 DEF Tells, DictOK, ListedIds
    <2>3. UpdatedBy(id, s) /\ active'[id] = active[id]
      BY <1>0, <1>4, <2>2 DEF UpdatesOK
    <2> QED
      BY <1>0, <1>11, <2>3, UpdatedElsewhere
  <1>13. AxesAreListed'
    <2> SUFFICES ASSUME NEW m \in axes' PROVE m \in Listed'
      BY DEF AxesAreListed
    <2>1. m \in Listed /\ m # n
      BY <1>0, <1>4 DEF AxesAreListed
    <2>2. PICK k \in DOMAIN entries \ {p} : entries[k].name = m
      BY <1>1, <2>1 DEF Listed
    <2>3. PICK j \in DOMAIN entries' : k = Old(j)
      BY <1>8
    <2>4. entries'[j].name = m
      BY <1>6, <2>2, <2>3
    <2> QED
      BY <2>4 DEF Listed
  <1> QED
    BY <1>9, <1>10, <1>11, <1>12, <1>13 DEF DashboardIndInv

\* The dict with an entry that was not in it, or in the place of the one with its name.
LEMMA EntryListed ==
  ASSUME DictOK, NEW e \in EntryRecords, e.id \notin ListedIds, entries' = Listing(e.name, e.id, e.source)
  PROVE  /\ entries' \in Seq(EntryRecords) /\ Listed \subseteq Listed'
         /\ \A i \in DOMAIN entries' :
               entries'[i] = e \/ (i \in DOMAIN entries /\ entries'[i] = entries[i] /\ entries[i].name # e.name)
         /\ \A i, j \in DOMAIN entries' :
               entries'[i].name = entries'[j].name \/ entries'[i].id = entries'[j].id => i = j
  <1>1. /\ Len(entries) \in Nat /\ DOMAIN entries = 1 .. Len(entries)
        /\ \A i \in DOMAIN entries : entries[i] \in EntryRecords
    BY LenProperties, ElementOfSeq DEF DictOK
  <1>2. [name |-> e.name, id |-> e.id, source |-> e.source] = e
    BY DEF EntryRecords
  <1>3. CASE e.name \in Listed
    <2>1. entries' = [i \in DOMAIN entries |-> IF entries[i].name = e.name THEN e ELSE entries[i]]
      BY <1>2, <1>3 DEF Listing
    <2>2. /\ DOMAIN entries' = DOMAIN entries
          /\ \A i \in DOMAIN entries : entries'[i] = IF entries[i].name = e.name THEN e ELSE entries[i]
      BY <2>1
    <2>3. entries' \in [1 .. Len(entries) -> EntryRecords]
      BY <1>1, <2>1
    <2>4. entries' \in Seq(EntryRecords)
      BY <1>1, <2>3, SeqDef
    <2>5. \A i \in DOMAIN entries : entries'[i].name = entries[i].name
      BY <2>2
    <2>6. Listed \subseteq Listed'
      <3> SUFFICES ASSUME NEW m \in Listed PROVE m \in Listed'
        OBVIOUS
      <3>1. PICK i \in DOMAIN entries : m = entries[i].name
        BY DEF Listed
      <3>2. i \in DOMAIN entries' /\ entries'[i].name = m
        BY <2>2, <2>5, <3>1
      <3> QED
        BY <3>2 DEF Listed
    <2>7. ASSUME NEW i \in DOMAIN entries', NEW j \in DOMAIN entries',
                 entries'[i].name = entries'[j].name \/ entries'[i].id = entries'[j].id
          PROVE  i = j
      <3>1. i \in DOMAIN entries /\ j \in DOMAIN entries
        BY <2>2
      <3>2. entries[i].id # e.id /\ entries[j].id # e.id
        BY <3>1 DEF ListedIds
      <3>3. entries[i].name = entries[j].name \/ entries[i].id = entries[j].id
        BY <2>2, <2>5, <2>7, <3>1, <3>2
      <3> QED
        BY <3>1, <3>3 DEF DictOK
    <2> QED
      BY <2>2, <2>4, <2>6, <2>7
  <1>4. CASE e.name \notin Listed
    <2>1. entries' = Append(entries, e)
      BY <1>2, <1>4 DEF Listing
    <2>2. /\ entries' \in Seq(EntryRecords) /\ Len(entries') = Len(entries) + 1
          /\ \A i \in 1 .. Len(entries) : entries'[i] = entries[i]
          /\ entries'[Len(entries) + 1] = e
      BY <2>1, AppendProperties DEF DictOK
    <2>3. DOMAIN entries' = 1 .. Len(entries) + 1
      BY <2>2, LenProperties
    <2>4. \A i \in DOMAIN entries' : i \in DOMAIN entries \/ i = Len(entries) + 1
      BY <1>1, <2>3
    <2>5. \A i \in DOMAIN entries : entries[i].name # e.name /\ entries[i].id # e.id /\ entries'[i] = entries[i]
      BY <1>1, <1>4, <2>2 DEF Listed, ListedIds
    <2>6. Listed \subseteq Listed'
      <3>1. DOMAIN entries \subseteq DOMAIN entries'
        BY <1>1, <2>3
      <3> QED
        BY <2>5, <3>1 DEF Listed
    <2>7. ASSUME NEW i \in DOMAIN entries', NEW j \in DOMAIN entries',
                 entries'[i].name = entries'[j].name \/ entries'[i].id = entries'[j].id
          PROVE  i = j
      <3>1. CASE i \in DOMAIN entries /\ j \in DOMAIN entries
        BY <2>5, <2>7, <3>1 DEF DictOK
      <3>2. CASE i = Len(entries) + 1 /\ j = Len(entries) + 1
        BY <3>2
      <3>3. CASE i \in DOMAIN entries /\ j = Len(entries) + 1
        BY <2>2, <2>5, <2>7, <3>3
      <3>4. CASE i = Len(entries) + 1 /\ j \in DOMAIN entries
        BY <2>2, <2>5, <2>7, <3>4
      <3> QED
        BY <2>4, <3>1, <3>2, <3>3, <3>4
    <2> QED
      BY <2>2, <2>4, <2>5, <2>6, <2>7
  <1> QED
    BY <1>3, <1>4

LEMMA EntryAdded ==
  ASSUME DashboardIndInv, NEW t \in Tasks, AddEnds(t)
  PROVE  DashboardIndInv'
  <1>0. TasksOK /\ EngineOK /\ DictOK /\ UpdatesOK /\ AxesAreListed
    BY DEF DashboardIndInv
  <1>1. PICK v \in TaskRecords : v = viewer[t] /\ v.op = "add" /\ v.name \in Names /\ v.source \in Sources
    BY <1>0 DEF AddEnds, TasksOK, TaskOK
  <1>2. PICK id \in Free :
          /\ active' = [i \in DOMAIN active \cup {id} |->
                 IF i = id THEN [source |-> v.source, data |-> v.source] ELSE active[i]]
          /\ entries' = Listing(v.name, id, v.source)
          /\ torn' = torn \ {id}
    BY <1>1 DEF AddEnds
  <1>3. id \in Ids /\ id \notin DOMAIN active /\ \A u \in Tasks : viewer[u].id # id
    BY DEF Free
  <1>4. PICK e \in EntryRecords : e.name = v.name /\ e.id = id /\ e.source = v.source
    <2>1. [name |-> v.name, id |-> id, source |-> v.source] \in EntryRecords
      BY <1>1, <1>3 DEF EntryRecords
    <2> QED
      BY <2>1
  <1>5. e.id \notin ListedIds
    BY <1>0, <1>3, <1>4 DEF DictOK
  <1>6. /\ entries' \in Seq(EntryRecords) /\ Listed \subseteq Listed'
        /\ \A i \in DOMAIN entries' :
              entries'[i] = e \/ (i \in DOMAIN entries /\ entries'[i] = entries[i] /\ entries[i].name # e.name)
        /\ \A i, j \in DOMAIN entries' :
              entries'[i].name = entries'[j].name \/ entries'[i].id = entries'[j].id => i = j
    BY <1>0, <1>2, <1>4, <1>5, EntryListed
  <1>7. /\ DOMAIN active' = DOMAIN active \cup {id}
        /\ active'[id].source = v.source /\ active'[id].data = v.source
        /\ \A i \in DOMAIN active : active'[i] = active[i]
    BY <1>2, <1>3
  <1>8. EngineOK'
    <2>1. [source |-> v.source, data |-> v.source] \in ShownRecords
      BY <1>1 DEF ShownRecords
    <2> QED
      BY <1>0, <1>2, <1>3, <2>1 DEF EngineOK
  <1>9. DictOK'
    <2>1. \A i \in DOMAIN entries' : entries'[i].id \in DOMAIN active'
      BY <1>0, <1>4, <1>6, <1>7 DEF DictOK, ListedIds
    <2> QED
      BY <1>6, <2>1 DEF DictOK, ListedIds
  <1>10. /\ TasksOK' /\ viewer'[t].op \notin Stages
         /\ \A u \in Tasks \ {t} : AsBefore(viewer[u], viewer'[u])
    <2>1. TaskOK(At("idle")) /\ At("idle").op = "idle" /\ "idle" \notin Stages
      BY StoppedTask DEF Operations, Stages
    <2>2. \/ viewer' = [viewer EXCEPT ![t] = At("idle")]
          \/ viewer' = Disturbed([viewer EXCEPT ![t] = At("idle")])
      BY DEF AddEnds
    <2> QED
      BY <1>0, <2>1, <2>2, TaskGoesOnAs DEF AsBefore
  <1>11. UpdatesOK'
    <2> SUFFICES ASSUME NEW k \in Ids, NEW s \in Sources, Tells(k, s)', k \notin torn'
                 PROVE  UpdatedBy(k, s)'
      BY DEF UpdatesOK
    <2>1. PICK i \in DOMAIN entries' : entries'[i].id = k /\ entries'[i].source = s
      BY DEF Tells
    <2>2. CASE k = id
      <3>1. s = v.source
        BY <1>4, <1>5, <1>6, <2>1, <2>2 DEF ListedIds
      <3>2. Updating(k)' = {}
        BY <1>3, <1>10, <2>2 DEF Updating, AsBefore, Stages
      <3> QED
        BY <1>7, <2>2, <3>1, <3>2 DEF UpdatedBy
    <2>3. CASE k # id
      <3>1. Tells(k, s) /\ k \notin torn /\ k \in DOMAIN active
        BY <1>0, <1>2, <1>4, <1>6, <2>1, <2>3 DEF Tells, DictOK, ListedIds
      <3>2. UpdatedBy(k, s) /\ active'[k] = active[k]
        BY <1>0, <1>7, <3>1 DEF UpdatesOK
      <3>3. viewer[t].op \notin Stages
        BY <1>1 DEF Stages
      <3> QED
        BY <1>0, <1>10, <3>2, <3>3, UpdatedElsewhere
    <2> QED
      BY <2>2, <2>3
  <1>12. AxesAreListed'
    BY <1>0, <1>6 DEF AddEnds, figureVars, AxesAreListed
  <1> QED
    BY <1>8, <1>9, <1>10, <1>11, <1>12 DEF DashboardIndInv

\* An update begins: by itself it is the only one, another one tears what is shown.
LEMMA UpdateBegun ==
  ASSUME DashboardIndInv, NEW t \in Tasks, viewer[t].op \notin Stages \cup {"add"},
         NEW p \in DOMAIN entries, NEW s \in Sources, Updates(t, entries[p], s, viewer[t]),
         UNCHANGED <<entries, axes>>
  PROVE  DashboardIndInv'
  <1>0. TasksOK /\ EngineOK /\ DictOK /\ UpdatesOK /\ AxesAreListed
    BY DEF DashboardIndInv
  <1>1. PICK e \in EntryRecords : e = entries[p]
    BY <1>0, ElementOfSeq, LenProperties DEF DictOK
  <1>2. PICK id \in Ids : id = e.id /\ id \in DOMAIN active
    BY <1>0, <1>1 DEF DictOK, ListedIds, EntryRecords
  <1>3. PICK v \in TaskRecords : v = viewer[t]
    BY <1>0 DEF TasksOK
  <1>4. PICK w \in TaskRecords :
          /\ w.op = "update" /\ w.id = id /\ w.source = s
          /\ viewer' = [viewer EXCEPT ![t] = w]
    <2> DEFINE m == IF v.within THEN e.name ELSE Null
               w == [v EXCEPT !.op = "update", !.id = id, !.source = s, !.name = m]
    <2>1. m \in Names \cup {Null} /\ "update" \in Operations
      BY DEF EntryRecords, Operations
    <2>2. viewer' = [viewer EXCEPT ![t] = w]
      BY <1>1, <1>2, <1>3 DEF Updates
    <2> HIDE DEF m
    <2>3. w \in TaskRecords /\ w.op = "update" /\ w.id = id /\ w.source = s
      BY <2>1 DEF TaskRecords
    <2> QED
      BY <2>2, <2>3
  <1>5. TaskOK(w) /\ w.op \in Stages
    BY <1>4 DEF TaskOK, Stages
  <1>6. TasksOK' /\ viewer'[t] = w /\ \A u \in Tasks \ {t} : viewer'[u] = viewer[u]
    BY <1>0, <1>4, <1>5, TaskChanges
  <1>7. /\ active' = [active EXCEPT ![id].source = s]
        /\ torn' = IF Updating(id) = {} THEN torn \ {id} ELSE torn \cup {id}
    BY <1>1, <1>2 DEF Updates
  <1>8. /\ DOMAIN active' = DOMAIN active /\ active'[id].source = s
        /\ \A i \in DOMAIN active \ {id} : active'[i] = active[i]
        /\ active' \in [DOMAIN active -> ShownRecords]
    <2>1. PICK a \in ShownRecords : a = active[id]
      BY <1>0, <1>2 DEF EngineOK
    <2>2. PICK b \in ShownRecords : b = [a EXCEPT !.source = s] /\ b.source = s
      <3>1. [a EXCEPT !.source = s] \in ShownRecords /\ [a EXCEPT !.source = s].source = s
        BY DEF ShownRecords
      <3> QED
        BY <3>1
    <2>3. active' = [active EXCEPT ![id] = b]
      BY <1>7, <2>1, <2>2
    <2> QED
      BY <1>0, <1>2, <2>2, <2>3 DEF EngineOK
  <1>9. EngineOK' /\ DictOK' /\ AxesAreListed'
    <2>1. entries' = entries /\ axes' = axes
      OBVIOUS
    <2> QED
      BY <1>0, <1>8, <2>1 DEF EngineOK, DictOK, ListedIds, AxesAreListed, Listed
  <1>10. UpdatesOK'
    <2> SUFFICES ASSUME NEW k \in Ids, NEW r \in Sources, Tells(k, r)', k \notin torn'
                 PROVE  UpdatedBy(k, r)'
      BY DEF UpdatesOK
    <2>1. Tells(k, r) /\ k \in DOMAIN active
      BY <1>0 DEF Tells, DictOK, ListedIds
    <2>2. CASE k = id
      <3>1. Updating(id) = {}
        BY <1>7, <2>2
      <3>2. Updating(k)' = {t}
        <4>1. t \in Updating(k)'
          BY <1>4, <1>6, <2>2 DEF Updating
        <4>2. \A u \in Updating(k)' : u = t
          BY <1>6, <2>2, <3>1 DEF Updating
        <4> QED
          BY <4>1, <4>2
      <3> QED
        BY <1>4, <1>6, <1>8, <2>2, <3>2 DEF UpdatedBy
    <2>3. CASE k # id
      <3>1. UpdatedBy(k, r) /\ active'[k] = active[k]
        BY <1>0, <1>7, <1>8, <2>1, <2>3 DEF UpdatesOK
      <3>2. viewer[t].op \notin Stages /\ viewer'[t].id # k
        BY <1>4, <1>6, <2>3
      <3>3. \A u \in Tasks \ {t} : AsBefore(viewer[u], viewer'[u])
        BY <1>6 DEF AsBefore
      <3> QED
        BY <1>0, <1>6, <3>1, <3>2, <3>3, UpdatedElsewhere
    <2> QED
      BY <2>2, <2>3
  <1> QED
    BY <1>6, <1>9, <1>10 DEF DashboardIndInv

\* The data are in the engine: they are what the task's source says.
LEMMA DataAreLoaded ==
  ASSUME DashboardIndInv, NEW t \in Tasks, DataLoaded(t)
  PROVE  DashboardIndInv'
  <1>0. TasksOK /\ EngineOK /\ DictOK /\ UpdatesOK /\ AxesAreListed
    BY DEF DashboardIndInv
  <1>1. PICK v \in TaskRecords :
          v = viewer[t] /\ v.op = "update" /\ v.id \in Ids /\ v.source \in Sources
    BY <1>0 DEF DataLoaded, TasksOK, TaskOK, Stages
  <1>2. PICK w \in TaskRecords :
          /\ w.op = "told" /\ w.id = v.id /\ w.source = v.source
          /\ viewer' = [viewer EXCEPT ![t] = w]
    <2> DEFINE w == [v EXCEPT !.op = "told"]
    <2>1. viewer' = [viewer EXCEPT ![t] = w]
      BY <1>1 DEF DataLoaded
    <2>2. w \in TaskRecords /\ w.op = "told" /\ w.id = v.id /\ w.source = v.source
      BY DEF TaskRecords, Operations
    <2> QED
      BY <2>1, <2>2
  <1>3. TaskOK(w)
    BY <1>1, <1>2 DEF TaskOK, Stages
  <1>4. TasksOK' /\ viewer'[t] = w /\ \A u \in Tasks \ {t} : viewer'[u] = viewer[u]
    BY <1>0, <1>2, <1>3, TaskChanges
  <1>5. /\ active' = [i \in DOMAIN active |-> IF i = v.id THEN [active[i] EXCEPT !.data = v.source] ELSE active[i]]
        /\ entries' = entries /\ torn' = torn /\ axes' = axes
    BY <1>1 DEF DataLoaded, figureVars
  <1>6. /\ DOMAIN active' = DOMAIN active
        /\ \A i \in DOMAIN active : i # v.id => active'[i] = active[i]
        /\ v.id \in DOMAIN active =>
             active'[v.id].source = active[v.id].source /\ active'[v.id].data = v.source
        /\ active' \in [DOMAIN active -> ShownRecords]
    <2>1. ASSUME NEW i \in DOMAIN active
          PROVE  LET b == [active[i] EXCEPT !.data = v.source]
                 IN b \in ShownRecords /\ b.source = active[i].source /\ b.data = v.source
      <3>1. PICK a \in ShownRecords : a = active[i]
        BY <1>0 DEF EngineOK
      <3>2. /\ [a EXCEPT !.data = v.source] \in ShownRecords
            /\ [a EXCEPT !.data = v.source].source = a.source /\ [a EXCEPT !.data = v.source].data = v.source
        BY <1>1 DEF ShownRecords
      <3> QED
        BY <3>1, <3>2
    <2>2. \A i \in DOMAIN active : active[i] \in ShownRecords
      BY <1>0 DEF EngineOK
    <2> QED
      BY <1>5, <2>1, <2>2
  <1>7. EngineOK' /\ DictOK' /\ AxesAreListed'
    BY <1>0, <1>5, <1>6 DEF EngineOK, DictOK, ListedIds, AxesAreListed, Listed
  <1>8. UpdatesOK'
    <2> SUFFICES ASSUME NEW k \in Ids, NEW s \in Sources, Tells(k, s)', k \notin torn'
                 PROVE  UpdatedBy(k, s)'
      BY DEF UpdatesOK
    <2>1. Tells(k, s) /\ k \notin torn /\ k \in DOMAIN active
      BY <1>0, <1>5 DEF Tells, DictOK, ListedIds
    <2>2. UpdatedBy(k, s)
      BY <1>0, <2>1 DEF UpdatesOK
    <2>3. CASE k = v.id
      <3>1. t \in Updating(k)
        BY <1>1, <2>3 DEF Updating
      <3>2. Updating(k) = {t} /\ active[k].source = v.source
        BY <1>1, <2>2, <3>1 DEF UpdatedBy
      <3>3. Updating(k)' = {t}
        <4>1. t \in Updating(k)'
          BY <1>2, <1>4, <2>3 DEF Updating
        <4>2. \A u \in Updating(k)' : u = t
          BY <1>4, <3>2 DEF Updating
        <4> QED
          BY <4>1, <4>2
      <3> QED
        BY <1>2, <1>4, <1>6, <2>1, <2>3, <3>2, <3>3 DEF UpdatedBy
    <2>4. CASE k # v.id
      <3>1. active'[k] = active[k]
        BY <1>6, <2>1, <2>4
      <3>2. viewer[t].id # k /\ viewer'[t].id # k
        BY <1>1, <1>2, <1>4, <2>4
      <3>3. \A u \in Tasks \ {t} : AsBefore(viewer[u], viewer'[u])
        BY <1>4 DEF AsBefore
      <3> QED
        BY <1>0, <1>4, <2>2, <3>1, <3>2, <3>3, UpdatedElsewhere
    <2> QED
      BY <2>3, <2>4
  <1> QED
    BY <1>4, <1>7, <1>8 DEF DashboardIndInv

\* The stage after an update, of a refresh or of a call.
LEMMA UpdatedTask ==
  ASSUME TasksOK, NEW t \in Tasks
  PROVE  TaskOK(Updated(t)) /\ Updated(t).op \notin Stages
  <1>1. CASE ~viewer[t].within
    BY <1>1, FinishedTask DEF Updated
  <1>2. CASE viewer[t].within
    <2>1. PICK v \in TaskRecords : v = viewer[t]
      BY DEF TasksOK
    <2>2. Updated(t) = [v EXCEPT !.op = "refresh", !.id = Null, !.source = Null]
      BY <1>2, <2>1 DEF Updated
    <2>3. /\ [v EXCEPT !.op = "refresh", !.id = Null, !.source = Null] \in TaskRecords
          /\ [v EXCEPT !.op = "refresh", !.id = Null, !.source = Null].op = "refresh"
          /\ [v EXCEPT !.op = "refresh", !.id = Null, !.source = Null].id = Null
      BY DEF TaskRecords, Operations
    <2> QED
      BY <2>2, <2>3 DEF TaskOK, Stages
  <1> QED
    BY <1>1, <1>2

\* The dashboard tells the source once the engine has it, and its data.
LEMMA UpdateEnded ==
  ASSUME DashboardIndInv, NEW t \in Tasks, UpdateEnds(t)
  PROVE  DashboardIndInv'
  <1>0. TasksOK /\ EngineOK /\ DictOK /\ UpdatesOK /\ AxesAreListed
    BY DEF DashboardIndInv
  <1>1. PICK v \in TaskRecords :
          v = viewer[t] /\ v.op = "told" /\ v.id \in Ids /\ v.source \in Sources
    BY <1>0 DEF UpdateEnds, TasksOK, TaskOK, Stages
  <1>2. PICK w : w = Updated(t) /\ TaskOK(w) /\ w.op \notin Stages
    BY <1>0, UpdatedTask
  <1>3. TasksOK' /\ viewer'[t] = w /\ \A u \in Tasks \ {t} : viewer'[u] = viewer[u]
    <2>1. viewer' = [viewer EXCEPT ![t] = w]
      BY <1>2 DEF UpdateEnds
    <2> QED
      BY <1>0, <1>2, <2>1, TaskChanges
  <1>4. /\ entries' = [i \in DOMAIN entries |->
               IF entries[i].id = v.id THEN [entries[i] EXCEPT !.source = v.source] ELSE entries[i]]
        /\ active' = active /\ torn' = torn /\ axes' = axes
    BY <1>1 DEF UpdateEnds, figureVars
  <1>5. /\ Len(entries) \in Nat /\ DOMAIN entries = 1 .. Len(entries)
        /\ \A i \in DOMAIN entries : entries[i] \in EntryRecords
    BY <1>0, LenProperties, ElementOfSeq DEF DictOK
  <1>6. ASSUME NEW i \in DOMAIN entries
        PROVE  /\ entries'[i] \in EntryRecords
               /\ entries'[i].name = entries[i].name /\ entries'[i].id = entries[i].id
               /\ entries'[i].source = IF entries[i].id = v.id THEN v.source ELSE entries[i].source
    <2>1. PICK e \in EntryRecords : e = entries[i]
      BY <1>5
    <2>2. /\ [e EXCEPT !.source = v.source] \in EntryRecords
          /\ [e EXCEPT !.source = v.source].name = e.name /\ [e EXCEPT !.source = v.source].id = e.id
          /\ [e EXCEPT !.source = v.source].source = v.source
      BY <1>1 DEF EntryRecords
    <2>3. entries'[i] = IF e.id = v.id THEN [e EXCEPT !.source = v.source] ELSE e
      BY <1>4, <2>1
    <2> QED
      BY <2>1, <2>2, <2>3
  <1>7. DOMAIN entries' = DOMAIN entries
    BY <1>4
  <1>8. DictOK' /\ Listed' = Listed
    <2>1. entries' \in [1 .. Len(entries) -> EntryRecords]
      BY <1>4, <1>5, <1>6
    <2>2. entries' \in Seq(EntryRecords)
      BY <1>5, <2>1, SeqDef
    <2>3. Listed' = Listed /\ ListedIds' = ListedIds
      BY <1>6, <1>7 DEF Listed, ListedIds
    <2>4. ASSUME NEW i \in DOMAIN entries', NEW j \in DOMAIN entries',
                 entries'[i].name = entries'[j].name \/ entries'[i].id = entries'[j].id
          PROVE  i = j
      <3>1. entries[i].name = entries[j].name \/ entries[i].id = entries[j].id
        BY <1>6, <1>7, <2>4
      <3> QED
        BY <1>0, <1>7, <3>1 DEF DictOK
    <2> QED
      BY <1>0, <1>4, <2>2, <2>3, <2>4 DEF DictOK
  <1>9. EngineOK' /\ AxesAreListed'
    BY <1>0, <1>4, <1>8 DEF EngineOK, AxesAreListed
  <1>10. UpdatesOK'
    <2> SUFFICES ASSUME NEW k \in Ids, NEW s \in Sources, Tells(k, s)', k \notin torn'
                 PROVE  UpdatedBy(k, s)'
      BY DEF UpdatesOK
    <2>1. PICK i \in DOMAIN entries : entries'[i].id = k /\ entries'[i].source = s
      BY <1>7 DEF Tells
    <2>2. CASE k = v.id
      <3>1. s = v.source
        BY <1>6, <2>1, <2>2
      <3>2. PICK r \in Sources : Tells(k, r)
        BY <1>5, <1>6, <2>1 DEF Tells, EntryRecords
      <3>3. UpdatedBy(k, r)
        BY <1>0, <1>4, <3>2 DEF UpdatesOK
      <3>4. t \in Updating(k)
        BY <1>1, <2>2 DEF Updating
      <3>5. active[k].source = v.source /\ active[k].data = v.source /\ \A u \in Updating(k) : u = t
        BY <1>1, <3>3, <3>4 DEF UpdatedBy
      <3>6. Updating(k)' = {}
        <4>1. \A u \in Tasks \ {t} : ~(u \in Updating(k)')
          BY <1>3, <3>5 DEF Updating
        <4>2. ~(t \in Updating(k)')
          BY <1>2, <1>3 DEF Updating, Stages
        <4> QED
          BY <4>1, <4>2 DEF Updating
      <3> QED
        BY <1>4, <3>1, <3>5, <3>6 DEF UpdatedBy
    <2>3. CASE k # v.id
      <3>1. Tells(k, s)
        BY <1>6, <2>1, <2>3 DEF Tells
      <3>2. UpdatedBy(k, s) /\ active'[k] = active[k]
        BY <1>0, <1>4, <3>1 DEF UpdatesOK
      <3>3. viewer[t].id # k /\ viewer'[t].op \notin Stages
        BY <1>1, <1>2, <1>3, <2>3
      <3>4. \A u \in Tasks \ {t} : AsBefore(viewer[u], viewer'[u])
        BY <1>3 DEF AsBefore
      <3> QED
        BY <1>0, <1>3, <3>2, <3>3, <3>4, UpdatedElsewhere
    <2> QED
      BY <2>2, <2>3
  <1> QED
    BY <1>3, <1>8, <1>9, <1>10 DEF DashboardIndInv

\* An update is given up: what it was for is torn, if the engine still has it.
LEMMA UpdateTorn ==
  ASSUME DashboardIndInv, NEW t \in Tasks, TasksOK', viewer'[t].op \notin Stages, Tears(viewer[t].id),
         \A u \in Tasks \ {t} : AsBefore(viewer[u], viewer'[u]), UNCHANGED <<entries, active, axes>>
  PROVE  DashboardIndInv'
  <1>0. TasksOK /\ EngineOK /\ DictOK /\ UpdatesOK /\ AxesAreListed
    BY DEF DashboardIndInv
  <1>1. /\ entries' = entries /\ active' = active /\ axes' = axes
        /\ torn' = torn \cup ({viewer[t].id} \cap DOMAIN active)
    BY DEF Tears
  <1>2. EngineOK' /\ DictOK' /\ AxesAreListed'
    BY <1>0, <1>1 DEF EngineOK, DictOK, ListedIds, AxesAreListed, Listed
  <1>3. UpdatesOK'
    <2> SUFFICES ASSUME NEW k \in Ids, NEW s \in Sources, Tells(k, s)', k \notin torn'
                 PROVE  UpdatedBy(k, s)'
      BY DEF UpdatesOK
    <2>1. Tells(k, s) /\ k \notin torn /\ k \in DOMAIN active /\ viewer[t].id # k
      BY <1>0, <1>1 DEF Tells, DictOK, ListedIds
    <2>2. UpdatedBy(k, s) /\ active'[k] = active[k]
      BY <1>0, <1>1, <2>1 DEF UpdatesOK
    <2> QED
      BY <1>0, <2>1, <2>2, UpdatedElsewhere
  <1> QED
    BY <1>2, <1>3 DEF DashboardIndInv

LEMMA UpdateGivenUp ==
  ASSUME DashboardIndInv, NEW t \in Tasks, UpdateFails(t)
  PROVE  DashboardIndInv'
  <1>1. TaskOK(Updated(t)) /\ Updated(t).op \notin Stages /\ TasksOK
    BY UpdatedTask DEF DashboardIndInv
  <1>2. PICK w : w = Updated(t) /\ viewer' = [viewer EXCEPT ![t] = w]
    BY DEF UpdateFails
  <1>3. TasksOK' /\ viewer'[t] = w /\ \A u \in Tasks \ {t} : viewer'[u] = viewer[u]
    BY <1>1, <1>2, TaskChanges
  <1>4. \A u \in Tasks \ {t} : AsBefore(viewer[u], viewer'[u])
    BY <1>3 DEF AsBefore
  <1>5. Tears(viewer[t].id) /\ UNCHANGED <<entries, active, axes>>
    BY DEF UpdateFails, figureVars
  <1> QED
    BY <1>1, <1>2, <1>3, <1>4, <1>5, UpdateTorn

LEMMA LoopCancelled == DashboardIndInv /\ LoopEnds => DashboardIndInv'
  <1> SUFFICES ASSUME DashboardIndInv, LoopEnds PROVE DashboardIndInv'
    OBVIOUS
  <1>1. TasksOK /\ Loop \in Tasks
    BY DEF DashboardIndInv, Tasks
  <1>2. TaskOK(At("off")) /\ At("off") \in TaskRecords /\ At("off").op = "off" /\ "off" \notin Stages
    BY StoppedTask DEF Operations, Stages
  <1>3. ASSUME NEW u \in Tasks \ {Loop}
        PROVE  viewer'[u] \in TaskRecords /\ TaskOK(viewer'[u]) /\ AsBefore(viewer[u], viewer'[u])
    <2>1. PICK v \in TaskRecords : v = viewer[u] /\ TaskOK(v)
      BY <1>1 DEF TasksOK
    <2>2. viewer'[u] = IF v.op = "stop" THEN [v EXCEPT !.op = "stopped"] ELSE v
      BY <2>1 DEF LoopEnds, Released
    <2>3. /\ [v EXCEPT !.op = "stopped"] \in TaskRecords /\ [v EXCEPT !.op = "stopped"].op = "stopped"
          /\ [v EXCEPT !.op = "stopped"].id = v.id
      BY DEF TaskRecords, Operations
    <2>4. CASE v.op = "stop"
      <3>1. viewer'[u] = [v EXCEPT !.op = "stopped"] /\ v.id = Null
        BY <2>1, <2>2, <2>4 DEF TaskOK, Stages
      <3> QED
        BY <2>1, <2>3, <2>4, <3>1 DEF TaskOK, AsBefore, Stages
    <2>5. CASE v.op # "stop"
      BY <2>1, <2>2, <2>5 DEF AsBefore
    <2> QED
      BY <2>4, <2>5
  <1>4. viewer'[Loop] = At("off") /\ viewer' = [u \in Tasks |-> viewer'[u]]
    BY <1>1 DEF LoopEnds, Released
  <1>5. TasksOK'
    <2>1. \A u \in Tasks : viewer'[u] \in TaskRecords /\ TaskOK(viewer'[u])
      BY <1>2, <1>3, <1>4
    <2>2. viewer' \in [Tasks -> TaskRecords]
      BY <1>4, <2>1
    <2> QED
      BY <2>1, <2>2 DEF TasksOK
  <1>6. Tears(viewer[Loop].id) /\ UNCHANGED <<entries, active, axes>>
    BY DEF LoopEnds, figureVars
  <1> QED
    BY <1>1, <1>2, <1>3, <1>4, <1>5, <1>6, UpdateTorn

\* Everything is let go of.
LEMMA EverythingRemoved ==
  ASSUME DashboardIndInv, NEW t \in Tasks, StopEnds(t)
  PROVE  DashboardIndInv'
  <1>0. TasksOK /\ EngineOK /\ DictOK /\ UpdatesOK /\ AxesAreListed
    BY DEF DashboardIndInv
  <1>1. TaskOK(At("idle")) /\ At("idle").op = "idle" /\ viewer[t].op = "stopped"
    BY StoppedTask DEF Operations, Stages, StopEnds
  <1>2. viewer[t].op \notin Stages /\ At("idle").op \notin Stages
    BY <1>1 DEF Stages
  <1>3. CASE ~viewer[t].disturbed
    <2>1. viewer' = [viewer EXCEPT ![t] = At("idle")] /\ UNCHANGED dataVars /\ axes' = axes
      BY <1>3 DEF StopEnds
    <2>2. AxesAreListed'
      BY <1>0, <2>1 DEF dataVars, AxesAreListed, Listed
    <2> QED
      BY <1>1, <1>2, <2>1, <2>2, DashboardStops
  <1>4. CASE viewer[t].disturbed
    <2>1. /\ entries' = <<>> /\ EngineKeeps({}) /\ axes' = axes \ Listed
          /\ viewer' = Disturbed([viewer EXCEPT ![t] = At("idle")])
      BY <1>4 DEF StopEnds
    <2>2. DOMAIN active' = {} /\ active' \in [DOMAIN active' -> ShownRecords]
      BY <2>1 DEF EngineKeeps
    <2>3. entries' \in Seq(EntryRecords) /\ DOMAIN entries' = {}
      BY <2>1
    <2>4. EngineOK' /\ DictOK' /\ UpdatesOK'
      BY <2>2, <2>3 DEF EngineOK, DictOK, ListedIds, UpdatesOK, Tells
    <2>5. AxesAreListed'
      BY <1>0, <2>1 DEF AxesAreListed
    <2>6. TasksOK'
      BY <1>0, <1>1, <2>1, TaskGoesOnAs
    <2> QED
      BY <2>4, <2>5, <2>6 DEF DashboardIndInv
  <1> QED
    BY <1>3, <1>4

\* A new figure: its axes are still those of the one before.
LEMMA FigureBegun ==
  ASSUME DashboardIndInv, NEW t \in Tasks, viewer[t].op \notin Stages, NewFigure(t), UNCHANGED dataVars,
         axes' = axes
  PROVE  DashboardIndInv'
  <1>1. PICK w : w = (IF entries = <<>> THEN Finished(t) ELSE Walking("render"))
    OBVIOUS
  <1>2. TaskOK(w) /\ w.op \notin Stages
    BY <1>1, FinishedTask, WalkingTask DEF DashboardIndInv
  <1>3. viewer' = [viewer EXCEPT ![t] = w]
    BY <1>1 DEF NewFigure
  <1>4. AxesAreListed'
    BY DEF DashboardIndInv, AxesAreListed, Listed, dataVars
  <1> QED
    BY <1>2, <1>3, <1>4, DashboardStops

LEMMA DashboardInitially == DashboardInit => DashboardIndInv
  <1> SUFFICES ASSUME DashboardInit PROVE DashboardIndInv
    OBVIOUS
  <1>1. TasksOK
    <2>1. \A op \in {"off", "idle"} : op \in Operations \ (Stages \cup {"add"})
      BY DEF Operations, Stages
    <2>2. \A op \in {"off", "idle"} : At(op) \in TaskRecords /\ TaskOK(At(op))
      BY <2>1, StoppedTask
    <2>3. \A t \in Tasks : \E op \in {"off", "idle"} : viewer[t] = At(op)
      BY DEF DashboardInit
    <2>4. viewer = [t \in Tasks |-> viewer[t]]
      BY DEF DashboardInit
    <2>5. \A t \in Tasks : viewer[t] \in TaskRecords /\ TaskOK(viewer[t])
      BY <2>2, <2>3
    <2>6. viewer \in [Tasks -> TaskRecords]
      BY <2>4, <2>5
    <2> QED
      BY <2>5, <2>6 DEF TasksOK
  <1>2. entries = <<>> /\ DOMAIN entries = {} /\ DOMAIN active = {} /\ axes = {}
    BY DEF DashboardInit
  <1>3. EngineOK
    <2>1. active \in [DOMAIN active -> ShownRecords]
      BY <1>2 DEF DashboardInit
    <2> QED
      BY <1>2, <2>1 DEF EngineOK
  <1>4. DictOK /\ UpdatesOK /\ AxesAreListed
    BY <1>2 DEF DictOK, ListedIds, UpdatesOK, Tells, AxesAreListed
  <1> QED
    BY <1>1, <1>3, <1>4 DEF DashboardIndInv

LEMMA ViewerKeeps ==
  ASSUME DashboardIndInv, NEW t \in Viewers,
         \/ \E n \in Names, s \in Sources : AddBegins(t, n, s) \/ UpdateBegins(t, n, s)
         \/ \E n \in Names : RemoveEntry(t, n)
         \/ RenderBegins(t) \/ StartAutoRefresh(t)
         \/ \E shutdown \in BOOLEAN : StopBegins(t, shutdown)
  PROVE  DashboardIndInv'
  <1>0. TasksOK /\ t \in Tasks /\ Loop \in Tasks
    BY DEF DashboardIndInv, Tasks
  <1>1. At("idle") \in TaskRecords /\ At("idle").op = "idle" /\ "idle" \notin Stages \cup {"add"}
    BY StoppedTask DEF Operations, Stages
  <1>2. UNCHANGED <<dataVars, axes>> => AxesAreListed'
    BY DEF DashboardIndInv, AxesAreListed, Listed, dataVars
  <1>3. ASSUME NEW n \in Names, NEW s \in Sources, AddBegins(t, n, s) PROVE DashboardIndInv'
    <2>1. viewer[t].op \notin Stages /\ UNCHANGED <<dataVars, axes>>
      BY <1>1, <1>3 DEF AddBegins, figureVars
    <2>2. PICK w : w = [At("add") EXCEPT !.name = n, !.source = s]
      OBVIOUS
    <2>3. /\ At("add") \in TaskRecords /\ At("add").op = "add" /\ At("add").id = Null
      BY DEF At, TaskRecords, Operations
    <2>4. w \in TaskRecords /\ w.op = "add" /\ w.id = Null /\ w.name = n /\ w.source = s
      BY <2>2, <2>3 DEF TaskRecords
    <2>5. TaskOK(w) /\ w.op \notin Stages
      BY <2>4 DEF TaskOK, Stages
    <2>6. viewer' = [viewer EXCEPT ![t] = w]
      BY <1>3, <2>2 DEF AddBegins
    <2> QED
      BY <1>0, <1>2, <2>1, <2>5, <2>6, DashboardStops
  <1>4. ASSUME NEW n \in Names, NEW s \in Sources, UpdateBegins(t, n, s) PROVE DashboardIndInv'
    <2>1. viewer[t].op \notin Stages \cup {"add"} /\ UNCHANGED <<entries, axes>> /\ n \in Listed
      BY <1>1, <1>4 DEF UpdateBegins, figureVars
    <2>2. PICK p \in DOMAIN entries : p = Place(n)
      BY <2>1, PlaceOf
    <2>3. Updates(t, entries[p], s, viewer[t])
      BY <1>4, <2>2 DEF UpdateBegins, Entry
    <2> QED
      BY <1>0, <2>1, <2>3, UpdateBegun
  <1>5. ASSUME NEW n \in Names, RemoveEntry(t, n) PROVE DashboardIndInv'
    BY <1>0, <1>5, EntryRemoved
  <1>6. CASE RenderBegins(t)
    <2>1. viewer[t].op \notin Stages
      BY <1>1, <1>6 DEF RenderBegins
    <2> QED
      BY <1>0, <1>6, <2>1, FigureBegun DEF RenderBegins
  <1>7. CASE StartAutoRefresh(t)
    <2>1. viewer[Loop].op \notin Stages /\ UNCHANGED <<dataVars, axes>>
      BY <1>7 DEF StartAutoRefresh, figureVars, Stages
    <2>2. TaskOK(At("sleep")) /\ At("sleep").op \notin Stages
      BY StoppedTask DEF Operations, Stages
    <2>3. viewer' = [viewer EXCEPT ![Loop] = At("sleep")]
      BY <1>7 DEF StartAutoRefresh
    <2> QED
      BY <1>0, <1>2, <2>1, <2>2, <2>3, DashboardStops
  <1>8. ASSUME NEW shutdown \in BOOLEAN, StopBegins(t, shutdown) PROVE DashboardIndInv'
    <2>1. viewer[t].op \notin Stages /\ UNCHANGED <<dataVars, axes>>
      BY <1>1, <1>8 DEF StopBegins, figureVars
    <2>2. PICK op \in {"stopped", "stop"} : op = IF viewer[Loop].op = "off" THEN "stopped" ELSE "stop"
      OBVIOUS
    <2>3. op \in Operations \ (Stages \cup {"add"})
      BY DEF Operations, Stages
    <2>4. PICK v \in TaskRecords : v = At(op) /\ v.op = op /\ TaskOK(v)
      BY <2>3, StoppedTask
    <2>5. PICK w : w = [v EXCEPT !.disturbed = shutdown]
      OBVIOUS
    <2>6. w \in TaskRecords /\ w.op = op /\ w.id = v.id
      BY <2>4, <2>5 DEF TaskRecords
    <2>7. TaskOK(w) /\ w.op \notin Stages
      BY <2>3, <2>4, <2>6 DEF TaskOK
    <2>8. viewer' = [viewer EXCEPT ![t] = w]
      BY <1>8, <2>2, <2>4, <2>5 DEF StopBegins
    <2> QED
      BY <1>0, <1>2, <2>1, <2>7, <2>8, DashboardStops
  <1> QED
    BY <1>3, <1>4, <1>5, <1>6, <1>7, <1>8

LEMMA TaskKeeps ==
  ASSUME DashboardIndInv, NEW t \in Tasks, RefreshBegins(t) \/ TaskGoesOn(t)
  PROVE  DashboardIndInv'
  <1>0. TasksOK /\ DictOK
    BY DEF DashboardIndInv
  <1>1. UNCHANGED <<dataVars, axes>> => AxesAreListed'
    BY DEF DashboardIndInv, AxesAreListed, Listed, dataVars
  <1>2. TaskOK(Finished(t)) /\ Finished(t).op \notin Stages
    BY FinishedTask
  <1>3. TaskOK(At("idle")) /\ At("idle").op = "idle" /\ At("sleep").op = "sleep"
    BY StoppedTask DEF Operations, Stages
  <1>4. CASE RefreshBegins(t)
    <2>1. viewer[t].op \notin Stages /\ UNCHANGED <<dataVars, axes>>
      BY <1>3, <1>4 DEF RefreshBegins, figureVars, Stages
    <2>2. TaskOK(Walking("refresh")) /\ Walking("refresh").op \notin Stages
      BY <1>0, WalkingTask
    <2> QED
      BY <1>1, <1>4, <2>1, <2>2, DashboardStops DEF RefreshBegins
  <1>5. CASE AddFails(t)
    <2>1. viewer[t].op \notin Stages /\ UNCHANGED <<dataVars, axes>> /\ At("idle").op \notin Stages
      BY <1>3, <1>5 DEF AddFails, figureVars, Stages
    <2> QED
      BY <1>1, <1>3, <1>5, <2>1, DashboardStops DEF AddFails
  <1>6. CASE RefreshNext(t)
    <2>1. /\ viewer[t].op \notin Stages \cup {"add"} /\ UNCHANGED <<entries, axes>>
      BY <1>6 DEF RefreshNext, figureVars, Stages
    <2>2. PICK e \in NextEntries(viewer[t]) : Updates(t, e, e.source, viewer[t])
      BY <1>6 DEF RefreshNext
    <2>3. PICK p \in DOMAIN entries : e = entries[p]
      BY <2>2 DEF NextEntries, Later
    <2>4. e.source \in Sources
      <3>1. entries[p] \in EntryRecords
        BY <1>0, LenProperties, ElementOfSeq DEF DictOK
      <3> QED
        BY <2>3, <3>1 DEF EntryRecords
    <2>5. PICK s \in Sources : Updates(t, entries[p], s, viewer[t])
      BY <2>2, <2>3, <2>4
    <2> QED
      BY <2>1, <2>5, UpdateBegun
  <1>7. CASE RefreshEnds(t)
    <2>1. viewer[t].op \notin Stages /\ UNCHANGED <<dataVars, axes>>
      BY <1>7 DEF RefreshEnds, Stages
    <2>2. CASE NewFigure(t)
      BY <2>1, <2>2, FigureBegun
    <2>3. CASE viewer' = [viewer EXCEPT ![t] = Finished(t)]
      BY <1>1, <1>2, <2>1, <2>3, DashboardStops
    <2> QED
      BY <1>7, <2>2, <2>3 DEF RefreshEnds
  <1>8. CASE RefreshFails(t) \/ RenderEnds(t)
    <2>1. /\ viewer[t].op \notin Stages /\ UNCHANGED <<dataVars, axes>>
          /\ viewer' = [viewer EXCEPT ![t] = Finished(t)]
      BY <1>8 DEF RefreshFails, RenderEnds, figureVars, Stages
    <2> QED
      BY <1>1, <1>2, <2>1, DashboardStops
  <1>9. CASE RenderNext(t)
    <2>1. PICK v \in TaskRecords : v = viewer[t] /\ v.op = "render" /\ TaskOK(v)
      BY <1>0, <1>9 DEF RenderNext, TasksOK
    <2>2. PICK e \in NextEntries(v) : axes' = axes \cup {e.name} /\ viewer' = [viewer EXCEPT ![t].name = e.name]
      BY <1>9, <2>1 DEF RenderNext
    <2>3. PICK p \in DOMAIN entries : e = entries[p]
      BY <2>2 DEF NextEntries, Later
    <2>4. e.name \in Names
      <3>1. entries[p] \in EntryRecords
        BY <1>0, LenProperties, ElementOfSeq DEF DictOK
      <3> QED
        BY <2>3, <3>1 DEF EntryRecords
    <2>5. PICK w : w = [v EXCEPT !.name = e.name]
      OBVIOUS
    <2>6. w \in TaskRecords /\ w.op = v.op /\ w.id = v.id
      BY <2>4, <2>5 DEF TaskRecords
    <2>7. TaskOK(w) /\ w.op \notin Stages /\ viewer[t].op \notin Stages
      BY <2>1, <2>6 DEF TaskOK, Stages
    <2>8. viewer' = [viewer EXCEPT ![t] = w] /\ UNCHANGED dataVars
      BY <1>9, <2>1, <2>2, <2>5 DEF RenderNext
    <2>9. AxesAreListed'
      BY <2>2, <2>3, <2>8 DEF DashboardIndInv, AxesAreListed, Listed, dataVars
    <2> QED
      BY <2>7, <2>8, <2>9, DashboardStops
  <1> QED
    BY <1>4, <1>5, <1>6, <1>7, <1>8, <1>9, EntryAdded, DataAreLoaded, UpdateEnded, UpdateGivenUp,
       EverythingRemoved DEF TaskGoesOn

LEMMA DashboardKeeps == DashboardIndInv /\ [DashboardNext]_dashVars => DashboardIndInv'
  <1> SUFFICES ASSUME DashboardIndInv, [DashboardNext]_dashVars PROVE DashboardIndInv'
    OBVIOUS
  <1>1. CASE UNCHANGED dashVars
    <2>1. /\ entries' = entries /\ active' = active /\ viewer' = viewer /\ axes' = axes /\ torn' = torn
      BY <1>1 DEF dashVars
    <2>2. UNCHANGED dataVars /\ TasksOK' /\ AxesAreListed' /\ \A t \in Tasks : AsBefore(viewer[t], viewer'[t])
      BY <2>1 DEF DashboardIndInv, dataVars, TasksOK, AxesAreListed, Listed, AsBefore
    <2> QED
      BY <2>2, DashboardQuiet
  <1> QED
    BY <1>1, ViewerKeeps, TaskKeeps, LoopCancelled DEF DashboardNext

\* The images of different places differ: as many as there are places.
LEMMA AllDifferent ==
  ASSUME NEW n \in Nat, NEW f, DOMAIN f = 1 .. n, f = [i \in 1 .. n |-> f[i]],
         \A i, j \in 1 .. n : f[i] = f[j] => i = j
  PROVE  Cardinality({f[i] : i \in 1 .. n}) = n
  <1> DEFINE S == {f[i] : i \in 1 .. n}
  <1>1. f \in [1 .. n -> S]
    OBVIOUS
  <1>2. \A x \in S : \E i \in 1 .. n : f[i] = x
    OBVIOUS
  <1> HIDE DEF S
  <1>3. ExistsBijection(1 .. n, S)
    <2>1. f \in Injection(1 .. n, S)
      BY <1>1 DEF Injection, IsInjective
    <2>2. f \in Surjection(1 .. n, S)
      BY <1>1, <1>2 DEF Surjection
    <2> QED
      BY <2>1, <2>2 DEF ExistsBijection, Bijection
  <1> QED
    BY <1>3, FS_CountingElements DEF S

-----------------------------------------------------------------------------
(* The layout of a figure *)

LEMMA Divided ==
  ASSUME NEW a \in Nat, NEW c \in Nat \ {0}
  PROVE  /\ a \div c \in Nat /\ a % c \in Nat /\ a % c < c
         /\ a = c * (a \div c) + (a % c)
  OBVIOUS

LEMMA ProductsGrow ==
  ASSUME NEW a \in Nat, NEW b \in Nat, NEW c \in Nat, a <= b
  PROVE  c * a <= c * b
  OBVIOUS

LEMMA Quotient ==
  ASSUME NEW c \in Nat \ {0}, NEW q \in Nat, NEW r \in Nat, r < c
  PROVE  (c * q + r) \div c = q /\ (c * q + r) % c = r
  OBVIOUS

\* Set in rows of a width, everyone has a place in the grid of that width, and no row is empty.
LEMMA PlacesFit ==
  ASSUME NEW n \in Nat \ {0}, NEW c \in Nat \ {0}, NEW w \in Nat, w = c \/ (w = n /\ n < c)
  PROVE  Fits(Places(n, c), <<RowsFor(n, c), w>>)
  <1> DEFINE p == Places(n, c)  rows == RowsFor(n, c)
  <1>1. PICK rest \in Nat : rows \in Nat /\ rest < c /\ n + c - 1 = c * rows + rest
    <2>1. n + c - 1 \in Nat
      OBVIOUS
    <2> DEFINE a == n + c - 1
    <2>2. a \in Nat /\ rows = a \div c
      BY <2>1 DEF RowsFor
    <2> HIDE DEF a, rows
    <2>3. a \div c \in Nat /\ a % c \in Nat /\ a % c < c /\ a = c * (a \div c) + (a % c)
      BY <2>2, Divided
    <2> QED
      BY <2>2, <2>3 DEF a
  <1>2. DOMAIN p = 0 .. n - 1 /\ \A i \in 0 .. n - 1 : p[i][1] = i \div c /\ p[i][2] = i % c
    BY DEF Places
  <1> HIDE DEF p, rows
  <1>3. \A i \in 0 .. n - 1 : /\ p[i][1] \in Nat /\ p[i][2] \in Nat /\ p[i][2] < c
                              /\ i = c * p[i][1] + p[i][2]
    <2> SUFFICES ASSUME NEW i \in 0 .. n - 1
                 PROVE  /\ p[i][1] \in Nat /\ p[i][2] \in Nat /\ p[i][2] < c
                        /\ i = c * p[i][1] + p[i][2]
      OBVIOUS
    <2>1. i \in Nat /\ p[i][1] = i \div c /\ p[i][2] = i % c
      <3>1. i \in Nat
        OBVIOUS
      <3>2. p[i][1] = i \div c /\ p[i][2] = i % c
        BY <1>2, Zenon
      <3> QED
        BY <3>1, <3>2
    <2>2. i \div c \in Nat /\ i % c \in Nat /\ i % c < c /\ i = c * (i \div c) + (i % c)
      BY <2>1, Divided
    <2> QED
      BY <2>1, <2>2
  <1>4. IsInjective(p)
    <2>1. \A i, j \in 0 .. n - 1 : p[i] = p[j] => i = j
      BY <1>3
    <2> QED
      BY <1>2, <2>1 DEF IsInjective
  <1>5. ASSUME NEW i \in 0 .. n - 1 PROVE p[i][1] < rows /\ p[i][2] < w
    <2>1. PICK q \in Nat, r \in Nat : q = p[i][1] /\ r = p[i][2] /\ r < c /\ i = c * q + r
      BY <1>3
    <2>2. q < rows
      <3> SUFFICES ASSUME rows <= q PROVE FALSE
        BY <1>1
      <3>1. c * rows <= c * q
        BY <1>1, ProductsGrow
      <3>2. c * rows \in Nat /\ c * q \in Nat
        BY <1>1
      <3> QED
        BY <1>1, <2>1, <3>1, <3>2
    <2>3. r < w
      <3>1. c * q \in Nat
        OBVIOUS
      <3> QED
        BY <2>1, <3>1
    <2> QED
      BY <2>1, <2>2, <2>3
  <1>6. ASSUME NEW r \in 0 .. rows - 1 PROVE \E i \in 0 .. n - 1 : p[i][1] = r
    <2>1. r \in Nat /\ rows \in Nat /\ r + 1 <= rows
      BY <1>1
    <2>2. c * (r + 1) <= c * rows
      BY <2>1, ProductsGrow
    <2>3. c * (r + 1) = c * r + c /\ c * r \in Nat /\ c * rows \in Nat
      BY <2>1
    <2>4. c * r \in 0 .. n - 1
      BY <1>1, <2>2, <2>3
    <2>5. (c * r + 0) \div c = r
      BY <2>1, Quotient
    <2>6. (c * r) \div c = r
      BY <2>3, <2>5
    <2> QED
      BY <1>2, <2>4, <2>6
  <1> QED
    BY <1>2, <1>4, <1>5, <1>6 DEF Fits, p, rows

\* In a flow no column is empty.
LEMMA ColumnsFilled ==
  ASSUME NEW n \in Nat \ {0}, NEW c \in Nat \ {0}
  PROVE  NoGap(Places(n, c), FlowGrid(n, c))
  <1> DEFINE p == Places(n, c)
  <1>1. DOMAIN p = 0 .. n - 1 /\ \A i \in 0 .. n - 1 : p[i][2] = i % c
    BY DEF Places
  <1>2. FlowGrid(n, c)[2] = IF c <= n THEN c ELSE n
    BY DEF FlowGrid
  <1> HIDE DEF p
  <1> SUFFICES ASSUME NEW k \in 0 .. (FlowGrid(n, c)[2] - 1) PROVE \E i \in DOMAIN p : p[i][2] = k
    BY DEF NoGap, p
  <1>3. k \in Nat /\ k < c /\ k \in 0 .. n - 1
    BY <1>2
  <1>4. (c * 0 + k) % c = k
    BY <1>3, Quotient
  <1>5. c * 0 + k = k
    BY <1>3
  <1> QED
    BY <1>1, <1>3, <1>4, <1>5

LEMMA RootOf ==
  ASSUME NEW n \in Nat
  PROVE  LET r == SquareRoot(n) IN r \in 0 .. n /\ r * r <= n /\ n < (r + 1) * (r + 1)
  <1> DEFINE S == {k \in Nat : n < (k + 1) * (k + 1)}
             R == OpToRel(<, Nat)
  <1>1. n \in S
    <2>1. (n + 1) * (n + 1) = n * n + 2 * n + 1 /\ n * n \in Nat
      OBVIOUS
    <2> QED
      BY <2>1
  <1>2. IsWellFoundedOn(R, Nat)
    BY NatLessThanWellFounded
  <1>3. R = {x \in Nat \X Nat : x[1] < x[2]}
    BY DEF OpToRel
  <1>4. S \subseteq Nat /\ S # {}
    BY <1>1
  <1> HIDE DEF R
  <1>5. \A x, y \in Nat : y < x => <<y, x>> \in R
    BY <1>3
  <1>6. PICK k \in S : \A y \in S : ~(<<y, k>> \in R)
    <2> HIDE DEF S
    <2> QED
      BY <1>2, <1>4, WFMin
  <1>7. k \in Nat /\ n < (k + 1) * (k + 1) /\ \A y \in Nat : y < k => ~(n < (y + 1) * (y + 1))
    BY <1>5, <1>6
  <1>8. k * k <= n
    <2>1. CASE k = 0
      BY <2>1
    <2>2. CASE k # 0
      <3>1. k - 1 \in Nat /\ k - 1 < k /\ (k - 1) + 1 = k
        BY <1>7, <2>2
      <3>2. ~(n < k * k)
        BY <1>7, <3>1
      <3> QED
        BY <1>7, <3>2
    <2> QED
      BY <2>1, <2>2
  <1>9. k \in 0 .. n
    <2>1. CASE k = 0
      BY <2>1
    <2>2. CASE k # 0
      <3>1. k * 1 <= k * k
        BY <1>7, <2>2, ProductsGrow
      <3> QED
        BY <1>7, <1>8, <3>1
    <2> QED
      BY <2>1, <2>2
  <1>10. \E r \in 0 .. n : r * r <= n /\ n < (r + 1) * (r + 1)
    BY <1>7, <1>8, <1>9
  <1> QED
    BY <1>10 DEF SquareRoot

\* A grid whose columns are not given is a grid of rows of its width, and nearly a square.
LEMMA AutoGridOf ==
  ASSUME NEW n \in Nat \ {0}
  PROVE  \E w \in Nat \ {0} :
            /\ AutoGrid(n) = <<RowsFor(n, w), w>>
            /\ RowsFor(n, w) <= w /\ w <= RowsFor(n, w) + 1
  <1>1. CASE n = 1
    BY <1>1 DEF AutoGrid, RowsFor
  <1>2. CASE n = 2
    BY <1>2 DEF AutoGrid, RowsFor
  <1>3. CASE n \in 3 .. 4
    <2>1. AutoGrid(n) = <<2, 2>> /\ RowsFor(n, 2) = 2
      BY <1>3 DEF AutoGrid, RowsFor
    <2> QED
      BY <2>1
  <1>4. CASE n \in 5 .. 6
    <2>1. AutoGrid(n) = <<2, 3>> /\ RowsFor(n, 3) = 2
      BY <1>4 DEF AutoGrid, RowsFor
    <2> QED
      BY <2>1
  <1>5. CASE n \in 7 .. 9
    <2>1. AutoGrid(n) = <<3, 3>> /\ RowsFor(n, 3) = 3
      BY <1>5 DEF AutoGrid, RowsFor
    <2> QED
      BY <2>1
  <1>6. CASE n > 9
    <2>1. PICK s \in Nat : s = SquareRoot(n) /\ s * s <= n /\ n < (s + 1) * (s + 1)
      BY RootOf
    <2> DEFINE w == s + 1  rows == RowsFor(n, w)
    <2>2. AutoGrid(n) = <<rows, w>>
      BY <1>6, <2>1 DEF AutoGrid
    <2>3. PICK rest \in Nat : rows \in Nat /\ rest < w /\ n + w - 1 = w * rows + rest
      <3> DEFINE a == n + w - 1
      <3>1. a \in Nat /\ rows = a \div w /\ w \in Nat \ {0}
        BY DEF RowsFor
      <3> HIDE DEF a, rows, w
      <3>2. a \div w \in Nat /\ a % w \in Nat /\ a % w < w /\ a = w * (a \div w) + (a % w)
        BY <3>1, Divided
      <3> QED
        BY <3>1, <3>2 DEF a
    <2>4. w \in Nat \ {0} /\ s + 1 = w /\ n < w * w
      BY <2>1
    <2>5. w * w = s * s + 2 * s + 1 /\ s * s \in Nat
      OBVIOUS
    <2> HIDE DEF w, rows
    <2>6. rows <= w
      <3> SUFFICES ASSUME w + 1 <= rows PROVE FALSE
        BY <2>3, <2>4
      <3>1. w * (w + 1) <= w * rows
        BY <2>3, <2>4, ProductsGrow
      <3>2. w * (w + 1) = w * w + w /\ w * w \in Nat /\ w * rows \in Nat
        BY <2>3, <2>4
      <3> QED
        BY <2>3, <2>4, <3>1, <3>2
    <2>7. s <= rows
      <3> SUFFICES ASSUME rows + 1 <= s PROVE FALSE
        BY <2>3
      <3>1. w * (rows + 1) <= w * s
        BY <2>3, <2>4, ProductsGrow
      <3>2. w * (rows + 1) = w * rows + w /\ w * rows \in Nat /\ w * s = s * s + s
        BY <2>3, <2>4
      <3> QED
        BY <2>1, <2>3, <2>4, <2>5, <3>1, <3>2
    <2> QED
      BY <2>2, <2>3, <2>4, <2>6, <2>7 DEF rows
  <1> QED
    BY <1>1, <1>2, <1>3, <1>4, <1>5, <1>6

LEMMA CellsForAll == EveryoneHasACell
  <1> SUFFICES ASSUME NEW n \in 1 .. MaxLaidOut
               PROVE  /\ Fits(Places(n, AutoGrid(n)[2]), AutoGrid(n))
                      /\ AutoGrid(n)[1] <= AutoGrid(n)[2] /\ AutoGrid(n)[2] <= AutoGrid(n)[1] + 1
                      /\ \A c \in 1 .. MaxLaidOut :
                          /\ Fits(Places(n, c), GivenGrid(n, c))
                          /\ Fits(Places(n, c), FlowGrid(n, c)) /\ NoGap(Places(n, c), FlowGrid(n, c))
    BY DEF EveryoneHasACell
  <1>1. n \in Nat \ {0} /\ 1 .. MaxLaidOut \subseteq Nat \ {0}
    BY DashboardAssumption
  <1>2. PICK w \in Nat \ {0} :
          /\ AutoGrid(n) = <<RowsFor(n, w), w>>
          /\ RowsFor(n, w) <= w /\ w <= RowsFor(n, w) + 1
    BY <1>1, AutoGridOf
  <1>3. Fits(Places(n, w), <<RowsFor(n, w), w>>)
    BY <1>1, PlacesFit
  <1>4. AutoGrid(n)[1] = RowsFor(n, w) /\ AutoGrid(n)[2] = w
    BY <1>2
  <1>5. ASSUME NEW c \in 1 .. MaxLaidOut
        PROVE  /\ Fits(Places(n, c), GivenGrid(n, c))
               /\ Fits(Places(n, c), FlowGrid(n, c)) /\ NoGap(Places(n, c), FlowGrid(n, c))
    <2>1. c \in Nat \ {0}
      BY <1>1
    <2>2. Fits(Places(n, c), <<RowsFor(n, c), c>>) /\ GivenGrid(n, c) = <<RowsFor(n, c), c>>
      BY <1>1, <2>1, PlacesFit DEF GivenGrid
    <2>3. Fits(Places(n, c), FlowGrid(n, c))
      <3> DEFINE v == IF c <= n THEN c ELSE n
      <3>1. v \in Nat /\ (v = c \/ (v = n /\ n < c)) /\ FlowGrid(n, c) = <<RowsFor(n, c), v>>
        BY <1>1, <2>1 DEF FlowGrid
      <3> HIDE DEF v
      <3> QED
        BY <1>1, <2>1, <3>1, PlacesFit
    <2> QED
      BY <1>1, <2>1, <2>2, <2>3, ColumnsFilled
  <1> QED
    BY <1>2, <1>3, <1>4, <1>5

\* However adding, removing, updating, refreshing, rendering and shutting down overlap: each entry of
\* a dashboard has a visualisation of its own in the engine, what is told is what is shown unless an
\* update failed or overlapped another one, axes are of entries, and every entry has a cell of its
\* own (Dashboard.add_visualization, remove_visualization, update_visualization, refresh, render;
\* VisualizationEngine).
THEOREM DashboardIsTold == DashboardSpec => []DashboardInv
  <1>1. DashboardIndInv => DashboardInv
    <2> SUFFICES ASSUME DashboardIndInv PROVE EntriesAreActive /\ ShownIsTold
      BY CellsForAll DEF DashboardIndInv, DashboardInv
    <2>0. EngineOK /\ DictOK /\ UpdatesOK
      BY DEF DashboardIndInv
    <2>1. /\ Len(entries) \in Nat /\ DOMAIN entries = 1 .. Len(entries)
          /\ \A i \in DOMAIN entries : entries[i] \in EntryRecords
      BY <2>0, LenProperties, ElementOfSeq DEF DictOK
    <2>2. EntriesAreActive
      <3> DEFINE ids == [i \in 1 .. Len(entries) |-> entries[i].id]
                 names == [i \in 1 .. Len(entries) |-> entries[i].name]
      <3>1. /\ \A i, j \in 1 .. Len(entries) : ids[i] = ids[j] => i = j
            /\ \A i, j \in 1 .. Len(entries) : names[i] = names[j] => i = j
        BY <2>0, <2>1 DEF DictOK
      <3>2. ListedIds = {ids[i] : i \in 1 .. Len(entries)} /\ Listed = {names[i] : i \in 1 .. Len(entries)}
        BY <2>1 DEF Listed, ListedIds
      <3>3. /\ DOMAIN ids = 1 .. Len(entries) /\ ids = [i \in 1 .. Len(entries) |-> ids[i]]
            /\ DOMAIN names = 1 .. Len(entries) /\ names = [i \in 1 .. Len(entries) |-> names[i]]
        OBVIOUS
      <3> HIDE DEF ids, names
      <3>4. Cardinality(ListedIds) = Len(entries) /\ Cardinality(Listed) = Len(entries)
        BY <2>1, <3>1, <3>2, <3>3, AllDifferent
      <3> QED
        BY <2>0, <3>4 DEF DictOK, EntriesAreActive
    <2>3. ShownIsTold
      <3> SUFFICES ASSUME NEW i \in DOMAIN entries, Updating(entries[i].id) = {}, entries[i].id \notin torn
                   PROVE  active[entries[i].id] = [source |-> entries[i].source, data |-> entries[i].source]
        BY DEF ShownIsTold
      <3>1. PICK e \in EntryRecords : e = entries[i]
        BY <2>1
      <3>2. Tells(e.id, e.source) /\ e.id \in Ids /\ e.source \in Sources /\ e.id \in DOMAIN active
        BY <2>0, <3>1 DEF Tells, EntryRecords, DictOK, ListedIds
      <3>3. UpdatedBy(e.id, e.source)
        BY <2>0, <3>1, <3>2 DEF UpdatesOK
      <3>4. PICK a \in ShownRecords : a = active[e.id]
        BY <2>0, <3>2 DEF EngineOK
      <3>5. a.source = e.source /\ a.data = e.source
        BY <3>1, <3>3, <3>4 DEF UpdatedBy
      <3>6. a = [source |-> e.source, data |-> e.source]
        BY <3>5 DEF ShownRecords
      <3> QED
        BY <3>1, <3>4, <3>6
    <2> QED
      BY <2>2, <2>3
  <1> QED
    BY <1>1, DashboardInitially, DashboardKeeps, PTL DEF DashboardSpec

-----------------------------------------------------------------------------
(* The services together *)

\* What holds of the notifications, the rules and the reports by themselves holds of them in one
\* program (the services of reports/core share no state).
THEOREM ServicesOfReportingHold == Spec => [](ReportsInv /\ NotificationInv)
  <1>1. Init => NotificationsInit /\ RulesInit /\ ReportsInit
    BY DEF Init
  <1>2. [Next]_reportsVars =>
            [NotificationsNext]_notificationVars /\ [RulesNext]_ruleVars /\ [ReportsNext]_reportVars
    BY DEF Next, reportsVars
  <1>3. RuleInv /\ ReportInv => ReportsInv
    BY DEF ReportsInv
  <1> QED
    BY <1>1, <1>2, <1>3, NotificationsHold, RulesHold, ReportsAreKept, PTL
       DEF Spec, NotificationsSpec, RulesSpec, ReportsSpec

=============================================================================
