----------------------------- MODULE ReportEngine -----------------------------
(***************************************************************************)
(* The report engine and its generators.  Several reports are generated at *)
(* a time: a report waits while its data is read, and is then generated,   *)
(* written and recorded without a break.  A generator does not raise: it   *)
(* returns an answer that says whether it succeeded, and the engine        *)
(* records the report as a success whatever the answer says.               *)
(***************************************************************************)
EXTENDS Naturals, FiniteSets, Functions

CONSTANTS
    ReportCalls,         \* calls of generate_report under way at a time
    ReportIds,           \* random ids, in the order of their characters
    GivenPaths,          \* paths the callers choose, kept apart from the engine's own
    OwnPath,             \* "own": the path is made from the id
    PdfLibrary,          \* is reportlab installed?
    MaxReports, ReportsCut   \* records kept, and records cut when there are more

ASSUME ReportAssumption ==
    /\ ReportIds \subseteq Nat \ {0} /\ OwnPath \notin GivenPaths /\ PdfLibrary \in BOOLEAN
    /\ MaxReports \in Nat /\ ReportsCut \in 1 .. MaxReports + 1

Formats == {"pdf", "html", "csv", "json"}

VARIABLES
    reportCall,          \* by call
    unusedIds,
    reportHistory,       \* by id, what is recorded
    files,               \* by path, the report it holds; 0 when it is not whole
    reportsDone          \* ghost: by id, what the call came to

reportVars == <<reportCall, unusedIds, reportHistory, files, reportsDone>>

NoReport == [at |-> "free", id |-> 0, format |-> "none", path |-> OwnPath]

ReportsInit ==
    /\ reportCall = [c \in ReportCalls |-> NoReport]
    /\ unusedIds = ReportIds /\ reportHistory = <<>> /\ files = <<>> /\ reportsDone = <<>>

Put(f, x, v) == [y \in DOMAIN f \cup {x} |-> IF y = x THEN v ELSE f[y]]

\* A history that grows too long loses the records whose ids come first, new or not.
Kept(history) ==
    IF Cardinality(DOMAIN history) > MaxReports
    THEN Restrict(history,
             {i \in DOMAIN history : Cardinality({j \in DOMAIN history : j < i}) >= ReportsCut})
    ELSE history

Record(c, success, path, answer) ==
    LET i == reportCall[c].id
        entry == [success |-> success, path |-> path, answer |-> answer]
    IN /\ reportHistory' = Kept(Put(reportHistory, i, entry))
       /\ reportsDone' = Put(reportsDone, i, entry)
       /\ reportCall' = [reportCall EXCEPT ![c] = NoReport]

GenerateReport(c, format, path) ==
    /\ reportCall[c].at = "free"
    /\ \E i \in unusedIds :
          /\ unusedIds' = unusedIds \ {i}
          /\ reportCall' = [reportCall EXCEPT
                 ![c] = [at |-> "data", id |-> i, format |-> format, path |-> path]]
    /\ UNCHANGED <<reportHistory, files, reportsDone>>

\* The format is unknown, or the data cannot be read: recorded as a failure, and raised again.
ReportFails(c) ==
    /\ reportCall[c].at = "data"
    /\ Record(c, FALSE, <<0, "none">>, FALSE)
    /\ UNCHANGED <<unusedIds, files>>

\* The path of a report, unless the caller gave one, carries its id.
PathOf(i, path) == <<IF path = OwnPath THEN i ELSE path, "report">>

\* Without its library the PDF generator writes a text file beside the path it was given,
\* which it can derive from a string only: the engine's own paths are no strings.
AsText(path) == <<path[1], "text">>
Fallback(format) == format = "pdf" /\ ~PdfLibrary

\* The path that is recorded is the one the generator was given.
ReportGenerated(c) ==
    /\ reportCall[c].at = "data" /\ reportCall[c].format \in Formats
    /\ LET call == reportCall[c]
           path == PathOf(call.id, call.path)
           text == Fallback(call.format)
       IN /\ ~(text /\ call.path = OwnPath)
          /\ files' = Put(files, IF text THEN AsText(path) ELSE path, call.id)
          /\ Record(c, TRUE, path, TRUE)
    /\ UNCHANGED unusedIds

\* The generator catches its own failure: nothing is written, or only a part.
GeneratorFails(c) ==
    /\ reportCall[c].at = "data" /\ reportCall[c].format \in Formats
    /\ LET path == PathOf(reportCall[c].id, reportCall[c].path)
       IN /\ \/ files' = Put(files, path, 0) /\ ~Fallback(reportCall[c].format)
             \/ UNCHANGED files
          /\ Record(c, TRUE, path, FALSE)
    /\ UNCHANGED unusedIds

ReportStep(c) == ReportFails(c) \/ ReportGenerated(c) \/ GeneratorFails(c)

ReportsNext ==
    \E c \in ReportCalls :
        \/ ReportStep(c)
        \/ \E format \in Formats \cup {"unknown"}, path \in GivenPaths \cup {OwnPath} :
               GenerateReport(c, format, path)

ReportsSpec == ReportsInit /\ [][ReportsNext]_reportVars

-----------------------------------------------------------------------------
(* Properties *)

\* What the history says of a report is what the call came to; until it is first cut it has
\* every call that ended, the failed ones too, and it stays within its bound.
RecordsAreKept ==
    /\ \A i \in DOMAIN reportHistory :
           i \in DOMAIN reportsDone /\ reportHistory[i] = reportsDone[i]
    /\ Cardinality(DOMAIN reportHistory) <= MaxReports
    /\ Cardinality(DOMAIN reportsDone) <= MaxReports => reportHistory = reportsDone

\* A report whose generator succeeded and whose path is its own stays readable there, whatever
\* reports are generated beside it.
OwnReportsStay ==
    \A i \in DOMAIN reportsDone :
        (reportsDone[i].answer /\ reportsDone[i].path[1] \notin GivenPaths)
            => reportsDone[i].path \in DOMAIN files /\ files[reportsDone[i].path] = i

\* Reports and the records of them are kept.
ReportInv == RecordsAreKept /\ OwnReportsStay

=============================================================================
