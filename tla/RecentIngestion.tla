---------------------------- MODULE RecentIngestion ----------------------------
(***************************************************************************)
(* The runs of ingest_kamis_recent, any number at once, on the tables they *)
(* share: FetchAttempt, SourceArtifact (one row per content of the source) *)
(* and ParseRun (one row per artifact, for the one parser revision and     *)
(* configuration the code has).  Between two transactions a command may    *)
(* die; of a transaction it may not learn whether it committed.            *)
(*                                                                         *)
(* A transaction is one step.  Each locks the row it decides on before it  *)
(* reads it (attempt and source, artifact, parse run), and an insert under *)
(* a unique key waits for the other transaction that holds the key.  What  *)
(* a command remembers from one transaction to the next is in command[c].  *)
(* How the pages of a fetch are read is KamisFetch; here a fetch yields    *)
(* some content or fails.                                                  *)
(***************************************************************************)
EXTENDS Naturals, Sequences

CONSTANTS
  Commands,            \* runs of the command
  Contents,            \* ordered page manifests the source may serve
  ParserRejects,       \* why the parser refuses a content, or None
  GenerationRejects,   \* why complete_kamis_parse_generation refuses it, or None
  None

(* What the parser's errors, and those of the generation, are stored as.   *)
ParserCodes == {"SCHEMA_INVALID", "IDENTITY_DRIFT", "RECONCILIATION_FAILED"}
GenerationCodes == {"RECONCILIATION_FAILED", "PERSISTENCE_FAILED"}

Terminal == {"VALIDATED", "FAILED"}

ASSUME IngestionAssumption ==
  /\ ParserRejects \in [Contents -> ParserCodes \cup {None}]
  /\ GenerationRejects \in [Contents -> GenerationCodes \cup {None}]
  /\ None \notin Contents \cup ParserCodes \cup GenerationCodes \cup Terminal

VARIABLES
  attempts,    \* FetchAttempt of each command, by acquisition_run_id
  artifacts,   \* SourceArtifact rows: the content of each
  runs,        \* ParseRun rows
  command      \* where each command is and what it holds in memory

vars == <<attempts, artifacts, runs, command>>

-----------------------------------------------------------------------------
(* Data.                                                                   *)

AttemptStates == {"STARTED", "SUCCEEDED", "RETRYABLE_FAILED", "TERMINAL_FAILED"}
RunStates == {"STARTED"} \cup Terminal

CommandCodes ==
  {"SOURCE_START_FAILED", "SECRET_UNAVAILABLE", "FETCH_FAILED",
   "FETCH_FINALIZATION_FAILED", "FETCH_PERSISTENCE_FAILED", "PARSE_START_FAILED",
   "PARSE_FAILED", "GENERATION_FAILED", "SUCCEEDED"}

Stages ==
  {"idle", "fetching", "fetched", "failing_fetch", "parse_start", "parsing",
   "completing", "failing_parse", "rereading", "ended", "crashed"}

(* artifact 0 is NULL; facts stands for the snapshots, reference prices    *)
(* and change facts of the run, named by the content they are of.          *)
AttemptRow == [state : AttemptStates \cup {None}, artifact : Nat]
RunRow ==
  [artifact : Nat, status : RunStates, failure : ParserCodes \cup GenerationCodes \cup {None},
   facts : Contents \cup {None}]

(* seen is the status of the ParseRun object the command holds, in the end *)
(* the one its receipt reports; faulted, whether some statement of its own *)
(* went wrong for a reason that has nothing to do with the content.        *)
CommandState ==
  [at : Stages, content : Contents \cup {None}, run : Nat,
   seen : RunStates \cup {None}, failure : ParserCodes \cup GenerationCodes \cup {None},
   code : CommandCodes \cup {None}, faulted : BOOLEAN]

(* A new row whatever is found.                                            *)
AnotherRow(rows, found) == Len(rows) + 1

(* get_or_create: the row found under the key, or the next one.            *)
GetOrCreate(rows, found) ==
  IF found = {} THEN Len(rows) + 1 ELSE CHOOSE i \in found : TRUE

ArtifactOf(k) == GetOrCreate(artifacts, {i \in DOMAIN artifacts : artifacts[i] = k})
RunOf(i) == GetOrCreate(runs, {r \in DOMAIN runs : runs[r].artifact = i})

WithRow(rows, i, row) == IF i = Len(rows) + 1 THEN Append(rows, row) ELSE rows

Accepted(k) == ParserRejects[k] = None /\ GenerationRejects[k] = None

-----------------------------------------------------------------------------
(* How a command goes on.                                                  *)

At(c, stage) == command[c].at = stage

Continue(c, state) == command' = [command EXCEPT ![c] = state]

(* The command ends with CommandError, or with its receipt.                *)
Ended(state, code) == [state EXCEPT !.at = "ended", !.code = code]

Faulted(state) == [state EXCEPT !.faulted = TRUE]

(* A transaction commits and says so, commits while its answer is lost, or *)
(* is rolled back; the last two reach the command as an exception.         *)
Outcomes == {"answered", "unanswered", "rolled_back"}

AfterTransaction(c, outcome, answered, handler) ==
  Continue(c, IF outcome = "answered" THEN answered ELSE Faulted(handler))

-----------------------------------------------------------------------------
(* Fetch.                                                                  *)

(* bootstrap_kamis_source_configuration and start_kamis_fetch.             *)
StartFetch(c) ==
  /\ At(c, "idle")
  /\ \E outcome \in Outcomes :
       /\ attempts' = IF outcome = "rolled_back" THEN attempts
                      ELSE [attempts EXCEPT ![c] = [state |-> "STARTED", artifact |-> 0]]
       /\ AfterTransaction(c, outcome,
            [command[c] EXCEPT !.at = "fetching"], Ended(command[c], "SOURCE_START_FAILED"))
  /\ UNCHANGED <<artifacts, runs>>

FetchYields(c, k) ==
  /\ At(c, "fetching")
  /\ Continue(c, [command[c] EXCEPT !.at = "fetched", !.content = k])
  /\ UNCHANGED <<attempts, artifacts, runs>>

FetchFails(c, code) ==
  /\ At(c, "fetching") /\ code \in {"SECRET_UNAVAILABLE", "FETCH_FAILED"}
  /\ Continue(c, [command[c] EXCEPT !.at = "failing_fetch", !.code = code])
  /\ UNCHANGED <<attempts, artifacts, runs>>

(* complete_kamis_fetch with build_source_artifact; the attempt is always  *)
(* the command's own STARTED one, so the replay branch has no caller here. *)
CompleteFetch(c) ==
  LET k == command[c].content
      i == ArtifactOf(k) IN
  /\ At(c, "fetched")
  /\ \E outcome \in Outcomes :
       /\ IF outcome = "rolled_back" THEN UNCHANGED <<attempts, artifacts>>
          ELSE /\ attempts' = [attempts EXCEPT ![c] = [state |-> "SUCCEEDED", artifact |-> i]]
               /\ artifacts' = WithRow(artifacts, i, k)
       /\ AfterTransaction(c, outcome,
            [command[c] EXCEPT !.at = "parse_start"],
            [command[c] EXCEPT !.at = "failing_fetch", !.code = "FETCH_PERSISTENCE_FAILED"])
  /\ UNCHANGED runs

(* _classify_transport_failure: only a failed fetch may be worth a retry.  *)
FailureStates(code) ==
  {"TERMINAL_FAILED"} \cup (IF code = "FETCH_FAILED" THEN {"RETRYABLE_FAILED"} ELSE {})

(* fail_kamis_fetch, which also refuses some of the evidence (KamisFetch). *)
FailFetch(c) ==
  /\ At(c, "failing_fetch") /\ attempts[c].state = "STARTED"
  /\ \E outcome \in Outcomes, s \in FailureStates(command[c].code) :
       /\ attempts' = IF outcome = "rolled_back" THEN attempts
                      ELSE [attempts EXCEPT ![c].state = s]
       /\ AfterTransaction(c, outcome,
            Ended(command[c], command[c].code), Ended(command[c], "FETCH_FINALIZATION_FAILED"))
  /\ UNCHANGED <<artifacts, runs>>

(* The fetch whose completion went unanswered was completed after all.     *)
FailFetchRefused(c) ==
  /\ At(c, "failing_fetch") /\ attempts[c].state # "STARTED"
  /\ Continue(c, Ended(command[c], "FETCH_FINALIZATION_FAILED"))
  /\ UNCHANGED <<attempts, artifacts, runs>>

-----------------------------------------------------------------------------
(* Parse.                                                                  *)

(* start_or_get_kamis_parse_run.                                           *)
StartParse(c) ==
  LET i == attempts[c].artifact
      r == RunOf(i)
      new == [artifact |-> i, status |-> "STARTED", failure |-> None, facts |-> None] IN
  /\ At(c, "parse_start")
  /\ \E outcome \in Outcomes :
       /\ runs' = IF outcome = "rolled_back" THEN runs ELSE WithRow(runs, r, new)
       /\ AfterTransaction(c, outcome,
            [command[c] EXCEPT !.at = "parsing", !.run = r,
                               !.seen = WithRow(runs, r, new)[r].status],
            Ended(command[c], "PARSE_START_FAILED"))
  /\ UNCHANGED <<attempts, artifacts>>

(* The command's code is stored for the reason.                            *)
ToUnmappedFailure(c, failure, code) ==
  [command[c] EXCEPT !.at = "failing_parse", !.failure = code, !.code = code]

(* The exception handlers of the parser and of the generation.             *)
ToFailure(c, failure, code) ==
  [command[c] EXCEPT !.at = "failing_parse", !.failure = failure, !.code = code]

(* parse_recent_price_rows, a function of the content.                     *)
ParseRows(c) ==
  LET rejection == ParserRejects[command[c].content] IN
  /\ At(c, "parsing")
  /\ Continue(c, IF rejection = None
                 THEN [command[c] EXCEPT !.at = "completing"]
                 ELSE ToFailure(c, rejection, "PARSE_FAILED"))
  /\ UNCHANGED <<attempts, artifacts, runs>>

(* A run that failed may be completed after all.                           *)
NotValidated(run) == run.status # "VALIDATED"

(* complete_kamis_parse_generation, by the run it finds: a STARTED run ... *)
MayComplete(run) == run.status = "STARTED"

PersistGeneration(c) ==
  LET r == command[c].run
      k == command[c].content IN
  /\ At(c, "completing") /\ MayComplete(runs[r]) /\ GenerationRejects[k] = None
  /\ \E outcome \in {"answered", "unanswered"} :
       AfterTransaction(c, outcome,
         Ended([command[c] EXCEPT !.seen = "VALIDATED"], "SUCCEEDED"),
         ToFailure(c, "PERSISTENCE_FAILED", "GENERATION_FAILED"))
  /\ runs' = [runs EXCEPT ![r].status = "VALIDATED", ![r].facts = k]
  /\ UNCHANGED <<attempts, artifacts>>

(* ... with a result that is refused ...                                   *)
RejectResult(c) ==
  LET rejection == GenerationRejects[command[c].content] IN
  /\ At(c, "completing") /\ MayComplete(runs[command[c].run]) /\ rejection # None
  /\ Continue(c, ToFailure(c, rejection, "GENERATION_FAILED"))
  /\ UNCHANGED <<attempts, artifacts, runs>>

(* A second completion is none of its own.                                 *)
NoReplay(run) == FALSE

(* ... a run somebody completed, whose facts must be those of the result ..*)
IsReplay(run) == run.status = "VALIDATED"

ReplayGeneration(c) ==
  LET run == runs[command[c].run] IN
  /\ At(c, "completing") /\ IsReplay(run)
  /\ Continue(c, IF run.facts = command[c].content
                 THEN Ended([command[c] EXCEPT !.seen = "VALIDATED"], "SUCCEEDED")
                 ELSE ToFailure(c, "RECONCILIATION_FAILED", "GENERATION_FAILED"))
  /\ UNCHANGED <<attempts, artifacts, runs>>

(* ... and any other run (PARSE_RUN_NOT_STARTED).                          *)
RefuseGeneration(c) ==
  LET run == runs[command[c].run] IN
  /\ At(c, "completing") /\ ~IsReplay(run) /\ ~MayComplete(run)
  /\ Continue(c, ToFailure(c, "PERSISTENCE_FAILED", "GENERATION_FAILED"))
  /\ UNCHANGED <<attempts, artifacts, runs>>

(* The transaction is rolled back whole.                                   *)
CompletionFault(c) ==
  /\ At(c, "completing")
  /\ Continue(c, Faulted(ToFailure(c, "PERSISTENCE_FAILED", "GENERATION_FAILED")))
  /\ UNCHANGED <<attempts, artifacts, runs>>

(* Whatever became of the run.                                             *)
MayFailAnyway(run) == TRUE

MayFail(run) == run.status = "STARTED" /\ run.facts = None

(* fail_kamis_parse_run.                                                   *)
FailParse(c) ==
  LET r == command[c].run IN
  /\ At(c, "failing_parse") /\ MayFail(runs[r])
  /\ \E outcome \in Outcomes :
       /\ runs' = IF outcome = "rolled_back" THEN runs
                  ELSE [runs EXCEPT ![r].status = "FAILED", ![r].failure = command[c].failure]
       /\ AfterTransaction(c, outcome,
            Ended([command[c] EXCEPT !.seen = "FAILED"], command[c].code),
            [command[c] EXCEPT !.at = "rereading"])
  /\ UNCHANGED <<attempts, artifacts>>

FailParseRefused(c) ==
  /\ At(c, "failing_parse") /\ ~MayFail(runs[command[c].run])
  /\ Continue(c, [command[c] EXCEPT !.at = "rereading"])
  /\ UNCHANGED <<attempts, artifacts, runs>>

(* A run found open is reported like one that has ended.                   *)
ReportedAsEnded(state, status) == Ended([state EXCEPT !.seen = status], state.code)

(* A terminal status is reported under the code of the failure at hand; an *)
(* open run with the status the command first saw.                         *)
Reported(state, status) ==
  IF status \in Terminal
  THEN Ended([state EXCEPT !.seen = status], state.code)
  ELSE Ended(state, "GENERATION_FAILED")

(* The status is read without a lock; if that fails too, the object in     *)
(* memory stands in for the row.                                           *)
Reread(c) ==
  /\ At(c, "rereading")
  /\ \/ Continue(c, Reported(command[c], runs[command[c].run].status))
     \/ Continue(c, Faulted(Reported(command[c], command[c].seen)))
  /\ UNCHANGED <<attempts, artifacts, runs>>

Crash(c) ==
  /\ command[c].at \notin {"idle", "ended", "crashed"}
  /\ Continue(c, [command[c] EXCEPT !.at = "crashed"])
  /\ UNCHANGED <<attempts, artifacts, runs>>

-----------------------------------------------------------------------------

Init ==
  /\ attempts = [c \in Commands |-> [state |-> None, artifact |-> 0]]
  /\ artifacts = <<>>
  /\ runs = <<>>
  /\ command = [c \in Commands |->
       [at |-> "idle", content |-> None, run |-> 0, seen |-> None, failure |-> None,
        code |-> None, faulted |-> FALSE]]

Fetch(c) ==
  \/ StartFetch(c) \/ CompleteFetch(c) \/ FailFetch(c) \/ FailFetchRefused(c)
  \/ \E k \in Contents : FetchYields(c, k)
  \/ \E code \in CommandCodes : FetchFails(c, code)

Parse(c) ==
  \/ StartParse(c) \/ ParseRows(c)
  \/ PersistGeneration(c) \/ RejectResult(c) \/ ReplayGeneration(c)
  \/ RefuseGeneration(c) \/ CompletionFault(c)
  \/ FailParse(c) \/ FailParseRefused(c) \/ Reread(c)

Next == \E c \in Commands : Fetch(c) \/ Parse(c) \/ Crash(c)

Spec == Init /\ [][Next]_vars

-----------------------------------------------------------------------------
(* Properties.                                                             *)

TypeOK ==
  /\ attempts \in [Commands -> AttemptRow]
  /\ artifacts \in Seq(Contents)
  /\ runs \in Seq(RunRow)
  /\ command \in [Commands -> CommandState]

(* However many commands fetch the same bytes, and whoever of them dies,   *)
(* the content has one artifact and at most one parse run, so one set of   *)
(* facts.  (build_source_artifact, start_or_get_kamis_parse_run.)          *)
OneGenerationPerContent ==
  /\ \A i, j \in DOMAIN artifacts : artifacts[i] = artifacts[j] => i = j
  /\ \A r, s \in DOMAIN runs : runs[r].artifact = runs[s].artifact => r = s
  /\ \A r \in DOMAIN runs : runs[r].artifact \in DOMAIN artifacts

ContentOf(run) == artifacts[run.artifact]

(* The outcome of a run says what its content is: facts only of content    *)
(* everybody accepts, and exactly its own; a rejection by the parser is    *)
(* stored under the parser's code; everything else under the code of the   *)
(* generation, whoever of several commands stored it.                      *)
(* (_parse_failure_code, _generation_failure_code.)                        *)
OutcomeFitsContent ==
  \A r \in DOMAIN runs :
    LET run == runs[r]
        k == ContentOf(run) IN
    /\ run.facts = IF run.status = "VALIDATED" THEN k ELSE None
    /\ run.status = "VALIDATED" => Accepted(k)
    /\ run.status = "FAILED" =>
         run.failure \in IF ParserRejects[k] # None THEN {ParserRejects[k]}
                         ELSE {"PERSISTENCE_FAILED", GenerationRejects[k]} \ {None}

(* What a receipt reports is so, and stays so whatever other commands do   *)
(* later: success means that the content this command fetched is validated *)
(* with its facts, and a final status, whoever reached it and whatever     *)
(* error it is reported with, is the one in the table.                     *)
(* (handle, _finalize_parse_failure.)                                      *)
ReceiptsStayTrue ==
  \A c \in Commands : At(c, "ended") =>
    LET state == command[c] IN
    /\ state.seen \in Terminal => runs[state.run].status = state.seen
    /\ state.code = "SUCCEEDED" =>
         /\ state.seen = "VALIDATED"
         /\ attempts[c].state = "SUCCEEDED"
         /\ runs[state.run].artifact = attempts[c].artifact
         /\ ContentOf(runs[state.run]) = state.content

(* An outcome is final, and so are the facts it was reached with.          *)
(* (ParseRun.save, fail_kamis_parse_run.)                                  *)
OutcomesAreFinal ==
  [][\A r \in DOMAIN runs : runs[r].status \in Terminal =>
       r \in DOMAIN runs' /\ runs'[r] = runs[r]]_vars

(* An attempt is left STARTED only by a command that crashed or said so,   *)
(* and a parse run only when a command of the same content crashed, or met *)
(* a fault and reported no final status; a command still at work may yet   *)
(* finish it.  (_finalize_fetch_failure, _finalize_parse_failure.)         *)
OpenWorkHasACause ==
  /\ \A c \in Commands : At(c, "ended") /\ attempts[c].state = "STARTED" =>
       command[c].faulted /\
       command[c].code \in {"SOURCE_START_FAILED", "FETCH_FINALIZATION_FAILED"}
  /\ \A r \in DOMAIN runs : runs[r].status = "STARTED" =>
       \E c \in Commands :
         /\ attempts[c].artifact = runs[r].artifact
         /\ \/ command[c].at \in {"parsing", "completing", "failing_parse", "rereading", "crashed"}
            \/ /\ At(c, "ended") /\ command[c].faulted
               /\ command[c].code \in {"PARSE_START_FAILED", "GENERATION_FAILED"}
               /\ command[c].seen \notin Terminal

(* A command that met no fault of its own.                                 *)
Undisturbed(c) ==
  /\ At(c, "ended") /\ ~command[c].faulted
  /\ command[c].content # None /\ Accepted(command[c].content)

(* A content everybody accepts is refused to an undisturbed command only   *)
(* after a fault of another command with the same content was stored as    *)
(* the outcome of the run; a crash alone, or an answer that was lost, never*)
(* spoils it.  (complete_kamis_parse_generation, its replay branch.)       *)
OnlyFaultsSpoilReplays ==
  \A c \in Commands : Undisturbed(c) /\ command[c].code # "SUCCEEDED" =>
    /\ runs[command[c].run].status = "FAILED"
    /\ runs[command[c].run].failure = "PERSISTENCE_FAILED"
    /\ \E d \in Commands \ {c} :
         command[d].faulted /\ command[d].content = command[c].content

(* A replay of the same artifact with the same parser and configuration    *)
(* makes the same candidate: an undisturbed command always validates what  *)
(* it fetched.  (docs/DATA-AND-AUDIT-MODEL.md:74-75.)                      *)
ReplayMakesCandidate ==
  \A c \in Commands : Undisturbed(c) => command[c].code = "SUCCEEDED"
=============================================================================
