------------------------- MODULE RecentIngestionProofs -------------------------
(***************************************************************************)
(* For any number of commands and contents: types, one artifact and one    *)
(* parse run per content, final outcomes, receipts that stay true, and why *)
(* a run ended as it did or is still open.  IngestionInv says what each    *)
(* command may rely on of the rows it holds; a step of another command     *)
(* keeps it because the tables only grow and a terminal row does not       *)
(* change (Grows).  CausesInv, which rests on it, says what brought each   *)
(* command and each run where it is.                                       *)
(***************************************************************************)
EXTENDS RecentIngestion, TLAPS

-----------------------------------------------------------------------------
(* Tables.                                                                 *)

(* Whatever get_or_create returns is a row found, or the next one.         *)
LEMMA FoundOrNext ==
  ASSUME NEW rows, NEW found, found \subseteq DOMAIN rows
  PROVE  \/ found # {} /\ GetOrCreate(rows, found) \in found
         \/ found = {} /\ GetOrCreate(rows, found) = Len(rows) + 1
  BY DEF GetOrCreate

-----------------------------------------------------------------------------
(* The invariant.                                                          *)

InParse == {"parsing", "completing", "failing_parse", "rereading"}

(* The attempt names the artifact of the content that was fetched.         *)
HoldsArtifact(state, attempt, arts) ==
  /\ attempt.state = "SUCCEEDED"
  /\ attempt.artifact \in DOMAIN arts
  /\ arts[attempt.artifact] = state.content

(* The run is that artifact's, and has the final status seen, if any.      *)
HoldsRun(state, attempt, rows) ==
  /\ state.run \in DOMAIN rows
  /\ rows[state.run].artifact = attempt.artifact
  /\ state.seen \in Terminal => rows[state.run].status = state.seen

Fits(state, attempt, arts, rows) ==
  /\ state.at \in {"idle", "fetching", "fetched", "failing_fetch", "parse_start"} =>
       state.seen = None
  /\ state.at \in {"fetched", "parse_start"} \cup InParse => state.content \in Contents
  /\ state.at \in {"failing_fetch", "failing_parse", "rereading"} =>
       state.code \in CommandCodes \ {"SUCCEEDED"}
  /\ state.at \in InParse \cup {"parse_start"} => HoldsArtifact(state, attempt, arts)
  /\ state.at \in InParse => HoldsRun(state, attempt, rows)
  /\ state.at = "ended" /\ state.seen \in Terminal => HoldsRun(state, attempt, rows)
  /\ state.at = "ended" /\ state.code = "SUCCEEDED" =>
       /\ state.seen = "VALIDATED"
       /\ HoldsArtifact(state, attempt, arts) /\ HoldsRun(state, attempt, rows)

CommandInv(c) == Fits(command[c], attempts[c], artifacts, runs)

IngestionInv ==
  TypeOK /\ OneGenerationPerContent /\ \A c \in Commands : CommandInv(c)

(* What every step does to the tables.                                     *)
Grows ==
  /\ \A i \in DOMAIN artifacts : i \in DOMAIN artifacts' /\ artifacts'[i] = artifacts[i]
  /\ \A r \in DOMAIN runs :
       /\ r \in DOMAIN runs' /\ runs'[r].artifact = runs[r].artifact
       /\ runs[r].status \in Terminal => runs'[r] = runs[r]

(* What a command relies on, it keeps while the tables grow.               *)
LEMMA FitsWhileGrowing ==
  ASSUME NEW state, NEW attempt, Fits(state, attempt, artifacts, runs), Grows
  PROVE  Fits(state, attempt, artifacts', runs')
<1>. DEFINE held == HoldsArtifact(state, attempt, artifacts)
            kept == HoldsRun(state, attempt, runs)
<1>1. held => HoldsArtifact(state, attempt, artifacts')
  BY DEF HoldsArtifact, Grows
<1>2. kept => HoldsRun(state, attempt, runs')
  BY DEF HoldsRun, Grows
<1>. QED
  BY <1>1, <1>2 DEF Fits

(* What is to be shown of every step.                                      *)
Kept == Grows /\ IngestionInv'

(* A step of one command is to be checked for that command only.           *)
LEMMA StepOfOne ==
  ASSUME IngestionInv, NEW c \in Commands, NEW s \in CommandState, Continue(c, s),
         NEW a \in AttemptRow, attempts' = [attempts EXCEPT ![c] = a],
         artifacts' \in Seq(Contents), runs' \in Seq(RunRow),
         Grows, OneGenerationPerContent', Fits(s, a, artifacts', runs')
  PROVE  Kept
<1>1. TypeOK'
  BY DEF IngestionInv, TypeOK, Continue
<1>2. command'[c] = s /\ attempts'[c] = a
  BY DEF IngestionInv, TypeOK, Continue
<1>3. ASSUME NEW d \in Commands \ {c} PROVE CommandInv(d)'
  <2>1. command'[d] = command[d] /\ attempts'[d] = attempts[d]
    BY DEF IngestionInv, TypeOK, Continue
  <2>. QED
    BY <2>1, FitsWhileGrowing DEF IngestionInv, CommandInv
<1>4. CommandInv(c)'
  BY <1>2 DEF CommandInv
<1>. QED
  BY <1>1, <1>3, <1>4 DEF Kept, IngestionInv

(* A step that only moves the command.                                     *)
LEMMA LocalStep ==
  ASSUME IngestionInv, NEW c \in Commands, NEW s \in CommandState, Continue(c, s),
         UNCHANGED <<attempts, artifacts, runs>>,
         Fits(s, attempts[c], artifacts, runs)
  PROVE  Kept
<1>1. attempts[c] \in AttemptRow /\ attempts' = [attempts EXCEPT ![c] = attempts[c]]
  BY DEF IngestionInv, TypeOK
<1>2. Grows
  BY DEF Grows
<1>3. artifacts' \in Seq(Contents) /\ runs' \in Seq(RunRow) /\ OneGenerationPerContent'
  BY DEF IngestionInv, TypeOK, OneGenerationPerContent
<1>. QED
  BY <1>1, <1>2, <1>3, StepOfOne

-----------------------------------------------------------------------------
(* Steps.                                                                  *)

(* From StartParse on, a command relies on the same rows until it ends.    *)
LEMMA StaysInParse ==
  ASSUME NEW c \in Commands, CommandInv(c), command[c].at \in InParse,
         NEW s \in CommandState, s.at \in InParse,
         s.content = command[c].content, s.run = command[c].run, s.seen = command[c].seen,
         s.at \in {"failing_parse", "rereading"} => s.code \in CommandCodes \ {"SUCCEEDED"}
  PROVE  Fits(s, attempts[c], artifacts, runs)
<1>1. HoldsArtifact(s, attempts[c], artifacts) /\ s.content \in Contents
  BY DEF CommandInv, Fits, HoldsArtifact
<1>2. HoldsRun(s, attempts[c], runs)
  BY DEF CommandInv, Fits, HoldsRun
<1>. QED
  BY <1>1, <1>2 DEF Fits, InParse

(* It may go to its failure handler at any time ...                        *)
LEMMA ToFailureFits ==
  ASSUME NEW c \in Commands, command[c] \in CommandState, CommandInv(c),
         command[c].at \in InParse,
         NEW failure \in ParserCodes \cup GenerationCodes,
         NEW code \in CommandCodes \ {"SUCCEEDED"},
         NEW s \in {ToFailure(c, failure, code), Faulted(ToFailure(c, failure, code))}
  PROVE  s \in CommandState /\ Fits(s, attempts[c], artifacts, runs)
<1>1. s \in CommandState
  BY ZenonT(40) DEF ToFailure, Faulted, CommandState, Stages
<1>2. /\ s.at = "failing_parse" /\ s.code = code
      /\ s.content = command[c].content /\ s.run = command[c].run /\ s.seen = command[c].seen
  BY DEF ToFailure, Faulted, CommandState
<1>. QED
  BY <1>1, <1>2, StaysInParse DEF InParse

(* ... and end with an error and the status it saw before ...              *)
LEMMA EndFits ==
  ASSUME NEW c \in Commands, command[c] \in CommandState, CommandInv(c),
         command[c].at # "ended", command[c].at # "crashed",
         NEW code \in CommandCodes \ {"SUCCEEDED"},
         NEW s \in {Ended(command[c], code), Faulted(Ended(command[c], code))}
  PROVE  s \in CommandState /\ Fits(s, attempts[c], artifacts, runs)
<1>1. s \in CommandState
  BY ZenonT(40) DEF Ended, Faulted, CommandState, Stages
<1>2. s.at = "ended" /\ s.code = code /\ s.run = command[c].run /\ s.seen = command[c].seen
  BY DEF Ended, Faulted, CommandState
<1>3. command[c].at \in {"idle", "fetching", "fetched", "failing_fetch", "parse_start"} \cup InParse
  BY DEF CommandState, Stages, InParse
<1>4. s.seen \in Terminal => HoldsRun(command[c], attempts[c], runs)
  BY <1>2, <1>3, IngestionAssumption DEF CommandInv, Fits
<1>5. s.seen \in Terminal => HoldsRun(s, attempts[c], runs)
  BY <1>2, <1>4 DEF HoldsRun
<1>. QED
  BY <1>1, <1>2, <1>5 DEF Fits, InParse

(* ... or with the final status of its run.                                *)
LEMMA EndWithStatusFits ==
  ASSUME NEW c \in Commands, command[c] \in CommandState,
         NEW rows, command[c].run \in DOMAIN rows,
         rows[command[c].run].artifact = attempts[c].artifact,
         HoldsArtifact(command[c], attempts[c], artifacts),
         NEW status \in Terminal, rows[command[c].run].status = status,
         NEW code \in CommandCodes, code = "SUCCEEDED" => status = "VALIDATED",
         NEW s, \/ s = Ended([command[c] EXCEPT !.seen = status], code)
                \/ s = Faulted(Ended([command[c] EXCEPT !.seen = status], code))
  PROVE  s \in CommandState /\ Fits(s, attempts[c], artifacts, rows)
<1>1. s \in CommandState
  BY DEF Ended, Faulted, CommandState, Stages, RunStates
<1>2. /\ s.at = "ended" /\ s.code = code /\ s.seen = status
      /\ s.run = command[c].run /\ s.content = command[c].content
  BY DEF Ended, Faulted, CommandState
<1>3. HoldsArtifact(s, attempts[c], artifacts)
  BY <1>2 DEF HoldsArtifact
<1>4. HoldsRun(s, attempts[c], rows)
  BY <1>2 DEF HoldsRun, CommandState
<1>. QED
  BY <1>1, <1>2, <1>3, <1>4 DEF Fits, InParse

LEMMA LocalSteps ==
  ASSUME IngestionInv, NEW c \in Commands,
         \/ \E k \in Contents : FetchYields(c, k)
         \/ \E code \in CommandCodes : FetchFails(c, code)
         \/ FailFetchRefused(c) \/ ParseRows(c) \/ RejectResult(c)
         \/ ReplayGeneration(c) \/ RefuseGeneration(c) \/ CompletionFault(c)
         \/ FailParseRefused(c) \/ Reread(c) \/ Crash(c)
  PROVE  Kept
<1>1. command[c] \in CommandState /\ CommandInv(c)
  BY DEF IngestionInv, TypeOK
<1>2. UNCHANGED <<attempts, artifacts, runs>>
  BY DEF FetchYields, FetchFails, FailFetchRefused, ParseRows, RejectResult,
     ReplayGeneration, RefuseGeneration, CompletionFault, FailParseRefused, Reread, Crash
<1>3. SUFFICES \E s \in CommandState :
                 Continue(c, s) /\ Fits(s, attempts[c], artifacts, runs)
  BY <1>2, LocalStep
<1>4. CASE \E k \in Contents : FetchYields(c, k)
  <2>1. PICK k \in Contents : FetchYields(c, k)
    BY <1>4
  <2>. DEFINE s == [command[c] EXCEPT !.at = "fetched", !.content = k]
  <2>2. s \in CommandState
    BY <1>1 DEF CommandState, Stages
  <2>3. Fits(s, attempts[c], artifacts, runs)
    BY <1>1, <2>1 DEF FetchYields, At, CommandInv, Fits, InParse, CommandState
  <2>. QED
    BY <2>1, <2>2, <2>3 DEF FetchYields
<1>5. CASE \E code \in CommandCodes : FetchFails(c, code)
  <2>1. PICK code \in CommandCodes : FetchFails(c, code)
    BY <1>5
  <2>. DEFINE s == [command[c] EXCEPT !.at = "failing_fetch", !.code = code]
  <2>2. s \in CommandState
    BY <1>1 DEF CommandState, Stages
  <2>3. Fits(s, attempts[c], artifacts, runs)
    BY <1>1, <2>1 DEF FetchFails, At, CommandInv, Fits, InParse, CommandState
  <2>. QED
    BY <2>1, <2>2, <2>3 DEF FetchFails
<1>6. CASE FailFetchRefused(c)
  BY <1>1, <1>6, EndFits DEF FailFetchRefused, At, CommandCodes
<1>7. CASE ParseRows(c)
  <2>. DEFINE k == command[c].content
  <2>1. At(c, "parsing") /\ k \in Contents
    BY <1>1, <1>7 DEF ParseRows, At, CommandInv, Fits, InParse
  <2>2. CASE ParserRejects[k] = None
    <3>. DEFINE s == [command[c] EXCEPT !.at = "completing"]
    <3>1. s \in CommandState
      BY <1>1 DEF CommandState, Stages
    <3>2. Fits(s, attempts[c], artifacts, runs)
      BY <1>1, <2>1 DEF At, CommandInv, Fits, HoldsArtifact, HoldsRun, InParse, CommandState
    <3>. QED
      BY <1>7, <2>2, <3>1, <3>2 DEF ParseRows
  <2>3. CASE ParserRejects[k] # None
    <3>1. ParserRejects[k] \in ParserCodes
      BY <2>1, <2>3, IngestionAssumption
    <3>. QED
      BY <1>1, <1>7, <2>1, <2>3, <3>1, ToFailureFits DEF ParseRows, At, InParse, CommandCodes
  <2>. QED
    BY <2>2, <2>3
<1>8. CASE RejectResult(c)
  <2>1. At(c, "completing") /\ command[c].content \in Contents
    BY <1>1, <1>8 DEF RejectResult, At, CommandInv, Fits, InParse
  <2>2. GenerationRejects[command[c].content] \in GenerationCodes
    BY <1>8, <2>1, IngestionAssumption DEF RejectResult
  <2>. QED
    BY <1>1, <1>8, <2>1, <2>2, ToFailureFits DEF RejectResult, At, InParse, CommandCodes
<1>9. CASE ReplayGeneration(c)
  <2>1. At(c, "completing") /\ runs[command[c].run].status = "VALIDATED"
    BY <1>9 DEF ReplayGeneration, IsReplay
  <2>2. CASE runs[command[c].run].facts = command[c].content
    <3>. DEFINE s == Ended([command[c] EXCEPT !.seen = "VALIDATED"], "SUCCEEDED")
    <3>1. /\ HoldsArtifact(command[c], attempts[c], artifacts)
          /\ HoldsRun(command[c], attempts[c], runs)
      BY <1>1, <2>1 DEF CommandInv, Fits, At, InParse
    <3>2. s \in CommandState /\ Fits(s, attempts[c], artifacts, runs)
      BY <1>1, <2>1, <3>1, EndWithStatusFits DEF HoldsRun, CommandCodes, Terminal
    <3>. QED
      BY <1>9, <2>2, <3>2 DEF ReplayGeneration
  <2>3. CASE runs[command[c].run].facts # command[c].content
    BY <1>1, <1>9, <2>1, <2>3, ToFailureFits
    DEF ReplayGeneration, At, InParse, CommandCodes, GenerationCodes
  <2>. QED
    BY <2>2, <2>3
<1>10. CASE RefuseGeneration(c) \/ CompletionFault(c)
  BY <1>1, <1>10, ToFailureFits
  DEF RefuseGeneration, CompletionFault, At, InParse, CommandCodes, GenerationCodes
<1>11. CASE FailParseRefused(c)
  <2>. DEFINE s == [command[c] EXCEPT !.at = "rereading"]
  <2>1. s \in CommandState
    BY <1>1 DEF CommandState, Stages
  <2>2. Fits(s, attempts[c], artifacts, runs)
    BY <1>1, <1>11
    DEF FailParseRefused, At, CommandInv, Fits, HoldsArtifact, HoldsRun, InParse, CommandState
  <2>. QED
    BY <1>11, <2>1, <2>2 DEF FailParseRefused
<1>12. CASE Reread(c)
  <2>1. /\ At(c, "rereading") /\ command[c].code \in CommandCodes \ {"SUCCEEDED"}
        /\ HoldsArtifact(command[c], attempts[c], artifacts)
        /\ HoldsRun(command[c], attempts[c], runs)
    BY <1>1, <1>12 DEF Reread, At, CommandInv, Fits, InParse
  <2>2. PICK status \in {runs[command[c].run].status, command[c].seen} :
          \/ Continue(c, Reported(command[c], status))
          \/ Continue(c, Faulted(Reported(command[c], status)))
    BY <1>12 DEF Reread
  <2>3. CASE status \in Terminal
    <3>1. runs[command[c].run].status = status
      BY <2>1, <2>2, <2>3 DEF HoldsRun
    <3>2. PICK s \in {Reported(command[c], status), Faulted(Reported(command[c], status))} :
            Continue(c, s)
      BY <2>2
    <3>. QED
      BY <1>1, <2>1, <2>3, <3>1, <3>2, EndWithStatusFits DEF Reported, HoldsRun
  <2>4. CASE status \notin Terminal
    BY <1>1, <2>1, <2>2, <2>4, EndFits DEF Reported, At, CommandCodes
  <2>. QED
    BY <2>3, <2>4
<1>13. CASE Crash(c)
  <2>. DEFINE s == [command[c] EXCEPT !.at = "crashed"]
  <2>1. s \in CommandState
    BY <1>1 DEF CommandState, Stages
  <2>2. Fits(s, attempts[c], artifacts, runs)
    BY <1>1 DEF Fits, InParse, CommandState
  <2>. QED
    BY <1>13, <2>1, <2>2 DEF Crash
<1>. QED
  BY <1>4, <1>5, <1>6, <1>7, <1>8, <1>9, <1>10, <1>11, <1>12, <1>13

(* One command writes a row of runs: it keeps the artifact of the row, and *)
(* a terminal row as a whole.                                              *)
LEMMA RunStep ==
  ASSUME IngestionInv, NEW c \in Commands, NEW s \in CommandState, Continue(c, s),
         NEW r \in DOMAIN runs, NEW row \in RunRow, row.artifact = runs[r].artifact,
         runs[r].status \notin Terminal,
         runs' = [runs EXCEPT ![r] = row], UNCHANGED <<attempts, artifacts>>,
         Fits(s, attempts[c], artifacts, runs) \/ Fits(s, attempts[c], artifacts, runs')
  PROVE  Kept
<1>1. attempts[c] \in AttemptRow /\ attempts' = [attempts EXCEPT ![c] = attempts[c]]
  BY DEF IngestionInv, TypeOK
<1>2. runs' \in Seq(RunRow) /\ DOMAIN runs' = DOMAIN runs
  BY DEF IngestionInv, TypeOK
<1>3. \A q \in DOMAIN runs : runs'[q] = IF q = r THEN row ELSE runs[q]
  BY DEF IngestionInv, TypeOK
<1>4. Grows
  BY <1>2, <1>3 DEF Grows
<1>5. artifacts' \in Seq(Contents) /\ OneGenerationPerContent'
  BY <1>2, <1>3 DEF IngestionInv, TypeOK, OneGenerationPerContent
<1>6. Fits(s, attempts[c], artifacts', runs')
  BY <1>4, FitsWhileGrowing
<1>. QED
  BY <1>1, <1>2, <1>4, <1>5, <1>6, StepOfOne

LEMMA PersistKeeps ==
  ASSUME IngestionInv, NEW c \in Commands, PersistGeneration(c)
  PROVE  Kept
<1>. DEFINE r == command[c].run
            row == [runs[r] EXCEPT !.status = "VALIDATED", !.facts = command[c].content]
<1>1. /\ command[c] \in CommandState /\ CommandInv(c)
      /\ At(c, "completing") /\ runs[r].status = "STARTED"
  BY DEF IngestionInv, TypeOK, PersistGeneration, MayComplete
<1>2. /\ HoldsArtifact(command[c], attempts[c], artifacts)
      /\ HoldsRun(command[c], attempts[c], runs)
      /\ command[c].content \in Contents
  BY <1>1 DEF CommandInv, Fits, At, InParse
<1>3. r \in DOMAIN runs /\ runs[r] \in RunRow
  BY <1>2 DEF HoldsRun, IngestionInv, TypeOK
<1>4. row \in RunRow /\ row.artifact = runs[r].artifact
  BY <1>2, <1>3 DEF RunRow, RunStates, Terminal
<1>5. runs' = [runs EXCEPT ![r] = row]
  BY <1>3 DEF PersistGeneration, IngestionInv, TypeOK
<1>6. r \in DOMAIN runs' /\ runs'[r] = row /\ UNCHANGED <<attempts, artifacts>>
  BY <1>3, <1>5 DEF PersistGeneration, IngestionInv, TypeOK
<1>7. runs'[r].status = "VALIDATED" /\ runs'[r].artifact = attempts[c].artifact
  BY <1>2, <1>3, <1>4, <1>6 DEF HoldsRun, RunRow
<1>8. PICK s \in {Ended([command[c] EXCEPT !.seen = "VALIDATED"], "SUCCEEDED"),
                  Faulted(ToFailure(c, "PERSISTENCE_FAILED", "GENERATION_FAILED"))} :
        Continue(c, s)
  BY DEF PersistGeneration, AfterTransaction
<1>9. CASE s = Ended([command[c] EXCEPT !.seen = "VALIDATED"], "SUCCEEDED")
  <2>1. s \in CommandState /\ Fits(s, attempts[c], artifacts, runs')
    BY <1>1, <1>2, <1>6, <1>7, <1>9, EndWithStatusFits DEF CommandCodes, Terminal
  <2>. QED
    BY <1>1, <1>3, <1>4, <1>5, <1>6, <1>8, <2>1, RunStep DEF Terminal
<1>10. CASE s = Faulted(ToFailure(c, "PERSISTENCE_FAILED", "GENERATION_FAILED"))
  <2>1. s \in CommandState /\ Fits(s, attempts[c], artifacts, runs)
    BY <1>1, <1>10, ToFailureFits DEF At, InParse, CommandCodes, GenerationCodes
  <2>. QED
    BY <1>1, <1>3, <1>4, <1>5, <1>6, <1>8, <2>1, RunStep DEF Terminal
<1>. QED
  BY <1>8, <1>9, <1>10

LEMMA FailParseKeeps ==
  ASSUME IngestionInv, NEW c \in Commands, FailParse(c)
  PROVE  Kept
<1>. DEFINE r == command[c].run
            row == [runs[r] EXCEPT !.status = "FAILED", !.failure = command[c].failure]
            reread == [command[c] EXCEPT !.at = "rereading"]
<1>1. /\ command[c] \in CommandState /\ CommandInv(c) /\ At(c, "failing_parse")
      /\ runs[r].status = "STARTED" /\ UNCHANGED <<attempts, artifacts>>
  BY DEF IngestionInv, TypeOK, FailParse, MayFail
<1>2. /\ HoldsArtifact(command[c], attempts[c], artifacts)
      /\ HoldsRun(command[c], attempts[c], runs)
      /\ command[c].code \in CommandCodes \ {"SUCCEEDED"}
  BY <1>1 DEF CommandInv, Fits, At, InParse
<1>3. r \in DOMAIN runs /\ runs[r] \in RunRow
  BY <1>2 DEF HoldsRun, IngestionInv, TypeOK
<1>4. row \in RunRow /\ row.artifact = runs[r].artifact /\ row.status = "FAILED"
  BY <1>1, <1>3 DEF RunRow, RunStates, Terminal, CommandState
<1>5. PICK outcome \in Outcomes :
        /\ runs' = IF outcome = "rolled_back" THEN runs
                   ELSE [runs EXCEPT ![r].status = "FAILED", ![r].failure = command[c].failure]
        /\ AfterTransaction(c, outcome,
             Ended([command[c] EXCEPT !.seen = "FAILED"], command[c].code), reread)
  BY DEF FailParse
<1>6. Faulted(reread) \in CommandState
  BY <1>1 DEF Faulted, CommandState, Stages
<1>7. Fits(Faulted(reread), attempts[c], artifacts, runs)
  <2>1. PICK s : s = Faulted(reread)
    OBVIOUS
  <2>2. /\ s.at = "rereading" /\ s.code = command[c].code
        /\ s.content = command[c].content /\ s.run = r /\ s.seen = command[c].seen
    BY <1>1, <2>1 DEF Faulted, CommandState
  <2>3. Fits(s, attempts[c], artifacts, runs)
    BY <1>1, <1>2, <1>6, <2>1, <2>2, StaysInParse DEF At, InParse
  <2>. QED
    BY <2>1, <2>3
<1>8. CASE outcome = "rolled_back"
  <2>1. Continue(c, Faulted(reread)) /\ UNCHANGED runs
    BY <1>5, <1>8 DEF AfterTransaction
  <2>. QED
    BY <1>1, <1>6, <1>7, <2>1, LocalStep
<1>9. CASE outcome # "rolled_back"
  <2>1. runs' = [runs EXCEPT ![r] = row]
    BY <1>3, <1>5, <1>9 DEF IngestionInv, TypeOK
  <2>2. r \in DOMAIN runs' /\ runs'[r] = row
    BY <1>3, <2>1 DEF IngestionInv, TypeOK
  <2>3. CASE outcome = "answered"
    <3>. DEFINE s == Ended([command[c] EXCEPT !.seen = "FAILED"], command[c].code)
    <3>1. runs'[r].status = "FAILED" /\ runs'[r].artifact = attempts[c].artifact
      BY <1>2, <1>4, <2>2 DEF HoldsRun
    <3>2. s \in CommandState /\ Fits(s, attempts[c], artifacts, runs')
      BY <1>1, <1>2, <2>2, <3>1, EndWithStatusFits DEF Terminal
    <3>3. Continue(c, s)
      BY <1>5, <2>3 DEF AfterTransaction
    <3>. QED
      BY <1>1, <1>3, <1>4, <2>1, <3>2, <3>3, RunStep DEF Terminal
  <2>4. CASE outcome # "answered"
    <3>1. Continue(c, Faulted(reread))
      BY <1>5, <2>4 DEF AfterTransaction
    <3>. QED
      BY <1>1, <1>3, <1>4, <1>6, <1>7, <2>1, <3>1, RunStep DEF Terminal
  <2>. QED
    BY <2>3, <2>4
<1>. QED
  BY <1>8, <1>9

(* A step that only writes the command's attempt.                          *)
LEMMA AttemptStep ==
  ASSUME IngestionInv, NEW c \in Commands, NEW s \in CommandState, Continue(c, s),
         NEW a \in AttemptRow, attempts' = [attempts EXCEPT ![c] = a],
         UNCHANGED <<artifacts, runs>>, Fits(s, a, artifacts, runs)
  PROVE  Kept
<1>1. Grows
  BY DEF Grows
<1>2. artifacts' \in Seq(Contents) /\ runs' \in Seq(RunRow) /\ OneGenerationPerContent'
  BY DEF IngestionInv, TypeOK, OneGenerationPerContent
<1>. QED
  BY <1>1, <1>2, StepOfOne

(* Before it holds an artifact a command relies on nothing.                *)
LEMMA EarlyStateFits ==
  ASSUME NEW s, NEW a, s.seen = None,
         \/ s.at = "fetching"
         \/ s.at \in {"failing_fetch", "ended"} /\ s.code \in CommandCodes \ {"SUCCEEDED"}
  PROVE  Fits(s, a, artifacts, runs)
  BY IngestionAssumption DEF Fits, InParse

LEMMA StartFetchKeeps ==
  ASSUME IngestionInv, NEW c \in Commands, StartFetch(c)
  PROVE  Kept
<1>. DEFINE started == [state |-> "STARTED", artifact |-> 0]
            going == [command[c] EXCEPT !.at = "fetching"]
            ending == Faulted(Ended(command[c], "SOURCE_START_FAILED"))
<1>1. /\ command[c] \in CommandState /\ command[c].seen = None /\ attempts[c] \in AttemptRow
      /\ UNCHANGED <<artifacts, runs>>
  BY DEF IngestionInv, TypeOK, StartFetch, At, CommandInv, Fits
<1>2. PICK a \in {attempts[c], started}, s \in {going, ending} :
        attempts' = [attempts EXCEPT ![c] = a] /\ Continue(c, s)
  BY DEF StartFetch, AfterTransaction, IngestionInv, TypeOK
<1>3. a \in AttemptRow
  BY <1>1, <1>2 DEF AttemptRow, AttemptStates
<1>4. s \in CommandState
  BY <1>1, <1>2, ZenonT(40) DEF Faulted, Ended, CommandState, Stages, CommandCodes
<1>5. s.seen = None /\ (s.at = "fetching" \/ (s.at = "ended" /\ s.code = "SOURCE_START_FAILED"))
  BY <1>1, <1>2 DEF Faulted, Ended, CommandState
<1>6. Fits(s, a, artifacts, runs)
  BY <1>5, EarlyStateFits DEF CommandCodes
<1>. QED
  BY <1>1, <1>2, <1>3, <1>4, <1>6, AttemptStep

LEMMA FailFetchKeeps ==
  ASSUME IngestionInv, NEW c \in Commands, FailFetch(c)
  PROVE  Kept
<1>. DEFINE codes == {command[c].code, "FETCH_FINALIZATION_FAILED"}
<1>1. /\ command[c] \in CommandState /\ command[c].seen = None /\ attempts[c] \in AttemptRow
      /\ codes \subseteq CommandCodes \ {"SUCCEEDED"}
      /\ UNCHANGED <<artifacts, runs>>
  BY DEF IngestionInv, TypeOK, FailFetch, At, CommandInv, Fits, CommandCodes
<1>2. PICK outcome \in Outcomes, st \in FailureStates(command[c].code) :
        /\ attempts' = IF outcome = "rolled_back" THEN attempts
                       ELSE [attempts EXCEPT ![c].state = st]
        /\ AfterTransaction(c, outcome,
             Ended(command[c], command[c].code), Ended(command[c], "FETCH_FINALIZATION_FAILED"))
  BY DEF FailFetch
<1>3. PICK a \in {attempts[c], [attempts[c] EXCEPT !.state = st]} :
        attempts' = [attempts EXCEPT ![c] = a]
  BY <1>2 DEF IngestionInv, TypeOK
<1>4. a \in AttemptRow
  BY <1>1, <1>3 DEF AttemptRow, AttemptStates, FailureStates
<1>5. PICK code \in codes :
        \/ Continue(c, Ended(command[c], code))
        \/ Continue(c, Faulted(Ended(command[c], code)))
  BY <1>2 DEF AfterTransaction
<1>6. PICK s \in {Ended(command[c], code), Faulted(Ended(command[c], code))} : Continue(c, s)
  BY <1>5
<1>7. s \in CommandState
  <2>1. code \in CommandCodes
    BY <1>1, <1>5
  <2>2. Ended(command[c], code) \in CommandState
    BY <1>1, <2>1 DEF Ended, CommandState, Stages
  <2>. QED
    BY <1>6, <2>2 DEF Faulted, CommandState
<1>8. s.seen = None /\ s.at = "ended" /\ s.code = code
  BY <1>1, <1>5, <1>6 DEF Faulted, Ended, CommandState
<1>9. Fits(s, a, artifacts, runs)
  BY <1>1, <1>5, <1>8, EarlyStateFits
<1>. QED
  BY <1>1, <1>3, <1>4, <1>6, <1>7, <1>9, AttemptStep

LEMMA CompleteFetchKeeps ==
  ASSUME IngestionInv, NEW c \in Commands, CompleteFetch(c)
  PROVE  Kept
<1>. DEFINE k == command[c].content
            i == ArtifactOf(k)
            going == [command[c] EXCEPT !.at = "parse_start"]
            failing == Faulted([command[c] EXCEPT !.at = "failing_fetch",
                                                  !.code = "FETCH_PERSISTENCE_FAILED"])
            found == {j \in DOMAIN artifacts : artifacts[j] = k}
            row == [state |-> "SUCCEEDED", artifact |-> i]
<1>1. /\ command[c] \in CommandState /\ command[c].seen = None /\ k \in Contents
      /\ attempts[c] \in AttemptRow /\ artifacts \in Seq(Contents) /\ runs \in Seq(RunRow)
      /\ UNCHANGED runs
  BY DEF IngestionInv, TypeOK, CompleteFetch, At, CommandInv, Fits
<1>2. PICK outcome \in Outcomes :
        /\ IF outcome = "rolled_back" THEN UNCHANGED <<attempts, artifacts>>
           ELSE /\ attempts' = [attempts EXCEPT ![c] = row]
                /\ artifacts' = WithRow(artifacts, i, k)
        /\ AfterTransaction(c, outcome, going,
             [command[c] EXCEPT !.at = "failing_fetch", !.code = "FETCH_PERSISTENCE_FAILED"])
  BY DEF CompleteFetch
<1>3. going \in CommandState /\ failing \in CommandState
  BY <1>1 DEF Faulted, CommandState, Stages, CommandCodes
<1>4. ASSUME NEW a PROVE Fits(failing, a, artifacts, runs)
  <2>1. /\ failing.seen = None /\ failing.at = "failing_fetch"
        /\ failing.code = "FETCH_PERSISTENCE_FAILED"
    BY <1>1 DEF Faulted, CommandState
  <2>. QED
    BY <2>1, EarlyStateFits DEF CommandCodes
<1>5. CASE outcome = "rolled_back"
  BY <1>1, <1>2, <1>3, <1>4, <1>5, LocalStep DEF AfterTransaction
<1>6. CASE outcome # "rolled_back"
  <2>1. \/ i \in DOMAIN artifacts /\ artifacts[i] = k
        \/ i = Len(artifacts) + 1 /\ \A j \in DOMAIN artifacts : artifacts[j] # k
    <3>1. \/ found # {} /\ i \in found
          \/ found = {} /\ i = Len(artifacts) + 1
      BY FoundOrNext DEF ArtifactOf
    <3>. QED
      BY <3>1
  <2>. HIDE DEF i
  <2>2. artifacts' = WithRow(artifacts, i, k) /\ attempts' = [attempts EXCEPT ![c] = row]
    BY <1>2, <1>6
  <2>3. /\ artifacts' \in Seq(Contents) /\ i \in DOMAIN artifacts'
        /\ \A j \in DOMAIN artifacts : j \in DOMAIN artifacts' /\ artifacts'[j] = artifacts[j]
        /\ \A j \in DOMAIN artifacts' :
             j \in DOMAIN artifacts \/ (j = i /\ i \notin DOMAIN artifacts /\ artifacts'[j] = k)
    <3>1. i \in DOMAIN artifacts \cup {Len(artifacts) + 1}
      BY <2>1
    <3>2. k \in Contents /\ artifacts \in Seq(Contents)
      BY <1>1
    <3>. HIDE DEF k
    <3>. QED
      BY <2>2, <3>1, <3>2 DEF WithRow
  <2>4. Grows
    BY <1>1, <2>3 DEF Grows
  <2>5. OneGenerationPerContent'
    BY <1>1, <2>1, <2>3 DEF IngestionInv, OneGenerationPerContent
  <2>6. row \in AttemptRow
    BY <1>1, <2>1 DEF AttemptRow, AttemptStates
  <2>7. artifacts'[i] = k
    BY <2>1, <2>3
  <2>8. Fits(going, row, artifacts', runs')
    <3>1. going.at = "parse_start" /\ going.seen = None /\ going.content = k
      BY <1>1 DEF CommandState
    <3>2. HoldsArtifact(going, row, artifacts')
      BY <2>3, <2>7, <3>1 DEF HoldsArtifact
    <3>. QED
      BY <1>1, <3>1, <3>2 DEF Fits, InParse
  <2>9. Fits(failing, row, artifacts', runs')
    BY <1>4, <2>4, FitsWhileGrowing
  <2>10. PICK s \in {going, failing} : Continue(c, s)
    BY <1>2 DEF AfterTransaction
  <2>. QED
    BY <1>1, <1>3, <2>2, <2>3, <2>4, <2>5, <2>6, <2>8, <2>9, <2>10, StepOfOne
<1>. QED
  BY <1>5, <1>6

LEMMA StartParseKeeps ==
  ASSUME IngestionInv, NEW c \in Commands, StartParse(c)
  PROVE  Kept
<1>. DEFINE i == attempts[c].artifact
            r == RunOf(i)
            new == [artifact |-> i, status |-> "STARTED", failure |-> None, facts |-> None]
            going == [command[c] EXCEPT !.at = "parsing", !.run = r,
                                        !.seen = WithRow(runs, r, new)[r].status]
            ending == Faulted(Ended(command[c], "PARSE_START_FAILED"))
            found == {q \in DOMAIN runs : runs[q].artifact = i}
<1>1. /\ command[c] \in CommandState /\ At(c, "parse_start")
      /\ command[c].seen = None /\ command[c].content \in Contents
      /\ HoldsArtifact(command[c], attempts[c], artifacts)
      /\ attempts[c] \in AttemptRow /\ runs \in Seq(RunRow) /\ artifacts \in Seq(Contents)
      /\ UNCHANGED <<attempts, artifacts>>
  BY DEF IngestionInv, TypeOK, StartParse, At, CommandInv, Fits
<1>2. PICK outcome \in Outcomes :
        /\ runs' = IF outcome = "rolled_back" THEN runs ELSE WithRow(runs, r, new)
        /\ AfterTransaction(c, outcome, going, Ended(command[c], "PARSE_START_FAILED"))
  BY DEF StartParse
<1>3. ending \in CommandState /\ Fits(ending, attempts[c], artifacts, runs)
  <2>1. CommandInv(c)
    BY DEF IngestionInv
  <2>. QED
    BY <1>1, <2>1, EndFits DEF At, CommandCodes
<1>4. CASE outcome = "rolled_back"
  BY <1>1, <1>2, <1>3, <1>4, LocalStep DEF AfterTransaction
<1>5. CASE outcome # "rolled_back"
  <2>1. \/ r \in DOMAIN runs /\ runs[r].artifact = i
        \/ r = Len(runs) + 1 /\ \A q \in DOMAIN runs : runs[q].artifact # i
    <3>1. \/ found # {} /\ r \in found
          \/ found = {} /\ r = Len(runs) + 1
      BY FoundOrNext DEF RunOf
    <3>. QED
      BY <3>1
  <2>. HIDE DEF r
  <2>2. new \in RunRow /\ i \in DOMAIN artifacts
    BY <1>1 DEF RunRow, RunStates, AttemptRow, HoldsArtifact
  <2>3. /\ new.artifact = i /\ new.status = "STARTED" /\ r \in Nat
    BY <1>1, <2>1
  <2>4. runs' = WithRow(runs, r, new)
    BY <1>2, <1>5
  <2>. HIDE DEF new, i
  <2>5. /\ runs' \in Seq(RunRow) /\ r \in DOMAIN runs'
        /\ \A q \in DOMAIN runs : q \in DOMAIN runs' /\ runs'[q] = runs[q]
        /\ \A q \in DOMAIN runs' :
             q \in DOMAIN runs \/ (q = r /\ r \notin DOMAIN runs /\ runs'[q] = new)
    BY <1>1, <2>1, <2>2, <2>4 DEF WithRow
  <2>6. Grows
    BY <1>1, <2>5 DEF Grows
  <2>7. OneGenerationPerContent'
    <3>1. /\ \A p, q \in DOMAIN runs : runs[p].artifact = runs[q].artifact => p = q
          /\ \A q \in DOMAIN runs : runs[q].artifact \in DOMAIN artifacts
          /\ \A j, k \in DOMAIN artifacts : artifacts[j] = artifacts[k] => j = k
      BY DEF IngestionInv, OneGenerationPerContent
    <3>2. ASSUME NEW p \in DOMAIN runs', NEW q \in DOMAIN runs',
                 runs'[p].artifact = runs'[q].artifact
          PROVE  p = q
      <4>1. CASE r \in DOMAIN runs
        BY <2>5, <3>1, <3>2, <4>1
      <4>2. CASE r \notin DOMAIN runs
        <5>1. \A d \in DOMAIN runs : runs[d].artifact # i
          BY <2>1, <4>2
        <5>. QED
          BY <2>3, <2>5, <3>1, <3>2, <5>1
      <4>. QED
        BY <4>1, <4>2
    <3>3. \A q \in DOMAIN runs' : runs'[q].artifact \in DOMAIN artifacts
      BY <2>2, <2>3, <2>5, <3>1
    <3>. QED
      BY <1>1, <3>1, <3>2, <3>3 DEF OneGenerationPerContent
  <2>8. runs'[r].artifact = i /\ runs'[r].status \in RunStates
    <3>1. runs'[r] \in RunRow
      BY <2>5
    <3>2. runs'[r].artifact = i
      <4>1. CASE r \in DOMAIN runs
        BY <2>1, <2>5, <4>1
      <4>2. CASE r \notin DOMAIN runs
        BY <2>3, <2>5, <4>2
      <4>. QED
        BY <4>1, <4>2
    <3>. QED
      BY <3>1, <3>2 DEF RunRow
  <2>9. PICK s \in {going, ending} : Continue(c, s)
    BY <1>2 DEF AfterTransaction
  <2>10. CASE s = going
    <3>1. s = [command[c] EXCEPT !.at = "parsing", !.run = r, !.seen = runs'[r].status]
      BY <2>4, <2>10
    <3>2. /\ s.at = "parsing" /\ s.run = r /\ s.seen = runs'[r].status
          /\ s.content = command[c].content /\ s \in CommandState
      BY <1>1, <2>3, <2>8, <3>1 DEF CommandState, Stages
    <3>3. HoldsArtifact(s, attempts[c], artifacts') /\ HoldsRun(s, attempts[c], runs')
      BY <1>1, <2>5, <2>8, <3>2 DEF HoldsArtifact, HoldsRun, i
    <3>4. Fits(s, attempts[c], artifacts', runs')
      BY <1>1, <3>2, <3>3 DEF Fits, InParse
    <3>5. attempts' = [attempts EXCEPT ![c] = attempts[c]] /\ artifacts' \in Seq(Contents)
      BY <1>1 DEF IngestionInv, TypeOK
    <3>. QED
      BY <1>1, <2>5, <2>6, <2>7, <2>9, <3>2, <3>4, <3>5, StepOfOne
  <2>11. CASE s = ending
    <3>1. Fits(s, attempts[c], artifacts', runs') /\ s \in CommandState
      BY <1>3, <2>6, <2>11, FitsWhileGrowing
    <3>2. attempts' = [attempts EXCEPT ![c] = attempts[c]] /\ artifacts' \in Seq(Contents)
      BY <1>1 DEF IngestionInv, TypeOK
    <3>. QED
      BY <1>1, <2>5, <2>6, <2>7, <2>9, <3>1, <3>2, StepOfOne
  <2>. QED
    BY <2>9, <2>10, <2>11
<1>. QED
  BY <1>4, <1>5

-----------------------------------------------------------------------------
(* Theorems.                                                               *)

LEMMA InitInv == Init => IngestionInv
<1>. SUFFICES ASSUME Init PROVE IngestionInv
  OBVIOUS
<1>1. TypeOK
  BY DEF Init, TypeOK, AttemptRow, CommandState, Stages
<1>2. OneGenerationPerContent
  BY DEF Init, OneGenerationPerContent
<1>3. ASSUME NEW c \in Commands PROVE CommandInv(c)
  BY IngestionAssumption DEF Init, CommandInv, Fits, InParse
<1>. QED
  BY <1>1, <1>2, <1>3 DEF IngestionInv

LEMMA NextKeeps ==
  ASSUME IngestionInv, [Next]_vars
  PROVE  Kept
<1>1. CASE UNCHANGED vars
  BY <1>1 DEF vars, Kept, Grows, IngestionInv, TypeOK, OneGenerationPerContent, CommandInv
<1>2. ASSUME NEW c \in Commands, Fetch(c) PROVE Kept
  BY <1>2, StartFetchKeeps, CompleteFetchKeeps, FailFetchKeeps, LocalSteps DEF Fetch
<1>3. ASSUME NEW c \in Commands, Parse(c) PROVE Kept
  BY <1>3, StartParseKeeps, PersistKeeps, FailParseKeeps, LocalSteps DEF Parse
<1>4. ASSUME NEW c \in Commands, Crash(c) PROVE Kept
  BY <1>4, LocalSteps
<1>. QED
  BY <1>1, <1>2, <1>3, <1>4 DEF Next

LEMMA AlwaysInv == Spec => []IngestionInv
<1>1. IngestionInv /\ [Next]_vars => IngestionInv'
  BY NextKeeps DEF Kept
<1>. QED
  BY <1>1, InitInv, PTL DEF Spec

(* The rows and what the commands hold of them keep their types, in every  *)
(* behaviour of any number of commands.                                    *)
THEOREM IngestionTypes == Spec => []TypeOK
  BY AlwaysInv, PTL DEF IngestionInv

(* However many commands fetch the same bytes, the content has one         *)
(* artifact and at most one parse run.  (build_source_artifact,            *)
(* start_or_get_kamis_parse_run.)                                          *)
THEOREM ContentsHaveOneGeneration == Spec => []OneGenerationPerContent
  BY AlwaysInv, PTL DEF IngestionInv

(* An outcome of a parse run is final, whatever commands race for it.      *)
(* (complete_kamis_parse_generation, fail_kamis_parse_run.)                *)
THEOREM RunOutcomesAreFinal == Spec => OutcomesAreFinal
<1>. DEFINE Final == \A r \in DOMAIN runs : runs[r].status \in Terminal =>
                       r \in DOMAIN runs' /\ runs'[r] = runs[r]
<1>1. IngestionInv /\ [Next]_vars => [Final]_vars
  BY NextKeeps DEF Kept, Grows
<1>. QED
  BY <1>1, AlwaysInv, PTL DEF Spec, OutcomesAreFinal

(* What a command reported stays true, whatever other commands do later.   *)
(* (handle, _finalize_parse_failure.)                                      *)
THEOREM ReceiptsAlwaysTrue == Spec => []ReceiptsStayTrue
<1>1. IngestionInv => ReceiptsStayTrue
  BY DEF IngestionInv, CommandInv, Fits, HoldsArtifact, HoldsRun, ReceiptsStayTrue, ContentOf, At
<1>. QED
  BY <1>1, AlwaysInv, PTL

-----------------------------------------------------------------------------
(* Why a run ended as it did, or did not end.  The second invariant rests  *)
(* on the first: a command that goes to its failure handler brings a       *)
(* reason that fits its content; one that met no fault of its own, and     *)
(* whose content everybody accepts, comes there only behind a run that     *)
(* FAILED; and one that rereads the status has met a fault or an outcome.  *)

Reasons(k) ==
  IF ParserRejects[k] # None THEN {ParserRejects[k]}
  ELSE {"PERSISTENCE_FAILED", GenerationRejects[k]} \ {None}

(* The run of this content failed.                                         *)
Spoilt(state, arts, rows) ==
  /\ state.run \in DOMAIN rows /\ rows[state.run].status = "FAILED"
  /\ rows[state.run].artifact \in DOMAIN arts
  /\ arts[rows[state.run].artifact] = state.content

Refused(state) ==
  \/ state.at \in {"failing_parse", "rereading"}
  \/ state.at = "ended" /\ state.code # "SUCCEEDED"

Behaves(state, attempt, arts, rows) ==
  /\ state.at \in {"idle", "fetching"} => state.content = None
  /\ state.at = "failing_fetch" /\ ~state.faulted => state.content = None
  /\ state.at = "completing" => ParserRejects[state.content] = None
  /\ state.at = "failing_parse" => state.failure \in Reasons(state.content)
  /\ state.at = "rereading" => state.faulted \/ rows[state.run].status \in Terminal
  /\ Refused(state) /\ ~state.faulted /\ state.content # None /\ Accepted(state.content) =>
       Spoilt(state, arts, rows)
  /\ state.at = "ended" /\ attempt.state = "STARTED" =>
       state.faulted /\ state.code \in {"SOURCE_START_FAILED", "FETCH_FINALIZATION_FAILED"}

(* Who may still end an open run, or why nobody will.                      *)
Accounts(state) ==
  \/ state.at \in InParse \cup {"crashed"}
  \/ /\ state.at = "ended" /\ state.faulted
     /\ state.code \in {"PARSE_START_FAILED", "GENERATION_FAILED"}
     /\ state.seen \notin Terminal

OpenRunsAccounted ==
  \A r \in DOMAIN runs : runs[r].status = "STARTED" =>
    \E c \in Commands : attempts[c].artifact = runs[r].artifact /\ Accounts(command[c])

FaultsBehindFailures ==
  \A r \in DOMAIN runs : runs[r].status = "FAILED" /\ Accepted(ContentOf(runs[r])) =>
    \E d \in Commands : command[d].faulted /\ command[d].content = ContentOf(runs[r])

CausesInv ==
  /\ OutcomeFitsContent /\ FaultsBehindFailures /\ OpenRunsAccounted
  /\ \A c \in Commands : Behaves(command[c], attempts[c], artifacts, runs)

LEMMA BehavesWhileGrowing ==
  ASSUME NEW state, NEW attempt, Grows, Fits(state, attempt, artifacts, runs),
         Behaves(state, attempt, artifacts, runs)
  PROVE  Behaves(state, attempt, artifacts', runs')
<1>1. state.at = "rereading" => state.run \in DOMAIN runs
  BY DEF Fits, InParse, HoldsRun
<1>2. state.at = "rereading" /\ runs[state.run].status \in Terminal => runs'[state.run].status \in Terminal
  BY <1>1 DEF Grows
<1>3. Spoilt(state, artifacts, runs) => Spoilt(state, artifacts', runs')
  BY DEF Spoilt, Grows, Terminal
<1>. QED
  BY <1>2, <1>3 DEF Behaves

(* Contents of runs do not change.                                         *)
LEMMA ContentsStay ==
  ASSUME IngestionInv, Grows, NEW r \in DOMAIN runs
  PROVE  artifacts'[runs'[r].artifact] = ContentOf(runs[r]) /\ ContentOf(runs[r]) \in Contents
<1>1. runs[r].artifact \in DOMAIN artifacts /\ artifacts \in Seq(Contents)
  BY DEF IngestionInv, OneGenerationPerContent, TypeOK
<1>2. runs'[r].artifact = runs[r].artifact /\ artifacts'[runs[r].artifact] = artifacts[runs[r].artifact]
  BY <1>1 DEF Grows
<1>. QED
  BY <1>1, <1>2 DEF ContentOf

(* The run that a command in its parse holds is the one of its content.    *)
LEMMA HeldRun ==
  ASSUME IngestionInv, NEW c \in Commands, command[c].at \in InParse
  PROVE  /\ command[c].content \in Contents
         /\ command[c].run \in DOMAIN runs /\ runs[command[c].run] \in RunRow
         /\ runs[command[c].run].artifact = attempts[c].artifact
         /\ runs[command[c].run].artifact \in DOMAIN artifacts
         /\ ContentOf(runs[command[c].run]) = command[c].content
         /\ \A r \in DOMAIN runs : runs[r].artifact = attempts[c].artifact => r = command[c].run
         /\ command[c].seen \in Terminal => runs[command[c].run].status = command[c].seen
<1>1. /\ HoldsArtifact(command[c], attempts[c], artifacts) /\ HoldsRun(command[c], attempts[c], runs)
      /\ command[c].content \in Contents
  BY DEF IngestionInv, CommandInv, Fits
<1>2. runs[command[c].run] \in RunRow
  BY <1>1 DEF HoldsRun, IngestionInv, TypeOK
<1>3. \A r \in DOMAIN runs : runs[r].artifact = attempts[c].artifact => r = command[c].run
  BY <1>1 DEF HoldsRun, IngestionInv, OneGenerationPerContent
<1>. QED
  BY <1>1, <1>2, <1>3 DEF HoldsArtifact, HoldsRun, ContentOf

(* What a step of one command has to account for: itself, the runs it      *)
(* ends, the runs it leaves open.                                          *)
LEMMA CausesOfOne ==
  ASSUME IngestionInv, Grows, CausesInv,
         NEW c \in Commands, NEW s, NEW a, Continue(c, s), attempts' = [attempts EXCEPT ![c] = a],
         command[c].faulted => s.faulted,
         command[c].content # None => s.content = command[c].content,
         Behaves(s, a, artifacts', runs'),
         Accounts(command[c]) => a.artifact = attempts[c].artifact,
         \A r \in DOMAIN runs : runs'[r].status = "STARTED" /\ runs[r].artifact = attempts[c].artifact
           => (Accounts(command[c]) => Accounts(s)),
         \A r \in DOMAIN runs' : \/ r \in DOMAIN runs /\ runs'[r] = runs[r]
                                 \/ runs'[r].status = "STARTED" /\ runs'[r].facts = None
                                    /\ runs'[r].artifact = a.artifact /\ Accounts(s)
                                 \/ /\ r \in DOMAIN runs /\ runs'[r].status = "VALIDATED"
                                    /\ runs'[r].facts = ContentOf(runs[r]) /\ Accepted(ContentOf(runs[r]))
                                 \/ /\ r \in DOMAIN runs /\ runs'[r].status = "FAILED"
                                    /\ runs'[r].facts = None
                                    /\ runs'[r].failure \in Reasons(ContentOf(runs[r]))
                                    /\ Accepted(ContentOf(runs[r])) =>
                                         s.faulted /\ s.content = ContentOf(runs[r])
  PROVE  CausesInv'
<1>1. /\ command'[c] = s /\ attempts'[c] = a
      /\ \A d \in Commands \ {c} : command'[d] = command[d] /\ attempts'[d] = attempts[d]
  BY DEF Continue, IngestionInv, TypeOK
<1>2. \A d \in Commands : Behaves(command[d], attempts[d], artifacts, runs)'
  <2>1. ASSUME NEW d \in Commands \ {c}
        PROVE  Behaves(command[d], attempts[d], artifacts', runs')
    <3>1. /\ Fits(command[d], attempts[d], artifacts, runs)
          /\ Behaves(command[d], attempts[d], artifacts, runs)
      BY DEF IngestionInv, CommandInv, CausesInv
    <3>. QED
      BY <3>1, BehavesWhileGrowing
  <2>. QED
    BY <1>1, <2>1
<1>3. \A r \in DOMAIN runs : artifacts'[runs'[r].artifact] = ContentOf(runs[r]) /\ ContentOf(runs[r]) \in Contents
  BY ContentsStay
<1>4. OutcomeFitsContent'
  <2>. SUFFICES ASSUME NEW r \in DOMAIN runs'
                PROVE  LET run == runs'[r]  k == artifacts'[runs'[r].artifact] IN
                       /\ run.facts = IF run.status = "VALIDATED" THEN k ELSE None
                       /\ run.status = "VALIDATED" => Accepted(k)
                       /\ run.status = "FAILED" => run.failure \in Reasons(k)
    BY DEF OutcomeFitsContent, Reasons, ContentOf
  <2>1. CASE r \in DOMAIN runs /\ runs'[r] = runs[r]
    <3>1. LET run == runs[r]  k == ContentOf(runs[r]) IN
          /\ run.facts = IF run.status = "VALIDATED" THEN k ELSE None
          /\ run.status = "VALIDATED" => Accepted(k)
          /\ run.status = "FAILED" => run.failure \in Reasons(k)
      BY <2>1 DEF CausesInv, OutcomeFitsContent, Reasons
    <3>2. artifacts'[runs'[r].artifact] = ContentOf(runs[r])
      BY <1>3, <2>1
    <3>. QED
      BY <2>1, <3>1, <3>2
  <2>2. CASE runs'[r].status = "STARTED" /\ runs'[r].facts = None
    BY <2>2
  <2>3. CASE /\ r \in DOMAIN runs /\ runs'[r].status = "VALIDATED"
             /\ runs'[r].facts = ContentOf(runs[r]) /\ Accepted(ContentOf(runs[r]))
    <3>1. artifacts'[runs'[r].artifact] = ContentOf(runs[r])
      BY <1>3, <2>3
    <3>. QED
      BY <2>3, <3>1
  <2>4. CASE /\ r \in DOMAIN runs /\ runs'[r].status = "FAILED" /\ runs'[r].facts = None
             /\ runs'[r].failure \in Reasons(ContentOf(runs[r]))
    <3>1. artifacts'[runs'[r].artifact] = ContentOf(runs[r])
      BY <1>3, <2>4
    <3>. QED
      BY <2>4, <3>1
  <2>. QED
    BY <2>1, <2>2, <2>3, <2>4
<1>5. FaultsBehindFailures'
  <2>. SUFFICES ASSUME NEW r \in DOMAIN runs', runs'[r].status = "FAILED",
                       Accepted(artifacts'[runs'[r].artifact])
                PROVE  \E d \in Commands :
                         command'[d].faulted /\ command'[d].content = artifacts'[runs'[r].artifact]
    BY DEF FaultsBehindFailures, Accepted, ContentOf
  <2>1. r \in DOMAIN runs
    BY <1>1
  <2>2. PICK k \in Contents : k = ContentOf(runs[r]) /\ k = artifacts'[runs'[r].artifact]
    BY <1>3, <2>1
  <2>3. CASE runs'[r] = runs[r]
    <3>1. PICK d \in Commands : command[d].faulted /\ command[d].content = k
      BY <2>1, <2>2, <2>3 DEF CausesInv, FaultsBehindFailures
    <3>2. command'[d].faulted /\ command'[d].content = k
      BY <1>1, <3>1, IngestionAssumption
    <3>. QED
      BY <2>2, <3>2
  <2>4. CASE s.faulted /\ s.content = k
    BY <1>1, <2>2, <2>4
  <2>. QED
    BY <2>1, <2>2, <2>3, <2>4
<1>6. OpenRunsAccounted'
  <2>. SUFFICES ASSUME NEW r \in DOMAIN runs', runs'[r].status = "STARTED"
                PROVE  \E d \in Commands :
                         attempts'[d].artifact = runs'[r].artifact /\ Accounts(command'[d])
    BY DEF OpenRunsAccounted
  <2>1. CASE r \in DOMAIN runs /\ runs'[r] = runs[r]
    <3>1. PICK d \in Commands : attempts[d].artifact = runs[r].artifact /\ Accounts(command[d])
      BY <2>1 DEF CausesInv, OpenRunsAccounted
    <3>2. CASE d = c
      BY <1>1, <2>1, <3>1, <3>2
    <3>3. CASE d # c
      BY <1>1, <2>1, <3>1, <3>3
    <3>. QED
      BY <3>2, <3>3
  <2>2. CASE runs'[r].artifact = a.artifact /\ Accounts(s)
    BY <1>1, <2>2
  <2>. QED
    BY <2>1, <2>2
<1>. QED
  BY <1>2, <1>4, <1>5, <1>6 DEF CausesInv

(* A step that only moves the command.                                     *)
LEMMA CausesOfLocal ==
  ASSUME IngestionInv, CausesInv, UNCHANGED <<attempts, artifacts, runs>>,
         NEW c \in Commands, NEW s, Continue(c, s),
         command[c].faulted => s.faulted,
         command[c].content # None => s.content = command[c].content,
         Behaves(s, attempts[c], artifacts, runs),
         \/ ~Accounts(command[c])
         \/ Accounts(s)
         \/ command[c].at \in InParse /\ runs[command[c].run].status \in Terminal
  PROVE  CausesInv'
<1>1. Grows
  BY DEF Grows
<1>2. attempts' = [attempts EXCEPT ![c] = attempts[c]]
  BY DEF IngestionInv, TypeOK
<1>3. \A r \in DOMAIN runs : runs'[r].status = "STARTED" /\ runs[r].artifact = attempts[c].artifact
        => (Accounts(command[c]) => Accounts(s))
  BY HeldRun DEF Terminal
<1>4. Behaves(s, attempts[c], artifacts', runs')
  OBVIOUS
<1>. QED
  BY <1>1, <1>2, <1>3, <1>4, CausesOfOne

(* A command that goes to its failure handler keeps what it holds.         *)
LEMMA FailureFields ==
  ASSUME NEW c \in Commands, command[c] \in CommandState, NEW failure, NEW code
  PROVE  LET s == ToFailure(c, failure, code) IN
         /\ s.at = "failing_parse" /\ s.failure = failure
         /\ s.content = command[c].content /\ s.run = command[c].run
         /\ s.faulted = command[c].faulted
         /\ Faulted(s).at = "failing_parse" /\ Faulted(s).failure = failure
         /\ Faulted(s).content = command[c].content /\ Faulted(s).run = command[c].run
         /\ Faulted(s).faulted
  BY DEF ToFailure, Faulted, CommandState

LEMMA LocalCauses ==
  ASSUME IngestionInv, CausesInv, NEW c \in Commands,
         \/ \E k \in Contents : FetchYields(c, k)
         \/ \E code \in CommandCodes : FetchFails(c, code)
         \/ FailFetchRefused(c) \/ ParseRows(c) \/ RejectResult(c)
         \/ ReplayGeneration(c) \/ RefuseGeneration(c) \/ CompletionFault(c)
         \/ FailParseRefused(c) \/ Reread(c) \/ Crash(c)
  PROVE  CausesInv'
<1>1. /\ command[c] \in CommandState /\ Behaves(command[c], attempts[c], artifacts, runs)
      /\ OutcomeFitsContent
  BY DEF IngestionInv, TypeOK, CausesInv
<1>2. UNCHANGED <<attempts, artifacts, runs>>
  BY DEF FetchYields, FetchFails, FailFetchRefused, ParseRows, RejectResult,
     ReplayGeneration, RefuseGeneration, CompletionFault, FailParseRefused, Reread, Crash
<1>. DEFINE r == command[c].run
            k == command[c].content
<1>3. command[c].at \in InParse =>
        /\ k \in Contents /\ r \in DOMAIN runs /\ runs[r] \in RunRow
        /\ runs[r].artifact \in DOMAIN artifacts /\ ContentOf(runs[r]) = k
        /\ attempts[c].state = "SUCCEEDED"
        /\ command[c].seen \in Terminal => runs[r].status = command[c].seen
        /\ runs[r].facts = IF runs[r].status = "VALIDATED" THEN k ELSE None
  <2>1. CommandInv(c)
    BY DEF IngestionInv
  <2>2. command[c].at \in InParse => attempts[c].state = "SUCCEEDED"
    BY <2>1 DEF CommandInv, Fits, HoldsArtifact, InParse
  <2>. QED
    BY <1>1, <2>2, HeldRun, ZenonT(40) DEF OutcomeFitsContent
<1>4. CASE \E q \in Contents : FetchYields(c, q)
  <2>1. PICK q, s : /\ q \in Contents
                    /\ s = [command[c] EXCEPT !.at = "fetched", !.content = q]
                    /\ FetchYields(c, q)
    BY <1>4
  <2>2. Continue(c, s) /\ At(c, "fetching") /\ k = None /\ ~Accounts(command[c])
    BY <1>1, <2>1 DEF FetchYields, At, Behaves, Accounts, InParse
  <2>3. s.at = "fetched" /\ s.faulted = command[c].faulted
    BY <1>1, <2>1 DEF CommandState
  <2>4. Behaves(s, attempts[c], artifacts, runs)
    BY <2>3 DEF Behaves, Refused
  <2>. QED
    BY <1>2, <2>2, <2>3, <2>4, CausesOfLocal
<1>5. CASE \E code \in CommandCodes : FetchFails(c, code)
  <2>1. PICK code, s :
          /\ code \in CommandCodes
          /\ s = [command[c] EXCEPT !.at = "failing_fetch", !.code = code]
          /\ FetchFails(c, code)
    BY <1>5
  <2>2. Continue(c, s) /\ At(c, "fetching") /\ k = None /\ ~Accounts(command[c])
    BY <1>1, <2>1 DEF FetchFails, At, Behaves, Accounts, InParse
  <2>3. s.at = "failing_fetch" /\ s.faulted = command[c].faulted /\ s.content = k
    BY <1>1, <2>1 DEF CommandState
  <2>4. Behaves(s, attempts[c], artifacts, runs)
    BY <2>2, <2>3 DEF Behaves, Refused
  <2>. QED
    BY <1>2, <2>2, <2>3, <2>4, CausesOfLocal
<1>6. CASE FailFetchRefused(c)
  <2>1. PICK s : s = Ended(command[c], "FETCH_FINALIZATION_FAILED")
    OBVIOUS
  <2>2. /\ Continue(c, s) /\ At(c, "failing_fetch") /\ ~Accounts(command[c])
        /\ attempts[c].state # "STARTED" /\ (~command[c].faulted => k = None)
    BY <1>1, <1>6, <2>1 DEF FailFetchRefused, At, Behaves, Accounts, InParse
  <2>3. /\ s.at = "ended" /\ s.code = "FETCH_FINALIZATION_FAILED"
        /\ s.faulted = command[c].faulted /\ s.content = k
    BY <1>1, <2>1 DEF Ended, CommandState
  <2>4. Behaves(s, attempts[c], artifacts, runs)
    BY <2>2, <2>3 DEF Behaves, Refused
  <2>. QED
    BY <1>2, <2>2, <2>3, <2>4, CausesOfLocal
<1>7. CASE Crash(c)
  <2>1. PICK s : s = [command[c] EXCEPT !.at = "crashed"]
    OBVIOUS
  <2>2. s.at = "crashed" /\ s.faulted = command[c].faulted /\ s.content = k
    BY <1>1, <2>1 DEF CommandState
  <2>3. Behaves(s, attempts[c], artifacts, runs)
    BY <2>2 DEF Behaves, Refused
  <2>. QED
    BY <1>2, <1>7, <2>1, <2>2, <2>3, CausesOfLocal DEF Crash, Accounts
(* Whoever goes to its failure handler still accounts for its run.         *)
<1>8. ASSUME NEW failure, NEW code, failure \in Reasons(k), command[c].at \in InParse,
             NEW s, Continue(c, s),
             \/ s = Faulted(ToFailure(c, failure, code))
             \/ s = ToFailure(c, failure, code) /\ (Accepted(k) => Spoilt(command[c], artifacts, runs))
      PROVE  CausesInv'
  <2>1. /\ s.at = "failing_parse" /\ s.failure = failure /\ s.content = k /\ s.run = r
        /\ command[c].faulted => s.faulted
        /\ s.faulted \/ (Accepted(k) => Spoilt(command[c], artifacts, runs))
    BY <1>1, <1>8, FailureFields
  <2>2. Behaves(s, attempts[c], artifacts, runs)
    BY <1>8, <2>1 DEF Behaves, Refused, Spoilt
  <2>. QED
    BY <1>2, <1>8, <2>1, <2>2, CausesOfLocal DEF Accounts, InParse
<1>9. CASE ParseRows(c)
  <2>1. command[c].at = "parsing" /\ command[c].at \in InParse
    BY <1>9 DEF ParseRows, At, InParse
  <2>2. CASE ParserRejects[k] = None
    <3>1. PICK s : s = [command[c] EXCEPT !.at = "completing"] /\ Continue(c, s)
      BY <1>9, <2>2 DEF ParseRows
    <3>2. s.at = "completing" /\ s.faulted = command[c].faulted /\ s.content = k
      BY <1>1, <3>1 DEF CommandState
    <3>3. Behaves(s, attempts[c], artifacts, runs)
      BY <2>2, <3>2 DEF Behaves, Refused
    <3>. QED
      BY <1>2, <3>1, <3>2, <3>3, CausesOfLocal DEF Accounts, InParse
  <2>3. CASE ParserRejects[k] # None
    <3>1. ParserRejects[k] \in Reasons(k) /\ ~Accepted(k)
      BY <2>3 DEF Reasons, Accepted
    <3>2. Continue(c, ToFailure(c, ParserRejects[k], "PARSE_FAILED"))
      BY <1>9, <2>3 DEF ParseRows
    <3>. QED
      BY <1>8, <2>1, <3>1, <3>2
  <2>. QED
    BY <2>2, <2>3
<1>10. command[c].at = "completing" =>
         /\ command[c].at \in InParse /\ "PERSISTENCE_FAILED" \in Reasons(k)
         /\ GenerationRejects[k] # None => GenerationRejects[k] \in Reasons(k) /\ ~Accepted(k)
  BY <1>1, IngestionAssumption DEF Behaves, InParse, Reasons, Accepted, GenerationCodes
<1>11. CASE RejectResult(c)
  <2>1. /\ command[c].at = "completing" /\ GenerationRejects[k] # None
        /\ Continue(c, ToFailure(c, GenerationRejects[k], "GENERATION_FAILED"))
    BY <1>11 DEF RejectResult, At
  <2>. QED
    BY <1>8, <1>10, <2>1
<1>12. CASE ReplayGeneration(c)
  <2>1. /\ command[c].at = "completing" /\ command[c].at \in InParse
        /\ runs[r].status = "VALIDATED"
    BY <1>12 DEF ReplayGeneration, IsReplay, At, InParse
  <2>2. runs[r].facts = k
    BY <1>3, <2>1
  <2>3. PICK s : s = Ended([command[c] EXCEPT !.seen = "VALIDATED"], "SUCCEEDED") /\ Continue(c, s)
    BY <1>12, <2>2 DEF ReplayGeneration
  <2>4. s.at = "ended" /\ s.code = "SUCCEEDED" /\ s.faulted = command[c].faulted /\ s.content = k
    BY <1>1, <2>3 DEF Ended, CommandState
  <2>5. Behaves(s, attempts[c], artifacts, runs)
    BY <1>3, <2>1, <2>4 DEF Behaves, Refused
  <2>. QED
    BY <1>2, <2>1, <2>3, <2>4, <2>5, CausesOfLocal DEF Terminal
<1>13. CASE RefuseGeneration(c)
  <2>1. /\ command[c].at = "completing" /\ command[c].at \in InParse
        /\ runs[r].status \notin {"STARTED", "VALIDATED"}
        /\ Continue(c, ToFailure(c, "PERSISTENCE_FAILED", "GENERATION_FAILED"))
    BY <1>13 DEF RefuseGeneration, IsReplay, MayComplete, At, InParse
  <2>2. Spoilt(command[c], artifacts, runs)
    BY <1>3, <2>1 DEF Spoilt, RunRow, RunStates, Terminal, ContentOf
  <2>. QED
    BY <1>8, <1>10, <2>1, <2>2
<1>14. CASE CompletionFault(c)
  <2>1. /\ command[c].at = "completing"
        /\ Continue(c, Faulted(ToFailure(c, "PERSISTENCE_FAILED", "GENERATION_FAILED")))
    BY <1>14 DEF CompletionFault, At
  <2>. QED
    BY <1>8, <1>10, <2>1
<1>15. CASE FailParseRefused(c)
  <2>1. PICK s : s = [command[c] EXCEPT !.at = "rereading"] /\ Continue(c, s)
    BY <1>15 DEF FailParseRefused
  <2>2. command[c].at = "failing_parse" /\ command[c].at \in InParse /\ runs[r].status \in Terminal
    BY <1>3, <1>15 DEF FailParseRefused, MayFail, At, InParse, RunRow, RunStates
  <2>3. s.at = "rereading" /\ s.faulted = command[c].faulted /\ s.content = k /\ s.run = r
    BY <1>1, <2>1 DEF CommandState
  <2>4. Behaves(s, attempts[c], artifacts, runs)
    BY <1>1, <2>2, <2>3 DEF Behaves, Refused, Spoilt
  <2>. QED
    BY <1>2, <2>1, <2>3, <2>4, CausesOfLocal DEF Accounts, InParse
<1>16. CASE Reread(c)
  <2>1. /\ command[c].at = "rereading" /\ command[c].at \in InParse
        /\ runs[r].status \notin Terminal => command[c].faulted
    BY <1>1, <1>16 DEF Reread, At, InParse, Behaves
  <2>2. PICK status, s :
          /\ status \in {runs[r].status, command[c].seen}
          /\ Continue(c, s)
          /\ \/ s = Reported(command[c], status) /\ status = runs[r].status
             \/ s = Faulted(Reported(command[c], status))
    BY <1>16 DEF Reread
  <2>3. /\ s.at = "ended" /\ s.content = k /\ s.run = r /\ (command[c].faulted => s.faulted)
        /\ status = runs[r].status \/ s.faulted
        /\ status \notin Terminal => s.seen = command[c].seen /\ s.code = "GENERATION_FAILED"
    BY <1>1, <2>2 DEF Reported, Faulted, Ended, CommandState
  <2>4. ~s.faulted => ~command[c].faulted
    BY <2>3
  <2>5. Behaves(s, attempts[c], artifacts, runs)
    BY <1>1, <1>3, <2>1, <2>3, <2>4 DEF Behaves, Refused, Spoilt
  <2>6. CASE runs[r].status \in Terminal
    BY <1>2, <2>1, <2>2, <2>3, <2>5, <2>6, CausesOfLocal
  <2>7. CASE runs[r].status \notin Terminal
    <3>1. status \notin Terminal /\ command[c].seen \notin Terminal
      BY <1>3, <2>1, <2>2, <2>7
    <3>2. Accounts(s)
      BY <2>1, <2>3, <2>7, <3>1 DEF Accounts
    <3>. QED
      BY <1>2, <2>2, <2>3, <2>5, <3>2, CausesOfLocal
  <2>. QED
    BY <2>6, <2>7
<1>. QED
  BY <1>4, <1>5, <1>6, <1>7, <1>9, <1>11, <1>12, <1>13, <1>14, <1>15, <1>16

LEMMA StartFetchCauses ==
  ASSUME IngestionInv, CausesInv, NEW c \in Commands, StartFetch(c)
  PROVE  CausesInv'
<1>1. /\ command[c] \in CommandState /\ command[c].content = None /\ ~Accounts(command[c])
      /\ UNCHANGED <<artifacts, runs>>
  BY DEF IngestionInv, TypeOK, CausesInv, Behaves, StartFetch, At, Accounts, InParse
<1>2. Grows
  BY <1>1 DEF Grows
<1>3. PICK a, s : /\ attempts' = [attempts EXCEPT ![c] = a] /\ Continue(c, s)
                  /\ s \in {[command[c] EXCEPT !.at = "fetching"],
                            Faulted(Ended(command[c], "SOURCE_START_FAILED"))}
  BY DEF StartFetch, AfterTransaction, IngestionInv, TypeOK
<1>4. /\ s.content = command[c].content /\ (command[c].faulted => s.faulted)
      /\ s.at = "fetching" \/ (s.at = "ended" /\ s.code = "SOURCE_START_FAILED" /\ s.faulted)
  BY <1>1, <1>3 DEF Faulted, Ended, CommandState
<1>5. Behaves(s, a, artifacts', runs')
  BY <1>1, <1>4 DEF Behaves, Refused
<1>. QED
  BY <1>1, <1>2, <1>3, <1>4, <1>5, CausesOfOne

LEMMA FailFetchCauses ==
  ASSUME IngestionInv, CausesInv, NEW c \in Commands, FailFetch(c)
  PROVE  CausesInv'
<1>1. /\ command[c] \in CommandState /\ ~Accounts(command[c])
      /\ ~command[c].faulted => command[c].content = None
      /\ UNCHANGED <<artifacts, runs>>
  BY DEF IngestionInv, TypeOK, CausesInv, Behaves, FailFetch, At, Accounts, InParse
<1>2. Grows
  BY <1>1 DEF Grows
<1>3. PICK a, s : /\ attempts' = [attempts EXCEPT ![c] = a] /\ Continue(c, s)
                  /\ \/ s = Ended(command[c], command[c].code) /\ a.state # "STARTED"
                     \/ s = Faulted(Ended(command[c], "FETCH_FINALIZATION_FAILED"))
  <2>1. PICK outcome \in Outcomes, st \in FailureStates(command[c].code) :
          /\ attempts' = IF outcome = "rolled_back" THEN attempts
                         ELSE [attempts EXCEPT ![c].state = st]
          /\ AfterTransaction(c, outcome,
               Ended(command[c], command[c].code), Ended(command[c], "FETCH_FINALIZATION_FAILED"))
    BY DEF FailFetch
  <2>2. attempts \in [Commands -> AttemptRow]
    BY DEF IngestionInv, TypeOK
  <2>3. CASE outcome = "answered"
    <3>. DEFINE a == [attempts[c] EXCEPT !.state = st]
    <3>1. attempts' = [attempts EXCEPT ![c] = a] /\ a.state # "STARTED"
      BY <2>1, <2>2, <2>3 DEF FailureStates, AttemptRow
    <3>. QED
      BY <2>1, <2>3, <3>1 DEF AfterTransaction
  <2>4. CASE outcome # "answered"
    <3>1. PICK a : attempts' = [attempts EXCEPT ![c] = a]
      BY <2>1, <2>2
    <3>. QED
      BY <2>1, <2>4, <3>1 DEF AfterTransaction
  <2>. QED
    BY <2>3, <2>4
<1>4. /\ s.content = command[c].content /\ (command[c].faulted => s.faulted) /\ s.at = "ended"
      /\ \/ s.faulted = command[c].faulted /\ a.state # "STARTED"
         \/ s.code = "FETCH_FINALIZATION_FAILED" /\ s.faulted
  BY <1>1, <1>3 DEF Faulted, Ended, CommandState
<1>5. Behaves(s, a, artifacts', runs')
  BY <1>1, <1>4 DEF Behaves, Refused
<1>. QED
  BY <1>1, <1>2, <1>3, <1>4, <1>5, CausesOfOne

LEMMA CompleteFetchCauses ==
  ASSUME IngestionInv, CausesInv, NEW c \in Commands, CompleteFetch(c)
  PROVE  CausesInv'
<1>1. Grows
  BY NextKeeps DEF Kept, Next, Fetch
<1>2. /\ command[c] \in CommandState /\ ~Accounts(command[c]) /\ UNCHANGED runs
  BY DEF IngestionInv, TypeOK, CompleteFetch, At, Accounts, InParse
<1>3. PICK a, s : /\ attempts' = [attempts EXCEPT ![c] = a] /\ Continue(c, s)
                  /\ s \in {[command[c] EXCEPT !.at = "parse_start"],
                            Faulted([command[c] EXCEPT !.at = "failing_fetch",
                                                       !.code = "FETCH_PERSISTENCE_FAILED"])}
  BY DEF CompleteFetch, AfterTransaction, IngestionInv, TypeOK
<1>4. /\ s.content = command[c].content /\ (command[c].faulted => s.faulted)
      /\ s.at = "parse_start" \/ (s.at = "failing_fetch" /\ s.faulted)
  BY <1>2, <1>3 DEF Faulted, CommandState
<1>5. Behaves(s, a, artifacts', runs')
  BY <1>4 DEF Behaves, Refused
<1>. QED
  BY <1>1, <1>2, <1>3, <1>4, <1>5, CausesOfOne

LEMMA StartParseCauses ==
  ASSUME IngestionInv, CausesInv, NEW c \in Commands, StartParse(c)
  PROVE  CausesInv'
<1>1. Grows
  BY NextKeeps DEF Kept, Next, Parse
<1>. DEFINE a == attempts[c]
            new == [artifact |-> a.artifact, status |-> "STARTED", failure |-> None, facts |-> None]
<1>2. /\ command[c] \in CommandState /\ command[c].seen = None /\ ~Accounts(command[c])
      /\ a.state = "SUCCEEDED" /\ runs \in Seq(RunRow)
      /\ attempts' = [attempts EXCEPT ![c] = a]
  <2>1. CommandInv(c) /\ At(c, "parse_start") /\ UNCHANGED attempts
    BY DEF IngestionInv, StartParse
  <2>. QED
    BY <2>1 DEF IngestionInv, TypeOK, At, Accounts, InParse, CommandInv, Fits, HoldsArtifact
<1>3. PICK r, seen, s :
        /\ runs' = runs \/ runs' = WithRow(runs, r, new)
        /\ Continue(c, s)
        /\ s \in {[command[c] EXCEPT !.at = "parsing", !.run = r, !.seen = seen],
                  Faulted(Ended(command[c], "PARSE_START_FAILED"))}
  BY DEF StartParse, AfterTransaction
<1>4. /\ s.content = command[c].content /\ (command[c].faulted => s.faulted)
      /\ \/ s.at = "parsing"
         \/ s.at = "ended" /\ s.code = "PARSE_START_FAILED" /\ s.faulted /\ s.seen = None
  BY <1>2, <1>3 DEF Faulted, Ended, CommandState
<1>5. Behaves(s, a, artifacts', runs')
  BY <1>2, <1>4 DEF Behaves, Refused
<1>6. Accounts(s)
  BY <1>4, IngestionAssumption DEF Accounts, InParse
<1>7. \A q \in DOMAIN runs' : \/ q \in DOMAIN runs /\ runs'[q] = runs[q]
                              \/ /\ runs'[q].status = "STARTED" /\ runs'[q].facts = None
                                 /\ runs'[q].artifact = a.artifact
  <2>1. PICK row : row = new
    OBVIOUS
  <2>2. row.status = "STARTED" /\ row.facts = None /\ row.artifact = a.artifact
    BY <2>1
  <2>3. runs' = runs \/ runs' = Append(runs, row)
    BY <1>3, <2>1 DEF WithRow
  <2>4. \A q \in DOMAIN runs' : (q \in DOMAIN runs /\ runs'[q] = runs[q]) \/ runs'[q] = row
    BY <1>2, <2>3
  <2>. QED
    BY <2>2, <2>4
<1>. HIDE DEF a, new
<1>. QED
  BY <1>1, <1>2, <1>3, <1>4, <1>5, <1>6, <1>7, CausesOfOne DEF a

LEMMA PersistCauses ==
  ASSUME IngestionInv, CausesInv, NEW c \in Commands, PersistGeneration(c)
  PROVE  CausesInv'
<1>. DEFINE r == command[c].run
            k == command[c].content
<1>1. Grows
  BY NextKeeps DEF Kept, Next, Parse
<1>2. /\ command[c] \in CommandState /\ command[c].at = "completing" /\ command[c].at \in InParse
      /\ UNCHANGED <<attempts, artifacts>>
      /\ attempts' = [attempts EXCEPT ![c] = attempts[c]]
      /\ runs' = [runs EXCEPT ![r].status = "VALIDATED", ![r].facts = k]
      /\ Accepted(k) /\ "PERSISTENCE_FAILED" \in Reasons(k)
  <2>1. At(c, "completing") /\ GenerationRejects[k] = None
    BY DEF PersistGeneration
  <2>2. ParserRejects[k] = None
    BY <2>1 DEF CausesInv, Behaves, At
  <2>. QED
    BY <2>1, <2>2, IngestionAssumption
    DEF IngestionInv, TypeOK, PersistGeneration, At, InParse, Reasons, Accepted, GenerationCodes
<1>3. /\ r \in DOMAIN runs /\ runs[r] \in RunRow /\ ContentOf(runs[r]) = k
      /\ \A q \in DOMAIN runs : runs[q].artifact = attempts[c].artifact => q = r
      /\ attempts[c].state = "SUCCEEDED"
  <2>1. CommandInv(c)
    BY DEF IngestionInv
  <2>2. attempts[c].state = "SUCCEEDED"
    BY <1>2, <2>1 DEF CommandInv, Fits, HoldsArtifact
  <2>. QED
    BY <1>2, <2>2, HeldRun
<1>4. /\ DOMAIN runs' = DOMAIN runs
      /\ \A q \in DOMAIN runs \ {r} : runs'[q] = runs[q]
      /\ runs'[r].status = "VALIDATED" /\ runs'[r].facts = k
  <2>1. runs \in Seq(RunRow)
    BY DEF IngestionInv, TypeOK
  <2>. QED
    BY <1>2, <1>3, <2>1 DEF RunRow
<1>5. PICK s : /\ Continue(c, s)
               /\ \/ s = Ended([command[c] EXCEPT !.seen = "VALIDATED"], "SUCCEEDED")
                  \/ s = Faulted(ToFailure(c, "PERSISTENCE_FAILED", "GENERATION_FAILED"))
  BY DEF PersistGeneration, AfterTransaction
<1>6. /\ s.content = k /\ (command[c].faulted => s.faulted)
      /\ \/ s.at = "ended" /\ s.code = "SUCCEEDED"
         \/ s.at = "failing_parse" /\ s.failure = "PERSISTENCE_FAILED" /\ s.faulted
  BY <1>2, <1>5, ZenonT(40) DEF Ended, ToFailure, Faulted, CommandState
<1>7. Behaves(s, attempts[c], artifacts', runs')
  BY <1>2, <1>3, <1>6 DEF Behaves, Refused
<1>8. \A q \in DOMAIN runs : ~(runs'[q].status = "STARTED" /\ runs[q].artifact = attempts[c].artifact)
  BY <1>3, <1>4
<1>9. \A q \in DOMAIN runs' : \/ q \in DOMAIN runs /\ runs'[q] = runs[q]
                              \/ /\ q \in DOMAIN runs /\ runs'[q].status = "VALIDATED"
                                 /\ runs'[q].facts = ContentOf(runs[q]) /\ Accepted(ContentOf(runs[q]))
  BY <1>2, <1>3, <1>4
<1>. QED
  BY <1>1, <1>2, <1>5, <1>6, <1>7, <1>8, <1>9, CausesOfOne

LEMMA FailParseCauses ==
  ASSUME IngestionInv, CausesInv, NEW c \in Commands, FailParse(c)
  PROVE  CausesInv'
<1>. DEFINE r == command[c].run
            k == command[c].content
<1>1. Grows
  BY NextKeeps DEF Kept, Next, Parse
<1>2. /\ command[c] \in CommandState /\ command[c].at = "failing_parse" /\ command[c].at \in InParse
      /\ runs[r].status = "STARTED" /\ runs[r].facts = None
      /\ UNCHANGED <<attempts, artifacts>>
      /\ attempts' = [attempts EXCEPT ![c] = attempts[c]]
      /\ command[c].failure \in Reasons(k)
  BY DEF IngestionInv, TypeOK, FailParse, MayFail, At, InParse, CausesInv, Behaves
<1>3. /\ r \in DOMAIN runs /\ runs[r] \in RunRow /\ ContentOf(runs[r]) = k
      /\ \A q \in DOMAIN runs : runs[q].artifact = attempts[c].artifact => q = r
      /\ attempts[c].state = "SUCCEEDED" /\ k # None
  <2>1. CommandInv(c)
    BY DEF IngestionInv
  <2>2. attempts[c].state = "SUCCEEDED"
    BY <1>2, <2>1 DEF CommandInv, Fits, HoldsArtifact
  <2>. QED
    BY <1>2, <2>2, HeldRun, IngestionAssumption
(* A content everybody accepts is failed by a command that met a fault.    *)
<1>4. Accepted(k) => command[c].faulted
  BY <1>2, <1>3 DEF CausesInv, Behaves, Refused, Spoilt
<1>5. PICK outcome, s :
        /\ outcome \in Outcomes
        /\ runs' = IF outcome = "rolled_back" THEN runs
                   ELSE [runs EXCEPT ![r].status = "FAILED", ![r].failure = command[c].failure]
        /\ Continue(c, s)
        /\ \/ outcome = "answered" /\ s = Ended([command[c] EXCEPT !.seen = "FAILED"], command[c].code)
           \/ s = Faulted([command[c] EXCEPT !.at = "rereading"])
  BY DEF FailParse, AfterTransaction
<1>6. /\ s.content = k /\ (command[c].faulted => s.faulted)
      /\ \/ s.at = "ended" /\ outcome = "answered"
         \/ s.at = "rereading" /\ s.faulted
  BY <1>2, <1>5 DEF Ended, Faulted, CommandState
<1>7. Behaves(s, attempts[c], artifacts', runs')
  BY <1>3, <1>4, <1>6 DEF Behaves, Refused
<1>8. CASE outcome = "rolled_back"
  <2>1. UNCHANGED runs /\ Accounts(s)
    BY <1>5, <1>6, <1>8 DEF Accounts, InParse
  <2>. QED
    BY <1>2, <1>5, <1>6, <1>7, <2>1, CausesOfLocal
<1>9. CASE outcome # "rolled_back"
  <2>1. /\ DOMAIN runs' = DOMAIN runs
        /\ \A q \in DOMAIN runs \ {r} : runs'[q] = runs[q]
        /\ runs'[r].status = "FAILED" /\ runs'[r].facts = None
        /\ runs'[r].failure = command[c].failure
    <3>1. runs \in Seq(RunRow)
      BY DEF IngestionInv, TypeOK
    <3>. QED
      BY <1>2, <1>3, <1>5, <1>9, <3>1 DEF RunRow
  <2>2. \A q \in DOMAIN runs : ~(runs'[q].status = "STARTED" /\ runs[q].artifact = attempts[c].artifact)
    BY <1>3, <2>1
  <2>3. \A q \in DOMAIN runs' : \/ q \in DOMAIN runs /\ runs'[q] = runs[q]
                                \/ /\ q \in DOMAIN runs /\ runs'[q].status = "FAILED"
                                   /\ runs'[q].facts = None
                                   /\ runs'[q].failure \in Reasons(ContentOf(runs[q]))
                                   /\ Accepted(ContentOf(runs[q])) =>
                                        s.faulted /\ s.content = ContentOf(runs[q])
    BY <1>2, <1>3, <1>4, <1>6, <2>1
  <2>. QED
    BY <1>1, <1>2, <1>5, <1>6, <1>7, <2>2, <2>3, CausesOfOne
<1>. QED
  BY <1>8, <1>9

LEMMA InitCauses == Init => CausesInv
<1>. SUFFICES ASSUME Init PROVE CausesInv
  OBVIOUS
<1>1. OutcomeFitsContent /\ FaultsBehindFailures /\ OpenRunsAccounted
  BY DEF Init, OutcomeFitsContent, FaultsBehindFailures, OpenRunsAccounted
<1>2. ASSUME NEW c \in Commands PROVE Behaves(command[c], attempts[c], artifacts, runs)
  BY DEF Init, Behaves, Refused
<1>. QED
  BY <1>1, <1>2 DEF CausesInv

LEMMA NextCauses ==
  ASSUME IngestionInv, CausesInv, [Next]_vars
  PROVE  CausesInv'
<1>1. CASE UNCHANGED vars
  BY <1>1 DEF vars, CausesInv, OutcomeFitsContent, FaultsBehindFailures, OpenRunsAccounted, ContentOf
<1>2. ASSUME NEW c \in Commands, Fetch(c) PROVE CausesInv'
  BY <1>2, StartFetchCauses, CompleteFetchCauses, FailFetchCauses, LocalCauses DEF Fetch
<1>3. ASSUME NEW c \in Commands, Parse(c) PROVE CausesInv'
  BY <1>3, StartParseCauses, PersistCauses, FailParseCauses, LocalCauses DEF Parse
<1>4. ASSUME NEW c \in Commands, Crash(c) PROVE CausesInv'
  BY <1>4, LocalCauses
<1>. QED
  BY <1>1, <1>2, <1>3, <1>4 DEF Next

LEMMA AlwaysCauses == Spec => [](IngestionInv /\ CausesInv)
<1>1. Init => IngestionInv /\ CausesInv
  BY InitInv, InitCauses
<1>2. IngestionInv /\ CausesInv /\ [Next]_vars => IngestionInv' /\ CausesInv'
  BY NextKeeps, NextCauses DEF Kept
<1>. QED
  BY <1>1, <1>2, PTL DEF Spec

(* A run's outcome says what its content is: facts only of content every-  *)
(* body accepts, a refusal under the code of whoever refused it, whichever *)
(* commands raced for the run.  (_parse_failure_code,                      *)
(* _generation_failure_code.)                                              *)
THEOREM OutcomesFitContents == Spec => []OutcomeFitsContent
  BY AlwaysCauses, PTL DEF CausesInv

(* Nothing stays open without a command that crashed, met a fault it       *)
(* reported, or is still at work.  (_finalize_fetch_failure,               *)
(* _finalize_parse_failure.)                                               *)
THEOREM OpenWorkIsAccountedFor == Spec => []OpenWorkHasACause
<1>1. CausesInv => OpenWorkHasACause
  BY DEF CausesInv, Behaves, OpenRunsAccounted, Accounts, InParse, OpenWorkHasACause, At
<1>. QED
  BY <1>1, AlwaysCauses, PTL

(* Only a fault of another command, stored as the outcome of the content's *)
(* run, refuses an undisturbed command a content everybody accepts; no     *)
(* crash and no lost answer does.  (complete_kamis_parse_generation.)      *)
THEOREM OnlyStoredFaultsRefuse == Spec => []OnlyFaultsSpoilReplays
<1>1. IngestionInv /\ CausesInv => OnlyFaultsSpoilReplays
  <2>. SUFFICES ASSUME IngestionInv, CausesInv, NEW c \in Commands,
                       Undisturbed(c), command[c].code # "SUCCEEDED"
                PROVE  /\ runs[command[c].run].status = "FAILED"
                       /\ runs[command[c].run].failure = "PERSISTENCE_FAILED"
                       /\ \E d \in Commands \ {c} :
                            command[d].faulted /\ command[d].content = command[c].content
    BY DEF OnlyFaultsSpoilReplays
  <2>1. Spoilt(command[c], artifacts, runs) /\ Accepted(command[c].content) /\ ~command[c].faulted
    BY DEF CausesInv, Behaves, Refused, Undisturbed, At
  <2>2. PICK r \in DOMAIN runs : r = command[c].run
    BY <2>1 DEF Spoilt
  <2>3. runs[r].status = "FAILED" /\ ContentOf(runs[r]) = command[c].content
    BY <2>1, <2>2 DEF Spoilt, ContentOf
  <2>4. runs[r].failure = "PERSISTENCE_FAILED"
    BY <2>1, <2>3 DEF CausesInv, OutcomeFitsContent, Accepted
  <2>5. \E d \in Commands : command[d].faulted /\ command[d].content = command[c].content
    BY <2>1, <2>3 DEF CausesInv, FaultsBehindFailures
  <2>. QED
    BY <2>1, <2>2, <2>3, <2>4, <2>5
<1>. QED
  BY <1>1, AlwaysCauses, PTL
=============================================================================
