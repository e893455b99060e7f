-------------------------- MODULE HistoricalCollection --------------------------
(***************************************************************************)
(* ingest_kamis_monthly, _regional_daily and _market_daily: a run plans a  *)
(* collection under a UUID the operator chose, then for every partition of *)
(* the plan starts a fetch attempt, fetches, completes the attempt, parses *)
(* and stores the part, and at last completes the collection.  Several     *)
(* runs may work on one collection at once, and a run may die between any  *)
(* two transactions; a later run of the same UUID starts from partition 1. *)
(*                                                                         *)
(* A transaction is one step: each locks first the row it decides on (the  *)
(* source, the attempt, the collection and then the artifact), and what it *)
(* reads besides is final once written.  The one statement outside of any  *)
(* transaction, the MAX of the attempt ordinals, is a step of its own.     *)
(* The three kinds of source differ in data only; here there is one source *)
(* with one parser revision and one code manifest, and a scope is a set of *)
(* regions (the dates of a collection are common to its partitions).       *)
(***************************************************************************)
EXTENDS Naturals, Sequences, SequencesExt

CONSTANTS
  Runs,         \* runs of the command
  Collections,  \* UUIDs the operators use
  Regions,
  Editions,     \* what the source may say of a region
  Drifted,      \* the edition that the parser does not accept
  Plans,        \* partition lists the operators ask for
  Answers,      \* Answers[s]: what the source may answer to scope s
  None

Scopes == SUBSET Regions
(* A content is the rows of one answer.  Two answers with the same rows    *)
(* are the same bytes, whatever was asked: so are any two empty ones.      *)
Contents == SUBSET (Regions \X (Editions \cup {Drifted}))
RegionsIn(k) == {row[1] : row \in k}

ASSUME CollectionAssumption ==
  /\ Drifted \notin Editions /\ None \notin Collections
  /\ Plans \subseteq {p \in Seq(Scopes) : p # <<>> /\ IsInjective(p)}
  /\ \A p \in Plans : \A i \in DOMAIN p : Answers[p[i]] \subseteq Contents

VARIABLES
  active,       \* the source configuration is ACTIVE
  collections,  \* HistoricalSourceCollection rows, by UUID
  attempts,     \* FetchAttempt rows of each collection, by attempt_ordinal
  parts,        \* HistoricalSourceCollectionPart and ParseRun, by artifact
  run           \* what each run of the command holds in memory

vars == <<active, collections, attempts, parts, run>>

-----------------------------------------------------------------------------
(* Rows.  The code gives no collection the state FAILED.                   *)

CollectionRow == [plan : Plans, state : {"STARTED", "VALIDATED"}]
AttemptRow ==
  [scope : Scopes, state : {"STARTED", "SUCCEEDED", "FAILED"}, artifact : Contents \cup {None}]
PartRow == [collection : Collections, ordinal : Nat \ {0}, scope : Scopes]

Stages ==
  {"idle", "planned", "counted", "fetching", "failing", "fetched", "stored", "persisted", "ended"}
Codes ==
  {"VALIDATED", "FAILED", "FETCH_FAILED", "PARSE_FAILED", "PART_PERSISTENCE_FAILED",
   "COLLECTION_COMPLETION_FAILED", "STOPPED"}

(* None is neither a row nor a code.                                       *)
ASSUME NoneAssumption == None \notin CollectionRow \cup Codes

(* base is next_attempt, i the partition at hand, content what was fetched *)
(* for it, stored the contents of the partitions before it.                *)
RunState ==
  [at : Stages, collection : Collections \cup {None}, plan : Plans \cup {None}, base : Nat,
   i : Nat, content : Contents \cup {None}, stored : Seq(Contents), code : Codes \cup {None}]

At(r, stage) == run[r].at = stage
Goes(r, state) == run' = [run EXCEPT ![r] = state]
Ends(r, code) == Goes(r, [run[r] EXCEPT !.at = "ended", !.code = code])
ScopeAt(r) == run[r].plan[run[r].i]

-----------------------------------------------------------------------------
(* Planning.                                                               *)

(* plan_historical_collection.  The manifest is of the list of scopes, so  *)
(* the same scopes in another order are another plan.                      *)
SamePlan(c, p) == collections[c].plan = p

Asked(r, c, p) == [run[r] EXCEPT !.collection = c, !.plan = p]

Plan(r, c, p) ==
  /\ At(r, "idle") /\ active
  /\ \/ /\ collections[c] = None
        /\ collections' = [collections EXCEPT ![c] = [plan |-> p, state |-> "STARTED"]]
     \/ /\ collections[c] # None /\ SamePlan(c, p)
        /\ UNCHANGED collections
  /\ Goes(r, [Asked(r, c, p) EXCEPT !.at = "planned"])
  /\ UNCHANGED <<active, attempts, parts>>

RefusePlan(r, c, p) ==
  /\ At(r, "idle")
  /\ ~active \/ (collections[c] # None /\ ~SamePlan(c, p))
  /\ Goes(r, [Asked(r, c, p) EXCEPT !.at = "ended", !.code = "FAILED"])
  /\ UNCHANGED <<active, collections, attempts, parts>>

(* MAX(attempt_ordinal) + 1, read once and outside of any transaction.     *)
NextOrdinal(c) == Max(DOMAIN attempts[c] \cup {0}) + 1

CountAttempts(r) ==
  /\ At(r, "planned")
  /\ Goes(r, [run[r] EXCEPT !.at = "counted", !.base = NextOrdinal(run[r].collection), !.i = 1])
  /\ UNCHANGED <<active, collections, attempts, parts>>

-----------------------------------------------------------------------------
(* Fetching a partition.                                                   *)

(* Mutant: the partitions count from 1 on top of the base.                 *)
AttemptOrdinalAfter(r) == run[r].base + run[r].i

AttemptOrdinal(r) == run[r].base + run[r].i - 1

SetAttempt(r, row) ==
  attempts' = [attempts EXCEPT ![run[r].collection] =
                 [o \in DOMAIN @ \cup {AttemptOrdinal(r)} |->
                    IF o = AttemptOrdinal(r) THEN row ELSE @[o]]]

(* start_historical_fetch: an ordinal of the acquisition run is used once. *)
StartAttempt(r) ==
  /\ At(r, "counted")
  /\ active /\ AttemptOrdinal(r) \notin DOMAIN attempts[run[r].collection]
  /\ SetAttempt(r, [scope |-> ScopeAt(r), state |-> "STARTED", artifact |-> None])
  /\ Goes(r, [run[r] EXCEPT !.at = "fetching"])
  /\ UNCHANGED <<active, collections, parts>>

RefuseAttempt(r) ==
  /\ At(r, "counted")
  /\ ~active \/ AttemptOrdinal(r) \in DOMAIN attempts[run[r].collection]
  /\ Ends(r, "FAILED")
  /\ UNCHANGED <<active, collections, attempts, parts>>

FetchYields(r) ==
  /\ At(r, "fetching")
  /\ \E k \in Answers[ScopeAt(r)] : Goes(r, [run[r] EXCEPT !.at = "fetched", !.content = k])
  /\ UNCHANGED <<active, collections, attempts, parts>>

FetchFails(r) ==
  /\ At(r, "fetching")
  /\ Goes(r, [run[r] EXCEPT !.at = "failing"])
  /\ UNCHANGED <<active, collections, attempts, parts>>

(* fail_kamis_fetch.                                                       *)
FailAttempt(r) ==
  /\ At(r, "failing")
  /\ SetAttempt(r, [scope |-> ScopeAt(r), state |-> "FAILED", artifact |-> None])
  /\ Ends(r, "FETCH_FAILED")
  /\ UNCHANGED <<active, collections, parts>>

(* complete_kamis_fetch: the artifact is the one of these bytes.           *)
CompleteAttempt(r) ==
  /\ At(r, "fetched")
  /\ SetAttempt(r, [scope |-> ScopeAt(r), state |-> "SUCCEEDED", artifact |-> run[r].content])
  /\ Goes(r, [run[r] EXCEPT !.at = "stored"])
  /\ UNCHANGED <<active, collections, parts>>

-----------------------------------------------------------------------------
(* Storing a partition.                                                    *)

(* The row parsers, all or nothing.                                        *)
Readable(k) == \A row \in k : row[2] # Drifted

(* _validate_monthly_scope, _validate_regional_scope, _validate_market_scope. *)
InScope(k, s) == RegionsIn(k) \subseteq s

Fetched(c, s, k) ==
  \E o \in DOMAIN attempts[c] :
     attempts[c][o] = [scope |-> s, state |-> "SUCCEEDED", artifact |-> k]

PartsOf(c) == {k \in DOMAIN parts : parts[k].collection = c}

(* Mutant: no unique key.                                                  *)
OverlapsAllowed(c, k) == FALSE

(* The unique key of the typed facts: one row of a collection per region   *)
(* (and series, and date).                                                 *)
Overlaps(c, k) == \E other \in PartsOf(c) : RegionsIn(other) \cap RegionsIn(k) # {}

(* Mutants: any part of the collection will do; only while it is STARTED.  *)
ReplaysAnyOrdinal(c, i, k) == k \in DOMAIN parts /\ parts[k].collection = c
ReplaysWhileStarted(c, i, k) ==
  /\ k \in DOMAIN parts /\ parts[k].collection = c /\ parts[k].ordinal = i
  /\ collections[c].state = "STARTED"

(* start_historical_part under its locks: either the parse run of these    *)
(* bytes is there, with its part, ...                                      *)
Replays(c, i, k) ==
  k \in DOMAIN parts /\ parts[k].collection = c /\ parts[k].ordinal = i

(* ... or it is created, with a new part and the facts of the part.        *)
Attachable(c, i, s, k) ==
  /\ k \notin DOMAIN parts
  /\ collections[c].state = "STARTED"
  /\ \A other \in PartsOf(c) : parts[other].ordinal # i /\ parts[other].scope # s
  /\ ~Overlaps(c, k)

Storable(r) ==
  LET c == run[r].collection  i == run[r].i  k == run[r].content  s == ScopeAt(r) IN
  /\ InScope(k, s) /\ Fetched(c, s, k)
  /\ Replays(c, i, k) \/ Attachable(c, i, s, k)

Advanced(state) ==
  [state EXCEPT !.at = IF state.i < Len(state.plan) THEN "counted" ELSE "persisted",
                !.i = IF state.i < Len(state.plan) THEN @ + 1 ELSE @,
                !.content = None,
                !.stored = Append(@, state.content)]

(* persist_monthly_part, persist_regional_part, persist_market_part.       *)
PersistPart(r) ==
  LET k == run[r].content IN
  /\ At(r, "stored") /\ Readable(k) /\ Storable(r)
  /\ parts' = IF k \in DOMAIN parts THEN parts
              ELSE [other \in DOMAIN parts \cup {k} |->
                      IF other \in DOMAIN parts THEN parts[other]
                      ELSE [collection |-> run[r].collection, ordinal |-> run[r].i,
                            scope |-> ScopeAt(r)]]
  /\ Goes(r, Advanced(run[r]))
  /\ UNCHANGED <<active, collections, attempts>>

RefusePart(r) ==
  /\ At(r, "stored")
  /\ \/ ~Readable(run[r].content) /\ Ends(r, "PARSE_FAILED")
     \/ Readable(run[r].content) /\ ~Storable(r) /\ Ends(r, "PART_PERSISTENCE_FAILED")
  /\ UNCHANGED <<active, collections, attempts, parts>>

-----------------------------------------------------------------------------
(* Completion.                                                             *)

(* complete_historical_collection: the parts are those of the plan.        *)
AccordingToPlan(c) ==
  /\ {parts[k].ordinal : k \in PartsOf(c)} = DOMAIN collections[c].plan
  /\ \A k \in PartsOf(c) :
       /\ parts[k].scope = collections[c].plan[parts[k].ordinal]
       /\ Fetched(c, parts[k].scope, k)

Complete(r) ==
  LET c == run[r].collection IN
  /\ At(r, "persisted")
  /\ IF collections[c].state = "VALIDATED" \/ AccordingToPlan(c)
     THEN /\ collections' = [collections EXCEPT ![c].state = "VALIDATED"]
          /\ Ends(r, "VALIDATED")
     ELSE /\ Ends(r, "COLLECTION_COMPLETION_FAILED")
          /\ UNCHANGED collections
  /\ UNCHANGED <<active, attempts, parts>>

-----------------------------------------------------------------------------
(* The process dies, or the database or the key file is out of reach.      *)
Stop(r) ==
  /\ run[r].at \notin {"idle", "ended"}
  /\ Ends(r, "STOPPED")
  /\ UNCHANGED <<active, collections, attempts, parts>>

(* SourceConfiguration.save refuses to change a source that has attempts,  *)
(* but looks for them without a lock: it may have looked before the first. *)
CloseSource ==
  /\ active /\ active' = FALSE
  /\ UNCHANGED <<collections, attempts, parts, run>>

Init ==
  /\ active = TRUE
  /\ collections = [c \in Collections |-> None]
  /\ attempts = [c \in Collections |-> <<>>]
  /\ parts = <<>>
  /\ run = [r \in Runs |-> [at |-> "idle", collection |-> None, plan |-> None, base |-> 0, i |-> 0,
                            content |-> None, stored |-> <<>>, code |-> None]]

Next ==
  \/ CloseSource
  \/ \E r \in Runs :
       \/ \E c \in Collections, p \in Plans : Plan(r, c, p) \/ RefusePlan(r, c, p)
       \/ CountAttempts(r)
       \/ StartAttempt(r)
       \/ RefuseAttempt(r)
       \/ FetchYields(r)
       \/ FetchFails(r)
       \/ FailAttempt(r)
       \/ CompleteAttempt(r)
       \/ PersistPart(r)
       \/ RefusePart(r)
       \/ Complete(r)
       \/ Stop(r)

Spec == Init /\ [][Next]_vars

-----------------------------------------------------------------------------
(* Properties.                                                             *)

TypeOK ==
  /\ active \in BOOLEAN
  /\ collections \in [Collections -> CollectionRow \cup {None}]
  /\ \A c \in Collections : \A o \in DOMAIN attempts[c] :
       o \in Nat \ {0} /\ attempts[c][o] \in AttemptRow
  /\ DOMAIN parts \subseteq Contents
  /\ \A k \in DOMAIN parts : parts[k] \in PartRow
  /\ \A r \in Runs :
       run[r] \in RunState /\ (run[r].at = "ended") = (run[r].code # None)

(* The runs of a collection read the next ordinal without a lock and then  *)
(* use it for as long as they live.  Whatever runs overlap, and wherever   *)
(* they stop, the attempts of a collection are numbered 1, 2, 3, ...: the  *)
(* run that finds its ordinal taken is the one that gives up.              *)
AttemptsAreGapless ==
  \A c \in Collections :
    /\ DOMAIN attempts[c] = 1 .. Max(DOMAIN attempts[c] \cup {0})
    /\ \A o \in DOMAIN attempts[c] : attempts[c][o].state = "STARTED" =>
         \E r \in Runs :
           /\ run[r].collection = c /\ run[r].base # 0 /\ AttemptOrdinal(r) = o
           /\ run[r].at \in {"fetching", "failing", "fetched"} \/ run[r].code = "STOPPED"

(* A VALIDATED collection has one part for every partition of its plan, in *)
(* the order of the plan, each of bytes that were fetched for that scope   *)
(* and hold nothing outside of it, and no region is told of twice.         *)
ValidatedCollectionsReconcile ==
  \A c \in Collections : collections[c] # None /\ collections[c].state = "VALIDATED" =>
    /\ Cardinality(PartsOf(c)) = Len(collections[c].plan)
    /\ AccordingToPlan(c)
    /\ \A k, other \in PartsOf(c) :
         /\ InScope(k, parts[k].scope) /\ Readable(k)
         /\ k # other => RegionsIn(k) \cap RegionsIn(other) = {}

(* What a run reports as VALIDATED is what is stored: its collection is    *)
(* complete, and the part of every partition holds the very bytes this run *)
(* fetched for it, also when other runs stored some of them.               *)
ReceiptsMatchStoredParts ==
  \A r \in Runs : run[r].code = "VALIDATED" =>
    /\ collections[run[r].collection].state = "VALIDATED"
    /\ Len(run[r].stored) = Len(run[r].plan)
    /\ \A i \in DOMAIN run[r].plan :
         /\ run[r].stored[i] \in PartsOf(run[r].collection)
         /\ parts[run[r].stored[i]].ordinal = i

(* When the store refuses a partition, the bytes are another part's (of an *)
(* earlier collection, or of another partition with the same rows), or the *)
(* partition already has other bytes, or the rows are out of scope or told *)
(* of before: repeating the run over unchanged bytes is never a reason.    *)
RefusedParts(r) ==
  LET c == run[r].collection  i == run[r].i  k == run[r].content IN
  \/ ~InScope(k, ScopeAt(r))
  \/ k \in DOMAIN parts /\ <<parts[k].collection, parts[k].ordinal>> # <<c, i>>
  \/ \E other \in PartsOf(c) \ {k} : parts[other].ordinal = i \/ RegionsIn(other) \cap RegionsIn(k) # {}

(* And a run that fails outright met a conflicting plan, a closed source,  *)
(* or the attempt of a run that was at work beside it; no run fails for    *)
(* want of a part, since it stored or found each before it completes.      *)
RefusalsHaveACause ==
  \A r \in Runs :
    /\ run[r].code = "PART_PERSISTENCE_FAILED" => RefusedParts(r)
    /\ run[r].code = "FAILED" =>
         \/ ~active
         \/ collections[run[r].collection].plan # run[r].plan
         \/ \E other \in Runs \ {r} :
              /\ run[other].collection = run[r].collection /\ run[other].base # 0
              /\ AttemptOrdinal(r) \in run[other].base .. (run[other].base + run[other].i - 1)
    /\ run[r].code # "COLLECTION_COMPLETION_FAILED"
================================================================================
