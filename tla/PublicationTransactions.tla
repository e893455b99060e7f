----------------------- MODULE PublicationTransactions -----------------------
(***************************************************************************)
(* record_review_decision, seal_recent_publication and                     *)
(* transition_recent_publication as PostgreSQL runs them: each is one      *)
(* transaction.atomic block under READ COMMITTED, a sequence of statements *)
(* that see only committed rows and that wait for the row locks of other   *)
(* open transactions.  Sessions interleave between any two statements,     *)
(* may lose their connection at any of them, and the server may abort one  *)
(* to break a cycle of waiters.                                            *)
(*                                                                         *)
(* A call holds the row of its actor first when it comes through a         *)
(* management command (resolve_operation_actor(lock=True)); a direct call  *)
(* of the service has actor None.                                          *)
(***************************************************************************)
EXTENDS PublicationLedger

CONSTANTS
  Sessions,          \* database sessions
  Actors,            \* user rows a command locks before it calls the service
  DecisionCalls,     \* [actor, row : DecisionRow]
  SealCalls,         \* [actor, decision, copy, id]: id is the uuid4 it would draw
  TransitionCalls,   \* [actor, row : ActivationRow]
  MaxCalls           \* bound: calls started in a behaviour

ASSUME TransactionAssumption ==
  /\ None \notin Sessions \cup Actors
  /\ DecisionCalls \subseteq [actor : Actors \cup {None}, row : DecisionRow]
  /\ \A c \in DecisionCalls : c.actor # None =>
       c.row.verdict = "APPROVE" /\ c.row.supersedes = None
  /\ SealCalls \subseteq [actor : Actors \cup {None}, decision : DecisionIds,
                          copy : CopyRevisions, id : RevisionIds]
  /\ TransitionCalls \subseteq [actor : Actors \cup {None}, row : ActivationRow]
  /\ MaxCalls \in Nat

VARIABLES
  pc,             \* the next statement of each session
  call,           \* the call each session is serving
  holds,          \* the rows each session has locked FOR UPDATE
  seen,           \* decisions a locking SELECT saw when it started
  outcome,        \* how the session's last call ended
  channelExists,  \* the channel row has been bootstrapped and committed
  started         \* number of calls started

sessionVars == <<pc, call, holds, seen, outcome, channelExists, started>>
vars == <<ledgerVars, sessionVars>>

-----------------------------------------------------------------------------
(* Calls, statements and rows.                                             *)

Kinds == {"record", "seal", "transition"}

CallsOf(kind) ==
  CASE kind = "record"     -> DecisionCalls
    [] kind = "seal"       -> SealCalls
    [] kind = "transition" -> TransitionCalls

(* Where the service starts, and where the command that calls it does: the  *)
(* approve command locks the run and the source before it calls the         *)
(* service, the seal command the revisions of the decision and copy.        *)
FirstStatement(kind) ==
  CASE kind = "record"     -> "find_decision"
    [] kind = "seal"       -> "lock_decision"
    [] kind = "transition" -> "bootstrap"

AfterActor(kind) ==
  CASE kind = "record"     -> "approve_lock_run"
    [] kind = "seal"       -> "seal_lock_existing"
    [] kind = "transition" -> FirstStatement(kind)

Statements ==
  {"idle", "lock_actor", "approve_lock_run", "approve_lock_source",
   "find_decision", "lock_source", "lock_run", "lock_decisions", "insert_decision",
   "seal_lock_existing", "lock_decision", "seal_lock_source", "seal_lock_run", "read_chain", "lock_chain",
   "find_revision", "insert_revision",
   "bootstrap", "lock_channel", "find_activation", "lock_target",
   "lock_target_decision", "insert_activation",
   "commit"}

Outcomes == {"none", "created", "replayed", "refused", "aborted"}

LockRow ==
  ({"source", "channel"} \X {None}) \cup ({"actor"} \X Actors) \cup ({"run"} \X Generations)
    \cup ({"decision"} \X DecisionIds) \cup ({"revision"} \X RevisionIds)

DecisionLocks(D) == {<<"decision", d.id>> : d \in D}

ServedBy(kind, s) == pc[s] # "idle" /\ call[s].kind = kind
Asked(s) == call[s].ask

(* The decision a seal call names, and the run it reviews.                 *)
DecisionsNamed(id) == {d \in decisions : d.id = id}
RevisionsNamed(id) == {r \in revisions : r.id = id}

(* The revisions the seal command compares the answer with, to tell later  *)
(* whether the service made a new one.                                     *)
ExistingRevisions(ask) == {r \in revisions : r.decision = ask.decision /\ r.copy = ask.copy}

(* The sealed revision a seal call would write: PublicationRevision(        *)
(* **semantic_fields) for the decision it locked.                          *)
RevisionWanted(s) ==
  SealedRow(Asked(s).id, CHOOSE d \in decisions : d.id = Asked(s).decision, Asked(s).copy)

(* select_related("review_decision") locks the decision of the target too;  *)
(* without it a reviewer could supersede the approval before the commit.    *)
NoDecisionLock(id) == {}
TargetDecisionLocks(id) == {<<"decision", r.decision>> : r \in RevisionsNamed(id)}

(* The rows the next statement of s locks.                                 *)
Wanted(s) ==
  CASE pc[s] = "lock_actor"           -> {<<"actor", Asked(s).actor>>}
    [] pc[s] = "find_decision"        -> DecisionLocks(DecisionsNamed(Asked(s).row.id))
    [] pc[s] \in {"lock_source", "approve_lock_source", "seal_lock_source"}
                                      -> {<<"source", None>>}
    [] pc[s] \in {"lock_run", "approve_lock_run"}
                                      -> {<<"run", Asked(s).row.gen>>}
    [] pc[s] = "lock_decisions"       -> DecisionLocks(OfGeneration(Asked(s).row.gen))
    [] pc[s] = "seal_lock_existing"   -> {<<"revision", r.id>> : r \in ExistingRevisions(Asked(s))}
    [] pc[s] = "lock_decision"        -> DecisionLocks(DecisionsNamed(Asked(s).decision))
    [] pc[s] = "seal_lock_run"        -> {<<"run", RevisionWanted(s).gen>>}
    [] pc[s] = "lock_chain"           -> DecisionLocks(seen[s])
    [] pc[s] = "find_revision"        -> {<<"revision", r.id>> :
                                           r \in {q \in revisions : SameEdition(q, RevisionWanted(s))}}
    [] pc[s] = "bootstrap"            -> IF channelExists THEN {} ELSE {<<"channel", None>>}
    [] pc[s] = "lock_channel"         -> {<<"channel", None>>}
    [] pc[s] = "lock_target"          -> {<<"revision", r.id>> : r \in RevisionsNamed(Asked(s).row.target)}
    [] pc[s] = "lock_target_decision" -> TargetDecisionLocks(Asked(s).row.target)
    [] OTHER                          -> {}

Blockers(s) == {t \in Sessions \ {s} : holds[t] \cap Wanted(s) # {}}

-----------------------------------------------------------------------------
(* Steps shared by every statement.                                        *)

At(s, statement) == pc[s] = statement

(* The statement locks what it wants, once nobody else holds it.           *)
LockThen(s, statement) ==
  /\ Blockers(s) = {}
  /\ holds' = [holds EXCEPT ![s] = @ \cup Wanted(s)]
  /\ pc' = [pc EXCEPT ![s] = statement]

(* The transaction ends, with what it wrote or without, and lets its locks go. *)
End(s, result) ==
  /\ pc' = [pc EXCEPT ![s] = "idle"]
  /\ holds' = [holds EXCEPT ![s] = {}]
  /\ seen' = [seen EXCEPT ![s] = {}]
  /\ outcome' = [outcome EXCEPT ![s] = result]
  /\ call' = [call EXCEPT ![s] = None]
  /\ UNCHANGED started

(* A refusal swallowed inside the atomic block would leave it open.        *)
RefuseStillOpen(s) == UNCHANGED vars

(* ValidationError, a missing row or a trigger's exception: roll back.     *)
Refuse(s) == End(s, "refused") /\ UNCHANGED <<ledgerVars, channelExists>>

Proceed(s, statement) ==
  /\ pc' = [pc EXCEPT ![s] = statement]
  /\ UNCHANGED holds

Unwritten == UNCHANGED <<ledgerVars, call, outcome, channelExists, started>>

(* A call that skips what its command locks is a direct call of the service. *)
EntryUnlocked(kind, ask) == FirstStatement(kind)
Entry(kind, ask) == IF ask.actor = None THEN FirstStatement(kind) ELSE "lock_actor"

(* The uuid4 of a new revision is one that nobody has drawn.               *)
FreshId(kind, ask) ==
  kind = "seal" =>
    /\ RevisionsNamed(ask.id) = {}
    /\ \A t \in Sessions : ServedBy("seal", t) => Asked(t).id # ask.id

(* A caller opens a transaction for one call.                              *)
Begin(s) ==
  /\ At(s, "idle")
  /\ started < MaxCalls
  /\ \E kind \in Kinds : \E ask \in CallsOf(kind) :
       /\ FreshId(kind, ask)
       /\ call' = [call EXCEPT ![s] = [kind |-> kind, ask |-> ask]]
       /\ pc' = [pc EXCEPT ![s] = Entry(kind, ask)]
  /\ started' = started + 1
  /\ outcome' = [outcome EXCEPT ![s] = "none"]
  /\ UNCHANGED <<ledgerVars, holds, seen, channelExists>>

(* resolve_operation_actor(lock=True).                                     *)
LockActor(s) ==
  /\ At(s, "lock_actor")
  /\ LockThen(s, AfterActor(call[s].kind))
  /\ UNCHANGED seen /\ Unwritten

-----------------------------------------------------------------------------
(* approve_recent_generation, then record_review_decision.                 *)

ApproveLockRun(s) ==
  /\ At(s, "approve_lock_run")
  /\ \/ parse[Asked(s).row.gen] = "VALIDATED" /\ LockThen(s, "approve_lock_source")
        /\ UNCHANGED seen /\ Unwritten
     \/ parse[Asked(s).row.gen] # "VALIDATED" /\ Blockers(s) = {} /\ Refuse(s)

ApproveLockSource(s) ==
  /\ At(s, "approve_lock_source")
  /\ LockThen(s, "find_decision")
  /\ UNCHANGED seen /\ Unwritten

(* ReviewDecision.objects.select_for_update().filter(pk=...).first(): an   *)
(* exact replay returns the stored decision, any other use of its UUID is  *)
(* refused.  Nothing is locked yet when the UUID is new.                   *)
FindDecision(s) ==
  /\ At(s, "find_decision")
  /\ Blockers(s) = {}
  /\ \/ DecisionsNamed(Asked(s).row.id) = {} /\ Proceed(s, "lock_source")
        /\ UNCHANGED seen /\ Unwritten
     \/ Asked(s).row \in decisions /\ End(s, "replayed")
        /\ UNCHANGED <<ledgerVars, channelExists>>
     \/ DecisionsNamed(Asked(s).row.id) \notin {{}, {Asked(s).row}} /\ Refuse(s)

LockSource(s) ==
  /\ At(s, "lock_source")
  /\ LockThen(s, "lock_run")
  /\ UNCHANGED seen /\ Unwritten

LockRun(s) ==
  /\ At(s, "lock_run")
  /\ LockThen(s, "lock_decisions")
  /\ UNCHANGED seen /\ Unwritten

LockDecisions(s) ==
  /\ At(s, "lock_decisions")
  /\ LockThen(s, "insert_decision")
  /\ UNCHANGED seen /\ Unwritten

(* candidate.save(): full_clean, then the INSERT and its trigger.          *)
InsertDecision(s) ==
  /\ At(s, "insert_decision")
  /\ \/ DecisionAdmissible(Asked(s).row) /\ Proceed(s, "commit")
        /\ UNCHANGED seen /\ Unwritten
     \/ ~DecisionAdmissible(Asked(s).row) /\ Refuse(s)

CommitDecision(s) ==
  /\ At(s, "commit") /\ call[s].kind = "record"
  /\ decisions' = decisions \cup {Asked(s).row}
  /\ End(s, "created")
  /\ UNCHANGED <<parse, revisions, activations, channel, channelExists>>

-----------------------------------------------------------------------------
(* seal_recent_publication, and the seal command that calls it.            *)

SealLockExisting(s) ==
  /\ At(s, "seal_lock_existing")
  /\ LockThen(s, "lock_decision")
  /\ UNCHANGED seen /\ Unwritten

(* One joined SELECT locks the decision, its source and its run in turn.   *)
LockDecision(s) ==
  /\ At(s, "lock_decision")
  /\ \/ DecisionsNamed(Asked(s).decision) # {} /\ LockThen(s, "seal_lock_source")
        /\ UNCHANGED seen /\ Unwritten
     \/ DecisionsNamed(Asked(s).decision) = {} /\ Refuse(s)

SealLockSource(s) ==
  /\ At(s, "seal_lock_source")
  /\ LockThen(s, "seal_lock_run")
  /\ UNCHANGED seen /\ Unwritten

SealLockRun(s) ==
  /\ At(s, "seal_lock_run")
  /\ LockThen(s, "read_chain")
  /\ UNCHANGED seen /\ Unwritten

(* The SELECT of the generation's decisions sees what is committed when it *)
(* starts, and returns that once it has locked them all.                   *)
ReadChain(s) ==
  /\ At(s, "read_chain")
  /\ seen' = [seen EXCEPT ![s] = OfGeneration(RevisionWanted(s).gen)]
  /\ Proceed(s, "lock_chain")
  /\ Unwritten

SeenTails(s) == {d \in seen[s] : \A e \in seen[s] : e.supersedes # d.id}

SealableAsSeen(s) ==
  /\ SeenTails(s) = DecisionsNamed(Asked(s).decision)
  /\ \A d \in SeenTails(s) : d.verdict = "APPROVE"
  /\ parse[RevisionWanted(s).gen] = "VALIDATED"

LockChain(s) ==
  /\ At(s, "lock_chain")
  /\ \/ SealableAsSeen(s) /\ LockThen(s, "find_revision") /\ UNCHANGED seen /\ Unwritten
     \/ ~SealableAsSeen(s) /\ Blockers(s) = {} /\ Refuse(s)

(* A sealed revision of the same facts and copy is returned when it rests  *)
(* on the same decision, and is a conflict when it does not.               *)
SameSeal(r, q) == r.decision = q.decision /\ r.gen = q.gen

FindRevision(s) ==
  LET edition == {r \in revisions : SameEdition(r, RevisionWanted(s))} IN
  /\ At(s, "find_revision")
  /\ \/ edition = {} /\ Proceed(s, "insert_revision") /\ UNCHANGED seen /\ Unwritten
     \/ \E r \in edition :
          /\ Blockers(s) = {}
          /\ \/ SameSeal(r, RevisionWanted(s)) /\ End(s, "replayed")
                /\ UNCHANGED <<ledgerVars, channelExists>>
             \/ ~SameSeal(r, RevisionWanted(s)) /\ Refuse(s)

(* The unsealed row, its entries and the one-time seal, with the trigger's *)
(* checks; readers see none of it before the commit.                       *)
InsertRevision(s) ==
  /\ At(s, "insert_revision")
  /\ \/ RevisionAdmissible(RevisionWanted(s)) /\ Proceed(s, "commit")
        /\ UNCHANGED seen /\ Unwritten
     \/ ~RevisionAdmissible(RevisionWanted(s)) /\ Refuse(s)

CommitRevision(s) ==
  /\ At(s, "commit") /\ call[s].kind = "seal"
  /\ revisions' = revisions \cup {RevisionWanted(s)}
  /\ End(s, "created")
  /\ UNCHANGED <<parse, decisions, activations, channel, channelExists>>

-----------------------------------------------------------------------------
(* transition_recent_publication.                                          *)

(* INSERT ... ON CONFLICT DO NOTHING of the version-0 channel row: it waits *)
(* for an uncommitted row of another session.                              *)
Bootstrap(s) ==
  /\ At(s, "bootstrap")
  /\ LockThen(s, "lock_channel")
  /\ UNCHANGED seen /\ Unwritten

LockChannel(s) ==
  /\ At(s, "lock_channel")
  /\ LockThen(s, "find_activation")
  /\ UNCHANGED seen /\ Unwritten

ActivationsNamed(id) == {a \in activations : a.id = id}

(* The replay test comes before the expectation is compared: had it come   *)
(* after, a retry would be refused as soon as the pointer moved on.        *)
ReplayWhileExpected(a) == a \in activations /\ ExpectationHolds(a)
IsReplay(a) == a \in activations

Movable(a) ==
  /\ ActivationsNamed(a.id) = {}
  /\ ExpectationHolds(a)
  /\ a.operation # "WITHDRAW" => a.target \notin {None, channel.current}

FindActivation(s) ==
  LET a == Asked(s).row IN
  /\ At(s, "find_activation")
  /\ \/ IsReplay(a) /\ End(s, "replayed") /\ UNCHANGED <<ledgerVars, channelExists>>
     \/ ~IsReplay(a) /\ ~Movable(a) /\ Refuse(s)
     \/ ~IsReplay(a) /\ Movable(a)
        /\ Proceed(s, IF a.operation = "WITHDRAW" THEN "insert_activation" ELSE "lock_target")
        /\ UNCHANGED seen /\ Unwritten

(* select_for_update().select_related("review_decision"): the revision and *)
(* then the decision it rests on.                                          *)
LockTarget(s) ==
  /\ At(s, "lock_target")
  /\ \/ RevisionsNamed(Asked(s).row.target) # {} /\ LockThen(s, "lock_target_decision")
        /\ UNCHANGED seen /\ Unwritten
     \/ RevisionsNamed(Asked(s).row.target) = {} /\ Refuse(s)

LockTargetDecision(s) ==
  /\ At(s, "lock_target_decision")
  /\ LockThen(s, "insert_activation")
  /\ UNCHANGED seen /\ Unwritten

InsertActivation(s) ==
  /\ At(s, "insert_activation")
  /\ \/ ActivationAdmissible(Asked(s).row) /\ Proceed(s, "commit")
        /\ UNCHANGED seen /\ Unwritten
     \/ ~ActivationAdmissible(Asked(s).row) /\ Refuse(s)

(* The compare-and-set of the pointer, and the commit.  It is refused when  *)
(* the pointer has moved, which the lock on the channel row prevents.      *)
CommitActivation(s) ==
  /\ At(s, "commit") /\ call[s].kind = "transition"
  /\ IF ExpectationHolds(Asked(s).row)
     THEN /\ activations' = activations \cup {Asked(s).row}
          /\ channel' = PointerAfter(Asked(s).row)
          /\ channelExists' = TRUE
          /\ End(s, "created")
          /\ UNCHANGED <<parse, decisions, revisions>>
     ELSE Refuse(s)

-----------------------------------------------------------------------------
(* The environment.                                                        *)

(* The parser's transaction holds the run row while it completes it.       *)
ParserCompletes(g) ==
  /\ \A s \in Sessions : <<"run", g>> \notin holds[s]
  /\ CompleteParse(g)
  /\ UNCHANGED sessionVars

(* The connection is lost before the commit: PostgreSQL rolls back.        *)
Abort(s) ==
  /\ ~At(s, "idle")
  /\ End(s, "aborted")
  /\ UNCHANGED <<ledgerVars, channelExists>>

(* Every session of C waits for one of C and is waited for by one of C.    *)
Deadlocked(C) ==
  \A t \in C : Blockers(t) \cap C # {} /\ \E u \in C : t \in Blockers(u)

BreakDeadlock ==
  \E C \in (SUBSET Sessions) \ {{}} : Deadlocked(C) /\ \E s \in C : Abort(s)

Statement(s) ==
  \/ LockActor(s)
  \/ ApproveLockRun(s) \/ ApproveLockSource(s)
  \/ FindDecision(s) \/ LockSource(s) \/ LockRun(s) \/ LockDecisions(s)
  \/ InsertDecision(s) \/ CommitDecision(s)
  \/ SealLockExisting(s) \/ LockDecision(s) \/ SealLockSource(s) \/ SealLockRun(s)
  \/ ReadChain(s)
  \/ LockChain(s) \/ FindRevision(s) \/ InsertRevision(s) \/ CommitRevision(s)
  \/ Bootstrap(s) \/ LockChannel(s) \/ FindActivation(s) \/ LockTarget(s)
  \/ LockTargetDecision(s) \/ InsertActivation(s) \/ CommitActivation(s)

Init ==
  /\ LedgerInit
  /\ pc = [s \in Sessions |-> "idle"]
  /\ call = [s \in Sessions |-> None]
  /\ holds = [s \in Sessions |-> {}]
  /\ seen = [s \in Sessions |-> {}]
  /\ outcome = [s \in Sessions |-> "none"]
  /\ channelExists = FALSE
  /\ started = 0

Next ==
  \/ \E s \in Sessions : Begin(s) \/ Statement(s) \/ Abort(s)
  \/ BreakDeadlock
  \/ \E g \in Generations : ParserCompletes(g)

Spec == Init /\ [][Next]_vars

(* The server keeps running open transactions, grants a lock once it is     *)
(* free, and its deadlock detector breaks every cycle of waiters.           *)
FairSpec ==
  /\ Spec
  /\ \A s \in Sessions : WF_vars(Statement(s))
  /\ WF_vars(BreakDeadlock)

-----------------------------------------------------------------------------
(* Properties.                                                             *)

TypeOK ==
  /\ LedgerTypeOK
  /\ pc \in [Sessions -> Statements]
  /\ \A s \in Sessions : pc[s] # "idle" =>
       call[s].kind \in Kinds /\ Asked(s) \in CallsOf(call[s].kind)
  /\ holds \in [Sessions -> SUBSET LockRow]
  /\ seen \in [Sessions -> SUBSET decisions]
  /\ outcome \in [Sessions -> Outcomes]
  /\ channelExists \in BOOLEAN
  /\ started \in 0..MaxCalls

(* Whatever the interleaving, the committed tables only ever take the      *)
(* atomic steps of PublicationLedger: the checks a transaction made before *)
(* it wrote still hold when it commits.  In particular no activation       *)
(* commits for an approval that a reviewer has superseded by then, and no  *)
(* revision is sealed from one.  (models.py: the select_for_update calls   *)
(* of the three services.)                                                 *)
CommitsAreLedgerSteps == LedgerSpec

(* What the recent channel promises: nothing is published, by a rollback   *)
(* either, that was not sealed before and whose approval does not stand.   *)
EventAt(n) ==
  LET a == CHOOSE x \in activations : x.sequence = n
  IN [operation |-> a.operation, target |-> a.target]

Channel ==
  INSTANCE PublicationChannel WITH
    Revisions <- RevisionIds,
    RollbackNeedsApproval <- TRUE,
    sealed <- {r.id : r \in revisions},
    approved <- {r.id : r \in {q \in revisions : RestsOnCurrentApproval(q)}},
    events <- [n \in 1 .. channel.version |-> EventAt(n)]

ImplementsChannel == Channel!Spec

(* A call that repeats a stored decision exactly is answered with it and   *)
(* never refused: record_review_decision's "returning exact UUID replays   *)
(* idempotently".                                                          *)
DecisionReplayAnswered ==
  [][\A s \in Sessions :
       ServedBy("record", s) /\ outcome'[s] = "refused" => Asked(s).row \notin decisions]_vars

(* Through approve_recent_generation, which locks its actor's row first,   *)
(* it is always so.                                                        *)
CommandReplayAnswered ==
  [][\A s \in Sessions :
       ServedBy("record", s) /\ Asked(s).actor # None /\ outcome'[s] = "refused" =>
         Asked(s).row \notin decisions]_vars

(* The same for a publisher who repeats a transition because its answer    *)
(* was lost: the replay succeeds although the pointer has moved on since.  *)
TransitionReplayAnswered ==
  [][\A s \in Sessions :
       ServedBy("transition", s) /\ outcome'[s] = "refused" => Asked(s).row \notin activations]_vars

(* A session that waits always gets on: its call commits, is refused or is *)
(* rolled back, however the transactions lock against each other.          *)
CallsEnd == \A s \in Sessions : pc[s] # "idle" ~> pc[s] = "idle"
=============================================================================
