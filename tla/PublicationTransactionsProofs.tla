--------------------- MODULE PublicationTransactionsProofs ---------------------
(***************************************************************************)
(* The three publication services implement the ledger, for any number of  *)
(* sessions, actors and calls: what a transaction checked before it wrote  *)
(* still holds when it commits, because of the rows it holds locked.       *)
(*                                                                         *)
(*   - Decisions are committed only by holders of the source row, so they  *)
(*     stand still for a reviewer and for a sealing publisher.             *)
(*   - Activations are committed only by the holder of the channel row.    *)
(*   - Whoever supersedes a decision holds all decisions of its            *)
(*     generation, whoever publishes holds the one of its target.          *)
(*                                                                         *)
(* Everything the ledger promises then holds of the statements, and the    *)
(* ledger in turn implements the abstract channel.                         *)
(***************************************************************************)
EXTENDS PublicationTransactions, PublicationLedgerProofs, Sequences

-----------------------------------------------------------------------------
(* The invariant.                                                          *)

Source == <<"source", None>>
ChannelLock == <<"channel", None>>

(* Where a session of each kind of call may be, and from where on it has   *)
(* locked the source or the channel row.                                   *)
AfterSource == {"lock_run", "lock_decisions", "insert_decision", "commit"}
RecordStages == {"approve_lock_run", "approve_lock_source", "find_decision", "lock_source"} \cup AfterSource
AfterSealSource ==
  {"seal_lock_run", "read_chain", "lock_chain", "find_revision", "insert_revision", "commit"}
SealStages == {"seal_lock_existing", "lock_decision", "seal_lock_source"} \cup AfterSealSource
AfterFind == {"lock_target", "lock_target_decision", "insert_activation", "commit"}
TransitionStages == {"bootstrap", "lock_channel", "find_activation"} \cup AfterFind

StagesOf(kind) ==
  CASE kind = "record"     -> RecordStages
    [] kind = "seal"       -> SealStages
    [] kind = "transition" -> TransitionStages

(* What a session remembers of its call.                                   *)
SessionFits(s) ==
  IF pc[s] = "idle" THEN holds[s] = {}
  ELSE /\ call[s].kind \in Kinds
       /\ Asked(s) \in CallsOf(call[s].kind)
       /\ IF pc[s] = "lock_actor" THEN Asked(s).actor # None
          ELSE pc[s] \in StagesOf(call[s].kind)
       /\ outcome[s] = "none"

Memory ==
  /\ pc \in [Sessions -> Statements]
  /\ call = [s \in Sessions |-> call[s]]
  /\ holds \in [Sessions -> SUBSET LockRow]
  /\ seen \in [Sessions -> SUBSET decisions]
  /\ outcome \in [Sessions -> Outcomes]
  /\ channelExists \in BOOLEAN
  /\ started \in 0..MaxCalls
  /\ \A s \in Sessions : SessionFits(s)

(* No row is locked twice.                                                 *)
Exclusive == \A s, t \in Sessions : s # t => holds[s] \cap holds[t] = {}

(* A reviewer from the source lock on; a command has it before it looks.   *)
RecordHolds(s) ==
  ServedBy("record", s) =>
    /\ pc[s] \in AfterSource => Source \in holds[s]
    /\ pc[s] \in {"insert_decision", "commit"} =>
         DecisionLocks(OfGeneration(Asked(s).row.gen)) \subseteq holds[s]
    /\ Asked(s).actor # None /\ pc[s] \in {"find_decision", "lock_source"} => Source \in holds[s]
    /\ Asked(s).actor # None /\ pc[s] \in {"lock_source"} \cup AfterSource =>
         DecisionsNamed(Asked(s).row.id) = {}
    /\ pc[s] = "commit" => DecisionAdmissible(Asked(s).row)

(* A sealing publisher: the decision is there, and what it would write may *)
(* be written.                                                             *)
SealHolds(s) ==
  ServedBy("seal", s) =>
    /\ pc[s] \in {"seal_lock_source"} \cup AfterSealSource => DecisionsNamed(Asked(s).decision) # {}
    /\ pc[s] \in AfterSealSource => Source \in holds[s]
    /\ pc[s] = "commit" => RevisionAdmissible(RevisionWanted(s))

(* A publisher who moves the pointer: the UUID is new, and the target is   *)
(* there with its decision locked.                                         *)
TransitionHolds(s) ==
  ServedBy("transition", s) =>
    /\ pc[s] \in {"find_activation"} \cup AfterFind => ChannelLock \in holds[s]
    /\ pc[s] \in AfterFind => ActivationsNamed(Asked(s).row.id) = {}
    /\ Asked(s).row.operation # "WITHDRAW" /\ pc[s] \in AfterFind \ {"lock_target"} =>
         RevisionsNamed(Asked(s).row.target) # {}
    /\ Asked(s).row.operation # "WITHDRAW" /\ pc[s] \in {"insert_activation", "commit"} =>
         TargetDecisionLocks(Asked(s).row.target) \subseteq holds[s]
    /\ pc[s] = "commit" => ActivationAdmissible(Asked(s).row)

(* What the committed tables contribute: decisions are named once, and an  *)
(* approval is of a validated run.                                         *)
TablesFit ==
  /\ LedgerTypeOK
  /\ DecisionIdsUnique
  /\ \A d \in decisions : d.verdict = "APPROVE" => parse[d.gen] = "VALIDATED"

TransactionInv ==
  /\ TablesFit
  /\ Memory
  /\ Exclusive
  /\ \A s \in Sessions : RecordHolds(s) /\ SealHolds(s) /\ TransitionHolds(s)

-----------------------------------------------------------------------------
(* Sessions and stages.                                                    *)

LEMMA Stages ==
  /\ StagesOf("record") = RecordStages
  /\ StagesOf("seal") = SealStages
  /\ StagesOf("transition") = TransitionStages
  BY DEF StagesOf

(* Every stage but the commit belongs to one kind of call.                 *)
LEMMA KindAt ==
  ASSUME Memory, NEW s \in Sessions, pc[s] \notin {"idle", "lock_actor", "commit"}
  PROVE  /\ pc[s] \in RecordStages => call[s].kind = "record"
         /\ pc[s] \in SealStages => call[s].kind = "seal"
         /\ pc[s] \in TransitionStages => call[s].kind = "transition"
<1>1. call[s].kind \in Kinds /\ pc[s] \in StagesOf(call[s].kind)
  BY DEF Memory, SessionFits
<1> QED
  BY <1>1, Stages DEF Kinds, RecordStages, SealStages, TransitionStages, AfterSource,
                      AfterSealSource, AfterFind

(* What the calls ask for.                                                 *)
LEMMA CallTypes ==
  ASSUME Memory, NEW s \in Sessions
  PROVE  /\ ServedBy("record", s) =>
              /\ Asked(s).actor \in Actors \cup {None} /\ Asked(s).row \in DecisionRow
              /\ Asked(s).actor # None => Asked(s).row.verdict = "APPROVE"
         /\ ServedBy("seal", s) =>
              /\ Asked(s).actor \in Actors \cup {None} /\ Asked(s).decision \in DecisionIds
              /\ Asked(s).copy \in CopyRevisions /\ Asked(s).id \in RevisionIds
         /\ ServedBy("transition", s) =>
              Asked(s).actor \in Actors \cup {None} /\ Asked(s).row \in ActivationRow
<1>1. pc[s] # "idle" => Asked(s) \in CallsOf(call[s].kind)
  BY DEF Memory, SessionFits
<1>2. /\ CallsOf("record") = DecisionCalls
      /\ CallsOf("seal") = SealCalls
      /\ CallsOf("transition") = TransitionCalls
  BY DEF CallsOf
<1>3. ASSUME ServedBy("record", s)
      PROVE  /\ Asked(s).actor \in Actors \cup {None} /\ Asked(s).row \in DecisionRow
             /\ Asked(s).actor # None => Asked(s).row.verdict = "APPROVE"
  BY <1>1, <1>2, <1>3, TransactionAssumption DEF ServedBy
<1>4. ASSUME ServedBy("seal", s)
      PROVE  /\ Asked(s).actor \in Actors \cup {None} /\ Asked(s).decision \in DecisionIds
             /\ Asked(s).copy \in CopyRevisions /\ Asked(s).id \in RevisionIds
  BY <1>1, <1>2, <1>4, TransactionAssumption DEF ServedBy
<1>5. ASSUME ServedBy("transition", s)
      PROVE  Asked(s).actor \in Actors \cup {None} /\ Asked(s).row \in ActivationRow
  BY <1>1, <1>2, <1>5, TransactionAssumption DEF ServedBy
<1> QED BY <1>3, <1>4, <1>5

(* The revision a seal would write rests on the decision it was asked for. *)
LEMMA WantedRevision ==
  ASSUME NEW s, DecisionsNamed(Asked(s).decision) # {}
  PROVE  \E d \in decisions :
           d.id = Asked(s).decision
             /\ RevisionWanted(s) = SealedRow(Asked(s).id, d, Asked(s).copy)
  BY DEF DecisionsNamed, RevisionWanted

-----------------------------------------------------------------------------
(* What a commit may do to a session that waits beside it.                 *)

(* rows are the locks the writer holds.                                    *)
DecisionCommitted(rows) ==
  \E d \in DecisionRow :
    /\ RecordDecision(d)
    /\ Source \in rows
    /\ DecisionLocks(OfGeneration(d.gen)) \subseteq rows

RevisionCommitted(rows) ==
  \E r \in RevisionRow : SealRevision(r) /\ Source \in rows

ActivationCommitted(rows) ==
  \E a \in ActivationRow : Transition(a) /\ ChannelLock \in rows

ParseMoves == \E g \in Generations : CompleteParse(g)

Committed(rows) ==
  \/ UNCHANGED ledgerVars
  \/ ParseMoves
  \/ DecisionCommitted(rows)
  \/ RevisionCommitted(rows)
  \/ ActivationCommitted(rows)

Unmoved(t) == pc'[t] = pc[t] /\ call'[t] = call[t] /\ holds'[t] = holds[t]

LEMMA CommitKeepsTables ==
  ASSUME TablesFit, NEW rows, Committed(rows)
  PROVE  TablesFit'
<1>1. CASE UNCHANGED ledgerVars
  BY <1>1 DEF ledgerVars, TablesFit, LedgerTypeOK, DecisionIdsUnique
<1>2. ASSUME NEW g \in Generations, CompleteParse(g) PROVE TablesFit'
  <2>1. LedgerTypeOK'
    BY <1>2 DEF CompleteParse, TablesFit, LedgerTypeOK, ParseStatus
  <2>2. \A h \in Generations : parse[h] = "VALIDATED" => parse'[h] = "VALIDATED"
    BY <1>2 DEF CompleteParse, TablesFit, LedgerTypeOK
  <2> QED BY <1>2, <2>1, <2>2 DEF CompleteParse, TablesFit, LedgerTypeOK, DecisionIdsUnique, DecisionRow
<1>3. CASE DecisionCommitted(rows)
  BY <1>3 DEF DecisionCommitted, RecordDecision, DecisionAdmissible, VerdictFitsParse, TablesFit,
              LedgerTypeOK, DecisionIdsUnique
<1>4. CASE RevisionCommitted(rows)
  BY <1>4 DEF RevisionCommitted, SealRevision, TablesFit, LedgerTypeOK, DecisionIdsUnique
<1>5. CASE ActivationCommitted(rows)
  <2>1. PICK a \in ActivationRow : Transition(a)
    BY <1>5 DEF ActivationCommitted
  <2>2. PointerAfter(a) \in ChannelRow
    BY DEF PointerAfter, ActivationRow, ChannelRow
  <2> QED BY <2>1, <2>2 DEF Transition, TablesFit, LedgerTypeOK, DecisionIdsUnique
<1> QED BY <1>1, <1>2, <1>3, <1>4, <1>5 DEF Committed, ParseMoves

LEMMA CommitKeepsReviewer ==
  ASSUME TransactionInv, NEW rows, Committed(rows),
         NEW t \in Sessions, Unmoved(t), holds[t] \cap rows = {}
  PROVE  RecordHolds(t)'
<1>1. ServedBy("record", t)' <=> ServedBy("record", t)
  BY DEF Unmoved, ServedBy
<1> SUFFICES ASSUME ServedBy("record", t) PROVE RecordHolds(t)'
  BY <1>1 DEF RecordHolds
<1>2. RecordHolds(t) /\ Asked(t)' = Asked(t)
  BY DEF TransactionInv, Unmoved, Asked
<1>3. CASE decisions' = decisions
  <2>1. pc[t] = "commit" => DecisionAdmissible(Asked(t).row)'
    <3> SUFFICES ASSUME DecisionAdmissible(Asked(t).row), pc[t] = "commit"
                 PROVE  DecisionAdmissible(Asked(t).row)'
      BY <1>2 DEF RecordHolds, ServedBy
    <3>1. Asked(t).row.gen \in Generations
      BY CallTypes DEF TransactionInv, DecisionRow
    <3>2. /\ parse[Asked(t).row.gen] = "VALIDATED" => parse'[Asked(t).row.gen] = "VALIDATED"
          /\ parse[Asked(t).row.gen] # "STARTED" => parse'[Asked(t).row.gen] # "STARTED"
      BY <3>1, <1>3 DEF Committed, ledgerVars, ParseMoves, CompleteParse, DecisionCommitted,
           RecordDecision, RevisionCommitted, SealRevision, ActivationCommitted, Transition,
           TransactionInv, TablesFit, LedgerTypeOK
    <3> QED
      BY <1>2, <1>3, <3>2 DEF DecisionAdmissible, ExtendsChain, OfGeneration, IsSuperseded, VerdictFitsParse
  <2> QED
    BY <1>1, <1>2, <1>3, <2>1 DEF RecordHolds, Unmoved, OfGeneration, DecisionsNamed
<1>4. CASE DecisionCommitted(rows)
  <2>1. Source \notin holds[t]
    BY <1>4 DEF DecisionCommitted
  <2>2. /\ pc[t] \notin AfterSource
        /\ Asked(t).actor # None => pc[t] \notin {"find_decision", "lock_source"}
    BY <2>1, <1>2 DEF RecordHolds
  <2> QED BY <1>2, <2>2 DEF RecordHolds, Unmoved, AfterSource
<1> QED
  BY <1>3, <1>4 DEF Committed, ledgerVars, ParseMoves, CompleteParse, RevisionCommitted, SealRevision,
                    ActivationCommitted, Transition

LEMMA CommitKeepsSealer ==
  ASSUME TransactionInv, NEW rows, Committed(rows),
         NEW t \in Sessions, Unmoved(t), holds[t] \cap rows = {}
  PROVE  SealHolds(t)'
<1>1. ServedBy("seal", t)' <=> ServedBy("seal", t)
  BY DEF Unmoved, ServedBy
<1> SUFFICES ASSUME ServedBy("seal", t) PROVE SealHolds(t)'
  BY <1>1 DEF SealHolds
<1>2. SealHolds(t) /\ Asked(t)' = Asked(t)
  BY DEF TransactionInv, Unmoved, Asked
<1>3. CASE decisions' = decisions /\ revisions' = revisions
  <2>1. RevisionWanted(t)' = RevisionWanted(t)
    BY <1>2, <1>3 DEF RevisionWanted, SealedRow
  <2>2. pc[t] = "commit" => RevisionAdmissible(RevisionWanted(t))'
    <3> SUFFICES ASSUME RevisionAdmissible(RevisionWanted(t)), pc[t] = "commit"
                 PROVE  RevisionAdmissible(RevisionWanted(t))'
      BY <1>2 DEF SealHolds, ServedBy
    <3>1. RevisionWanted(t).gen \in Generations
      <4>1. PICK d \in decisions : RevisionWanted(t) = SealedRow(Asked(t).id, d, Asked(t).copy)
        BY <1>2, WantedRevision DEF SealHolds, AfterSealSource
      <4> QED BY <4>1 DEF SealedRow, TransactionInv, TablesFit, LedgerTypeOK, DecisionRow
    <3>2. parse[RevisionWanted(t).gen] = "VALIDATED" => parse'[RevisionWanted(t).gen] = "VALIDATED"
      BY <3>1, <1>3 DEF Committed, ledgerVars, ParseMoves, CompleteParse, DecisionCommitted,
           RecordDecision, RevisionCommitted, SealRevision, ActivationCommitted, Transition,
           TransactionInv, TablesFit, LedgerTypeOK
    <3> QED
      BY <1>3, <2>1, <3>2 DEF RevisionAdmissible, RestsOnCurrentApproval, IsSuperseded
  <2> QED
    BY <1>2, <1>3, <2>1, <2>2 DEF SealHolds, Unmoved, DecisionsNamed
<1>4. CASE Source \in rows /\ decisions \subseteq decisions'
  <2>1. pc[t] \notin AfterSealSource
    BY <1>4, <1>2 DEF SealHolds
  <2>2. DecisionsNamed(Asked(t).decision) # {} => DecisionsNamed(Asked(t).decision)' # {}
    BY <1>2, <1>4 DEF DecisionsNamed
  <2> QED BY <1>2, <2>1, <2>2 DEF SealHolds, Unmoved, AfterSealSource
<1> QED
  BY <1>3, <1>4 DEF Committed, ledgerVars, ParseMoves, CompleteParse, DecisionCommitted, RecordDecision,
                    RevisionCommitted, SealRevision, ActivationCommitted, Transition

(* The reviewer who commits holds every decision it could supersede, and   *)
(* none of these is the one that the target rests on.                      *)
LEMMA CommitKeepsPublisher ==
  ASSUME TransactionInv, NEW rows, Committed(rows),
         NEW t \in Sessions, Unmoved(t), holds[t] \cap rows = {}
  PROVE  TransitionHolds(t)'
<1>1. ServedBy("transition", t)' <=> ServedBy("transition", t)
  BY DEF Unmoved, ServedBy
<1> SUFFICES ASSUME ServedBy("transition", t) PROVE TransitionHolds(t)'
  BY <1>1 DEF TransitionHolds
<1>2. TransitionHolds(t) /\ Asked(t)' = Asked(t)
  BY DEF TransactionInv, Unmoved, Asked
<1> DEFINE a == Asked(t).row
<1>3. CASE UNCHANGED <<decisions, revisions, activations, channel>>
  BY <1>1, <1>2, <1>3 DEF TransitionHolds, Unmoved, ActivationsNamed, RevisionsNamed,
       TargetDecisionLocks, ActivationAdmissible, ExpectationHolds, TargetAdmissible, WasMadeCurrent,
       RestsOnCurrentApproval, IsSuperseded
<1>4. ASSUME NEW d \in DecisionRow, RecordDecision(d), DecisionLocks(OfGeneration(d.gen)) \subseteq rows
      PROVE  TransitionHolds(t)'
  <2>1. decisions' = decisions \cup {d} /\ UNCHANGED <<revisions, activations, channel>>
    BY <1>4 DEF RecordDecision
  <2>2. pc[t] = "commit" => ActivationAdmissible(a)'
    <3> SUFFICES ASSUME pc[t] = "commit", ActivationAdmissible(a) PROVE ActivationAdmissible(a)'
      BY <1>2 DEF TransitionHolds, ServedBy
    <3>1. CASE a.operation = "WITHDRAW"
      BY <3>1, <2>1, <1>2 DEF ActivationAdmissible, ExpectationHolds, TargetAdmissible
    <3>2. CASE a.operation # "WITHDRAW"
      <4>1. PICK r \in revisions : r.id = a.target /\ RestsOnCurrentApproval(r)
        BY <3>2 DEF ActivationAdmissible, TargetAdmissible
      <4>2. PICK e \in decisions : /\ e.id = r.decision /\ e.gen = r.gen
                                   /\ e.verdict = "APPROVE" /\ ~IsSuperseded(e)
        BY <4>1 DEF RestsOnCurrentApproval
      <4>3. <<"decision", e.id>> \in holds[t]
        BY <4>1, <4>2, <3>2, <1>2 DEF TransitionHolds, TargetDecisionLocks, RevisionsNamed
      <4>4. d.supersedes # e.id
        <5> SUFFICES ASSUME d.supersedes = e.id PROVE FALSE
          OBVIOUS
        <5>1. e.id # None
          BY LedgerAssumption DEF TransactionInv, TablesFit, LedgerTypeOK, DecisionRow
        <5>2. \E p \in OfGeneration(d.gen) : p.id = e.id
          BY <5>1, <1>4 DEF RecordDecision, DecisionAdmissible, ExtendsChain
        <5>3. <<"decision", e.id>> \in rows
          BY <5>2, <1>4 DEF DecisionLocks
        <5> QED BY <4>3, <5>3
      <4>5. ~IsSuperseded(e)'
        BY <2>1, <4>2, <4>4 DEF IsSuperseded
      <4>6. RestsOnCurrentApproval(r)'
        BY <2>1, <4>2, <4>5 DEF RestsOnCurrentApproval
      <4> QED
        BY <2>1, <4>1, <4>6, <1>2 DEF ActivationAdmissible, ExpectationHolds, TargetAdmissible, WasMadeCurrent
    <3> QED BY <3>1, <3>2
  <2> QED
    BY <1>2, <2>1, <2>2 DEF TransitionHolds, Unmoved, ActivationsNamed, RevisionsNamed, TargetDecisionLocks
<1>5. ASSUME NEW q \in RevisionRow, SealRevision(q) PROVE TransitionHolds(t)'
  <2>1. revisions' = revisions \cup {q} /\ UNCHANGED <<decisions, activations, channel>>
    BY <1>5 DEF SealRevision
  <2>2. RevisionsNamed(a.target) # {} => RevisionsNamed(a.target)' = RevisionsNamed(a.target)
    BY <1>2, <1>5, <2>1 DEF RevisionsNamed, SealRevision, RevisionAdmissible
  <2>3. pc[t] = "commit" => ActivationAdmissible(a)'
    <3> SUFFICES ASSUME pc[t] = "commit", ActivationAdmissible(a) PROVE ActivationAdmissible(a)'
      BY <1>2 DEF TransitionHolds, ServedBy
    <3>1. \A r \in revisions : RestsOnCurrentApproval(r)' <=> RestsOnCurrentApproval(r)
      BY <2>1 DEF RestsOnCurrentApproval, IsSuperseded
    <3> QED
      BY <2>1, <3>1, <1>2 DEF ActivationAdmissible, ExpectationHolds, TargetAdmissible, WasMadeCurrent
  <2> QED
    BY <1>2, <2>1, <2>2, <2>3 DEF TransitionHolds, Unmoved, ActivationsNamed, TargetDecisionLocks, AfterFind
<1>6. CASE ChannelLock \in rows
  <2>1. pc[t] \notin {"find_activation"} \cup AfterFind
    BY <1>6, <1>2 DEF TransitionHolds
  <2> QED BY <1>2, <2>1 DEF TransitionHolds, Unmoved, AfterFind
<1> QED
  BY <1>3, <1>4, <1>5, <1>6 DEF Committed, ledgerVars, ParseMoves, CompleteParse, DecisionCommitted,
                    RevisionCommitted, ActivationCommitted

-----------------------------------------------------------------------------
(* The ways in which a session moves on.                                   *)

LEMMA OthersKept ==
  ASSUME TransactionInv, NEW s \in Sessions, Committed(holds[s]),
         \A t \in Sessions \ {s} : Unmoved(t)
  PROVE  \A t \in Sessions \ {s} : RecordHolds(t)' /\ SealHolds(t)' /\ TransitionHolds(t)'
<1> SUFFICES ASSUME NEW t \in Sessions \ {s}
             PROVE  RecordHolds(t)' /\ SealHolds(t)' /\ TransitionHolds(t)'
  OBVIOUS
<1>1. holds[t] \cap holds[s] = {}
  BY DEF TransactionInv, Exclusive
<1> QED
  BY <1>1, CommitKeepsReviewer, CommitKeepsSealer, CommitKeepsPublisher

(* To the next statement of its call, with rows nobody else has.           *)
LEMMA Advance ==
  ASSUME TransactionInv, NEW s \in Sessions, pc[s] # "idle",
         NEW st \in StagesOf(call[s].kind),
         NEW rows \in SUBSET LockRow, \A t \in Sessions \ {s} : holds[t] \cap rows = {},
         pc' = [pc EXCEPT ![s] = st],
         holds' = [holds EXCEPT ![s] = @ \cup rows],
         seen' \in [Sessions -> SUBSET decisions],
         Unwritten,
         RecordHolds(s)', SealHolds(s)', TransitionHolds(s)'
  PROVE  TransactionInv'
<1>1. call[s].kind \in Kinds /\ SessionFits(s)
  BY DEF TransactionInv, Memory, SessionFits
<1>2. st \in Statements /\ st \notin {"idle", "lock_actor"}
  BY <1>1, Stages DEF Kinds, Statements, RecordStages, SealStages, TransitionStages, AfterSource,
                      AfterSealSource, AfterFind
<1>3. \A t \in Sessions \ {s} : Unmoved(t)
  BY DEF Unmoved, Unwritten, TransactionInv, Memory
<1>4. Memory'
  <2>1. /\ pc' \in [Sessions -> Statements] /\ holds' \in [Sessions -> SUBSET LockRow]
        /\ call' = call /\ outcome' = outcome /\ channelExists' = channelExists
        /\ started' = started /\ decisions' = decisions
    BY <1>2 DEF Unwritten, TransactionInv, Memory, ledgerVars
  <2>2. SessionFits(s)'
    <3>1. pc'[s] = st
      BY DEF TransactionInv, Memory
    <3> QED BY <1>1, <1>2, <2>1, <3>1 DEF SessionFits, Asked
  <2>3. \A t \in Sessions \ {s} : SessionFits(t)'
    BY <1>3, <2>1 DEF TransactionInv, Memory, SessionFits, Unmoved, Asked
  <2> QED BY <2>1, <2>2, <2>3 DEF TransactionInv, Memory
<1>5. Exclusive'
  <2>1. holds'[s] = holds[s] \cup rows
    BY DEF TransactionInv, Memory
  <2> QED BY <1>3, <2>1 DEF TransactionInv, Exclusive, Unmoved
<1>6. Committed(holds[s])
  BY DEF Unwritten, Committed
<1> QED
  BY <1>3, <1>4, <1>5, <1>6, OthersKept, CommitKeepsTables DEF TransactionInv

(* A statement that locks what it wants.                                   *)
LEMMA AdvanceLocking ==
  ASSUME TransactionInv, NEW s \in Sessions, pc[s] # "idle",
         NEW st \in StagesOf(call[s].kind),
         LockThen(s, st), Wanted(s) \in SUBSET LockRow,
         seen' = seen, Unwritten,
         RecordHolds(s)', SealHolds(s)', TransitionHolds(s)'
  PROVE  TransactionInv'
<1>1. \A t \in Sessions \ {s} : holds[t] \cap Wanted(s) = {}
  BY DEF LockThen, Blockers
<1> QED
  BY <1>1, Advance DEF LockThen, TransactionInv, Memory

LEMMA AdvanceUnlocking ==
  ASSUME TransactionInv, NEW s \in Sessions, pc[s] # "idle",
         NEW st \in StagesOf(call[s].kind),
         Proceed(s, st),
         seen' = seen, Unwritten,
         RecordHolds(s)', SealHolds(s)', TransitionHolds(s)'
  PROVE  TransactionInv'
<1>1. holds' = [holds EXCEPT ![s] = @ \cup {}]
  <2>1. holds \in [Sessions -> SUBSET LockRow]
    BY DEF TransactionInv, Memory
  <2>2. holds[s] \cup {} = holds[s]
    OBVIOUS
  <2> QED BY <2>1, <2>2 DEF Proceed
<1>2. {} \in SUBSET LockRow /\ \A t \in Sessions \ {s} : holds[t] \cap {} = {}
  OBVIOUS
<1>3. seen' \in [Sessions -> SUBSET decisions] /\ pc' = [pc EXCEPT ![s] = st]
  BY DEF Proceed, TransactionInv, Memory
<1> QED
  BY <1>1, <1>2, <1>3, Advance

(* The end of a call: everyone else finds fewer rows locked, and the       *)
(* tables as the commit left them.                                         *)
LEMMA EndKeeps ==
  ASSUME TransactionInv, NEW s \in Sessions, NEW result \in Outcomes, End(s, result),
         Committed(holds[s]), channelExists' \in BOOLEAN
  PROVE  TransactionInv'
<1>1. \A t \in Sessions \ {s} : Unmoved(t) /\ outcome'[t] = outcome[t]
  BY DEF Unmoved, End, TransactionInv, Memory
<1>2. pc'[s] = "idle" /\ holds'[s] = {}
  BY DEF End, TransactionInv, Memory
<1>3. decisions \subseteq decisions'
  BY DEF Committed, ledgerVars, ParseMoves, CompleteParse, DecisionCommitted, RecordDecision,
         RevisionCommitted, SealRevision, ActivationCommitted, Transition
<1>4. Memory'
  <2>1. \A t \in Sessions : SessionFits(t)'
    BY <1>1, <1>2 DEF SessionFits, Unmoved, TransactionInv, Memory, Asked
  <2>2. seen' \in [Sessions -> SUBSET decisions']
    BY <1>3 DEF End, TransactionInv, Memory
  <2> QED BY <2>1, <2>2 DEF End, TransactionInv, Memory, Statements
<1>5. Exclusive'
  BY <1>1, <1>2 DEF TransactionInv, Exclusive, Unmoved
<1>6. RecordHolds(s)' /\ SealHolds(s)' /\ TransitionHolds(s)'
  BY <1>2 DEF RecordHolds, SealHolds, TransitionHolds, ServedBy
<1> QED
  BY <1>1, <1>4, <1>5, <1>6, OthersKept, CommitKeepsTables DEF TransactionInv

LEMMA RefuseKeeps ==
  ASSUME TransactionInv, NEW s \in Sessions, Refuse(s)
  PROVE  TransactionInv'
  BY EndKeeps DEF Refuse, Outcomes, Committed, TransactionInv, Memory

LEMMA ReplayKeeps ==
  ASSUME TransactionInv, NEW s \in Sessions, End(s, "replayed"), UNCHANGED <<ledgerVars, channelExists>>
  PROVE  TransactionInv'
  BY EndKeeps DEF Outcomes, Committed, TransactionInv, Memory

(* A new call holds nothing yet.                                           *)
LEMMA BeginKeeps ==
  ASSUME TransactionInv, NEW s \in Sessions, Begin(s)
  PROVE  TransactionInv'
<1>0. PICK kind \in Kinds : \E ask \in CallsOf(kind) :
        /\ call' = [call EXCEPT ![s] = [kind |-> kind, ask |-> ask]]
        /\ pc' = [pc EXCEPT ![s] = Entry(kind, ask)]
  BY DEF Begin
<1>1. PICK ask \in CallsOf(kind) :
        /\ call' = [call EXCEPT ![s] = [kind |-> kind, ask |-> ask]]
        /\ pc' = [pc EXCEPT ![s] = Entry(kind, ask)]
  BY <1>0
<1>2. FirstStatement("record") = "find_decision" /\ FirstStatement("seal") = "lock_decision"
        /\ FirstStatement("transition") = "bootstrap"
  BY DEF FirstStatement
<1>3. /\ Entry(kind, ask) \in Statements \ {"idle"}
      /\ Entry(kind, ask) = "lock_actor" => ask.actor # None
      /\ Entry(kind, ask) # "lock_actor" =>
           /\ ask.actor = None
           /\ Entry(kind, ask) \in {"find_decision", "lock_decision", "bootstrap"}
           /\ Entry(kind, ask) \in StagesOf(kind)
  BY <1>2, Stages DEF Entry, Kinds, Statements, RecordStages, SealStages, TransitionStages
<1>4. /\ pc'[s] = Entry(kind, ask) /\ call'[s] = [kind |-> kind, ask |-> ask]
      /\ outcome'[s] = "none" /\ holds' = holds /\ holds[s] = {}
  BY <1>1 DEF Begin, At, TransactionInv, Memory, SessionFits
<1>5. \A t \in Sessions \ {s} : Unmoved(t) /\ outcome'[t] = outcome[t]
  BY <1>1, <1>4 DEF Unmoved, Begin, TransactionInv, Memory
<1>6. UNCHANGED <<ledgerVars, seen, channelExists>> /\ started < MaxCalls /\ started' = started + 1
  BY DEF Begin
<1>7. Memory'
  <2>1. SessionFits(s)'
    BY <1>3, <1>4 DEF SessionFits, Asked
  <2>2. \A t \in Sessions \ {s} : SessionFits(t)'
    BY <1>5 DEF SessionFits, Unmoved, TransactionInv, Memory, Asked
  <2>3. started' \in 0..MaxCalls
    BY <1>6, TransactionAssumption DEF TransactionInv, Memory
  <2>4. pc' \in [Sessions -> Statements] /\ outcome' \in [Sessions -> Outcomes]
    BY <1>1, <1>3 DEF Begin, TransactionInv, Memory, Outcomes
  <2>5. call' = [t \in Sessions |-> call'[t]]
    BY <1>1 DEF TransactionInv, Memory
  <2> QED BY <1>4, <1>6, <2>1, <2>2, <2>3, <2>4, <2>5 DEF TransactionInv, Memory, ledgerVars
<1>8. RecordHolds(s)' /\ SealHolds(s)' /\ TransitionHolds(s)'
  BY <1>3, <1>4 DEF RecordHolds, SealHolds, TransitionHolds, ServedBy, Asked, AfterSource,
                    AfterSealSource, AfterFind
<1>9. Committed(holds[s])
  BY <1>6 DEF Committed
<1> QED
  BY <1>4, <1>5, <1>7, <1>8, <1>9, OthersKept, CommitKeepsTables DEF TransactionInv, Exclusive

-----------------------------------------------------------------------------
(* The rows a statement locks.                                             *)

LEMMA WantedRows ==
  ASSUME NEW s
  PROVE  /\ pc[s] = "lock_actor" => Wanted(s) = {<<"actor", Asked(s).actor>>}
         /\ pc[s] = "find_decision" => Wanted(s) = DecisionLocks(DecisionsNamed(Asked(s).row.id))
         /\ pc[s] \in {"lock_source", "approve_lock_source", "seal_lock_source"} => Wanted(s) = {Source}
         /\ pc[s] \in {"lock_run", "approve_lock_run"} => Wanted(s) = {<<"run", Asked(s).row.gen>>}
         /\ pc[s] = "lock_decisions" => Wanted(s) = DecisionLocks(OfGeneration(Asked(s).row.gen))
         /\ pc[s] = "seal_lock_existing" =>
              Wanted(s) = {<<"revision", r.id>> : r \in ExistingRevisions(Asked(s))}
         /\ pc[s] = "lock_decision" => Wanted(s) = DecisionLocks(DecisionsNamed(Asked(s).decision))
         /\ pc[s] = "seal_lock_run" => Wanted(s) = {<<"run", RevisionWanted(s).gen>>}
         /\ pc[s] = "lock_chain" => Wanted(s) = DecisionLocks(seen[s])
         /\ pc[s] = "bootstrap" => Wanted(s) \subseteq {ChannelLock}
         /\ pc[s] = "lock_channel" => Wanted(s) = {ChannelLock}
         /\ pc[s] = "lock_target" =>
              Wanted(s) = {<<"revision", r.id>> : r \in RevisionsNamed(Asked(s).row.target)}
         /\ pc[s] = "lock_target_decision" => Wanted(s) = TargetDecisionLocks(Asked(s).row.target)
  BY Zenon DEF Wanted, Source, ChannelLock

LEMMA DecisionRows ==
  ASSUME TransactionInv, NEW D, D \subseteq decisions
  PROVE  DecisionLocks(D) \in SUBSET LockRow
  BY DEF DecisionLocks, LockRow, TransactionInv, TablesFit, LedgerTypeOK, DecisionRow

LEMMA RevisionRows ==
  ASSUME TransactionInv, NEW R, R \subseteq revisions
  PROVE  {<<"revision", r.id>> : r \in R} \in SUBSET LockRow
  BY DEF LockRow, TransactionInv, TablesFit, LedgerTypeOK, RevisionRow

LEMMA SingleRows ==
  /\ {Source} \in SUBSET LockRow /\ {ChannelLock} \in SUBSET LockRow
  /\ \A a \in Actors : {<<"actor", a>>} \in SUBSET LockRow
  /\ \A g \in Generations : {<<"run", g>>} \in SUBSET LockRow
  BY DEF LockRow, Source, ChannelLock

(* LockThen, at a session that has a call.                                 *)
LEMMA Locks ==
  ASSUME TransactionInv, NEW s \in Sessions, NEW st, LockThen(s, st)
  PROVE  pc'[s] = st /\ holds'[s] = holds[s] \cup Wanted(s)
  BY DEF LockThen, TransactionInv, Memory

LEMMA Proceeds ==
  ASSUME TransactionInv, NEW s \in Sessions, NEW st, Proceed(s, st)
  PROVE  pc'[s] = st /\ holds'[s] = holds[s]
  BY DEF Proceed, TransactionInv, Memory

(* A call of one kind owes nothing to the invariants of the others.        *)
LEMMA OtherKinds ==
  ASSUME NEW s, Unwritten
  PROVE  /\ call[s].kind # "record" => RecordHolds(s)'
         /\ call[s].kind # "seal" => SealHolds(s)'
         /\ call[s].kind # "transition" => TransitionHolds(s)'
  BY DEF Unwritten, RecordHolds, SealHolds, TransitionHolds, ServedBy

-----------------------------------------------------------------------------
(* The statements keep the invariant.                                      *)

LEMMA ActorStep ==
  ASSUME TransactionInv, NEW s \in Sessions, LockActor(s)
  PROVE  TransactionInv'
<1>1. pc[s] = "lock_actor" /\ seen' = seen /\ Unwritten /\ LockThen(s, AfterActor(call[s].kind))
  BY DEF LockActor, At
<1>2. call[s].kind \in Kinds /\ Asked(s).actor # None /\ Asked(s).actor \in Actors
  BY <1>1, CallTypes DEF TransactionInv, Memory, SessionFits, Kinds, ServedBy
<1>3. /\ AfterActor("record") = "approve_lock_run"
      /\ AfterActor("seal") = "seal_lock_existing"
      /\ AfterActor("transition") = "bootstrap"
  BY DEF AfterActor, FirstStatement
<1>4. AfterActor(call[s].kind) \in StagesOf(call[s].kind)
  BY <1>2, <1>3, Stages DEF Kinds, RecordStages, SealStages, TransitionStages
<1>5. Wanted(s) \in SUBSET LockRow
  BY <1>1, <1>2, WantedRows, SingleRows
<1>6. RecordHolds(s)' /\ SealHolds(s)' /\ TransitionHolds(s)'
  <2>1. pc'[s] \in {"approve_lock_run", "seal_lock_existing", "bootstrap"}
    BY <1>1, <1>2, <1>3, Locks DEF Kinds
  <2> QED
    BY <2>1 DEF RecordHolds, SealHolds, TransitionHolds, AfterSource, AfterSealSource, AfterFind
<1> QED
  BY <1>1, <1>4, <1>5, <1>6, AdvanceLocking

(* A reviewer, up to the commit.                                           *)
LEMMA ReviewerStep ==
  ASSUME TransactionInv, NEW s \in Sessions,
         \/ ApproveLockRun(s) \/ ApproveLockSource(s) \/ FindDecision(s) \/ LockSource(s)
         \/ LockRun(s) \/ LockDecisions(s) \/ InsertDecision(s)
  PROVE  TransactionInv'
<1>1. pc[s] \in RecordStages \ {"commit"} /\ call[s].kind = "record" /\ ServedBy("record", s)
  BY KindAt DEF ApproveLockRun, ApproveLockSource, FindDecision, LockSource, LockRun, LockDecisions,
     InsertDecision, At, RecordStages, AfterSource, ServedBy, TransactionInv
<1>2. /\ Asked(s).row \in DecisionRow /\ Asked(s).row.gen \in Generations
      /\ RecordHolds(s)
  BY <1>1, CallTypes DEF TransactionInv, DecisionRow
<1>3. StagesOf(call[s].kind) = RecordStages /\ pc[s] # "idle"
  BY <1>1, Stages DEF RecordStages, AfterSource
<1>4. Unwritten => SealHolds(s)' /\ TransitionHolds(s)' /\ Asked(s)' = Asked(s)
                     /\ (ServedBy("record", s)' => ServedBy("record", s))
  BY <1>1, OtherKinds DEF Unwritten, Asked
<1>5. CASE Refuse(s)
  BY <1>5, RefuseKeeps
<1>6. CASE ApproveLockRun(s) /\ ~Refuse(s)
  <2>1. pc[s] = "approve_lock_run" /\ LockThen(s, "approve_lock_source") /\ seen' = seen /\ Unwritten
    BY <1>6 DEF ApproveLockRun, At
  <2>2. Wanted(s) \in SUBSET LockRow
    BY <2>1, <1>2, WantedRows, SingleRows
  <2>3. RecordHolds(s)'
    BY <2>1, Locks DEF RecordHolds, AfterSource
  <2> QED BY <1>3, <1>4, <2>1, <2>2, <2>3, AdvanceLocking DEF RecordStages
<1>7. CASE ApproveLockSource(s)
  <2>1. pc[s] = "approve_lock_source" /\ LockThen(s, "find_decision") /\ seen' = seen /\ Unwritten
    BY <1>7 DEF ApproveLockSource, At
  <2>2. Wanted(s) = {Source} /\ Wanted(s) \in SUBSET LockRow
    BY <2>1, WantedRows, SingleRows
  <2>3. RecordHolds(s)'
    BY <2>1, <2>2, Locks DEF RecordHolds, AfterSource
  <2> QED BY <1>3, <1>4, <2>1, <2>2, <2>3, AdvanceLocking DEF RecordStages
<1>8. CASE FindDecision(s) /\ ~Refuse(s)
  <2>1. CASE End(s, "replayed") /\ UNCHANGED <<ledgerVars, channelExists>>
    BY <2>1, ReplayKeeps
  <2>2. CASE /\ pc[s] = "find_decision" /\ Proceed(s, "lock_source") /\ seen' = seen /\ Unwritten
             /\ DecisionsNamed(Asked(s).row.id) = {}
    <3>1. RecordHolds(s)'
      BY <2>2, <1>2, <1>4, Proceeds DEF RecordHolds, AfterSource, DecisionsNamed, Unwritten, ledgerVars
    <3> QED BY <1>3, <1>4, <2>2, <3>1, AdvanceUnlocking DEF RecordStages
  <2> QED BY <1>8, <2>1, <2>2 DEF FindDecision, At
<1>9. CASE LockSource(s)
  <2>1. pc[s] = "lock_source" /\ LockThen(s, "lock_run") /\ seen' = seen /\ Unwritten
    BY <1>9 DEF LockSource, At
  <2>2. Wanted(s) = {Source} /\ Wanted(s) \in SUBSET LockRow
    BY <2>1, WantedRows, SingleRows
  <2>3. RecordHolds(s)'
    BY <2>1, <2>2, <1>2, <1>4, Locks DEF RecordHolds, AfterSource, DecisionsNamed, Unwritten, ledgerVars
  <2> QED BY <1>3, <1>4, <2>1, <2>2, <2>3, AdvanceLocking DEF RecordStages, AfterSource
<1>10. CASE LockRun(s)
  <2>1. pc[s] = "lock_run" /\ LockThen(s, "lock_decisions") /\ seen' = seen /\ Unwritten
    BY <1>10 DEF LockRun, At
  <2>2. Wanted(s) \in SUBSET LockRow
    BY <2>1, <1>2, WantedRows, SingleRows
  <2>3. RecordHolds(s)'
    BY <2>1, <2>2, <1>2, <1>4, Locks DEF RecordHolds, AfterSource, DecisionsNamed, Unwritten, ledgerVars
  <2> QED BY <1>3, <1>4, <2>1, <2>2, <2>3, AdvanceLocking DEF RecordStages, AfterSource
<1>11. CASE LockDecisions(s)
  <2>1. pc[s] = "lock_decisions" /\ LockThen(s, "insert_decision") /\ seen' = seen /\ Unwritten
    BY <1>11 DEF LockDecisions, At
  <2>2. Wanted(s) = DecisionLocks(OfGeneration(Asked(s).row.gen)) /\ Wanted(s) \in SUBSET LockRow
    BY <2>1, WantedRows, DecisionRows DEF OfGeneration
  <2>3. /\ pc'[s] = "insert_decision" /\ holds'[s] = holds[s] \cup Wanted(s)
        /\ Source \in holds[s] /\ decisions' = decisions /\ call' = call
        /\ Asked(s).actor # None => DecisionsNamed(Asked(s).row.id) = {}
    BY <2>1, <1>1, <1>2, Locks DEF RecordHolds, AfterSource, Unwritten, ledgerVars
  <2>4. DecisionLocks(OfGeneration(Asked(s).row.gen))' = DecisionLocks(OfGeneration(Asked(s).row.gen))
    BY <2>3 DEF DecisionLocks, OfGeneration, Asked
  <2>5. DecisionsNamed(Asked(s).row.id)' = DecisionsNamed(Asked(s).row.id)
    BY <2>3 DEF DecisionsNamed, Asked
  <2>6. RecordHolds(s)'
    BY <2>2, <2>3, <2>4, <2>5 DEF RecordHolds, AfterSource, Asked
  <2> QED BY <1>3, <1>4, <2>1, <2>2, <2>6, AdvanceLocking DEF RecordStages, AfterSource
<1>12. CASE InsertDecision(s) /\ ~Refuse(s)
  <2>1. /\ pc[s] = "insert_decision" /\ Proceed(s, "commit") /\ seen' = seen /\ Unwritten
        /\ DecisionAdmissible(Asked(s).row)
    BY <1>12 DEF InsertDecision, At
  <2>2. DecisionAdmissible(Asked(s).row)' <=> DecisionAdmissible(Asked(s).row)
    BY <2>1, <1>4 DEF DecisionAdmissible, ExtendsChain, OfGeneration, IsSuperseded, VerdictFitsParse,
       Unwritten, ledgerVars
  <2>3. RecordHolds(s)'
    BY <2>1, <2>2, <1>2, <1>4, Proceeds DEF RecordHolds, AfterSource, DecisionsNamed, OfGeneration,
       Unwritten, ledgerVars
  <2> QED BY <1>3, <1>4, <2>1, <2>3, AdvanceUnlocking DEF RecordStages, AfterSource
<1> QED
  BY <1>5, <1>6, <1>7, <1>8, <1>9, <1>10, <1>11, <1>12

(* A sealing publisher, up to the commit.                                  *)
LEMMA SealerStep ==
  ASSUME TransactionInv, NEW s \in Sessions,
         \/ SealLockExisting(s) \/ LockDecision(s) \/ SealLockSource(s) \/ SealLockRun(s)
         \/ ReadChain(s) \/ LockChain(s) \/ FindRevision(s) \/ InsertRevision(s)
  PROVE  TransactionInv'
<1>1. pc[s] \in SealStages \ {"commit"} /\ call[s].kind = "seal" /\ ServedBy("seal", s)
  BY KindAt DEF SealLockExisting, LockDecision, SealLockSource, SealLockRun, ReadChain, LockChain,
     FindRevision, InsertRevision, At, SealStages, AfterSealSource, ServedBy, TransactionInv
<1>2. SealHolds(s)
  BY DEF TransactionInv
<1>3. StagesOf(call[s].kind) = SealStages /\ pc[s] # "idle"
  BY <1>1, Stages DEF SealStages, AfterSealSource
<1>4. Unwritten => /\ RecordHolds(s)' /\ TransitionHolds(s)'
                   /\ (ServedBy("seal", s)' => ServedBy("seal", s))
                   /\ DecisionsNamed(Asked(s).decision)' = DecisionsNamed(Asked(s).decision)
                   /\ RevisionAdmissible(RevisionWanted(s))' = RevisionAdmissible(RevisionWanted(s))
  BY <1>1, OtherKinds DEF Unwritten, Asked, ledgerVars, DecisionsNamed, RevisionWanted, SealedRow,
     RevisionAdmissible, RestsOnCurrentApproval, IsSuperseded
<1>5. CASE Refuse(s)
  BY <1>5, RefuseKeeps
<1>6. CASE SealLockExisting(s)
  <2>1. pc[s] = "seal_lock_existing" /\ LockThen(s, "lock_decision") /\ seen' = seen /\ Unwritten
    BY <1>6 DEF SealLockExisting, At
  <2>2. Wanted(s) \in SUBSET LockRow
    <3>1. ExistingRevisions(Asked(s)) \subseteq revisions
      BY DEF ExistingRevisions
    <3> QED BY <2>1, <3>1, WantedRows, RevisionRows
  <2>3. SealHolds(s)'
    BY <2>1, Locks DEF SealHolds, AfterSealSource
  <2> QED BY <1>3, <1>4, <2>1, <2>2, <2>3, AdvanceLocking DEF SealStages
<1>7. CASE LockDecision(s) /\ ~Refuse(s)
  <2>1. /\ pc[s] = "lock_decision" /\ LockThen(s, "seal_lock_source") /\ seen' = seen /\ Unwritten
        /\ DecisionsNamed(Asked(s).decision) # {}
    BY <1>7 DEF LockDecision, At
  <2>2. Wanted(s) \in SUBSET LockRow
    <3>1. DecisionsNamed(Asked(s).decision) \subseteq decisions
      BY DEF DecisionsNamed
    <3> QED BY <2>1, <3>1, WantedRows, DecisionRows
  <2>3. SealHolds(s)'
    BY <2>1, <1>4, Locks DEF SealHolds, AfterSealSource
  <2> QED BY <1>3, <1>4, <2>1, <2>2, <2>3, AdvanceLocking DEF SealStages
<1>8. CASE SealLockSource(s)
  <2>1. pc[s] = "seal_lock_source" /\ LockThen(s, "seal_lock_run") /\ seen' = seen /\ Unwritten
    BY <1>8 DEF SealLockSource, At
  <2>2. Wanted(s) = {Source} /\ Wanted(s) \in SUBSET LockRow
    BY <2>1, WantedRows, SingleRows
  <2>3. SealHolds(s)'
    BY <2>1, <2>2, <1>1, <1>2, <1>4, Locks DEF SealHolds, AfterSealSource
  <2> QED BY <1>3, <1>4, <2>1, <2>2, <2>3, AdvanceLocking DEF SealStages, AfterSealSource
<1>9. CASE SealLockRun(s)
  <2>1. pc[s] = "seal_lock_run" /\ LockThen(s, "read_chain") /\ seen' = seen /\ Unwritten
    BY <1>9 DEF SealLockRun, At
  <2>2. RevisionWanted(s).gen \in Generations
    <3>1. PICK d \in decisions : RevisionWanted(s) = SealedRow(Asked(s).id, d, Asked(s).copy)
      BY <2>1, <1>1, <1>2, WantedRevision DEF SealHolds, AfterSealSource
    <3> QED BY <3>1 DEF SealedRow, TransactionInv, TablesFit, LedgerTypeOK, DecisionRow
  <2>3. Wanted(s) \in SUBSET LockRow
    BY <2>1, <2>2, WantedRows, SingleRows
  <2>4. SealHolds(s)'
    BY <2>1, <1>1, <1>2, <1>4, Locks DEF SealHolds, AfterSealSource
  <2> QED BY <1>3, <1>4, <2>1, <2>3, <2>4, AdvanceLocking DEF SealStages, AfterSealSource
<1>10. CASE ReadChain(s)
  <2>1. /\ pc[s] = "read_chain" /\ Proceed(s, "lock_chain") /\ Unwritten
        /\ seen' = [seen EXCEPT ![s] = OfGeneration(RevisionWanted(s).gen)]
    BY <1>10 DEF ReadChain, At
  <2>2. SealHolds(s)'
    BY <2>1, <1>1, <1>2, <1>4, Proceeds DEF SealHolds, AfterSealSource
  <2>3. seen' \in [Sessions -> SUBSET decisions]
    BY <2>1 DEF OfGeneration, TransactionInv, Memory
  <2>4. holds' = [holds EXCEPT ![s] = @ \cup {}]
    <3>1. holds \in [Sessions -> SUBSET LockRow] /\ holds[s] \cup {} = holds[s]
      BY DEF TransactionInv, Memory
    <3> QED BY <3>1, <2>1 DEF Proceed
  <2>5. {} \in SUBSET LockRow /\ \A t \in Sessions \ {s} : holds[t] \cap {} = {}
    OBVIOUS
  <2>6. pc' = [pc EXCEPT ![s] = "lock_chain"] /\ "lock_chain" \in StagesOf(call[s].kind)
    BY <2>1, <1>3 DEF Proceed, SealStages, AfterSealSource
  <2> QED BY <1>3, <1>4, <2>1, <2>2, <2>3, <2>4, <2>5, <2>6, Advance
<1>11. CASE LockChain(s) /\ ~Refuse(s)
  <2>1. pc[s] = "lock_chain" /\ LockThen(s, "find_revision") /\ seen' = seen /\ Unwritten
    BY <1>11 DEF LockChain, At
  <2>2. Wanted(s) \in SUBSET LockRow
    BY <2>1, WantedRows, DecisionRows DEF TransactionInv, Memory
  <2>3. SealHolds(s)'
    BY <2>1, <1>1, <1>2, <1>4, Locks DEF SealHolds, AfterSealSource
  <2> QED BY <1>3, <1>4, <2>1, <2>2, <2>3, AdvanceLocking DEF SealStages, AfterSealSource
<1>12. CASE FindRevision(s) /\ ~Refuse(s)
  <2>1. CASE End(s, "replayed") /\ UNCHANGED <<ledgerVars, channelExists>>
    BY <2>1, ReplayKeeps
  <2>2. CASE pc[s] = "find_revision" /\ Proceed(s, "insert_revision") /\ seen' = seen /\ Unwritten
    <3>1. SealHolds(s)'
      BY <2>2, <1>1, <1>2, <1>4, Proceeds DEF SealHolds, AfterSealSource
    <3> QED BY <1>3, <1>4, <2>2, <3>1, AdvanceUnlocking DEF SealStages, AfterSealSource
  <2> QED BY <1>12, <2>1, <2>2 DEF FindRevision, At
<1>13. CASE InsertRevision(s) /\ ~Refuse(s)
  <2>1. /\ pc[s] = "insert_revision" /\ Proceed(s, "commit") /\ seen' = seen /\ Unwritten
        /\ RevisionAdmissible(RevisionWanted(s))
    BY <1>13 DEF InsertRevision, At
  <2>2. SealHolds(s)'
    BY <2>1, <1>1, <1>2, <1>4, Proceeds DEF SealHolds, AfterSealSource
  <2> QED BY <1>3, <1>4, <2>1, <2>2, AdvanceUnlocking DEF SealStages, AfterSealSource
<1> QED
  BY <1>5, <1>6, <1>7, <1>8, <1>9, <1>10, <1>11, <1>12, <1>13

(* A publisher who moves the pointer, up to the commit.                    *)
LEMMA PublisherStep ==
  ASSUME TransactionInv, NEW s \in Sessions,
         \/ Bootstrap(s) \/ LockChannel(s) \/ FindActivation(s) \/ LockTarget(s)
         \/ LockTargetDecision(s) \/ InsertActivation(s)
  PROVE  TransactionInv'
<1>1. pc[s] \in TransitionStages \ {"commit"} /\ call[s].kind = "transition" /\ ServedBy("transition", s)
  BY KindAt DEF Bootstrap, LockChannel, FindActivation, LockTarget, LockTargetDecision,
     InsertActivation, At, TransitionStages, AfterFind, ServedBy, TransactionInv
<1>2. TransitionHolds(s)
  BY DEF TransactionInv
<1>3. StagesOf(call[s].kind) = TransitionStages /\ pc[s] # "idle"
  BY <1>1, Stages DEF TransitionStages, AfterFind
<1> DEFINE a == Asked(s).row
<1>4. Unwritten => /\ RecordHolds(s)' /\ SealHolds(s)' /\ a' = a
                   /\ (ServedBy("transition", s)' => ServedBy("transition", s))
                   /\ ActivationsNamed(a.id)' = ActivationsNamed(a.id)
                   /\ RevisionsNamed(a.target)' = RevisionsNamed(a.target)
                   /\ TargetDecisionLocks(a.target)' = TargetDecisionLocks(a.target)
                   /\ ActivationAdmissible(a)' = ActivationAdmissible(a)
  BY <1>1, OtherKinds DEF Unwritten, Asked, ledgerVars, ActivationsNamed, RevisionsNamed,
     TargetDecisionLocks, ActivationAdmissible, ExpectationHolds, TargetAdmissible, WasMadeCurrent,
     RestsOnCurrentApproval, IsSuperseded
<1>5. CASE Refuse(s)
  BY <1>5, RefuseKeeps
<1>6. CASE Bootstrap(s)
  <2>1. pc[s] = "bootstrap" /\ LockThen(s, "lock_channel") /\ seen' = seen /\ Unwritten
    BY <1>6 DEF Bootstrap, At
  <2>2. Wanted(s) \in SUBSET LockRow
    BY <2>1, WantedRows, SingleRows
  <2>3. TransitionHolds(s)'
    BY <2>1, Locks DEF TransitionHolds, AfterFind
  <2> QED BY <1>3, <1>4, <2>1, <2>2, <2>3, AdvanceLocking DEF TransitionStages
<1>7. CASE LockChannel(s)
  <2>1. pc[s] = "lock_channel" /\ LockThen(s, "find_activation") /\ seen' = seen /\ Unwritten
    BY <1>7 DEF LockChannel, At
  <2>2. Wanted(s) = {ChannelLock} /\ Wanted(s) \in SUBSET LockRow
    BY <2>1, WantedRows, SingleRows
  <2>3. TransitionHolds(s)'
    BY <2>1, <2>2, Locks DEF TransitionHolds, AfterFind
  <2> QED BY <1>3, <1>4, <2>1, <2>2, <2>3, AdvanceLocking DEF TransitionStages
<1>8. CASE FindActivation(s) /\ ~Refuse(s)
  <2>1. CASE End(s, "replayed") /\ UNCHANGED <<ledgerVars, channelExists>>
    BY <2>1, ReplayKeeps
  <2>2. CASE /\ pc[s] = "find_activation" /\ seen' = seen /\ Unwritten /\ Movable(a)
             /\ Proceed(s, IF a.operation = "WITHDRAW" THEN "insert_activation" ELSE "lock_target")
    <3>1. TransitionHolds(s)'
      BY <2>2, <1>1, <1>2, <1>4, Proceeds DEF TransitionHolds, AfterFind, Movable
    <3> QED BY <1>3, <1>4, <2>2, <3>1, AdvanceUnlocking DEF TransitionStages, AfterFind
  <2> QED BY <1>8, <2>1, <2>2 DEF FindActivation, At
<1>9. CASE LockTarget(s) /\ ~Refuse(s)
  <2>1. /\ pc[s] = "lock_target" /\ LockThen(s, "lock_target_decision") /\ seen' = seen /\ Unwritten
        /\ RevisionsNamed(a.target) # {}
    BY <1>9 DEF LockTarget, At
  <2>2. Wanted(s) \in SUBSET LockRow
    BY <2>1, WantedRows, RevisionRows DEF RevisionsNamed
  <2>3. TransitionHolds(s)'
    BY <2>1, <1>1, <1>2, <1>4, Locks DEF TransitionHolds, AfterFind
  <2> QED BY <1>3, <1>4, <2>1, <2>2, <2>3, AdvanceLocking DEF TransitionStages, AfterFind
<1>10. CASE LockTargetDecision(s)
  <2>1. pc[s] = "lock_target_decision" /\ LockThen(s, "insert_activation") /\ seen' = seen /\ Unwritten
    BY <1>10 DEF LockTargetDecision, At
  <2>2. Wanted(s) = TargetDecisionLocks(a.target) /\ Wanted(s) \in SUBSET LockRow
    BY <2>1, WantedRows DEF TargetDecisionLocks, RevisionsNamed, LockRow, TransactionInv, TablesFit,
       LedgerTypeOK, RevisionRow
  <2>3. TransitionHolds(s)'
    BY <2>1, <2>2, <1>1, <1>2, <1>4, Locks DEF TransitionHolds, AfterFind
  <2> QED BY <1>3, <1>4, <2>1, <2>2, <2>3, AdvanceLocking DEF TransitionStages, AfterFind
<1>11. CASE InsertActivation(s) /\ ~Refuse(s)
  <2>1. /\ pc[s] = "insert_activation" /\ Proceed(s, "commit") /\ seen' = seen /\ Unwritten
        /\ ActivationAdmissible(a)
    BY <1>11 DEF InsertActivation, At
  <2>2. TransitionHolds(s)'
    BY <2>1, <1>1, <1>2, <1>4, Proceeds DEF TransitionHolds, AfterFind
  <2> QED BY <1>3, <1>4, <2>1, <2>2, AdvanceUnlocking DEF TransitionStages, AfterFind
<1> QED
  BY <1>5, <1>6, <1>7, <1>8, <1>9, <1>10, <1>11

-----------------------------------------------------------------------------
(* The commits are steps of the ledger.                                    *)

LEMMA CommitOfDecision ==
  ASSUME TransactionInv, NEW s \in Sessions, CommitDecision(s)
  PROVE  /\ DecisionCommitted(holds[s])
         /\ \E d \in DecisionRow : RecordDecision(d)
<1>1. ServedBy("record", s) /\ RecordHolds(s) /\ pc[s] = "commit"
  BY DEF CommitDecision, At, ServedBy, TransactionInv
<1>2. Asked(s).row \in DecisionRow
  BY <1>1, CallTypes DEF TransactionInv
<1>3. RecordDecision(Asked(s).row)
  BY <1>1 DEF CommitDecision, RecordHolds, RecordDecision
<1>4. Source \in holds[s] /\ DecisionLocks(OfGeneration(Asked(s).row.gen)) \subseteq holds[s]
  BY <1>1 DEF RecordHolds, AfterSource
<1> QED BY <1>2, <1>3, <1>4 DEF DecisionCommitted

LEMMA CommitOfRevision ==
  ASSUME TransactionInv, NEW s \in Sessions, CommitRevision(s)
  PROVE  /\ RevisionCommitted(holds[s])
         /\ \E d \in decisions, r \in RevisionIds, c \in CopyRevisions :
              SealRevision(SealedRow(r, d, c))
<1>1. ServedBy("seal", s) /\ SealHolds(s) /\ pc[s] = "commit"
  BY DEF CommitRevision, At, ServedBy, TransactionInv
<1>2. /\ Asked(s).decision \in DecisionIds /\ Asked(s).copy \in CopyRevisions
      /\ Asked(s).id \in RevisionIds
  BY <1>1, CallTypes DEF TransactionInv
<1>3. /\ Source \in holds[s] /\ RevisionAdmissible(RevisionWanted(s))
      /\ DecisionsNamed(Asked(s).decision) # {}
  BY <1>1 DEF SealHolds, AfterSealSource
<1>4. PICK d \in decisions : RevisionWanted(s) = SealedRow(Asked(s).id, d, Asked(s).copy)
  BY <1>3, WantedRevision
<1>5. SealRevision(RevisionWanted(s))
  BY <1>3 DEF CommitRevision, SealRevision
<1>6. RevisionWanted(s) \in RevisionRow
  BY <1>2, <1>4, LedgerAssumption DEF SealedRow, RevisionRow, TransactionInv, TablesFit, LedgerTypeOK,
     DecisionRow
<1> QED BY <1>2, <1>3, <1>4, <1>5, <1>6 DEF RevisionCommitted

(* The last comparison with the pointer never fails: the channel row has   *)
(* been locked since the first.                                            *)
LEMMA CommitOfActivation ==
  ASSUME TransactionInv, NEW s \in Sessions, CommitActivation(s)
  PROVE  /\ ActivationCommitted(holds[s])
         /\ \E o \in OperationIds, op \in Operations, t \in RevisionIds \cup {None} :
              Transition(NextActivation(o, op, t))
         /\ End(s, "created") /\ channelExists' = TRUE
<1> DEFINE a == Asked(s).row
<1>1. ServedBy("transition", s) /\ TransitionHolds(s) /\ pc[s] = "commit"
  BY DEF CommitActivation, At, ServedBy, TransactionInv
<1>2. a \in ActivationRow
  BY <1>1, CallTypes DEF TransactionInv
<1>3. ChannelLock \in holds[s] /\ ActivationAdmissible(a)
  BY <1>1 DEF TransitionHolds, AfterFind
<1>4. ExpectationHolds(a)
  BY <1>3 DEF ActivationAdmissible
<1>5. Transition(a) /\ End(s, "created") /\ channelExists' = TRUE
  BY <1>3, <1>4 DEF CommitActivation, Transition
<1>6. a = NextActivation(a.id, a.operation, a.target)
  BY <1>2, <1>4 DEF ActivationRow, ExpectationHolds, NextActivation
<1>7. a.id \in OperationIds /\ a.operation \in Operations /\ a.target \in RevisionIds \cup {None}
  BY <1>2 DEF ActivationRow
<1> QED BY <1>2, <1>3, <1>5, <1>6, <1>7 DEF ActivationCommitted

(* The statements that end in no commit leave the tables alone.            *)
LEMMA Uncommitted ==
  ASSUME NEW s \in Sessions,
         \/ Begin(s) \/ LockActor(s) \/ ApproveLockRun(s) \/ ApproveLockSource(s) \/ FindDecision(s)
         \/ LockSource(s) \/ LockRun(s) \/ LockDecisions(s) \/ InsertDecision(s)
         \/ SealLockExisting(s) \/ LockDecision(s) \/ SealLockSource(s) \/ SealLockRun(s)
         \/ ReadChain(s) \/ LockChain(s) \/ FindRevision(s) \/ InsertRevision(s)
         \/ Bootstrap(s) \/ LockChannel(s) \/ FindActivation(s) \/ LockTarget(s)
         \/ LockTargetDecision(s) \/ InsertActivation(s) \/ Abort(s)
  PROVE  UNCHANGED ledgerVars
  BY DEF Begin, LockActor, ApproveLockRun, ApproveLockSource, FindDecision, LockSource, LockRun,
     LockDecisions, InsertDecision, SealLockExisting, LockDecision, SealLockSource, SealLockRun,
     ReadChain, LockChain, FindRevision, InsertRevision, Bootstrap, LockChannel, FindActivation,
     LockTarget, LockTargetDecision, InsertActivation, Abort, Unwritten, Refuse

-----------------------------------------------------------------------------
(* The invariant is one.                                                   *)

LEMMA AbortKeeps ==
  ASSUME TransactionInv, NEW s \in Sessions, Abort(s)
  PROVE  TransactionInv'
  BY EndKeeps DEF Abort, Outcomes, Committed, TransactionInv, Memory

LEMMA InitEstablishes == Init => TransactionInv
<1> SUFFICES ASSUME Init PROVE TransactionInv
  OBVIOUS
<1>1. TablesFit
  BY LedgerAssumption DEF Init, LedgerInit, TablesFit, LedgerTypeOK, DecisionIdsUnique, ParseStatus,
     ChannelRow
<1>2. \A s \in Sessions : pc[s] = "idle" /\ holds[s] = {}
  BY DEF Init
<1>3. Memory
  <2>1. \A s \in Sessions : SessionFits(s)
    BY <1>2 DEF SessionFits
  <2>2. call = [s \in Sessions |-> call[s]]
    BY DEF Init
  <2>3. started \in 0..MaxCalls
    BY TransactionAssumption DEF Init
  <2> QED BY <2>1, <2>2, <2>3 DEF Init, Memory, Statements, Outcomes
<1> QED
  BY <1>1, <1>2, <1>3 DEF TransactionInv, Exclusive, RecordHolds, SealHolds, TransitionHolds, ServedBy

(* The tables move while every session stands still.                       *)
LEMMA TablesOnlyMove ==
  ASSUME TransactionInv, Committed({}), UNCHANGED <<decisions, sessionVars>>
  PROVE  TransactionInv'
<1>1. \A t \in Sessions : Unmoved(t) /\ holds[t] \cap {} = {}
  BY DEF Unmoved, sessionVars
<1>2. TablesFit'
  BY CommitKeepsTables DEF TransactionInv
<1>3. \A t \in Sessions : RecordHolds(t)' /\ SealHolds(t)' /\ TransitionHolds(t)'
  BY <1>1, CommitKeepsReviewer, CommitKeepsSealer, CommitKeepsPublisher
<1>4. Memory' /\ Exclusive'
  BY DEF sessionVars, TransactionInv, Memory, Exclusive, SessionFits, Asked
<1> QED BY <1>2, <1>3, <1>4 DEF TransactionInv

LEMMA NextPreserves ==
  ASSUME TransactionInv, [Next]_vars
  PROVE  TransactionInv'
<1>1. CASE UNCHANGED vars
  BY <1>1, TablesOnlyMove DEF vars, Committed, ledgerVars
<1>2. ASSUME NEW s \in Sessions, Begin(s) PROVE TransactionInv'
  BY <1>2, BeginKeeps
<1>3. ASSUME NEW s \in Sessions, Abort(s) PROVE TransactionInv'
  BY <1>3, AbortKeeps
<1>4. ASSUME NEW s \in Sessions, CommitDecision(s) PROVE TransactionInv'
  <2>1. End(s, "created") /\ channelExists' = channelExists
    BY <1>4 DEF CommitDecision
  <2> QED BY <1>4, <2>1, CommitOfDecision, EndKeeps DEF Committed, Outcomes, TransactionInv, Memory
<1>5. ASSUME NEW s \in Sessions, CommitRevision(s) PROVE TransactionInv'
  <2>1. End(s, "created") /\ channelExists' = channelExists
    BY <1>5 DEF CommitRevision
  <2> QED BY <1>5, <2>1, CommitOfRevision, EndKeeps DEF Committed, Outcomes, TransactionInv, Memory
<1>6. ASSUME NEW s \in Sessions, CommitActivation(s) PROVE TransactionInv'
  BY <1>6, CommitOfActivation, EndKeeps DEF Committed, Outcomes
<1>7. ASSUME NEW g \in Generations, ParserCompletes(g) PROVE TransactionInv'
  BY <1>7, TablesOnlyMove DEF ParserCompletes, Committed, ParseMoves, CompleteParse
<1>8. ASSUME NEW s \in Sessions, Statement(s) PROVE TransactionInv'
  BY <1>4, <1>5, <1>6, <1>8, ActorStep, ReviewerStep, SealerStep, PublisherStep DEF Statement
<1> QED
  BY <1>1, <1>2, <1>3, <1>7, <1>8 DEF Next, BreakDeadlock

LEMMA TransactionsFit == Spec => []TransactionInv
  BY InitEstablishes, NextPreserves, PTL DEF Spec

(* What every session remembers and holds stays of its type.               *)
THEOREM TransactionTypes == Spec => []TypeOK
<1>1. TransactionInv => TypeOK
  <2> SUFFICES ASSUME TransactionInv PROVE TypeOK
    OBVIOUS
  <2>1. \A s \in Sessions : pc[s] # "idle" => call[s].kind \in Kinds /\ Asked(s) \in CallsOf(call[s].kind)
    BY DEF TransactionInv, Memory, SessionFits
  <2> QED BY <2>1 DEF TransactionInv, TablesFit, Memory, TypeOK
<1> QED BY <1>1, TransactionsFit, PTL

(* Every commit is an atomic step of the ledger, and nothing else changes  *)
(* its tables: the checks of the three services still hold when they       *)
(* commit, in every interleaving of their statements.                      *)
THEOREM CommitsImplementLedger == Spec => CommitsAreLedgerSteps
<1>1. Init => LedgerInit
  BY DEF Init
<1>2. ASSUME TransactionInv, [Next]_vars PROVE [LedgerNext]_ledgerVars
  <2>1. ASSUME NEW s \in Sessions, Statement(s) PROVE [LedgerNext]_ledgerVars
    <3>1. CASE CommitDecision(s)
      BY <1>2, <3>1, CommitOfDecision DEF LedgerNext
    <3>2. CASE CommitRevision(s)
      BY <1>2, <3>2, CommitOfRevision DEF LedgerNext
    <3>3. CASE CommitActivation(s)
      BY <1>2, <3>3, CommitOfActivation DEF LedgerNext
    <3> QED BY <2>1, <3>1, <3>2, <3>3, Uncommitted DEF Statement
  <2>2. ASSUME NEW g \in Generations, ParserCompletes(g) PROVE [LedgerNext]_ledgerVars
    BY <2>2 DEF ParserCompletes, LedgerNext
  <2>3. CASE UNCHANGED vars
    BY <2>3 DEF vars
  <2> QED BY <1>2, <2>1, <2>2, <2>3, Uncommitted DEF Next, BreakDeadlock
<1> QED
  BY <1>1, <1>2, TransactionsFit, PTL DEF Spec, CommitsAreLedgerSteps, LedgerSpec

(* So every promise of the ledger holds while sessions interleave.         *)
THEOREM TransactionsKeepPromises ==
  Spec => [](ReviewChains /\ PublishedFromApproval /\ ActivationHistory /\ RollbacksReturn)
  BY CommitsImplementLedger, ReviewsFormChains, OnlyApprovedIsPublished, ActivationsAreHistory,
     RollbacksAlwaysReturn, PTL DEF CommitsAreLedgerSteps

-----------------------------------------------------------------------------
(* Retries.                                                                *)

(* A call is refused by one of its own statements.                         *)
LEMMA RefusedBy ==
  ASSUME TransactionInv, [Next]_vars, NEW s \in Sessions, pc[s] # "idle", outcome'[s] = "refused"
  PROVE  \/ ApproveLockRun(s) /\ parse[Asked(s).row.gen] # "VALIDATED"
         \/ FindDecision(s) /\ Refuse(s)
         \/ InsertDecision(s)
         \/ LockDecision(s) \/ LockChain(s) \/ FindRevision(s) \/ InsertRevision(s)
         \/ FindActivation(s) /\ ~IsReplay(Asked(s).row)
         \/ LockTarget(s) \/ InsertActivation(s) \/ CommitActivation(s)
<1>1. outcome[s] = "none" /\ outcome \in [Sessions -> Outcomes]
  BY DEF TransactionInv, Memory, SessionFits
<1>2. outcome' # outcome
  BY <1>1
<1>3. ASSUME NEW t \in Sessions, Begin(t) PROVE FALSE
  BY <1>1, <1>3 DEF Begin, At
<1>4. ASSUME NEW t \in Sessions, Abort(t) PROVE FALSE
  BY <1>1, <1>4 DEF Abort, End
<1>5. ~(UNCHANGED vars) /\ \A g \in Generations : ~ParserCompletes(g)
  BY <1>2 DEF vars, sessionVars, ParserCompletes
<1>6. PICK t \in Sessions : Statement(t)
  BY <1>3, <1>4, <1>5 DEF Next, BreakDeadlock
<1>7. ~Unwritten
  BY <1>2 DEF Unwritten
<1>8. ASSUME NEW result, End(t, result) PROVE t = s /\ result = "refused"
  BY <1>1, <1>8 DEF End
<1>9. ~(LockActor(t) \/ ApproveLockSource(t) \/ LockSource(t) \/ LockRun(t) \/ LockDecisions(t)
          \/ SealLockExisting(t) \/ SealLockSource(t) \/ SealLockRun(t) \/ ReadChain(t)
          \/ Bootstrap(t) \/ LockChannel(t) \/ LockTargetDecision(t))
  BY <1>7 DEF LockActor, ApproveLockSource, LockSource, LockRun, LockDecisions, SealLockExisting,
     SealLockSource, SealLockRun, ReadChain, Bootstrap, LockChannel, LockTargetDecision
<1>10. ~CommitDecision(t) /\ ~CommitRevision(t)
  BY <1>8 DEF CommitDecision, CommitRevision
<1>11. t = s
  BY <1>6, <1>7, <1>8, <1>9, <1>10 DEF Statement, ApproveLockRun, FindDecision, InsertDecision,
     LockDecision, LockChain, FindRevision, InsertRevision, FindActivation, LockTarget,
     InsertActivation, CommitActivation, Refuse
<1>12. ApproveLockRun(t) => parse[Asked(t).row.gen] # "VALIDATED"
  BY <1>7 DEF ApproveLockRun
<1>13. FindDecision(t) => Refuse(t)
  BY <1>7, <1>8 DEF FindDecision
<1>14. FindActivation(t) => ~IsReplay(Asked(t).row)
  BY <1>7, <1>8 DEF FindActivation
<1> QED
  BY <1>6, <1>9, <1>10, <1>11, <1>12, <1>13, <1>14 DEF Statement

(* A publisher whose answer was lost repeats the transition and is told of *)
(* the first, however far the pointer has moved since.                     *)
THEOREM TransitionRetriesAnswered == Spec => TransitionReplayAnswered
<1>1. ASSUME TransactionInv, [Next]_vars, NEW s \in Sessions,
             ServedBy("transition", s), outcome'[s] = "refused"
      PROVE  Asked(s).row \notin activations
  <2>1. pc[s] \in AfterFind => Asked(s).row \notin activations
    BY <1>1 DEF TransactionInv, TransitionHolds, ActivationsNamed
  <2>2. \/ FindActivation(s) /\ ~IsReplay(Asked(s).row)
        \/ pc[s] \in AfterFind
        \/ pc[s] \in (RecordStages \cup SealStages) \ {"commit"}
    BY <1>1, RefusedBy DEF ServedBy, ApproveLockRun, FindDecision, InsertDecision, LockDecision,
       LockChain, FindRevision, InsertRevision, LockTarget, InsertActivation, CommitActivation, At,
       AfterFind, RecordStages, AfterSource, SealStages, AfterSealSource
  <2>3. pc[s] \notin (RecordStages \cup SealStages) \ {"commit"}
    BY <1>1, KindAt DEF TransactionInv, ServedBy, RecordStages, AfterSource, SealStages, AfterSealSource
  <2> QED BY <2>1, <2>2, <2>3 DEF IsReplay
<1>2. TransactionInv /\ [Next]_vars =>
        [\A s \in Sessions : ServedBy("transition", s) /\ outcome'[s] = "refused" =>
                               Asked(s).row \notin activations]_vars
  BY <1>1
<1> QED BY <1>2, TransactionsFit, PTL DEF Spec, TransitionReplayAnswered

(* A reviewer who repeats a decision through the approve command is told   *)
(* of the first: the command holds the source row before it looks.         *)
THEOREM CommandRetriesAnswered == Spec => CommandReplayAnswered
<1>1. ASSUME TransactionInv, [Next]_vars, NEW s \in Sessions,
             ServedBy("record", s), Asked(s).actor # None, outcome'[s] = "refused"
      PROVE  Asked(s).row \notin decisions
  <2> DEFINE d == Asked(s).row
  <2>1. d \in DecisionRow /\ d.verdict = "APPROVE"
    BY <1>1, CallTypes DEF TransactionInv
  <2>2. CASE parse[d.gen] # "VALIDATED"
    BY <1>1, <2>1, <2>2 DEF TransactionInv, TablesFit
  <2>3. CASE FindDecision(s) /\ Refuse(s)
    <3>1. DecisionsNamed(d.id) # {d}
      <4>1. ASSUME DecisionsNamed(d.id) = {d} PROVE FALSE
        <5>1. d \in decisions
          BY <4>1 DEF DecisionsNamed
        <5>2. outcome'[s] = "refused" /\ outcome \in [Sessions -> Outcomes]
          BY <1>1 DEF TransactionInv, Memory
        <5>3. End(s, "replayed") \/ outcome' = outcome
          BY <2>3, <4>1, <5>1 DEF FindDecision, Unwritten
        <5> QED BY <5>2, <5>3, <1>1 DEF End, TransactionInv, Memory, SessionFits, ServedBy
      <4> QED BY <4>1
    <3>2. ASSUME d \in decisions PROVE DecisionsNamed(d.id) = {d}
      BY <1>1, <3>2 DEF DecisionsNamed, TransactionInv, TablesFit, DecisionIdsUnique
    <3> QED BY <3>1, <3>2
  <2>4. CASE pc[s] \in {"lock_source"} \cup AfterSource
    BY <1>1, <2>4 DEF TransactionInv, RecordHolds, DecisionsNamed
  <2>5. \/ parse[d.gen] # "VALIDATED"
        \/ FindDecision(s) /\ Refuse(s)
        \/ pc[s] \in AfterSource
        \/ pc[s] \in (SealStages \cup TransitionStages) \ {"commit"}
    BY <1>1, RefusedBy DEF ServedBy, InsertDecision, LockDecision, LockChain, FindRevision, InsertRevision,
       FindActivation, LockTarget, InsertActivation, CommitActivation, At, AfterSource, SealStages,
       AfterSealSource, TransitionStages, AfterFind
  <2>6. pc[s] \notin (SealStages \cup TransitionStages) \ {"commit"}
    BY <1>1, KindAt DEF TransactionInv, ServedBy, SealStages, AfterSealSource, TransitionStages, AfterFind
  <2> QED BY <2>2, <2>3, <2>4, <2>5, <2>6
<1>2. TransactionInv /\ [Next]_vars =>
        [\A s \in Sessions : ServedBy("record", s) /\ Asked(s).actor # None /\ outcome'[s] = "refused" =>
                               Asked(s).row \notin decisions]_vars
  BY <1>1
<1> QED BY <1>2, TransactionsFit, PTL DEF Spec, CommandReplayAnswered

-----------------------------------------------------------------------------
(* The ledger implements the channel.                                      *)

Sealed == {r.id : r \in revisions}
Approved == {r.id : r \in {q \in revisions : RestsOnCurrentApproval(q)}}
Events == [n \in 1 .. channel.version |-> EventAt(n)]
Event(a) == [operation |-> a.operation, target |-> a.target]

LEMMA EventOf ==
  ASSUME LedgerTypeOK, ActivationHistory, NEW a \in activations
  PROVE  a.sequence \in 1 .. channel.version /\ EventAt(a.sequence) = Event(a)
<1>1. a.sequence \in 1 .. channel.version
  BY DEF LedgerTypeOK, ActivationHistory, ActivationRow, ChannelRow
<1>2. \A b \in activations : b.sequence = a.sequence => b = a
  BY DEF ActivationHistory
<1>3. (CHOOSE x \in activations : x.sequence = a.sequence) = a
  BY <1>2
<1> QED BY <1>1, <1>3 DEF EventAt, Event

(* The last event names the revision the pointer names.                    *)
LEMMA CurrentIsLast ==
  ASSUME LedgerTypeOK, ActivationHistory
  PROVE  Channel!Current = channel.current
<1>1. channel.version \in Nat
  BY DEF LedgerTypeOK, ChannelRow
<1>2. Len(Events) = channel.version
  BY <1>1 DEF Events
<1>3. Channel!Current = IF Events = <<>> THEN None ELSE Events[Len(Events)].target
  BY Zenon DEF Channel!Current, Events
<1>4. CASE channel.version = 0
  <2>1. Events = <<>>
    BY <1>4 DEF Events
  <2> QED BY <1>4, <1>3, <2>1 DEF ActivationHistory
<1>5. CASE channel.version # 0
  <2>1. PICK a \in activations : a.sequence = channel.version
    BY <1>1, <1>5 DEF ActivationHistory
  <2>2. EventAt(a.sequence) = Event(a) /\ a.target = channel.current
    BY <2>1, EventOf DEF ActivationHistory
  <2>3. Events[channel.version] = Event(a)
    BY <1>1, <1>5, <2>1, <2>2 DEF Events
  <2>4. Events # <<>>
    BY <1>2, <1>5
  <2> QED BY <1>2, <1>3, <2>2, <2>4, <2>3 DEF Event
<1> QED BY <1>4, <1>5

(* A move of the pointer appends its event and keeps the earlier ones.     *)
LEMMA TransitionAppends ==
  ASSUME LedgerTypeOK, ActivationHistory,
         NEW o \in OperationIds, NEW op \in Operations, NEW t \in RevisionIds \cup {None},
         Transition(NextActivation(o, op, t))
  PROVE  Events' = Append(Events, [operation |-> op, target |-> t])
<1> DEFINE e == [operation |-> op, target |-> t]
<1>a. PICK a : a = NextActivation(o, op, t)
  OBVIOUS
<1>v. PICK v : v = channel.version
  OBVIOUS
<1>1. v \in Nat /\ channel'.version = v + 1 /\ activations' = activations \cup {a} /\ a.sequence = v + 1
  BY <1>a, <1>v DEF LedgerTypeOK, ChannelRow, Transition, PointerAfter, NextActivation
<1>2. LedgerTypeOK' /\ ActivationHistory'
  <2>1. LedgerTypeOK'
    <3>1. a \in ActivationRow /\ PointerAfter(a) \in ChannelRow
      BY <1>a, <1>v, <1>1 DEF NextActivation, ActivationRow, PointerAfter, ChannelRow, LedgerTypeOK
    <3> QED BY <1>a, <3>1 DEF Transition, LedgerTypeOK
  <2> QED BY <2>1, TransitionExtendsHistory
<1>3. EventAt(v + 1)' = e
  <2>1. a \in activations' /\ Event(a) = e
    BY <1>a, <1>1 DEF Event, NextActivation
  <2>2. \A b \in activations' : b.sequence = v + 1 => b = a
    BY <1>1, <1>2 DEF ActivationHistory
  <2>3. (CHOOSE x \in activations' : x.sequence = v + 1) = a
    BY <1>1, <2>2
  <2> QED BY <2>1, <2>3 DEF EventAt, Event
<1>4. ASSUME NEW n \in 1 .. v PROVE EventAt(n)' = EventAt(n)
  <2>1. PICK b \in activations : b.sequence = n
    BY <1>v DEF ActivationHistory
  <2>2. \A c \in activations' : c.sequence = n => c = b
    BY <1>1, <1>2, <2>1 DEF ActivationHistory
  <2>3. (CHOOSE x \in activations' : x.sequence = n) = b
    BY <1>1, <2>1, <2>2
  <2>4. (CHOOSE x \in activations : x.sequence = n) = b
    BY <2>1 DEF ActivationHistory
  <2> QED BY <2>3, <2>4 DEF EventAt
<1>5. Len(Events) = v /\ DOMAIN Events = 1 .. v
  BY <1>1, <1>v DEF Events
<1>6. Append(Events, e) = [n \in 1 .. v + 1 |-> IF n = v + 1 THEN e ELSE Events[n]]
  BY <1>1, <1>5
<1>7. Events' = [n \in 1 .. v + 1 |-> EventAt(n)']
  BY <1>1 DEF Events
<1>8. \A n \in 1 .. v + 1 : EventAt(n)' = IF n = v + 1 THEN e ELSE Events[n]
  BY <1>1, <1>v, <1>3, <1>4 DEF Events
<1> QED BY <1>6, <1>7, <1>8

(* What else a channel needs of the tables: what is sealed was approved.   *)
ChannelInv == LedgerTypeOK /\ ActivationHistory /\ PublishedInv

LEMMA ChannelAbstracts ==
  /\ UNCHANGED <<Sealed, Approved, Events>> => UNCHANGED Channel!channelVars
  /\ Channel!Init <=> Sealed = {} /\ Approved = {} /\ Events = <<>>
  /\ \A r : Channel!Seal(r) <=> /\ r \in RevisionIds \ Sealed
                                /\ Sealed' = Sealed \cup {r}
                                /\ Approved' = Approved \cup {r}
                                /\ Events' = Events
  /\ \A R : Channel!Revoke(R) <=> Approved' = Approved \ R /\ UNCHANGED <<Sealed, Events>>
  /\ \A op, r : Channel!Log(op, r) <=> /\ Events' = Append(Events, [operation |-> op, target |-> r])
                                       /\ UNCHANGED <<Sealed, Approved>>
  /\ \A r : Channel!WasCurrent(r) <=> \E i \in DOMAIN Events : Events[i].target = r
  BY Zenon DEF Channel!channelVars, Channel!Init, Channel!Seal, Channel!Revoke, Channel!Log,
     Channel!WasCurrent, Sealed, Approved, Events

(* A review that supersedes takes approvals and gives none: every sealed   *)
(* revision rests on a decision that was there before.                     *)
LEMMA ReviewRevokes ==
  ASSUME ChannelInv, NEW d \in DecisionRow, RecordDecision(d)
  PROVE  \E R \in SUBSET Approved : Channel!Revoke(R)
<1>1. UNCHANGED <<Sealed, Events>>
  BY DEF RecordDecision, Sealed, Events, EventAt
<1>2. ASSUME NEW r \in revisions, RestsOnCurrentApproval(r)' PROVE RestsOnCurrentApproval(r)
  <2>1. PICK e \in decisions' : /\ e.id = r.decision /\ e.gen = r.gen
                                /\ e.verdict = "APPROVE" /\ ~IsSuperseded(e)'
    BY <1>2 DEF RestsOnCurrentApproval
  <2>2. \E p \in decisions : p.id = r.decision
    BY DEF ChannelInv, PublishedInv, SealedWhole
  <2>3. e \in decisions
    BY <2>1, <2>2 DEF RecordDecision, DecisionAdmissible
  <2>4. ~IsSuperseded(e)
    BY <2>1 DEF IsSuperseded, RecordDecision
  <2> QED BY <2>1, <2>3, <2>4 DEF RestsOnCurrentApproval
<1>3. Approved' \subseteq Approved
  BY <1>2 DEF Approved, RecordDecision
<1>4. Approved' = Approved \ (Approved \ Approved') /\ Approved \ Approved' \in SUBSET Approved
  BY <1>3
<1> QED BY <1>1, <1>4, ChannelAbstracts

LEMMA SealSeals ==
  ASSUME ChannelInv, NEW d \in decisions, NEW r \in RevisionIds, NEW c \in CopyRevisions,
         SealRevision(SealedRow(r, d, c))
  PROVE  Channel!Seal(r)
<1> DEFINE q == SealedRow(r, d, c)
<1>1. q.id = r /\ revisions' = revisions \cup {q} /\ UNCHANGED <<decisions, activations, channel>>
  BY DEF SealedRow, SealRevision
<1>2. \A p : RestsOnCurrentApproval(p)' <=> RestsOnCurrentApproval(p)
  BY <1>1 DEF RestsOnCurrentApproval, IsSuperseded
<1>3. r \in RevisionIds \ Sealed
  BY <1>1 DEF SealRevision, RevisionAdmissible, Sealed
<1>4. Sealed' = Sealed \cup {r}
  BY <1>1 DEF Sealed
<1>5. Approved' = Approved \cup {r}
  <2>1. RestsOnCurrentApproval(q)
    BY DEF SealRevision, RevisionAdmissible
  <2> QED BY <1>1, <1>2, <2>1 DEF Approved
<1>6. Events' = Events
  BY <1>1 DEF Events, EventAt
<1> QED BY <1>3, <1>4, <1>5, <1>6, ChannelAbstracts

LEMMA TransitionMoves ==
  ASSUME ChannelInv,
         NEW o \in OperationIds, NEW op \in Operations, NEW t \in RevisionIds \cup {None},
         Transition(NextActivation(o, op, t))
  PROVE  Channel!Next
<1> DEFINE a == NextActivation(o, op, t)
<1>1. Channel!Log(op, t)
  <2>1. UNCHANGED <<Sealed, Approved>>
    BY DEF Transition, Sealed, Approved, RestsOnCurrentApproval, IsSuperseded
  <2> QED BY <2>1, TransitionAppends, ChannelAbstracts DEF ChannelInv
<1>2. Channel!Current = channel.current
  BY CurrentIsLast DEF ChannelInv
<1>3. /\ a.operation = op /\ a.target = t /\ a.previous = channel.current
      /\ a.sequence = channel.version + 1 /\ TargetAdmissible(a)
  BY DEF NextActivation, Transition, ActivationAdmissible
<1>4. CASE op = "WITHDRAW"
  <2>1. Channel!Withdraw
    BY <1>1, <1>2, <1>3, <1>4 DEF TargetAdmissible, Channel!Withdraw
  <2> QED BY <2>1 DEF Channel!Next
<1>5. CASE op # "WITHDRAW"
  <2>1. t \in RevisionIds /\ t # channel.current /\ t \in Approved /\ t \in Sealed
    BY <1>3, <1>5 DEF TargetAdmissible, Approved, Sealed
  <2>2. CASE op = "ACTIVATE"
    BY <1>1, <1>2, <2>1, <2>2 DEF Channel!Next, Channel!Activate, Approved
  <2>3. CASE op = "ROLLBACK"
    <3>1. PICK b \in activations : b.target = t
      BY <1>3, <2>3 DEF TargetAdmissible, WasMadeCurrent
    <3>2. b.sequence \in 1 .. channel.version /\ EventAt(b.sequence).target = t
      <4>1. b.sequence \in 1 .. channel.version /\ EventAt(b.sequence) = Event(b)
        BY EventOf DEF ChannelInv
      <4> QED BY <3>1, <4>1 DEF Event
    <3>3. Channel!WasCurrent(t)
      BY <3>2, ChannelAbstracts DEF Events
    <3>4. Channel!Rollback(t)
      BY <1>1, <1>2, <2>1, <2>3, <3>3 DEF Channel!Rollback, Approved, Sealed
    <3> QED BY <2>1, <3>4 DEF Channel!Next
  <2> QED BY <1>5, <2>2, <2>3 DEF Operations
<1> QED BY <1>4, <1>5

(* The recent channel keeps the promise of an abstract publication channel *)
(* whose rollbacks need standing approvals.                                *)
THEOREM TransactionsImplementChannel == Spec => ImplementsChannel
<1>1. LedgerInit => Channel!Init
  BY ChannelAbstracts DEF LedgerInit, Sealed, Approved, Events
<1>2. ChannelInv /\ [LedgerNext]_ledgerVars => [Channel!Next]_(Channel!channelVars)
  <2> SUFFICES ASSUME ChannelInv, [LedgerNext]_ledgerVars
               PROVE  Channel!Next \/ UNCHANGED <<Sealed, Approved, Events>>
    BY ChannelAbstracts
  <2>1. CASE UNCHANGED <<decisions, revisions, activations, channel>>
    BY <2>1 DEF Sealed, Approved, Events, EventAt, RestsOnCurrentApproval, IsSuperseded
  <2>2. ASSUME NEW d \in DecisionRow, RecordDecision(d) PROVE Channel!Next
    BY <2>2, ReviewRevokes DEF Channel!Next, Approved
  <2>3. ASSUME NEW d \in decisions, NEW r \in RevisionIds, NEW c \in CopyRevisions,
               SealRevision(SealedRow(r, d, c))
        PROVE  Channel!Next
    BY <2>3, SealSeals DEF Channel!Next
  <2>4. ASSUME NEW o \in OperationIds, NEW op \in Operations, NEW t \in RevisionIds \cup {None},
               Transition(NextActivation(o, op, t))
        PROVE  Channel!Next
    BY <2>4, TransitionMoves
  <2> QED BY <2>1, <2>2, <2>3, <2>4 DEF LedgerNext, CompleteParse, ledgerVars
<1>3. LedgerSpec => []PublishedInv
  <2>1. LedgerInit => PublishedInv
    BY DEF LedgerInit, PublishedInv
  <2> QED BY <2>1, PublishedInvInductive, LedgerTypes, PTL DEF LedgerSpec
<1>4. LedgerSpec => []ChannelInv
  BY <1>3, LedgerTypes, ActivationsAreHistory, PTL DEF ChannelInv
<1> QED
  BY <1>1, <1>2, <1>4, CommitsImplementLedger, PTL
     DEF LedgerSpec, CommitsAreLedgerSteps, ImplementsChannel, Channel!Spec
=============================================================================
