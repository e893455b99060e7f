-------------------------- MODULE PublicationLedger --------------------------
(***************************************************************************)
(* What the recent-retail publication tables promise, one committed        *)
(* transaction at a time: reviewers append decisions about a parsed        *)
(* generation, publishers seal an approved generation into an immutable    *)
(* revision, and publishers move the one current pointer by appending an   *)
(* activation.  A table is the set of its committed rows; a call is the    *)
(* row it asks for, so an exact replay asks for a row already there.       *)
(*                                                                         *)
(* grocery/models.py with the triggers of migrations 0006, 0007 and 0008.  *)
(* PublicationTransactions.tla opens these transactions up into the        *)
(* statements and row locks that the code runs them with.                  *)
(***************************************************************************)
EXTENDS Integers

CONSTANTS
  Generations,    \* parse runs, each with its artifact: what is reviewed and published
  DecisionIds,    \* review decision UUIDs
  RevisionIds,    \* publication revision UUIDs
  OperationIds,   \* activation UUIDs, chosen by the publisher
  CopyRevisions,  \* public copy revisions (ko-v1, ko-v2, ...)
  FactSets,       \* typed fact-set hashes
  FactSetOf,      \* the hash build_publication_fact_set gives a generation
  None            \* SQL NULL

ASSUME LedgerAssumption ==
  /\ FactSetOf \in [Generations -> FactSets]
  /\ None \notin DecisionIds
  /\ None \notin RevisionIds

VARIABLES
  parse,          \* status of each generation's parse run
  decisions,      \* grocery_reviewdecision
  revisions,      \* grocery_publicationrevision: sealed in the inserting transaction
  activations,    \* grocery_publicationactivation
  channel         \* the RECENT_RETAIL row of grocery_publicationchannel

ledgerVars == <<parse, decisions, revisions, activations, channel>>

-----------------------------------------------------------------------------
(* Rows.                                                                   *)

ParseStatus == {"STARTED", "VALIDATED", "FAILED"}
Verdicts    == {"APPROVE", "REJECT"}
Operations  == {"ACTIVATE", "ROLLBACK", "WITHDRAW"}

DecisionRow ==
  [id : DecisionIds, gen : Generations, verdict : Verdicts,
   supersedes : DecisionIds \cup {None}]

RevisionRow ==
  [id : RevisionIds, decision : DecisionIds, gen : Generations,
   facts : FactSets, copy : CopyRevisions]

ActivationRow ==
  [id : OperationIds, operation : Operations, sequence : Nat \ {0},
   previous : RevisionIds \cup {None}, target : RevisionIds \cup {None}]

ChannelRow == [version : Nat, current : RevisionIds \cup {None}]

(* The type of the committed tables.                                       *)
LedgerTypeOK ==
  /\ parse \in [Generations -> ParseStatus]
  /\ decisions \subseteq DecisionRow
  /\ revisions \subseteq RevisionRow
  /\ activations \subseteq ActivationRow
  /\ channel \in ChannelRow

LedgerInit ==
  /\ parse = [g \in Generations |-> "STARTED"]
  /\ decisions = {}
  /\ revisions = {}
  /\ activations = {}
  /\ channel = [version |-> 0, current |-> None]

-----------------------------------------------------------------------------
(* Reviews.                                                                *)

IsSuperseded(d) == \E e \in decisions : e.supersedes = d.id

OfGeneration(g) == {d \in decisions : d.gen = g}

(* A decision that may replace any earlier one would fork the chain.        *)
ExtendsAnyDecision(d) ==
  \/ /\ d.supersedes = None
     /\ \A e \in OfGeneration(d.gen) : e.supersedes # None
  \/ \E e \in OfGeneration(d.gen) : e.id = d.supersedes

(* The decision is the first of its generation, or replaces the current    *)
(* tail of that generation.                                                *)
ExtendsChain(d) ==
  \/ /\ d.supersedes = None
     /\ \A e \in OfGeneration(d.gen) : e.supersedes # None
  \/ \E e \in OfGeneration(d.gen) : e.id = d.supersedes /\ ~IsSuperseded(e)

(* A REJECT needs a completed parse run, an APPROVE a validated one.       *)
VerdictFitsParse(d) ==
  /\ d.verdict = "REJECT"  => parse[d.gen] # "STARTED"
  /\ d.verdict = "APPROVE" => parse[d.gen] = "VALIDATED"

(* Everything ReviewDecision.clean, the unique constraints and the insert  *)
(* trigger ask of a new decision.                                          *)
DecisionAdmissible(d) ==
  /\ \A e \in decisions : e.id # d.id
  /\ ExtendsChain(d)
  /\ VerdictFitsParse(d)

RecordDecision(d) ==
  /\ DecisionAdmissible(d)
  /\ decisions' = decisions \cup {d}
  /\ UNCHANGED <<parse, revisions, activations, channel>>

-----------------------------------------------------------------------------
(* Revisions.                                                              *)

(* A revision hashed over some other generation's facts.                   *)
SealedFromOther(r, d, c) ==
  [id |-> r, decision |-> d.id, gen |-> d.gen,
   facts |-> FactSetOf[CHOOSE g \in Generations : g # d.gen], copy |-> c]

(* The row sealing decision d with copy c produces.                        *)
SealedRow(r, d, c) ==
  [id |-> r, decision |-> d.id, gen |-> d.gen,
   facts |-> FactSetOf[d.gen], copy |-> c]

SameEdition(r, q) == r.facts = q.facts /\ r.copy = q.copy

(* The decision the revision rests on is an APPROVE nobody has replaced.   *)
RestsOnCurrentApproval(r) ==
  \E d \in decisions :
    /\ d.id = r.decision /\ d.gen = r.gen
    /\ d.verdict = "APPROVE"
    /\ ~IsSuperseded(d)

RevisionAdmissible(r) ==
  /\ \A q \in revisions : q.id # r.id /\ ~SameEdition(q, r)
  /\ RestsOnCurrentApproval(r)
  /\ parse[r.gen] = "VALIDATED"

SealRevision(r) ==
  /\ RevisionAdmissible(r)
  /\ revisions' = revisions \cup {r}
  /\ UNCHANGED <<parse, decisions, activations, channel>>

-----------------------------------------------------------------------------
(* The current pointer.                                                    *)

(* The caller's expectation: sequence = expected_version + 1 and previous  *)
(* = expected_current_revision_id.                                         *)
ExpectationHolds(a) ==
  /\ a.sequence = channel.version + 1
  /\ a.previous = channel.current

(* Any earlier move would license a rollback to a revision never current.  *)
WasMoved(r, before) == \E a \in activations : a.sequence < before

WasMadeCurrent(r, before) ==
  \E a \in activations :
    /\ a.sequence < before
    /\ a.operation \in {"ACTIVATE", "ROLLBACK"}
    /\ a.target = r

TargetAdmissible(a) ==
  \/ /\ a.operation = "WITHDRAW"
     /\ a.target = None
     /\ a.previous # None
  \/ /\ a.operation \in {"ACTIVATE", "ROLLBACK"}
     /\ a.target \notin {None, a.previous}
     /\ \E r \in revisions : r.id = a.target /\ RestsOnCurrentApproval(r)
     /\ a.operation = "ROLLBACK" => WasMadeCurrent(a.target, a.sequence)

(* Everything transition_recent_publication and the insert trigger ask of  *)
(* a new activation.                                                       *)
ActivationAdmissible(a) ==
  /\ \A b \in activations : b.id # a.id
  /\ ExpectationHolds(a)
  /\ TargetAdmissible(a)

(* The activation that expects the pointer exactly as it stands.           *)
NextActivation(o, op, t) ==
  [id |-> o, operation |-> op, sequence |-> channel.version + 1,
   previous |-> channel.current, target |-> t]

(* The pointer set to the operation instead of its target, and a withdrawal *)
(* that leaves the pointer where it was.                                    *)
PointerToOperation(a) == [version |-> a.sequence, current |-> a.id]
PointerKept(a) ==
  [version |-> a.sequence, current |-> IF a.target = None THEN channel.current ELSE a.target]

PointerAfter(a) == [version |-> a.sequence, current |-> a.target]

Transition(a) ==
  /\ ActivationAdmissible(a)
  /\ activations' = activations \cup {a}
  /\ channel' = PointerAfter(a)
  /\ UNCHANGED <<parse, decisions, revisions>>

-----------------------------------------------------------------------------
(* The parser completes a generation once; it never reopens one.           *)
CompleteParse(g) ==
  /\ parse[g] = "STARTED"
  /\ \E status \in {"VALIDATED", "FAILED"} : parse' = [parse EXCEPT ![g] = status]
  /\ UNCHANGED <<decisions, revisions, activations, channel>>

LedgerNext ==
  \/ \E g \in Generations : CompleteParse(g)
  \/ \E d \in DecisionRow : RecordDecision(d)
  \/ \E d \in decisions, r \in RevisionIds, c \in CopyRevisions :
       SealRevision(SealedRow(r, d, c))
  \/ \E o \in OperationIds, op \in Operations, t \in RevisionIds \cup {None} :
       Transition(NextActivation(o, op, t))

LedgerSpec == LedgerInit /\ [][LedgerNext]_ledgerVars

-----------------------------------------------------------------------------
(* Properties.                                                             *)

DecisionIdsUnique == \A d, e \in decisions : d.id = e.id => d = e

SupersedesWithinGeneration ==
  \A d \in decisions : d.supersedes # None =>
    \E e \in OfGeneration(d.gen) : e.id = d.supersedes

OneRoot ==
  \A g \in Generations : OfGeneration(g) # {} =>
    \E d \in OfGeneration(g) :
      \A e \in OfGeneration(g) : e.supersedes = None <=> e = d

OneTail ==
  \A g \in Generations : OfGeneration(g) # {} =>
    \E d \in OfGeneration(g) :
      \A e \in OfGeneration(g) : ~IsSuperseded(e) <=> e = d

(* The decisions about a generation form one chain: one first decision and *)
(* one that stands, each replacing a decision about the same generation.   *)
(* (ReviewDecision.clean and the trigger of migration 0006.)               *)
ReviewChains ==
  /\ DecisionIdsUnique
  /\ SupersedesWithinGeneration
  /\ OneRoot
  /\ OneTail

(* Every revision the pointer was ever moved to is one reviewed generation *)
(* whole: sealed from an APPROVE about that generation, over the facts of  *)
(* that generation, whose parse stayed VALIDATED.  (The seal trigger of    *)
(* migration 0007 and the activation trigger of migration 0008.)           *)
PublishedFromApproval ==
  \A a \in activations : a.target # None =>
    \E r \in revisions :
      /\ r.id = a.target
      /\ r.facts = FactSetOf[r.gen]
      /\ parse[r.gen] = "VALIDATED"
      /\ \E d \in decisions :
           d.id = r.decision /\ d.gen = r.gen /\ d.verdict = "APPROVE"

PrecededBy(a) ==
  \/ a.sequence = 1 /\ a.previous = None
  \/ \E b \in activations : b.sequence = a.sequence - 1 /\ b.target = a.previous

(* The activations are the whole history of the pointer: numbered 1 to its *)
(* version without gap or repeat, each taking over from the one before,    *)
(* the last one naming the current revision.  (The deferred constraint     *)
(* grocery_publication_assert_channel_state of migration 0008.)            *)
ActivationHistory ==
  /\ \A a, b \in activations : a.sequence = b.sequence => a = b
  /\ \A a \in activations : a.sequence <= channel.version /\ PrecededBy(a)
  /\ \A n \in 1..channel.version : \E a \in activations : a.sequence = n
  /\ channel.version = 0 => channel.current = None
  /\ \A a \in activations : a.sequence = channel.version => a.target = channel.current

(* A ROLLBACK goes back to a revision that an ACTIVATE had made current    *)
(* and that another activation has replaced in between.                    *)
RollbacksReturn ==
  \A a \in activations : a.operation = "ROLLBACK" =>
    \E b, c \in activations :
      /\ b.operation = "ACTIVATE" /\ b.target = a.target
      /\ b.sequence < c.sequence /\ c.sequence < a.sequence
      /\ c.target # a.target
=============================================================================
