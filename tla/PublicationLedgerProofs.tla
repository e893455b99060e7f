----------------------- MODULE PublicationLedgerProofs -----------------------
(* Invariants of PublicationLedger, for every set of generations, decisions, *)
(* revisions, operations and copies.                                        *)
EXTENDS PublicationLedger, TLAPS

(* The committed tables keep their types.                                   *)
THEOREM LedgerTypes == LedgerSpec => []LedgerTypeOK
<1>1. LedgerInit => LedgerTypeOK
  BY LedgerAssumption DEF LedgerInit, LedgerTypeOK, ParseStatus, ChannelRow
<1>2. LedgerTypeOK /\ [LedgerNext]_ledgerVars => LedgerTypeOK'
  <2> SUFFICES ASSUME LedgerTypeOK, [LedgerNext]_ledgerVars PROVE LedgerTypeOK'
    OBVIOUS
  <2>1. ASSUME NEW g \in Generations, CompleteParse(g) PROVE LedgerTypeOK'
    BY <2>1 DEF CompleteParse, LedgerTypeOK, ParseStatus
  <2>2. ASSUME NEW d \in DecisionRow, RecordDecision(d) PROVE LedgerTypeOK'
    BY <2>2 DEF RecordDecision, LedgerTypeOK
  <2>3. ASSUME NEW d \in decisions, NEW r \in RevisionIds, NEW c \in CopyRevisions,
               SealRevision(SealedRow(r, d, c))
        PROVE  LedgerTypeOK'
    <3>1. SealedRow(r, d, c) \in RevisionRow
      BY LedgerAssumption DEF LedgerTypeOK, SealedRow, RevisionRow, DecisionRow
    <3> QED BY <2>3, <3>1 DEF SealRevision, LedgerTypeOK
  <2>4. ASSUME NEW o \in OperationIds, NEW op \in Operations,
               NEW t \in RevisionIds \cup {None}, Transition(NextActivation(o, op, t))
        PROVE  LedgerTypeOK'
    <3>1. NextActivation(o, op, t) \in ActivationRow
      BY DEF LedgerTypeOK, ChannelRow, NextActivation, ActivationRow
    <3>2. PointerAfter(NextActivation(o, op, t)) \in ChannelRow
      BY DEF LedgerTypeOK, ChannelRow, NextActivation, PointerAfter
    <3> QED BY <2>4, <3>1, <3>2 DEF Transition, LedgerTypeOK
  <2>5. CASE UNCHANGED ledgerVars
    BY <2>5 DEF ledgerVars, LedgerTypeOK
  <2> QED BY <2>1, <2>2, <2>3, <2>4, <2>5 DEF LedgerNext
<1> QED BY <1>1, <1>2, PTL DEF LedgerSpec

-----------------------------------------------------------------------------
(* Reviews.                                                                 *)

(* A new admissible decision takes over as the only tail of its generation  *)
(* and leaves every other generation as it was.                             *)
LEMMA RecordKeepsChains ==
  ASSUME LedgerTypeOK, ReviewChains, NEW d \in DecisionRow, RecordDecision(d)
  PROVE  ReviewChains'
<1> DEFINE Of(g) == OfGeneration(g)
<1>1. /\ decisions' = decisions \cup {d}
      /\ \A e \in decisions : e.id # d.id
      /\ ExtendsChain(d)
  BY DEF RecordDecision, DecisionAdmissible
<1>2. \A e \in decisions : /\ e \in DecisionRow
                           /\ e.supersedes # None => \E p \in decisions : p.id = e.supersedes
  BY DEF LedgerTypeOK, ReviewChains, SupersedesWithinGeneration, OfGeneration
<1>3. d.id # None /\ d.gen \in Generations
  BY LedgerAssumption DEF DecisionRow
<1>4. \A e \in decisions : e.supersedes # d.id
  BY <1>1, <1>2, <1>3
<1>5. d.supersedes # d.id
  BY <1>1, <1>3 DEF ExtendsChain, OfGeneration
<1>6. DecisionIdsUnique'
  BY <1>1 DEF ReviewChains, DecisionIdsUnique
<1>7. SupersedesWithinGeneration'
  BY <1>1 DEF ReviewChains, SupersedesWithinGeneration, ExtendsChain, OfGeneration
<1>8. \A g : g # d.gen => Of(g)' = Of(g)
  BY <1>1 DEF OfGeneration
<1>9. Of(d.gen)' = Of(d.gen) \cup {d}
  BY <1>1 DEF OfGeneration
<1>10. OneRoot'
  <2> SUFFICES ASSUME NEW g \in Generations, Of(g)' # {}
               PROVE  \E p \in Of(g)' : \A e \in Of(g)' : e.supersedes = None <=> e = p
    BY DEF OneRoot
  <2>1. CASE g # d.gen
    BY <2>1, <1>8 DEF ReviewChains, OneRoot
  <2>2. CASE g = d.gen /\ Of(g) = {}
    <3>1. d.supersedes = None
      BY <2>2, <1>1 DEF ExtendsChain
    <3> QED BY <3>1, <2>2, <1>9
  <2>3. CASE g = d.gen /\ Of(g) # {}
    <3>1. PICK p \in Of(g) : \A e \in Of(g) : e.supersedes = None <=> e = p
      BY <2>3 DEF ReviewChains, OneRoot
    <3>2. d.supersedes # None
      BY <3>1, <2>3, <1>1, <1>2, LedgerAssumption DEF ExtendsChain, OfGeneration, DecisionRow
    <3>3. p # d
      BY <1>1, <2>3 DEF OfGeneration
    <3> QED BY <3>1, <3>2, <3>3, <1>9, <2>3
  <2> QED BY <2>1, <2>2, <2>3
<1>11. OneTail'
  <2>1. \A e \in decisions : IsSuperseded(e)' <=> (IsSuperseded(e) \/ e.id = d.supersedes)
    BY <1>1 DEF IsSuperseded
  <2>2. ~IsSuperseded(d)'
    BY <1>1, <1>4, <1>5 DEF IsSuperseded
  <2> SUFFICES ASSUME NEW g \in Generations, Of(g)' # {}
               PROVE  \E t \in Of(g)' : \A e \in Of(g)' : ~IsSuperseded(e)' <=> e = t
    BY DEF OneTail
  <2>3. CASE g # d.gen
    <3>1. \A e \in Of(g) : e.id # d.supersedes
      <4> SUFFICES ASSUME NEW e \in Of(g), e.id = d.supersedes PROVE FALSE
        OBVIOUS
      <4>1. d.supersedes # None
        BY <1>2, LedgerAssumption DEF OfGeneration, DecisionRow
      <4>2. PICK p \in Of(d.gen) : p.id = d.supersedes
        BY <4>1, <1>1 DEF ExtendsChain
      <4> QED BY <4>2, <2>3 DEF ReviewChains, DecisionIdsUnique, OfGeneration
    <3>2. PICK t \in Of(g) : \A e \in Of(g) : ~IsSuperseded(e) <=> e = t
      BY <2>3, <1>8 DEF ReviewChains, OneTail
    <3> QED BY <3>1, <3>2, <2>1, <2>3, <1>8 DEF OfGeneration
  <2>4. CASE g = d.gen
    <3>1. \A e \in Of(g) : IsSuperseded(e)'
      <4> SUFFICES ASSUME NEW e \in Of(g), ~IsSuperseded(e) PROVE e.id = d.supersedes
        BY <2>1 DEF OfGeneration
      <4>1. PICK t \in Of(g) : \A q \in Of(g) : ~IsSuperseded(q) <=> q = t
        BY DEF ReviewChains, OneTail
      <4>2. d.supersedes # None
        <5>1. PICK p \in Of(g) : \A q \in Of(g) : q.supersedes = None <=> q = p
          BY DEF ReviewChains, OneRoot
        <5> QED BY <5>1, <2>4, <1>1, <1>2, LedgerAssumption DEF ExtendsChain, OfGeneration, DecisionRow
      <4>3. PICK q \in Of(g) : q.id = d.supersedes /\ ~IsSuperseded(q)
        BY <4>2, <1>1, <2>4 DEF ExtendsChain
      <4> QED BY <4>1, <4>3
    <3> QED BY <3>1, <2>2, <1>9, <2>4
  <2> QED BY <2>3, <2>4
<1> QED BY <1>6, <1>7, <1>10, <1>11 DEF ReviewChains

(* The decisions about a generation always form one chain.                  *)
THEOREM ReviewsFormChains == LedgerSpec => []ReviewChains
<1>1. LedgerInit => ReviewChains
  BY DEF LedgerInit, ReviewChains, DecisionIdsUnique, SupersedesWithinGeneration,
         OneRoot, OneTail, OfGeneration
<1>2. LedgerTypeOK /\ ReviewChains /\ [LedgerNext]_ledgerVars => ReviewChains'
  <2> SUFFICES ASSUME LedgerTypeOK, ReviewChains, [LedgerNext]_ledgerVars PROVE ReviewChains'
    OBVIOUS
  <2>1. ASSUME decisions' = decisions PROVE ReviewChains'
    BY <2>1 DEF ReviewChains, DecisionIdsUnique, SupersedesWithinGeneration, OneRoot, OneTail,
                OfGeneration, IsSuperseded
  <2>2. ASSUME NEW d \in DecisionRow, RecordDecision(d) PROVE ReviewChains'
    BY <2>2, RecordKeepsChains
  <2> QED
    BY <2>1, <2>2 DEF LedgerNext, ledgerVars, CompleteParse, SealRevision, Transition
<1> QED BY <1>1, <1>2, LedgerTypes, PTL DEF LedgerSpec

-----------------------------------------------------------------------------
(* The pointer.                                                             *)

(* A transition numbers itself one past the version and takes over from the *)
(* current revision, so it extends the history by exactly its own row.      *)
LEMMA TransitionExtendsHistory ==
  ASSUME LedgerTypeOK, ActivationHistory,
         NEW o \in OperationIds, NEW op \in Operations, NEW t \in RevisionIds \cup {None},
         Transition(NextActivation(o, op, t))
  PROVE  ActivationHistory'
<1>a. PICK a : a = NextActivation(o, op, t)
  OBVIOUS
<1>1. /\ activations' = activations \cup {a}
      /\ a.sequence = channel.version + 1
      /\ a.previous = channel.current
      /\ a.target = channel'.current
      /\ channel'.version = channel.version + 1
  BY <1>a DEF Transition, NextActivation, PointerAfter
<1>2. channel.version \in Nat /\ \A b \in activations : b.sequence \in Nat \ {0}
  BY DEF LedgerTypeOK, ChannelRow, ActivationRow
<1>3. \A b \in activations : b.sequence <= channel.version
  BY DEF ActivationHistory
<1>4. \A b, c \in activations' : b.sequence = c.sequence => b = c
  BY <1>1, <1>2, <1>3 DEF ActivationHistory
<1>5. \A b \in activations' : b.sequence <= channel'.version
  BY <1>1, <1>2, <1>3
<1>6. \A b \in activations' : PrecededBy(b)'
  <2>1. ASSUME NEW b \in activations PROVE PrecededBy(b)'
    BY <1>1 DEF ActivationHistory, PrecededBy
  <2>2. PrecededBy(a)'
    <3>1. CASE channel.version = 0
      BY <3>1, <1>1 DEF ActivationHistory, PrecededBy
    <3>2. CASE channel.version # 0
      <4>1. PICK b \in activations : b.sequence = channel.version
        BY <3>2, <1>2 DEF ActivationHistory
      <4>2. b.target = a.previous
        BY <4>1, <1>1 DEF ActivationHistory
      <4> QED BY <4>1, <4>2, <1>1, <1>2 DEF PrecededBy
    <3> QED BY <3>1, <3>2
  <2> QED BY <2>1, <2>2, <1>1
<1>7. \A n \in 1..channel'.version : \E b \in activations' : b.sequence = n
  <2> SUFFICES ASSUME NEW n \in 1..channel'.version PROVE \E b \in activations' : b.sequence = n
    OBVIOUS
  <2>1. CASE n = channel'.version
    BY <2>1, <1>1
  <2>2. CASE n # channel'.version
    <3>1. n \in 1..channel.version
      BY <2>2, <1>1, <1>2
    <3> QED BY <3>1, <1>1 DEF ActivationHistory
  <2> QED BY <2>1, <2>2
<1>8. channel'.version # 0
  BY <1>1, <1>2
<1>9. \A b \in activations' : b.sequence = channel'.version => b.target = channel'.current
  BY <1>1, <1>2, <1>3
<1> QED BY <1>4, <1>5, <1>6, <1>7, <1>8, <1>9 DEF ActivationHistory

(* The activations are always the gapless history of the pointer.           *)
THEOREM ActivationsAreHistory == LedgerSpec => []ActivationHistory
<1>1. LedgerInit => ActivationHistory
  BY DEF LedgerInit, ActivationHistory
<1>2. LedgerTypeOK /\ ActivationHistory /\ [LedgerNext]_ledgerVars => ActivationHistory'
  <2> SUFFICES ASSUME LedgerTypeOK, ActivationHistory, [LedgerNext]_ledgerVars
               PROVE  ActivationHistory'
    OBVIOUS
  <2>1. CASE UNCHANGED <<activations, channel>>
    BY <2>1 DEF ActivationHistory, PrecededBy
  <2>2. ASSUME NEW o \in OperationIds, NEW op \in Operations,
               NEW t \in RevisionIds \cup {None}, Transition(NextActivation(o, op, t))
        PROVE  ActivationHistory'
    BY <2>2, TransitionExtendsHistory
  <2> QED BY <2>1, <2>2 DEF LedgerNext, ledgerVars, CompleteParse, RecordDecision, SealRevision
<1> QED BY <1>1, <1>2, LedgerTypes, PTL DEF LedgerSpec

(* A new rollback finds its target made current before, by an ACTIVATE or   *)
(* by a rollback that itself returned to one; the activation that set the   *)
(* present version replaced it, since a move never targets what is current. *)
LEMMA TransitionKeepsRollbacks ==
  ASSUME LedgerTypeOK, ActivationHistory, RollbacksReturn,
         NEW o \in OperationIds, NEW op \in Operations, NEW t \in RevisionIds \cup {None},
         Transition(NextActivation(o, op, t))
  PROVE  RollbacksReturn'
<1>a. PICK a : a = NextActivation(o, op, t)
  OBVIOUS
<1>1. activations' = activations \cup {a}
  BY <1>a DEF Transition
<1>2. /\ TargetAdmissible(a)
      /\ a.sequence = channel.version + 1
      /\ a.previous = channel.current
  BY <1>a DEF Transition, ActivationAdmissible, NextActivation
<1>3. channel.version \in Nat /\ \A b \in activations : b.sequence \in Nat \ {0}
  BY DEF LedgerTypeOK, ChannelRow, ActivationRow
<1>4. ASSUME a.operation = "ROLLBACK"
      PROVE  \E b, c \in activations :
               /\ b.operation = "ACTIVATE" /\ b.target = a.target
               /\ b.sequence < c.sequence /\ c.sequence < a.sequence
               /\ c.target # a.target
  <2>1. a.target # channel.current
    BY <1>2, <1>4 DEF TargetAdmissible
  <2>2. PICK p \in activations : /\ p.sequence < a.sequence
                                 /\ p.operation \in {"ACTIVATE", "ROLLBACK"}
                                 /\ p.target = a.target
    BY <1>2, <1>4 DEF TargetAdmissible, WasMadeCurrent
  <2>3. PICK b \in activations : /\ b.operation = "ACTIVATE" /\ b.target = a.target
                                 /\ b.sequence <= p.sequence
    <3>1. CASE p.operation = "ACTIVATE"
      BY <3>1, <2>2, <1>3
    <3>2. CASE p.operation = "ROLLBACK"
      <4>1. PICK b, c \in activations : /\ b.operation = "ACTIVATE" /\ b.target = p.target
                                        /\ b.sequence < c.sequence /\ c.sequence < p.sequence
        BY <3>2 DEF RollbacksReturn
      <4> QED BY <4>1, <2>2, <1>3
    <3> QED BY <2>2, <3>1, <3>2
  <2>4. p.sequence <= channel.version /\ p.sequence # channel.version
    BY <2>1, <2>2, <1>2, <1>3 DEF ActivationHistory
  <2>5. PICK c \in activations : c.sequence = channel.version
    BY <2>4, <1>3 DEF ActivationHistory
  <2>6. c.target = channel.current
    BY <2>5 DEF ActivationHistory
  <2>7. b.sequence < c.sequence /\ c.sequence < a.sequence
    BY <2>3, <2>4, <2>5, <1>2, <1>3
  <2> QED BY <2>1, <2>3, <2>6, <2>7
<1> QED BY <1>1, <1>4 DEF RollbacksReturn

(* Rollbacks always go back to a revision once activated and then replaced. *)
THEOREM RollbacksAlwaysReturn == LedgerSpec => []RollbacksReturn
<1>1. LedgerInit => RollbacksReturn
  BY DEF LedgerInit, RollbacksReturn
<1>2. LedgerTypeOK /\ ActivationHistory /\ RollbacksReturn /\ [LedgerNext]_ledgerVars
        => RollbacksReturn'
  <2> SUFFICES ASSUME LedgerTypeOK, ActivationHistory, RollbacksReturn, [LedgerNext]_ledgerVars
               PROVE  RollbacksReturn'
    OBVIOUS
  <2>1. CASE UNCHANGED activations
    BY <2>1 DEF RollbacksReturn
  <2>2. ASSUME NEW o \in OperationIds, NEW op \in Operations,
               NEW t \in RevisionIds \cup {None}, Transition(NextActivation(o, op, t))
        PROVE  RollbacksReturn'
    BY <2>2, TransitionKeepsRollbacks
  <2> QED BY <2>1, <2>2 DEF LedgerNext, ledgerVars, CompleteParse, RecordDecision, SealRevision
<1> QED BY <1>1, <1>2, LedgerTypes, ActivationsAreHistory, PTL DEF LedgerSpec

-----------------------------------------------------------------------------
(* What is published.                                                       *)

(* A revision is sealed whole from an approval of its own generation.       *)
SealedWhole(r) ==
  /\ r.facts = FactSetOf[r.gen]
  /\ parse[r.gen] = "VALIDATED"
  /\ \E d \in decisions : d.id = r.decision /\ d.gen = r.gen /\ d.verdict = "APPROVE"

(* The strengthening of PublishedFromApproval that the steps preserve: all  *)
(* revisions are whole, published or not, and the pointer only ever names   *)
(* stored ones.                                                             *)
PublishedInv ==
  /\ \A r \in revisions : SealedWhole(r)
  /\ \A a \in activations : a.target # None => \E r \in revisions : r.id = a.target

(* Every step preserves it: decisions and revisions are only added, and a   *)
(* run that is VALIDATED stays so.                                          *)
LEMMA PublishedInvInductive ==
  ASSUME LedgerTypeOK, PublishedInv, [LedgerNext]_ledgerVars
  PROVE  PublishedInv'
<1>1. ASSUME NEW g \in Generations, CompleteParse(g) PROVE PublishedInv'
  <2>1. \A h : parse[h] = "VALIDATED" /\ h \in Generations => parse'[h] = "VALIDATED"
    BY <1>1 DEF CompleteParse, LedgerTypeOK
  <2>2. \A r \in revisions : r.gen \in Generations
    BY DEF LedgerTypeOK, RevisionRow
  <2> QED BY <1>1, <2>1, <2>2 DEF CompleteParse, PublishedInv, SealedWhole
<1>2. ASSUME NEW d \in DecisionRow, RecordDecision(d) PROVE PublishedInv'
  BY <1>2 DEF RecordDecision, PublishedInv, SealedWhole
<1>3. ASSUME NEW d \in decisions, NEW r \in RevisionIds, NEW c \in CopyRevisions,
             SealRevision(SealedRow(r, d, c))
      PROVE  PublishedInv'
  <2>1. SealedWhole(SealedRow(r, d, c))
    BY <1>3 DEF SealRevision, RevisionAdmissible, RestsOnCurrentApproval, SealedRow, SealedWhole
  <2> QED BY <2>1, <1>3 DEF SealRevision, PublishedInv, SealedWhole
<1>4. ASSUME NEW o \in OperationIds, NEW op \in Operations, NEW t \in RevisionIds \cup {None},
             Transition(NextActivation(o, op, t))
      PROVE  PublishedInv'
  BY <1>4 DEF Transition, ActivationAdmissible, TargetAdmissible, PublishedInv, SealedWhole
<1>5. CASE UNCHANGED ledgerVars
  BY <1>5 DEF ledgerVars, PublishedInv, SealedWhole
<1> QED BY <1>1, <1>2, <1>3, <1>4, <1>5 DEF LedgerNext

(* Only whole, approved generations are ever published.                     *)
THEOREM OnlyApprovedIsPublished == LedgerSpec => []PublishedFromApproval
<1>1. LedgerInit => PublishedInv
  BY DEF LedgerInit, PublishedInv
<1>2. PublishedInv => PublishedFromApproval
  BY DEF PublishedInv, SealedWhole, PublishedFromApproval
<1> QED BY <1>1, <1>2, PublishedInvInductive, LedgerTypes, PTL DEF LedgerSpec
=============================================================================
