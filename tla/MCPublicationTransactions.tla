---------------------- MODULE MCPublicationTransactions ----------------------
(* The calls that PublicationTransactions is model-checked with.           *)
EXTENDS PublicationTransactions, TLC

CONSTANTS s1, s2, s3, g1, g2, d1, d2, d3, r1, r2, r3, o1, o2, o3, v1, v2, f1, f2,
          reviewer, publisher

SessionSymmetry == Permutations(Sessions)

MCFactSetOf == (g1 :> f1) @@ (g2 :> f2)

Decide(actor, id, gen, verdict, supersedes) ==
  [actor |-> actor,
   row |-> [id |-> id, gen |-> gen, verdict |-> verdict, supersedes |-> supersedes]]

SealCall(actor, decision, copy, id) ==
  [actor |-> actor, decision |-> decision, copy |-> copy, id |-> id]

Move(actor, id, op, sequence, previous, target) ==
  [actor |-> actor,
   row |-> [id |-> id, operation |-> op, sequence |-> sequence,
            previous |-> previous, target |-> target]]

(* Direct calls: an approval, a reviewer who revokes it or approves it     *)
(* again, and publishers who seal, activate, withdraw and roll back.       *)
RaceDecisions ==
  {Decide(None, d1, g1, "APPROVE", None), Decide(None, d2, g1, "REJECT", d1),
   Decide(None, d2, g1, "APPROVE", d1), Decide(None, d3, g1, "REJECT", d1)}
RaceSeals == {SealCall(None, d1, v1, r1), SealCall(None, d2, v1, r2), SealCall(None, d2, v2, r2)}
RaceTransitions ==
  {Move(None, o1, "ACTIVATE", 1, None, r1), Move(None, o2, "WITHDRAW", 2, r1, None),
   Move(None, o2, "ACTIVATE", 2, r1, r2), Move(None, o3, "ROLLBACK", 3, None, r1)}

(* Two generations and the publishers' moves between them, directly and    *)
(* through the commands, which hold their actor's row; with exact replays, *)
(* UUIDs used for two different calls, and a revoked approval.             *)
HistoryDecisions ==
  {Decide(reviewer, d1, g1, "APPROVE", None), Decide(reviewer, d2, g2, "APPROVE", None),
   Decide(None, d3, g1, "REJECT", d1)}
HistorySeals ==
  {SealCall(publisher, d1, v1, r1), SealCall(publisher, d1, v1, r2), SealCall(None, d2, v1, r2)}
HistoryTransitions ==
  {Move(publisher, o1, "ACTIVATE", 1, None, r1), Move(None, o2, "ACTIVATE", 2, r1, r2),
   Move(publisher, o2, "WITHDRAW", 2, r1, None), Move(None, o3, "ROLLBACK", 3, r2, r1),
   Move(None, o3, "ROLLBACK", 3, None, r1), Move(None, o3, "ROLLBACK", 3, None, r2)}

NoCalls == {}
=============================================================================
