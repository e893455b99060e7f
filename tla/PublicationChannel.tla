-------------------------- MODULE PublicationChannel --------------------------
(***************************************************************************)
(* What a publication channel promises to the people who read and operate  *)
(* it, without its tables: revisions are sealed once, approvals of sealed  *)
(* revisions are withdrawn for good, and one event log moves the current   *)
(* revision.  Both channels of the code are meant to implement it:         *)
(*   RECENT_RETAIL      (models.py, PublicationLedger.tla)                 *)
(*   HISTORICAL_RETAIL  (historical_activations.py,                        *)
(*                       HistoricalPublication.tla)                        *)
(* They differ in one point, RollbackNeedsApproval: the recent channel     *)
(* goes back only to revisions that are still approved, the historical one *)
(* to any last-known-good bundle (migration 0027).                         *)
(***************************************************************************)
EXTENDS Sequences, Integers

CONSTANTS
  Revisions,              \* publication revisions
  None,                   \* nothing published; not a revision
  RollbackNeedsApproval   \* whether a rollback asks for standing approvals

VARIABLES
  sealed,     \* revisions that exist, with everything they publish
  approved,   \* sealed revisions whose approvals nobody has superseded
  events      \* the log: [operation, target]

channelVars == <<sealed, approved, events>>

Current == IF events = <<>> THEN None ELSE events[Len(events)].target

WasCurrent(r) == \E i \in DOMAIN events : events[i].target = r

Init == sealed = {} /\ approved = {} /\ events = <<>>

Seal(r) ==
  /\ r \in Revisions \ sealed
  /\ sealed' = sealed \cup {r}
  /\ approved' = approved \cup {r}
  /\ UNCHANGED events

(* A superseding review takes the approval of every revision that rests on *)
(* the superseded one; an approval never comes back.                       *)
Revoke(R) ==
  /\ approved' = approved \ R
  /\ UNCHANGED <<sealed, events>>

Log(operation, r) ==
  /\ events' = Append(events, [operation |-> operation, target |-> r])
  /\ UNCHANGED <<sealed, approved>>

Activate(r) == r \in approved \ {Current} /\ Log("ACTIVATE", r)

Rollback(r) ==
  /\ r \in sealed \ {Current}
  /\ WasCurrent(r)
  /\ RollbackNeedsApproval => r \in approved
  /\ Log("ROLLBACK", r)

Withdraw == Current # None /\ Log("WITHDRAW", None)

Next ==
  \/ \E r \in Revisions : Seal(r) \/ Activate(r) \/ Rollback(r)
  \/ \E R \in SUBSET approved : Revoke(R)
  \/ Withdraw

Spec == Init /\ [][Next]_channelVars
=============================================================================
