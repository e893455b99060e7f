---------------------- MODULE HistoricalPublicationProofs ----------------------
(***************************************************************************)
(* What HistoricalPublication keeps for any number of sessions,            *)
(* collections, decisions, bundles and calls.                              *)
(*                                                                         *)
(* The argument is about locks.  A reviewer about to decide holds its      *)
(* collection, all the decisions about it and the UUID it inserts; a       *)
(* publisher about to seal holds the collections and the sources of its    *)
(* three reviews; a publisher about to move the pointer holds the channel  *)
(* and its target with its reviews.  No two sessions hold the same row, so *)
(* what a service tested under its locks is still true when it commits.    *)
(*   readability    the span of a daily plan bounds how far the last       *)
(*                  shared date is from any other                          *)
(*   HistoricalInv  the tables and every open transaction                  *)
(*   the channel    commits of decisions, bundles and activations revoke,  *)
(*                  seal and move; every other step stutters               *)
(***************************************************************************)
EXTENDS HistoricalPublication, Sequences, FiniteSetTheorems, WellFoundedInduction, TLAPS

-----------------------------------------------------------------------------
(* What can be sealed can be read.                                         *)

(* A bounded set of numbers has a greatest one.                            *)
LEMMA GreatestNumber ==
  ASSUME NEW D, D \subseteq Int, D # {}, NEW m \in Int, \A d \in D : d <= m
  PROVE  \E x \in D : \A e \in D : e <= x
<1>. DEFINE T == {m - d : d \in D}
<1>1. T \subseteq Nat /\ T # {}
  <2>1. ASSUME NEW d \in D PROVE m - d \in Nat
    <3>1. d \in Int /\ d <= m
      OBVIOUS
    <3>. QED
      BY <3>1
  <2>. QED
    BY <2>1
<1>2. PICK y \in T : \A z \in T : ~(<<z, y>> \in OpToRel(<, Nat))
  <2>. HIDE DEF T
  <2>. QED
    BY <1>1, NatLessThanWellFounded, WFMin
<1>3. PICK x \in D : y = m - x
  OBVIOUS
<1>4. ASSUME NEW e \in D PROVE e <= x
  <2>1. m - e \in T /\ m - e \in Nat /\ m - x \in Nat /\ x \in Int /\ e \in Int
    BY <1>3
  <2>2. ~(m - e < m - x)
    BY <1>2, <1>3, <2>1 DEF OpToRel
  <2>. QED
    BY <2>1, <2>2
<1>. QED
  BY <1>4

Rows == STRING \X STRING \X Int

(* A bundle of collections that _validate_completeness lets through: the   *)
(* last shared date is at most a span after any shared date.               *)
LEMMA CompleteIsReadable ==
  ASSUME NEW monthly \in Content, NEW regional \in Content, NEW market \in Content,
         \A row \in regional.rows : row[3] \in regional.min .. regional.max,
         Complete(monthly, regional, market), WithinWindow(regional, market),
         NEW b, b.facts["MONTHLY"] = monthly.rows, b.facts["REGIONAL_DAILY"] = regional.rows,
         b.facts["MARKET_DAILY"] = market.rows, b.monthMax = monthly.max,
         \E row \in Shared(regional, market) : b.dateMax = row[3],
         \A row \in Shared(regional, market) : row[3] <= b.dateMax
  PROVE  /\ \A k \in Kinds : SeriesOf(b.facts[k]) = SeriesOf(b.facts["MONTHLY"])
         /\ \A series \in SeriesOf(b.facts["MONTHLY"]) : SeriesIsReadable(b, series)
<1>1. \A k \in Kinds : SeriesOf(b.facts[k]) = SeriesOf(b.facts["MONTHLY"])
  BY DEF Kinds, Complete
<1>2. /\ monthly.rows \subseteq Rows /\ regional.rows \subseteq Rows /\ market.rows \subseteq Rows
      /\ regional.min \in Int /\ regional.max \in Int
  BY DEF Content, Rows
<1>. SUFFICES ASSUME NEW series \in SeriesOf(monthly.rows) PROVE SeriesIsReadable(b, series)
  BY <1>1
<1>3. HistoryRegions(b, series) # {}
  BY DEF Complete, HistoryRegions
<1>4. PICK row \in Shared(regional, market) : row[1] = series
  BY DEF Complete, SeriesOf
<1>5. PICK last \in Shared(regional, market) : b.dateMax = last[3]
  OBVIOUS
<1>6. row[3] \in DailyWindow(b)
  <2>1. /\ row[3] \in Int /\ last[3] \in Int /\ row[3] <= last[3]
        /\ row[3] >= regional.min /\ last[3] <= regional.max
    BY <1>2, <1>4, <1>5 DEF Shared, Rows
  <2>2. regional.max - regional.min <= DailySpan /\ DailySpan \in Nat
    BY HistoricalAssumption DEF WithinWindow
  <2>. QED
    BY <1>2, <1>5, <2>1, <2>2 DEF DailyWindow
<1>7. RegionDates(b, series) # {}
  <2>1. row \in InWindow(b, "REGIONAL_DAILY", series) \cap InWindow(b, "MARKET_DAILY", series)
    BY <1>4, <1>6 DEF InWindow, Shared
  <2>. QED
    BY <2>1 DEF RegionDates
<1>8. ASSUME NEW date \in RegionDates(b, series), NEW region \in RegionRows(b, series, date),
             MarketAvailable(b, series, region, date)
      PROVE  date \in MarketDates(b, series, region)
  <2>1. PICK r \in InWindow(b, "REGIONAL_DAILY", series) : r[3] = date /\ r[2] = region
    BY DEF RegionRows
  <2>2. r[1] = series
    BY <2>1 DEF InWindow
  <2>3. date \in TimesOf(InWindow(b, "REGIONAL_DAILY", series), series, region)
    BY <2>1, <2>2 DEF TimesOf
  <2>4. date \in TimesOf(InWindow(b, "MARKET_DAILY", series), series, region)
    <3>1. PICK q \in InWindow(b, "MARKET_DAILY", series) : q = <<series, region, date>>
      BY <1>8 DEF MarketAvailable
    <3>2. q[1] = series /\ q[2] = region /\ q[3] = date
      BY <3>1
    <3>. QED
      BY <3>2 DEF TimesOf
  <2>. QED
    BY <2>3, <2>4 DEF MarketDates
<1>. QED
  BY <1>3, <1>7, <1>8 DEF SeriesIsReadable

-----------------------------------------------------------------------------
(* The invariant: the transactions.                                        *)

TxRows(H) ==
  [at : Statements, call : Services \cup {None},
   ask : ReviewCalls \cup SealCalls \cup TransitionCalls \cup {None},
   holds : SUBSET H, outcome : {"open", "done", "refused"}]

TypedTx == \E H : tx \in [Sessions -> TxRows(H)]

ReviewStages ==
  {"approve_lock_collection", "find_decision", "lock_collection", "lock_decisions",
   "insert_decision", "commit_decision"}
SealStages ==
  {"seal_lock_existing", "lock_reviews", "find_bundle", "insert_bundle", "commit_bundle"}
MoveStages ==
  {"lock_channel", "find_activation", "lock_target", "insert_activation", "commit_activation"}

(* A session is in a stage of the call that it makes.                      *)
CallFits(x) ==
  \/ x.call = None /\ x.at = "idle" /\ x.holds = {}
  \/ x.call = "review" /\ x.ask \in ReviewCalls /\ x.at \in {"lock_actor"} \cup ReviewStages
  \/ x.call = "seal" /\ x.ask \in SealCalls /\ x.at \in {"lock_actor"} \cup SealStages
  \/ x.call = "transition" /\ x.ask \in TransitionCalls /\ x.at \in {"lock_actor"} \cup MoveStages

(* A reviewer about to decide holds the collection, so its chain stays as  *)
(* it is, and all its decisions, so no publisher relies on them.           *)
ReviewFits(x) ==
  LET d == x.ask.row IN
  /\ x.at \in {"lock_decisions", "insert_decision", "commit_decision"} =>
       <<"collection", d.collection>> \in x.holds
  /\ x.at \in {"insert_decision", "commit_decision"} =>
       \A e \in OfCollection(d.collection) : <<"decision", e.id>> \in x.holds
  /\ x.at = "commit_decision" => <<"new decision", d.id>> \in x.holds /\ DecisionAdmissible(d)

(* A publisher about to seal holds its reviews with their collections and  *)
(* sources.                                                                *)
HoldsReview(x, id) ==
  \E d \in DecisionsNamed(id) :
    <<"collection", d.collection>> \in x.holds /\ <<"source", KindOf[d.collection]>> \in x.holds

SealFits(x) ==
  /\ x.call = "seal" => \A b \in bundles : b.id # x.ask.id
  /\ x.at \in {"find_bundle", "insert_bundle", "commit_bundle"} =>
       \A k \in Kinds : HoldsReview(x, x.ask.reviews[k])
  /\ x.at \in {"insert_bundle", "commit_bundle"} =>
       Sealable(x.ask) /\ \A b \in bundles : ~SameFacts(b, BundleOf(x.ask))

(* A publisher about to move the pointer holds the channel, and the target *)
(* with its reviews.                                                       *)
MoveFits(x) ==
  LET a == x.ask.row IN
  /\ x.at \in MoveStages \ {"lock_channel"} => <<"channel", None>> \in x.holds
  /\ x.at \in {"lock_target", "insert_activation", "commit_activation"} => Movable(a)
  /\ x.at \in {"insert_activation", "commit_activation"} /\ a.operation # "WITHDRAW" =>
       \E b \in BundlesNamed(a.target) : TargetRows(b) \subseteq x.holds
  /\ x.at = "commit_activation" => TargetAdmissible(a)

SessionFits(x) == CallFits(x) /\ ReviewFits(x) /\ SealFits(x) /\ MoveFits(x)

(* Two sessions never hold the same row, nor draw the same UUID.           *)
Apart(x, y) ==
  /\ x.holds \cap y.holds = {}
  /\ x.call = "seal" /\ y.call = "seal" => x.ask.id # y.ask.id

SessionsInv ==
  /\ TypedTx
  /\ \A s \in Sessions : SessionFits(tx[s])
  /\ \A s, t \in Sessions : s # t => Apart(tx[s], tx[t])
  /\ started \in 0 .. MaxCalls

-----------------------------------------------------------------------------
(* The invariant: the tables.                                              *)

ContentInv ==
  /\ content \in [Collections -> UNION {ContentsOf[c] : c \in Collections} \cup {None}]
  /\ \A c \in Collections : content[c] \in ContentsOf[c] \cup {None}

DecisionsInv ==
  /\ decisions \subseteq DecisionRow
  /\ \A d, e \in decisions : d.id = e.id => d = e
  /\ \A d \in decisions : content[d.collection] # None
  /\ \A d \in decisions : d.supersedes # None =>
       \E e \in OfCollection(d.collection) : e.id = d.supersedes
  /\ ReviewChains

Readable(b) ==
  /\ \A k \in Kinds : SeriesOf(b.facts[k]) = SeriesOf(b.facts["MONTHLY"])
  /\ \A series \in SeriesOf(b.facts["MONTHLY"]) : SeriesIsReadable(b, series)

BundleFits(b) ==
  /\ b.id \in BundleIds /\ b.reviews \in [Kinds -> DecisionIds]
  /\ Loads(b) /\ Readable(b)

BundlesInv ==
  /\ \A b, q \in bundles : b.id = q.id => b = q
  /\ \A b \in bundles : BundleFits(b)

LogInv ==
  /\ activations \subseteq ActivationRow /\ IsFiniteSet(activations)
  /\ channel \in ChannelRow
  /\ LogConsistent(activations, channel)
  /\ channel.version = 0 => channel.current = None
  /\ \A a, e \in activations : a.sequence = e.sequence => a = e
  /\ \A i \in 1 .. channel.version : \E a \in activations : a.sequence = i

TablesInv == ContentInv /\ DecisionsInv /\ BundlesInv /\ LogInv

HistoricalInv == TablesInv /\ SessionsInv

-----------------------------------------------------------------------------
(* Steps that leave the tables alone.                                      *)

LEMMA SealedAlike ==
  ASSUME UNCHANGED tables, NEW ask
  PROVE  Parts(ask)' = Parts(ask) /\ BundleOf(ask)' = BundleOf(ask)
<1>1. \A id : ContentReviewed(id)' = ContentReviewed(id)
  BY DEF tables, ContentReviewed
<1>2. Parts(ask)' = Parts(ask)
  BY <1>1 DEF Parts
<1>. QED
  BY <1>2 DEF BundleOf

LEMMA FitsStays ==
  ASSUME UNCHANGED tables, NEW x, SessionFits(x)
  PROVE  SessionFits(x)'
<1>1. CallFits(x)'
  BY DEF SessionFits, CallFits
<1>2. ReviewFits(x)'
  BY DEF tables, SessionFits, ReviewFits, OfCollection, DecisionAdmissible, DecisionsNamed,
     ExtendsChain, IsSuperseded
<1>3. SealFits(x)'
  <2>1. \A k \in Kinds : HoldsReview(x, x.ask.reviews[k]) <=> HoldsReview(x, x.ask.reviews[k])'
    BY DEF tables, HoldsReview, DecisionsNamed
  <2>2. Sealable(x.ask) <=> Sealable(x.ask)'
    BY SealedAlike DEF tables, Sealable, Approves, DecisionsNamed, IsSuperseded
  <2>3. BundleOf(x.ask)' = BundleOf(x.ask)
    BY SealedAlike
  <2>. QED
    BY <2>1, <2>2, <2>3 DEF tables, SessionFits, SealFits
<1>4. MoveFits(x)'
  BY DEF tables, SessionFits, MoveFits, Movable, ExpectationHolds, BundlesNamed, TargetAdmissible,
     Standing, Approves, DecisionsNamed, IsSuperseded, WasMadeCurrent
<1>. QED
  BY <1>1, <1>2, <1>3, <1>4 DEF SessionFits

LEMMA TablesStay ==
  ASSUME UNCHANGED tables, TablesInv
  PROVE  TablesInv'
<1>1. ContentInv'
  BY DEF tables, TablesInv, ContentInv
<1>2. DecisionsInv'
  BY DEF tables, TablesInv, DecisionsInv, OfCollection, ReviewChains, IsSuperseded
<1>3. BundlesInv'
  BY DEF tables, TablesInv, BundlesInv, BundleFits, Loads, DecisionsNamed
<1>4. LogInv'
  BY DEF tables, TablesInv, LogInv
<1>. QED
  BY <1>1, <1>2, <1>3, <1>4 DEF TablesInv

LEMMA LockFields ==
  ASSUME TypedTx, NEW s \in Sessions, NEW rows, NEW next \in Statements, Lock(s, rows, next)
  PROVE  /\ TypedTx' /\ UNCHANGED <<tables, started>>
         /\ tx'[s].at = next /\ tx'[s].call = tx[s].call /\ tx'[s].ask = tx[s].ask
         /\ tx'[s].holds = tx[s].holds \cup rows /\ tx'[s].outcome = tx[s].outcome
         /\ \A t \in Sessions \ {s} : tx'[t] = tx[t] /\ tx[t].holds \cap rows = {}
<1>1. PICK H : tx \in [Sessions -> TxRows(H)]
  BY DEF TypedTx
<1>2. /\ tx' = [tx EXCEPT ![s].at = next, ![s].holds = @ \cup rows]
      /\ UNCHANGED <<tables, started>>
      /\ \A t \in Sessions \ {s} : tx[t].holds \cap rows = {}
  BY DEF Lock, Free
<1>3. /\ tx[s] \in TxRows(H)
      /\ \A t \in Sessions \ {s} : tx'[t] = tx[t]
      /\ tx'[s] = [tx[s] EXCEPT !.at = next, !.holds = @ \cup rows]
      /\ DOMAIN tx' = Sessions
  BY <1>1, <1>2
<1>4. /\ tx'[s].at = next /\ tx'[s].call = tx[s].call /\ tx'[s].ask = tx[s].ask
      /\ tx'[s].holds = tx[s].holds \cup rows /\ tx'[s].outcome = tx[s].outcome
  BY <1>3 DEF TxRows
<1>5. tx' \in [Sessions -> TxRows(H \cup rows)]
  BY <1>1, <1>2, ZenonT(40) DEF TxRows
<1>6. TypedTx'
  BY <1>5 DEF TypedTx
<1>. QED
  BY <1>2, <1>3, <1>4, <1>6

LEMMA EndFields ==
  ASSUME TypedTx, NEW s \in Sessions, NEW outcome \in {"done", "refused"}, End(s, outcome)
  PROVE  /\ TypedTx' /\ UNCHANGED started
         /\ tx'[s].at = "idle" /\ tx'[s].call = None /\ tx'[s].holds = {}
         /\ tx'[s].outcome = outcome
         /\ \A t \in Sessions \ {s} : tx'[t] = tx[t]
<1>1. PICK H : tx \in [Sessions -> TxRows(H)]
  BY DEF TypedTx
<1>2. tx' = [tx EXCEPT ![s] = Idle(outcome)] /\ UNCHANGED started
  BY DEF End
<1>3. Idle(outcome) \in TxRows(H)
  BY DEF Idle, TxRows, Statements
<1>4. /\ Idle(outcome).at = "idle" /\ Idle(outcome).call = None /\ Idle(outcome).holds = {}
      /\ Idle(outcome).outcome = outcome
  BY DEF Idle
<1>. HIDE DEF Idle
<1>5. tx'[s] = Idle(outcome) /\ \A t \in Sessions \ {s} : tx'[t] = tx[t]
  BY <1>1, <1>2
<1>6. TypedTx'
  BY <1>1, <1>2, <1>3 DEF TypedTx
<1>. QED
  BY <1>2, <1>4, <1>5, <1>6

(* What a session that ends leaves behind, or one that has nothing yet.    *)
LEMMA IdleFits ==
  ASSUME NEW x, x.at = "idle", x.call = None, x.holds = {}
  PROVE  SessionFits(x)
BY HistoricalAssumption
DEF SessionFits, CallFits, ReviewFits, SealFits, MoveFits, Services, MoveStages

(* A session that takes rows nobody holds, or none, and goes on.           *)
LEMMA LockKeeps ==
  ASSUME HistoricalInv, NEW s \in Sessions, NEW rows, NEW next \in Statements,
         Lock(s, rows, next),
         ASSUME NEW x, x.at = next, x.call = tx[s].call, x.ask = tx[s].ask,
                x.holds = tx[s].holds \cup rows
         PROVE  SessionFits(x)
  PROVE  HistoricalInv'
<1>1. TypedTx /\ TablesInv
  BY DEF HistoricalInv, SessionsInv
<1>2. /\ TypedTx' /\ UNCHANGED <<tables, started>>
      /\ tx'[s].at = next /\ tx'[s].call = tx[s].call /\ tx'[s].ask = tx[s].ask
      /\ tx'[s].holds = tx[s].holds \cup rows
      /\ \A t \in Sessions \ {s} : tx'[t] = tx[t] /\ tx[t].holds \cap rows = {}
  BY <1>1, LockFields
<1>3. TablesInv'
  BY <1>1, <1>2, TablesStay
<1>4. \A t \in Sessions : SessionFits(tx[t])'
  <2>1. PICK x : x = tx'[s]
    OBVIOUS
  <2>2. SessionFits(x)
    BY <1>2, <2>1
  <2>3. SessionFits(x)'
    BY <1>2, <2>2, FitsStays
  <2>4. ASSUME NEW t \in Sessions \ {s} PROVE SessionFits(tx[t])'
    <3>1. PICK y : y = tx[t]
      OBVIOUS
    <3>2. SessionFits(y)
      BY <3>1 DEF HistoricalInv, SessionsInv
    <3>3. SessionFits(y)'
      BY <1>2, <3>2, FitsStays
    <3>. QED
      BY <1>2, <3>1, <3>3
  <2>. QED
    BY <2>1, <2>3, <2>4
<1>5. \A t, u \in Sessions : t # u => Apart(tx[t], tx[u])'
  BY <1>2 DEF HistoricalInv, SessionsInv, Apart
<1>. QED
  BY <1>2, <1>3, <1>4, <1>5 DEF HistoricalInv, SessionsInv

(* A transaction that ends without a change: every refusal, every answer   *)
(* to a retry and every lost connection.                                   *)
LEMMA EndKeeps ==
  ASSUME HistoricalInv, NEW s \in Sessions, NEW outcome \in {"done", "refused"},
         End(s, outcome), UNCHANGED tables
  PROVE  HistoricalInv'
<1>1. TypedTx /\ TablesInv
  BY DEF HistoricalInv, SessionsInv
<1>2. /\ TypedTx' /\ UNCHANGED started
      /\ tx'[s].at = "idle" /\ tx'[s].call = None /\ tx'[s].holds = {}
      /\ \A t \in Sessions \ {s} : tx'[t] = tx[t]
  BY <1>1, EndFields
<1>3. TablesInv'
  BY <1>1, TablesStay
<1>4. \A t \in Sessions : SessionFits(tx[t])'
  <2>1. PICK x : x = tx'[s]
    OBVIOUS
  <2>2. SessionFits(x)
    BY <1>2, <2>1, IdleFits
  <2>3. SessionFits(x)'
    BY <2>2, FitsStays
  <2>4. ASSUME NEW t \in Sessions \ {s} PROVE SessionFits(tx[t])'
    <3>1. PICK y : y = tx[t]
      OBVIOUS
    <3>2. SessionFits(y)
      BY <3>1 DEF HistoricalInv, SessionsInv
    <3>3. SessionFits(y)'
      BY <3>2, FitsStays
    <3>. QED
      BY <1>2, <3>1, <3>3
  <2>. QED
    BY <2>1, <2>3, <2>4
<1>5. \A t, u \in Sessions : t # u => Apart(tx[t], tx[u])'
  BY <1>2, HistoricalAssumption DEF HistoricalInv, SessionsInv, Apart, Services
<1>. QED
  BY <1>1, <1>2, <1>3, <1>4, <1>5 DEF HistoricalInv, SessionsInv

LEMMA Entries ==
  ASSUME NEW call \in Services
  PROVE  /\ call = "review" => FirstStatement(call) = "find_decision"
         /\ call = "seal" => FirstStatement(call) = "lock_reviews"
         /\ call = "transition" => FirstStatement(call) = "lock_channel"
         /\ call = "review" => AfterActor(call) = "approve_lock_collection"
         /\ call = "seal" => AfterActor(call) = "seal_lock_existing"
         /\ call = "transition" => AfterActor(call) = "lock_channel"
BY Zenon DEF Services, FirstStatement, AfterActor

(* What a session is before its first statement that matters.              *)
LEMMA EnteredFits ==
  ASSUME NEW x, CallFits(x), x.at \in {"lock_actor", "lock_reviews", "lock_channel",
           "find_decision", "approve_lock_collection", "seal_lock_existing", "lock_collection"},
         x.call = "seal" => \A b \in bundles : b.id # x.ask.id
  PROVE  SessionFits(x)
BY DEF SessionFits, ReviewFits, SealFits, MoveFits, MoveStages

(* A call begins; a seal has drawn an id that is nobody else's.            *)
LEMMA OpenKeeps ==
  ASSUME HistoricalInv, NEW s \in Sessions, NEW call \in Services,
         NEW ask \in ReviewCalls \cup SealCalls \cup TransitionCalls,
         call = "review" => ask \in ReviewCalls,
         call = "seal" => /\ ask \in SealCalls
                          /\ \A b \in bundles : b.id # ask.id
                          /\ \A t \in Sessions : tx[t].call = "seal" => Ask(t).id # ask.id,
         call = "transition" => ask \in TransitionCalls,
         Open(s, call, ask)
  PROVE  HistoricalInv'
<1>. DEFINE first == IF ask.actor = None THEN FirstStatement(call) ELSE "lock_actor"
            row == [at |-> first, call |-> call, ask |-> ask, holds |-> {}, outcome |-> "open"]
<1>1. PICK H : tx \in [Sessions -> TxRows(H)]
  BY DEF HistoricalInv, SessionsInv, TypedTx
<1>2. tx' = [tx EXCEPT ![s] = row] /\ started' = started + 1 /\ started < MaxCalls /\ UNCHANGED tables
  BY DEF Open
<1>3. /\ first \in Statements
      /\ first \in {"lock_actor", "lock_reviews", "lock_channel", "find_decision"}
      /\ call = "review" => first \in {"lock_actor", "find_decision"}
      /\ call = "seal" => first \in {"lock_actor", "lock_reviews"}
      /\ call = "transition" => first \in {"lock_actor", "lock_channel"}
  BY Entries DEF Services, Statements
<1>. HIDE DEF first
<1>4. PICK x : x = row
  OBVIOUS
<1>5. x.at = first /\ x.call = call /\ x.ask = ask /\ x.holds = {} /\ x \in TxRows(H)
  BY <1>3, <1>4 DEF TxRows
<1>6. tx'[s] = x /\ \A t \in Sessions \ {s} : tx'[t] = tx[t]
  BY <1>1, <1>2, <1>4
<1>7. TypedTx'
  BY <1>1, <1>2, <1>4, <1>5 DEF TypedTx
<1>8. TablesInv'
  BY <1>2, TablesStay DEF HistoricalInv
<1>9. SessionFits(x)
  <2>1. CallFits(x)
    BY <1>3, <1>5 DEF CallFits, Services, ReviewStages, SealStages, MoveStages
  <2>. QED
    BY <1>3, <1>5, <2>1, EnteredFits
<1>10. \A t \in Sessions : SessionFits(tx[t])'
  <2>1. SessionFits(x)'
    BY <1>2, <1>9, FitsStays
  <2>2. ASSUME NEW t \in Sessions \ {s} PROVE SessionFits(tx[t])'
    <3>1. PICK y : y = tx[t]
      OBVIOUS
    <3>2. SessionFits(y)
      BY <3>1 DEF HistoricalInv, SessionsInv
    <3>3. SessionFits(y)'
      BY <1>2, <3>2, FitsStays
    <3>. QED
      BY <1>6, <3>1, <3>3
  <2>. QED
    BY <1>6, <2>1, <2>2
<1>11. \A t, u \in Sessions : t # u => Apart(tx[t], tx[u])'
  BY <1>5, <1>6 DEF HistoricalInv, SessionsInv, Apart, Ask
<1>12. started' \in 0 .. MaxCalls
  BY <1>2, HistoricalAssumption DEF HistoricalInv, SessionsInv
<1>. QED
  BY <1>7, <1>8, <1>10, <1>11, <1>12 DEF HistoricalInv, SessionsInv

-----------------------------------------------------------------------------
(* The steps that lock rows.                                               *)

LEMMA CallersAt ==
  ASSUME HistoricalInv, NEW s \in Sessions
  PROVE  /\ SessionFits(tx[s])
         /\ tx[s].at \in ReviewStages =>
              tx[s].call = "review" /\ tx[s].ask \in ReviewCalls
         /\ tx[s].at \in SealStages =>
              /\ tx[s].call = "seal" /\ tx[s].ask \in SealCalls
              /\ \A b \in bundles : b.id # tx[s].ask.id
         /\ tx[s].at \in MoveStages =>
              tx[s].call = "transition" /\ tx[s].ask \in TransitionCalls
<1>1. SessionFits(tx[s])
  BY DEF HistoricalInv, SessionsInv
<1>. QED
  BY <1>1 DEF SessionFits, CallFits, SealFits, ReviewStages, SealStages, MoveStages

LEMMA LockActorKeeps ==
  ASSUME HistoricalInv, NEW s \in Sessions, LockActor(s)
  PROVE  HistoricalInv'
<1>. DEFINE next == AfterActor(tx[s].call)
<1>1. SessionFits(tx[s]) /\ tx[s].at = "lock_actor" /\ Lock(s, {<<"actor", Ask(s).actor>>}, next)
  BY CallersAt DEF LockActor, At
<1>2. /\ tx[s].call \in Services
      /\ tx[s].call = "review" => next = "approve_lock_collection" /\ tx[s].ask \in ReviewCalls
      /\ tx[s].call = "seal" => next = "seal_lock_existing" /\ tx[s].ask \in SealCalls
      /\ tx[s].call = "transition" => next = "lock_channel" /\ tx[s].ask \in TransitionCalls
  <2>1. tx[s].call \in Services
    BY <1>1 DEF SessionFits, CallFits, Services
  <2>. QED
    BY <1>1, <2>1, Entries DEF SessionFits, CallFits, Services
<1>3. next \in Statements
  BY <1>2 DEF Services, Statements
<1>4. ASSUME NEW x, x.at = next, x.call = tx[s].call, x.ask = tx[s].ask
      PROVE  SessionFits(x)
  <2>. HIDE DEF next
  <2>1. CallFits(x)
    BY <1>2, <1>4 DEF CallFits, Services, ReviewStages, SealStages, MoveStages
  <2>2. x.call = "seal" => \A b \in bundles : b.id # x.ask.id
    BY <1>1, <1>4 DEF SessionFits, SealFits
  <2>. QED
    BY <1>2, <1>4, <2>1, <2>2, EnteredFits DEF Services
<1>. HIDE DEF next
<1>. QED
  BY <1>1, <1>3, <1>4, LockKeeps

LEMMA ApproveLockCollectionKeeps ==
  ASSUME HistoricalInv, NEW s \in Sessions, ApproveLockCollection(s)
  PROVE  HistoricalInv'
<1>1. tx[s].at = "approve_lock_collection" /\ tx[s].call = "review" /\ tx[s].ask \in ReviewCalls
  BY CallersAt DEF ApproveLockCollection, At, ReviewStages
<1>2. PICK rows : Lock(s, rows, "find_decision")
  BY DEF ApproveLockCollection
<1>3. ASSUME NEW x, x.at = "find_decision", x.call = tx[s].call, x.ask = tx[s].ask
      PROVE  SessionFits(x)
  BY <1>1, <1>3, EnteredFits DEF CallFits, ReviewStages
<1>. QED
  BY <1>2, <1>3, LockKeeps DEF Statements

LEMMA FindDecisionKeeps ==
  ASSUME HistoricalInv, NEW s \in Sessions, FindDecision(s)
  PROVE  HistoricalInv'
<1>1. tx[s].at = "find_decision" /\ tx[s].call = "review" /\ tx[s].ask \in ReviewCalls
  BY CallersAt DEF FindDecision, At, ReviewStages
<1>2. ASSUME NEW x, x.at = "lock_collection", x.call = tx[s].call, x.ask = tx[s].ask
      PROVE  SessionFits(x)
  BY <1>1, <1>2, EnteredFits DEF CallFits, ReviewStages
<1>3. CASE Lock(s, {}, "lock_collection")
  BY <1>2, <1>3, LockKeeps DEF Statements
<1>4. CASE \E outcome \in {"done", "refused"} : End(s, outcome) /\ UNCHANGED tables
  BY <1>4, EndKeeps
<1>. QED
  BY <1>3, <1>4 DEF FindDecision, Proceed, Refuse

LEMMA LockCollectionKeeps ==
  ASSUME HistoricalInv, NEW s \in Sessions, LockCollection(s)
  PROVE  HistoricalInv'
<1>1. tx[s].at = "lock_collection" /\ tx[s].call = "review" /\ tx[s].ask \in ReviewCalls
  BY CallersAt DEF LockCollection, At, ReviewStages
<1>2. PICK rows : rows = {<<"collection", Ask(s).row.collection>>} /\ Lock(s, rows, "lock_decisions")
  BY DEF LockCollection
<1>3. ASSUME NEW x, x.at = "lock_decisions", x.call = tx[s].call, x.ask = tx[s].ask,
             x.holds = tx[s].holds \cup rows
      PROVE  SessionFits(x)
  <2>1. CallFits(x)
    BY <1>1, <1>3 DEF CallFits, ReviewStages
  <2>2. ReviewFits(x)
    BY <1>1, <1>2, <1>3 DEF ReviewFits, Ask
  <2>. QED
    BY <1>1, <1>3, <2>1, <2>2 DEF SessionFits, SealFits, MoveFits, MoveStages
<1>. QED
  BY <1>2, <1>3, LockKeeps DEF Statements

LEMMA LockDecisionsKeeps ==
  ASSUME HistoricalInv, NEW s \in Sessions, LockDecisions(s)
  PROVE  HistoricalInv'
<1>1. tx[s].at = "lock_decisions" /\ tx[s].call = "review" /\ tx[s].ask \in ReviewCalls
  BY CallersAt DEF LockDecisions, At, ReviewStages
<1>2. PICK rows : /\ rows = {<<"decision", d.id>> : d \in OfCollection(Ask(s).row.collection)}
                  /\ Lock(s, rows, "insert_decision")
  BY DEF LockDecisions
<1>3. ASSUME NEW x, x.at = "insert_decision", x.call = tx[s].call, x.ask = tx[s].ask,
             x.holds = tx[s].holds \cup rows
      PROVE  SessionFits(x)
  <2>1. CallFits(x)
    BY <1>1, <1>3 DEF CallFits, ReviewStages
  <2>2. <<"collection", x.ask.row.collection>> \in x.holds
    BY CallersAt, <1>1, <1>3 DEF SessionFits, ReviewFits
  <2>3. ReviewFits(x)
    BY <1>1, <1>2, <1>3, <2>2 DEF ReviewFits, Ask
  <2>. QED
    BY <1>1, <1>3, <2>1, <2>3 DEF SessionFits, SealFits, MoveFits, MoveStages
<1>. QED
  BY <1>2, <1>3, LockKeeps DEF Statements

LEMMA InsertDecisionKeeps ==
  ASSUME HistoricalInv, NEW s \in Sessions, InsertDecision(s)
  PROVE  HistoricalInv'
<1>1. tx[s].at = "insert_decision" /\ tx[s].call = "review" /\ tx[s].ask \in ReviewCalls
  BY CallersAt DEF InsertDecision, At, ReviewStages
<1>2. CASE DecisionAdmissible(Ask(s).row)
  <2>1. PICK rows : rows = {<<"new decision", Ask(s).row.id>>} /\ Lock(s, rows, "commit_decision")
    BY <1>2 DEF InsertDecision
  <2>2. ASSUME NEW x, x.at = "commit_decision", x.call = tx[s].call, x.ask = tx[s].ask,
               x.holds = tx[s].holds \cup rows
        PROVE  SessionFits(x)
    <3>1. CallFits(x)
      BY <1>1, <2>2 DEF CallFits, ReviewStages
    <3>2. ReviewFits(tx[s])
      BY CallersAt DEF SessionFits
    <3>3. ReviewFits(x)
      BY <1>1, <1>2, <2>1, <2>2, <3>2 DEF ReviewFits, Ask
    <3>. QED
      BY <1>1, <2>2, <3>1, <3>3 DEF SessionFits, SealFits, MoveFits, MoveStages
  <2>. QED
    BY <2>1, <2>2, LockKeeps DEF Statements
<1>3. CASE ~DecisionAdmissible(Ask(s).row)
  BY <1>3, EndKeeps DEF InsertDecision, Refuse
<1>. QED
  BY <1>2, <1>3

LEMMA SealLockExistingKeeps ==
  ASSUME HistoricalInv, NEW s \in Sessions, SealLockExisting(s)
  PROVE  HistoricalInv'
<1>1. /\ tx[s].at = "seal_lock_existing" /\ tx[s].call = "seal" /\ tx[s].ask \in SealCalls
      /\ \A b \in bundles : b.id # tx[s].ask.id
  BY CallersAt DEF SealLockExisting, At, SealStages
<1>2. PICK rows : Lock(s, rows, "lock_reviews")
  BY DEF SealLockExisting
<1>3. ASSUME NEW x, x.at = "lock_reviews", x.call = tx[s].call, x.ask = tx[s].ask
      PROVE  SessionFits(x)
  BY <1>1, <1>3, EnteredFits DEF CallFits, SealStages
<1>. QED
  BY <1>2, <1>3, LockKeeps DEF Statements

(* Three rows for three UUIDs: each of them names one.                     *)
LEMMA ThreeReviews ==
  ASSUME DecisionsInv, NEW ask, Cardinality(ReviewsNamed(ask)) = 3, NEW k \in Kinds
  PROVE  \E d \in decisions : d.id = ask.reviews[k]
<1>. SUFFICES ASSUME DecisionsNamed(ask.reviews[k]) = {} PROVE FALSE
  BY DEF DecisionsNamed
<1>. DEFINE one(i) == CHOOSE d \in decisions : d.id = ask.reviews[i]
<1>1. \A i \in Kinds : DecisionsNamed(ask.reviews[i]) \subseteq {one(i)}
  BY DEF DecisionsInv, DecisionsNamed
<1>2. PICK i \in Kinds, j \in Kinds : Kinds = {i, j, k}
  <2>1. CASE k = "MONTHLY"
    BY <2>1 DEF Kinds
  <2>2. CASE k = "REGIONAL_DAILY"
    <3>1. Kinds = {"MONTHLY", "MARKET_DAILY", k}
      BY <2>2 DEF Kinds
    <3>. QED
      BY <3>1
  <2>3. CASE k = "MARKET_DAILY"
    <3>1. Kinds = {"MONTHLY", "REGIONAL_DAILY", k}
      BY <2>3 DEF Kinds
    <3>. QED
      BY <3>1
  <2>. QED
    BY <2>1, <2>2, <2>3 DEF Kinds
<1>3. PICK a : a = one(i)
  OBVIOUS
<1>4. PICK c : c = one(j)
  OBVIOUS
<1>5. ReviewsNamed(ask) \subseteq {a, c}
  <2>. SUFFICES ASSUME NEW d \in ReviewsNamed(ask) PROVE d \in {a, c}
    OBVIOUS
  <2>1. PICK l \in Kinds : d \in DecisionsNamed(ask.reviews[l])
    BY DEF ReviewsNamed
  <2>2. l \in {i, j}
    BY <1>2, <2>1
  <2>. HIDE DEF one
  <2>. QED
    BY <1>1, <1>3, <1>4, <2>1, <2>2
<1>6. IsFiniteSet({a, c}) /\ Cardinality({a, c}) <= 2
  <2>1. IsFiniteSet({a}) /\ Cardinality({a}) = 1
    BY FS_Singleton
  <2>2. {a, c} = {a} \cup {c}
    OBVIOUS
  <2>. QED
    BY <2>1, <2>2, FS_AddElement
<1>. QED
  BY <1>5, <1>6, FS_Subset, FS_CardinalityType

LEMMA LockReviewsKeeps ==
  ASSUME HistoricalInv, NEW s \in Sessions, LockReviews(s)
  PROVE  HistoricalInv'
<1>1. /\ tx[s].at = "lock_reviews" /\ tx[s].call = "seal" /\ tx[s].ask \in SealCalls
      /\ \A b \in bundles : b.id # tx[s].ask.id
  BY CallersAt DEF LockReviews, At, SealStages
<1>2. CASE /\ Cardinality(ReviewsNamed(Ask(s))) = 3
           /\ Lock(s, ReviewRows(ReviewsNamed(Ask(s))), "find_bundle")
  <2>1. PICK rows : rows = ReviewRows(ReviewsNamed(Ask(s))) /\ Lock(s, rows, "find_bundle")
    BY <1>2
  <2>2. ASSUME NEW x, x.at = "find_bundle", x.call = tx[s].call, x.ask = tx[s].ask,
               x.holds = tx[s].holds \cup rows
        PROVE  SessionFits(x)
    <3>1. CallFits(x)
      BY <1>1, <2>2 DEF CallFits, SealStages
    <3>2. ASSUME NEW k \in Kinds PROVE HoldsReview(x, x.ask.reviews[k])
      <4>1. PICK d \in decisions : d.id = x.ask.reviews[k]
        BY <1>2, <2>2, ThreeReviews DEF HistoricalInv, TablesInv, Ask
      <4>2. d \in DecisionsNamed(x.ask.reviews[k])
        BY <4>1 DEF DecisionsNamed
      <4>3. d \in ReviewsNamed(Ask(s))
        BY <2>2, <4>2 DEF ReviewsNamed, Ask
      <4>4. <<"collection", d.collection>> \in rows /\ <<"source", KindOf[d.collection]>> \in rows
        BY <2>1, <4>3 DEF ReviewRows
      <4>. QED
        BY <2>2, <4>2, <4>4 DEF HoldsReview
    <3>3. SealFits(x)
      BY <1>1, <2>2, <3>2 DEF SealFits
    <3>. QED
      BY <1>1, <2>2, <3>1, <3>3 DEF SessionFits, ReviewFits, MoveFits, MoveStages
  <2>. QED
    BY <2>1, <2>2, LockKeeps DEF Statements
<1>3. CASE Refuse(s)
  BY <1>3, EndKeeps DEF Refuse
<1>. QED
  BY <1>2, <1>3 DEF LockReviews

LEMMA FindBundleKeeps ==
  ASSUME HistoricalInv, NEW s \in Sessions, FindBundle(s)
  PROVE  HistoricalInv'
<1>1. /\ tx[s].at = "find_bundle" /\ tx[s].call = "seal" /\ tx[s].ask \in SealCalls
      /\ \A b \in bundles : b.id # tx[s].ask.id
  BY CallersAt DEF FindBundle, At, SealStages
<1>2. CASE /\ Sealable(Ask(s)) /\ {b \in bundles : SameFacts(b, BundleOf(Ask(s)))} = {}
           /\ Lock(s, {}, "insert_bundle")
  <2>1. ASSUME NEW x, x.at = "insert_bundle", x.call = tx[s].call, x.ask = tx[s].ask,
               x.holds = tx[s].holds \cup {}
        PROVE  SessionFits(x)
    <3>1. CallFits(x)
      BY <1>1, <2>1 DEF CallFits, SealStages
    <3>2. \A k \in Kinds : HoldsReview(x, x.ask.reviews[k])
      BY <1>1, <2>1, CallersAt DEF SessionFits, SealFits, HoldsReview
    <3>3. SealFits(x)
      BY <1>1, <1>2, <2>1, <3>2 DEF SealFits, Ask
    <3>. QED
      BY <1>1, <2>1, <3>1, <3>3 DEF SessionFits, ReviewFits, MoveFits, MoveStages
  <2>. QED
    BY <1>2, <2>1, LockKeeps DEF Statements
<1>3. CASE \E outcome \in {"done", "refused"} : End(s, outcome) /\ UNCHANGED tables
  BY <1>3, EndKeeps
<1>. QED
  BY <1>2, <1>3 DEF FindBundle, Proceed, Refuse

LEMMA InsertBundleKeeps ==
  ASSUME HistoricalInv, NEW s \in Sessions, InsertBundle(s)
  PROVE  HistoricalInv'
<1>1. /\ tx[s].at = "insert_bundle" /\ tx[s].call = "seal" /\ tx[s].ask \in SealCalls
      /\ \A b \in bundles : b.id # tx[s].ask.id
  BY CallersAt DEF InsertBundle, At, SealStages
<1>2. CASE Lock(s, {}, "commit_bundle")
  <2>1. ASSUME NEW x, x.at = "commit_bundle", x.call = tx[s].call, x.ask = tx[s].ask,
               x.holds = tx[s].holds \cup {}
        PROVE  SessionFits(x)
    <3>1. CallFits(x)
      BY <1>1, <2>1 DEF CallFits, SealStages
    <3>2. SealFits(x)
      BY <1>1, <2>1, CallersAt DEF SessionFits, SealFits, HoldsReview
    <3>. QED
      BY <1>1, <2>1, <3>1, <3>2 DEF SessionFits, ReviewFits, MoveFits, MoveStages
  <2>. QED
    BY <1>2, <2>1, LockKeeps DEF Statements
<1>3. CASE Refuse(s)
  BY <1>3, EndKeeps DEF Refuse
<1>. QED
  BY <1>2, <1>3 DEF InsertBundle, Proceed

LEMMA LockChannelKeeps ==
  ASSUME HistoricalInv, NEW s \in Sessions, LockChannel(s)
  PROVE  HistoricalInv'
<1>1. tx[s].at = "lock_channel" /\ tx[s].call = "transition" /\ tx[s].ask \in TransitionCalls
  BY CallersAt DEF LockChannel, At, MoveStages
<1>2. ASSUME NEW x, x.at = "find_activation", x.call = tx[s].call, x.ask = tx[s].ask,
             x.holds = tx[s].holds \cup {<<"channel", None>>}
      PROVE  SessionFits(x)
  BY <1>1, <1>2 DEF SessionFits, CallFits, ReviewFits, SealFits, MoveFits, MoveStages
<1>. QED
  BY <1>2, LockKeeps DEF LockChannel, Statements

LEMMA FindActivationKeeps ==
  ASSUME HistoricalInv, NEW s \in Sessions, FindActivation(s)
  PROVE  HistoricalInv'
<1>1. /\ tx[s].at = "find_activation" /\ tx[s].call = "transition" /\ tx[s].ask \in TransitionCalls
      /\ <<"channel", None>> \in tx[s].holds
  BY CallersAt DEF FindActivation, At, MoveStages, SessionFits, MoveFits
<1>2. CASE \E outcome \in {"done", "refused"} : End(s, outcome) /\ UNCHANGED tables
  BY <1>2, EndKeeps
<1>3. CASE Movable(Ask(s).row) /\ Ask(s).row.operation = "WITHDRAW" /\ Lock(s, {}, "insert_activation")
  <2>1. ASSUME NEW x, x.at = "insert_activation", x.call = tx[s].call, x.ask = tx[s].ask,
               x.holds = tx[s].holds \cup {}
        PROVE  SessionFits(x)
    <3>1. CallFits(x)
      BY <1>1, <2>1 DEF CallFits, MoveStages
    <3>2. MoveFits(x)
      BY <1>1, <1>3, <2>1 DEF MoveFits, Ask
    <3>. QED
      BY <1>1, <2>1, <3>1, <3>2 DEF SessionFits, ReviewFits, SealFits
  <2>. QED
    BY <1>3, <2>1, LockKeeps DEF Statements
<1>4. CASE Movable(Ask(s).row) /\ Lock(s, {}, "lock_target")
  <2>1. ASSUME NEW x, x.at = "lock_target", x.call = tx[s].call, x.ask = tx[s].ask,
               x.holds = tx[s].holds \cup {}
        PROVE  SessionFits(x)
    <3>1. CallFits(x)
      BY <1>1, <2>1 DEF CallFits, MoveStages
    <3>2. MoveFits(x)
      BY <1>1, <1>4, <2>1 DEF MoveFits, Ask
    <3>. QED
      BY <1>1, <2>1, <3>1, <3>2 DEF SessionFits, ReviewFits, SealFits
  <2>. QED
    BY <1>4, <2>1, LockKeeps DEF Statements
<1>. QED
  BY <1>2, <1>3, <1>4 DEF FindActivation, Proceed, Refuse

LEMMA LockTargetKeeps ==
  ASSUME HistoricalInv, NEW s \in Sessions, LockTarget(s)
  PROVE  HistoricalInv'
<1>1. /\ tx[s].at = "lock_target" /\ tx[s].call = "transition" /\ tx[s].ask \in TransitionCalls
      /\ <<"channel", None>> \in tx[s].holds /\ Movable(tx[s].ask.row)
  BY CallersAt DEF LockTarget, At, MoveStages, SessionFits, MoveFits
<1>2. CASE Refuse(s)
  BY <1>2, EndKeeps DEF Refuse
<1>3. CASE ~Refuse(s)
  <2>1. PICK rows : /\ rows = UNION {TargetRows(b) : b \in BundlesNamed(Ask(s).row.target)}
                    /\ Lock(s, rows, "insert_activation")
    BY <1>3 DEF LockTarget
  <2>2. PICK b \in BundlesNamed(Ask(s).row.target) : TRUE
    BY <1>3 DEF LockTarget
  <2>3. TargetRows(b) \subseteq rows
    BY <2>1, <2>2
  <2>4. ASSUME NEW x, x.at = "insert_activation", x.call = tx[s].call, x.ask = tx[s].ask,
               x.holds = tx[s].holds \cup rows
        PROVE  SessionFits(x)
    <3>1. CallFits(x)
      BY <1>1, <2>4 DEF CallFits, MoveStages
    <3>2. \E q \in BundlesNamed(x.ask.row.target) : TargetRows(q) \subseteq x.holds
      BY <2>2, <2>3, <2>4 DEF Ask
    <3>3. MoveFits(x)
      BY <1>1, <2>4, <3>2 DEF MoveFits
    <3>. QED
      BY <1>1, <2>4, <3>1, <3>3 DEF SessionFits, ReviewFits, SealFits
  <2>. QED
    BY <2>1, <2>4, LockKeeps DEF Statements
<1>. QED
  BY <1>2, <1>3

LEMMA InsertActivationKeeps ==
  ASSUME HistoricalInv, NEW s \in Sessions, InsertActivation(s)
  PROVE  HistoricalInv'
<1>1. tx[s].at = "insert_activation" /\ tx[s].call = "transition" /\ tx[s].ask \in TransitionCalls
  BY CallersAt DEF InsertActivation, At, MoveStages
<1>2. CASE TargetAdmissible(Ask(s).row) /\ Lock(s, {}, "commit_activation")
  <2>1. ASSUME NEW x, x.at = "commit_activation", x.call = tx[s].call, x.ask = tx[s].ask,
               x.holds = tx[s].holds \cup {}
        PROVE  SessionFits(x)
    <3>1. CallFits(x)
      BY <1>1, <2>1 DEF CallFits, MoveStages
    <3>2. MoveFits(tx[s])
      BY CallersAt DEF SessionFits
    <3>3. MoveFits(x)
      BY <1>1, <1>2, <2>1, <3>2 DEF MoveFits, MoveStages, Ask
    <3>. QED
      BY <1>1, <2>1, <3>1, <3>3 DEF SessionFits, ReviewFits, SealFits
  <2>. QED
    BY <1>2, <2>1, LockKeeps DEF Statements
<1>3. CASE Refuse(s)
  BY <1>3, EndKeeps DEF Refuse
<1>. QED
  BY <1>2, <1>3 DEF InsertActivation, Proceed

-----------------------------------------------------------------------------
(* The steps that change a table.                                          *)

LEMMA IdleFitsNext ==
  ASSUME NEW x, x.at = "idle", x.call = None, x.holds = {}
  PROVE  SessionFits(x)'
BY HistoricalAssumption
DEF SessionFits, CallFits, ReviewFits, SealFits, MoveFits, Services, MoveStages

(* A commit that leaves the tables in order and the other sessions in      *)
(* their stages.                                                           *)
LEMMA CommitKeeps ==
  ASSUME HistoricalInv, NEW s \in Sessions, End(s, "done"), TablesInv',
         ASSUME NEW y, SessionFits(y), Apart(tx[s], y) PROVE SessionFits(y)'
  PROVE  HistoricalInv'
<1>1. TypedTx
  BY DEF HistoricalInv, SessionsInv
<1>2. /\ TypedTx' /\ UNCHANGED started
      /\ tx'[s].at = "idle" /\ tx'[s].call = None /\ tx'[s].holds = {}
      /\ \A t \in Sessions \ {s} : tx'[t] = tx[t]
  BY <1>1, EndFields
<1>3. \A t \in Sessions : SessionFits(tx[t])'
  <2>1. PICK x : x = tx'[s]
    OBVIOUS
  <2>2. SessionFits(x)'
    BY <1>2, <2>1, IdleFitsNext
  <2>3. ASSUME NEW t \in Sessions \ {s} PROVE SessionFits(tx[t])'
    <3>1. PICK y : y = tx[t]
      OBVIOUS
    <3>2. SessionFits(y) /\ Apart(tx[s], y)
      BY <3>1 DEF HistoricalInv, SessionsInv
    <3>3. SessionFits(y)'
      BY <3>2
    <3>. QED
      BY <1>2, <3>1, <3>3
  <2>. QED
    BY <2>1, <2>2, <2>3
<1>4. \A t, u \in Sessions : t # u => Apart(tx[t], tx[u])'
  BY <1>2, HistoricalAssumption DEF HistoricalInv, SessionsInv, Apart, Services
<1>. QED
  BY <1>2, <1>3, <1>4 DEF HistoricalInv, SessionsInv

LEMMA NamedContent ==
  ASSUME DecisionsInv, NEW d \in decisions
  PROVE  ContentReviewed(d.id) = content[d.collection]
<1>1. (CHOOSE e \in decisions : e.id = d.id) = d
  BY DEF DecisionsInv
<1>. QED
  BY <1>1 DEF ContentReviewed

LEMMA NamedContentNext ==
  ASSUME DecisionsInv', NEW d \in decisions'
  PROVE  ContentReviewed(d.id)' = content'[d.collection]
<1>1. (CHOOSE e \in decisions' : e.id = d.id) = d
  BY DEF DecisionsInv
<1>2. PICK w : w = d.id
  OBVIOUS
<1>3. ContentReviewed(w)' = content'[(CHOOSE e \in decisions' : e.id = w).collection]
  BY DEF ContentReviewed
<1>. QED
  BY <1>1, <1>2, <1>3

(* Approvals that nothing new supersedes still describe the same bundle.   *)
LEMMA ReviewsStay ==
  ASSUME DecisionsInv, DecisionsInv', decisions \subseteq decisions',
         \A d \in decisions : content'[d.collection] = content[d.collection],
         NEW ask, \A k \in Kinds : Approves(ask.reviews[k], k),
         \A e \in decisions' \ decisions : \A k \in Kinds : e.supersedes # ask.reviews[k]
  PROVE  /\ BundleOf(ask)' = BundleOf(ask)
         /\ Sealable(ask) => Sealable(ask)'
<1>1. ASSUME NEW k \in Kinds
      PROVE  /\ Approves(ask.reviews[k], k)'
             /\ ContentReviewed(ask.reviews[k])' = ContentReviewed(ask.reviews[k])
  <2>1. PICK d \in decisions : /\ d.id = ask.reviews[k] /\ d.verdict = "APPROVE"
                               /\ ~IsSuperseded(d.id) /\ KindOf[d.collection] = k
    BY DEF Approves, DecisionsNamed
  <2>2. ~IsSuperseded(ask.reviews[k])'
    BY <2>1 DEF IsSuperseded
  <2>3. Approves(ask.reviews[k], k)'
    BY <2>1, <2>2 DEF Approves, DecisionsNamed
  <2>4. PICK w : w = ask.reviews[k]
    OBVIOUS
  <2>5. d \in decisions' /\ d.id = w
    BY <2>1, <2>4
  <2>6. ContentReviewed(w) = content[d.collection]
    BY <2>5, NamedContent
  <2>7. ContentReviewed(w)' = content'[d.collection]
    BY <2>5, NamedContentNext
  <2>. QED
    BY <2>3, <2>4, <2>6, <2>7
<1>2. Parts(ask)' = Parts(ask)
  BY <1>1 DEF Parts
<1>. QED
  BY <1>1, <1>2 DEF BundleOf, Sealable

(* While a session holds a review, its collection gets no other review.    *)
LEMMA HeldReviewsStand ==
  ASSUME DecisionsInv, NEW d, DecisionAdmissible(d), NEW f \in decisions,
         f.collection # d.collection
  PROVE  d.supersedes # f.id
BY HistoricalAssumption DEF DecisionsInv, DecisionAdmissible, ExtendsChain, OfCollection, DecisionRow

LEMMA CommitDecisionKeepsTables ==
  ASSUME TablesInv, NEW d \in DecisionRow, DecisionAdmissible(d), decisions' = decisions \cup {d},
         UNCHANGED <<content, bundles, activations, channel>>
  PROVE  TablesInv'
<1>1. ContentInv' /\ LogInv'
  BY DEF TablesInv, ContentInv, LogInv
<1>2. /\ decisions \subseteq DecisionRow
      /\ \A e, f \in decisions : e.id = f.id => e = f
      /\ \A e \in decisions : content[e.collection] # None
      /\ \A e \in decisions : e.supersedes # None =>
           \E f \in OfCollection(e.collection) : f.id = e.supersedes
      /\ ReviewChains
  BY DEF TablesInv, DecisionsInv
<1>3. \A e \in decisions : e.id # d.id
  BY DEF DecisionAdmissible, DecisionsNamed
<1>4. content[d.collection] # None /\ ExtendsChain(d)
  BY DEF DecisionAdmissible
<1>5. d.id # None
  BY HistoricalAssumption DEF DecisionRow
<1>6. ~IsSuperseded(d.id)
  BY <1>2, <1>3, <1>5 DEF IsSuperseded, OfCollection
<1>7. d.supersedes # d.id
  BY <1>3, <1>4, <1>5 DEF ExtendsChain, OfCollection
<1>8. ReviewChains'
  <2>. SUFFICES ASSUME NEW c \in Collections
                PROVE  /\ \A e, f \in OfCollection(c)' : e.supersedes = f.supersedes => e = f
                       /\ OfCollection(c)' # {} => \E e \in OfCollection(c)' : ~IsSuperseded(e.id)'
    BY DEF ReviewChains
  <2>1. CASE c = d.collection
    <3>1. OfCollection(c)' = OfCollection(c) \cup {d}
      BY <2>1 DEF OfCollection
    <3>2. ASSUME NEW e \in OfCollection(c) PROVE e.supersedes # d.supersedes
      <4>1. CASE d.supersedes = None
        BY <1>4, <2>1, <3>2, <4>1 DEF ExtendsChain
      <4>2. CASE d.supersedes # None
        BY <1>4, <2>1, <3>2, <4>2 DEF ExtendsChain, IsSuperseded, OfCollection
      <4>. QED
        BY <4>1, <4>2
    <3>3. \A e, f \in OfCollection(c) : e.supersedes = f.supersedes => e = f
      BY <1>2 DEF ReviewChains
    <3>4. ~IsSuperseded(d.id)'
      BY <1>6, <1>7 DEF IsSuperseded
    <3>. QED
      BY <3>1, <3>2, <3>3, <3>4
  <2>2. CASE c # d.collection
    <3>1. OfCollection(c)' = OfCollection(c)
      BY <2>2 DEF OfCollection
    <3>2. ASSUME NEW e \in OfCollection(c), ~IsSuperseded(e.id) PROVE ~IsSuperseded(e.id)'
      <4>1. d.supersedes # e.id
        BY <2>2, <3>2, HeldReviewsStand DEF TablesInv, OfCollection
      <4>. QED
        BY <3>2, <4>1 DEF IsSuperseded
    <3>. QED
      BY <1>2, <3>1, <3>2 DEF ReviewChains
  <2>. QED
    BY <2>1, <2>2
<1>9. DecisionsInv'
  <2>1. \A e \in decisions' : e.supersedes # None =>
          \E f \in OfCollection(e.collection)' : f.id = e.supersedes
    BY <1>2, <1>4 DEF OfCollection, ExtendsChain
  <2>2. \A e, f \in decisions' : e.id = f.id => e = f
    BY <1>2, <1>3
  <2>. QED
    BY <1>2, <1>4, <1>8, <2>1, <2>2 DEF DecisionsInv
<1>10. BundlesInv'
  BY DEF TablesInv, BundlesInv, BundleFits, Loads, DecisionsNamed
<1>. QED
  BY <1>1, <1>9, <1>10 DEF TablesInv

(* The reviewer holds the collection, its decisions and the new UUID: a    *)
(* session that relies on any of them waits.                               *)
LEMMA CommitDecisionKeeps ==
  ASSUME HistoricalInv, NEW s \in Sessions, CommitDecision(s)
  PROVE  HistoricalInv'
<1>1. PICK d : d = tx[s].ask.row
  OBVIOUS
<1>2. /\ tx[s].at = "commit_decision" /\ tx[s].call = "review" /\ d \in DecisionRow
      /\ decisions' = decisions \cup {d} /\ End(s, "done")
      /\ UNCHANGED <<content, bundles, activations, channel>>
  BY <1>1, CallersAt, HistoricalAssumption
  DEF CommitDecision, At, Ask, ReviewStages, ReviewCall
<1>3. /\ <<"collection", d.collection>> \in tx[s].holds /\ <<"new decision", d.id>> \in tx[s].holds
      /\ \A e \in OfCollection(d.collection) : <<"decision", e.id>> \in tx[s].holds
      /\ DecisionAdmissible(d)
  BY <1>1, <1>2, CallersAt DEF SessionFits, ReviewFits
<1>4. TablesInv /\ TablesInv'
  BY <1>2, <1>3, CommitDecisionKeepsTables DEF HistoricalInv
<1>5. DecisionsInv /\ DecisionsInv' /\ BundlesInv
  BY <1>4 DEF TablesInv
<1>6. ASSUME NEW y, SessionFits(y), Apart(tx[s], y) PROVE SessionFits(y)'
  <2>1. tx[s].holds \cap y.holds = {}
    BY <1>6 DEF Apart
  <2>2. CallFits(y)'
    BY <1>6 DEF SessionFits, CallFits
  <2>3. ReviewFits(y)'
    <3>. SUFFICES ASSUME y.at \in {"lock_decisions", "insert_decision", "commit_decision"}
                  PROVE  ReviewFits(y)'
      BY DEF ReviewFits
    <3>1. PICK e : e = y.ask.row
      OBVIOUS
    <3>2. e.collection # d.collection
      BY <1>3, <1>6, <2>1, <3>1 DEF SessionFits, ReviewFits
    <3>3. OfCollection(e.collection)' = OfCollection(e.collection)
      BY <1>2, <3>2 DEF OfCollection
    <3>4. ASSUME y.at = "commit_decision" PROVE DecisionAdmissible(e)'
      <4>1. <<"new decision", e.id>> \in y.holds /\ DecisionAdmissible(e)
        BY <1>6, <3>1, <3>4 DEF SessionFits, ReviewFits
      <4>2. e.id # d.id
        BY <1>3, <2>1, <4>1
      <4>3. \A f \in OfCollection(e.collection) : d.supersedes # f.id
        BY <1>3, <1>5, <3>2, HeldReviewsStand DEF OfCollection
      <4>4. ExtendsChain(e)'
        BY <1>2, <3>3, <4>1, <4>3 DEF DecisionAdmissible, ExtendsChain, IsSuperseded
      <4>. QED
        BY <1>2, <4>1, <4>2, <4>4 DEF DecisionAdmissible, DecisionsNamed
    <3>. QED
      BY <1>6, <3>1, <3>3, <3>4 DEF SessionFits, ReviewFits
  <2>4. SealFits(y)'
    <3>1. ASSUME NEW k \in Kinds, HoldsReview(y, y.ask.reviews[k])
          PROVE  d.supersedes # y.ask.reviews[k] /\ HoldsReview(y, y.ask.reviews[k])'
      <4>1. PICK f \in decisions : /\ f.id = y.ask.reviews[k]
                                   /\ <<"collection", f.collection>> \in y.holds
        BY <3>1 DEF HoldsReview, DecisionsNamed
      <4>2. f.collection # d.collection
        BY <1>3, <2>1, <4>1
      <4>. QED
        BY <1>2, <1>3, <1>5, <3>1, <4>1, <4>2, HeldReviewsStand DEF HoldsReview, DecisionsNamed
    <3>2. ASSUME y.at \in {"find_bundle", "insert_bundle", "commit_bundle"}
          PROVE  \A k \in Kinds : HoldsReview(y, y.ask.reviews[k])
      BY <1>6, <3>2 DEF SessionFits, SealFits
    <3>3. ASSUME y.at \in {"insert_bundle", "commit_bundle"}
          PROVE  BundleOf(y.ask)' = BundleOf(y.ask) /\ Sealable(y.ask)'
      <4>1. PICK ask : ask = y.ask
        OBVIOUS
      <4>2. Sealable(ask)
        BY <1>6, <3>3, <4>1 DEF SessionFits, SealFits
      <4>3. \A k \in Kinds : d.supersedes # ask.reviews[k]
        BY <3>1, <3>2, <3>3, <4>1
      <4>4. \A k \in Kinds : Approves(ask.reviews[k], k)
        BY <4>2 DEF Sealable
      <4>5. BundleOf(ask)' = BundleOf(ask) /\ Sealable(ask)'
        BY <1>2, <1>5, <4>2, <4>3, <4>4, ReviewsStay
      <4>. QED
        BY <4>1, <4>5
    <3>. QED
      BY <1>2, <1>6, <3>1, <3>2, <3>3 DEF SessionFits, SealFits
  <2>5. MoveFits(y)'
    <3>1. PICK a : a = y.ask.row
      OBVIOUS
    <3>2. ASSUME y.at = "commit_activation" PROVE TargetAdmissible(a)'
      <4>. SUFFICES ASSUME a.operation # "WITHDRAW" PROVE TargetAdmissible(a)'
        BY DEF TargetAdmissible
      <4>1. PICK b \in BundlesNamed(a.target) :
              /\ a.operation = "ACTIVATE" => Standing(b)
              /\ a.operation = "ROLLBACK" => WasMadeCurrent(b.id, a.sequence)
        BY <1>6, <3>1, <3>2 DEF SessionFits, MoveFits, TargetAdmissible
      <4>2. PICK q \in BundlesNamed(a.target) : TargetRows(q) \subseteq y.holds
        BY <1>6, <3>1, <3>2 DEF SessionFits, MoveFits
      <4>3. b = q
        BY <1>5 DEF BundlesInv, BundlesNamed
      <4>4. ASSUME NEW k \in Kinds PROVE d.supersedes # b.reviews[k] \/ b.reviews[k] = None
        <5>. SUFFICES ASSUME d.supersedes = b.reviews[k], d.supersedes # None PROVE FALSE
          OBVIOUS
        <5>1. <<"decision", d.supersedes>> \in tx[s].holds
          BY <1>3 DEF DecisionAdmissible, ExtendsChain
        <5>2. <<"decision", d.supersedes>> \in y.holds
          BY <4>2, <4>3 DEF TargetRows
        <5>. QED
          BY <2>1, <5>1, <5>2
      <4>5. ASSUME NEW k \in Kinds, Approves(b.reviews[k], k) PROVE Approves(b.reviews[k], k)'
        <5>1. b.reviews[k] # None
          BY <1>5, HistoricalAssumption DEF BundlesInv, BundlesNamed, BundleFits
        <5>. QED
          BY <1>2, <4>4, <4>5, <5>1 DEF Approves, DecisionsNamed, IsSuperseded
      <4>6. Standing(b) => Standing(b)'
        BY <4>5 DEF Standing
      <4>. QED
        BY <1>2, <4>1, <4>6 DEF TargetAdmissible, BundlesNamed, WasMadeCurrent
    <3>. QED
      BY <1>2, <1>6, <3>1, <3>2 DEF SessionFits, MoveFits, Movable, ExpectationHolds, BundlesNamed
  <2>. QED
    BY <2>2, <2>3, <2>4, <2>5 DEF SessionFits
<1>. QED
  BY <1>2, <1>4, <1>6, CommitKeeps

(* What _validate_completeness lets through makes a readable bundle.       *)
LEMMA SealedIsReadable ==
  ASSUME ContentInv, DecisionsInv, NEW ask \in SealCalls, Sealable(ask)
  PROVE  BundleFits(BundleOf(ask))
<1>. DEFINE q == BundleOf(ask)
            parts == Parts(ask)
<1>1. ASSUME NEW k \in Kinds
      PROVE  \E d \in decisions : /\ d.id = ask.reviews[k] /\ d.verdict = "APPROVE"
                                  /\ KindOf[d.collection] = k /\ content[d.collection] # None
                                  /\ parts[k] = content[d.collection]
                                  /\ parts[k] \in ContentsOf[d.collection]
                                  /\ d.collection \in Collections
  <2>1. PICK d \in decisions : /\ d.id = ask.reviews[k] /\ d.verdict = "APPROVE"
                               /\ KindOf[d.collection] = k
    BY DEF Sealable, Approves, DecisionsNamed
  <2>2. content[d.collection] # None /\ d.collection \in Collections
    BY DEF DecisionsInv, DecisionRow
  <2>3. parts[k] = content[d.collection]
    BY <2>1, NamedContent DEF Parts
  <2>. QED
    BY <2>1, <2>2, <2>3 DEF ContentInv
<1>2. ASSUME NEW k \in Kinds
      PROVE  parts[k] \in Content /\ \A row \in parts[k].rows : row[3] \in parts[k].min .. parts[k].max
  BY <1>1, HistoricalAssumption
<1>3. SealableContents(parts)
  BY DEF Sealable
<1>. DEFINE monthly == parts["MONTHLY"]
            regional == parts["REGIONAL_DAILY"]
            market == parts["MARKET_DAILY"]
<1>4. /\ q.id = ask.id /\ q.reviews = ask.reviews
      /\ q.facts = [k \in Kinds |-> parts[k].rows] /\ q.manifest = monthly.manifest
      /\ q.monthMax = monthly.max
      /\ q.dateMax = CHOOSE d \in {row[3] : row \in Shared(regional, market)} :
                       \A e \in {row[3] : row \in Shared(regional, market)} : e <= d
  BY DEF BundleOf
<1>5. q.id \in BundleIds /\ q.reviews \in [Kinds -> DecisionIds]
  BY <1>4, HistoricalAssumption DEF SealCall
<1>. HIDE DEF q, parts
<1>6. \A k \in Kinds : parts[k].manifest = monthly.manifest
  <2>. DEFINE M == {parts[k].manifest : k \in Kinds}
  <2>1. M = {parts["MONTHLY"].manifest, parts["REGIONAL_DAILY"].manifest, parts["MARKET_DAILY"].manifest}
    BY DEF Kinds
  <2>2. \A a, b, c : IsFiniteSet({a, b, c})
    <3>. SUFFICES ASSUME NEW a, NEW b, NEW c PROVE IsFiniteSet({a, b, c})
      OBVIOUS
    <3>1. IsFiniteSet({a})
      BY FS_Singleton
    <3>2. IsFiniteSet({a} \cup {b})
      BY <3>1, FS_AddElement
    <3>3. IsFiniteSet({a} \cup {b} \cup {c})
      BY <3>2, FS_AddElement
    <3>4. {a, b, c} = {a} \cup {b} \cup {c}
      OBVIOUS
    <3>. QED
      BY <3>3, <3>4
  <2>4. IsFiniteSet(M)
    <3>. HIDE DEF M
    <3>. QED
      BY <2>1, <2>2
  <2>5. Cardinality(M) = 1
    BY <1>3 DEF SealableContents
  <2>6. PICK m : M = {m}
    BY <2>4, <2>5, FS_Singleton
  <2>. QED
    BY <2>6 DEF Kinds
<1>7. Loads(q)
  <2>. SUFFICES ASSUME NEW k \in Kinds
                PROVE  \E d \in DecisionsNamed(q.reviews[k]) :
                         /\ d.verdict = "APPROVE" /\ KindOf[d.collection] = k
                         /\ content[d.collection] # None
                         /\ content[d.collection].manifest = q.manifest
    BY DEF Loads
  <2>1. PICK d \in decisions : /\ d.id = ask.reviews[k] /\ d.verdict = "APPROVE"
                               /\ KindOf[d.collection] = k /\ content[d.collection] # None
                               /\ parts[k] = content[d.collection]
    BY <1>1
  <2>2. content[d.collection].manifest = q.manifest
    BY <1>4, <1>6, <2>1
  <2>. QED
    BY <1>4, <2>1, <2>2 DEF DecisionsNamed
<1>8. Complete(monthly, regional, market) /\ WithinWindow(regional, market)
  BY <1>3 DEF SealableContents
<1>9. /\ monthly \in Content /\ regional \in Content /\ market \in Content
      /\ \A row \in regional.rows : row[3] \in regional.min .. regional.max
  BY <1>2 DEF Kinds
<1>10. /\ \E row \in Shared(regional, market) : q.dateMax = row[3]
       /\ \A row \in Shared(regional, market) : row[3] <= q.dateMax
  <2>. DEFINE D == {row[3] : row \in Shared(regional, market)}
  <2>1. regional.rows \subseteq Rows /\ regional.min \in Int /\ regional.max \in Int
    BY <1>9 DEF Content, Rows
  <2>2. D \subseteq Int /\ \A e \in D : e <= regional.max
    BY <1>9, <2>1 DEF Shared, Rows
  <2>3. D # {}
    BY <1>8 DEF Complete, SeriesOf
  <2>4. PICK x \in D : \A e \in D : e <= x
    <3>. HIDE DEF D
    <3>. QED
      BY <2>1, <2>2, <2>3, GreatestNumber
  <2>5. q.dateMax = CHOOSE d \in D : \A e \in D : e <= d
    BY <1>4
  <2>6. q.dateMax \in D /\ \A e \in D : e <= q.dateMax
    <3>. HIDE DEF D
    <3>. QED
      BY <2>4, <2>5
  <2>. QED
    BY <2>6
<1>11. /\ q.facts["MONTHLY"] = monthly.rows /\ q.facts["REGIONAL_DAILY"] = regional.rows
       /\ q.facts["MARKET_DAILY"] = market.rows
  BY <1>4 DEF Kinds
<1>12. Readable(q)
  <2>. HIDE DEF monthly, regional, market
  <2>. QED
    BY <1>4, <1>8, <1>9, <1>10, <1>11, CompleteIsReadable DEF Readable
<1>. QED
  BY <1>5, <1>7, <1>12 DEF BundleFits, q

(* The publisher holds the sources of all three kinds: nobody else is      *)
(* about to seal.                                                          *)
LEMMA CommitBundleKeeps ==
  ASSUME HistoricalInv, NEW s \in Sessions, CommitBundle(s)
  PROVE  HistoricalInv'
<1>1. PICK ask : ask = tx[s].ask
  OBVIOUS
<1>2. PICK q : q = BundleOf(ask)
  OBVIOUS
<1>3. /\ tx[s].at = "commit_bundle" /\ tx[s].call = "seal" /\ ask \in SealCalls
      /\ \A b \in bundles : b.id # ask.id
      /\ bundles' = bundles \cup {q} /\ End(s, "done")
      /\ UNCHANGED <<content, decisions, activations, channel>>
  BY <1>1, <1>2, CallersAt DEF CommitBundle, At, Ask, SealStages
<1>4. Sealable(ask) /\ \A k \in Kinds : HoldsReview(tx[s], ask.reviews[k])
  BY <1>1, <1>3, CallersAt DEF SessionFits, SealFits
<1>5. ContentInv /\ DecisionsInv /\ BundlesInv /\ LogInv
  BY DEF HistoricalInv, TablesInv
<1>6. BundleFits(q) /\ q.id = ask.id
  BY <1>2, <1>3, <1>4, <1>5, SealedIsReadable DEF BundleOf
<1>7. TablesInv'
  <2>1. ContentInv' /\ DecisionsInv' /\ LogInv'
    BY <1>3, <1>5 DEF ContentInv, DecisionsInv, LogInv, OfCollection, ReviewChains, IsSuperseded
  <2>2. \A b \in bundles' : BundleFits(b)
    BY <1>3, <1>5, <1>6 DEF BundlesInv
  <2>3. BundlesInv'
    BY <1>3, <1>5, <1>6, <2>2 DEF BundlesInv, BundleFits, Loads, DecisionsNamed
  <2>. QED
    BY <2>1, <2>3 DEF TablesInv
<1>8. <<"source", "MONTHLY">> \in tx[s].holds
  <2>1. ASSUME NEW y, HoldsReview(y, ask.reviews["MONTHLY"]) PROVE <<"source", "MONTHLY">> \in y.holds
    <3>1. "MONTHLY" \in Kinds
      BY DEF Kinds
    <3>2. Approves(ask.reviews["MONTHLY"], "MONTHLY")
      BY <1>4, <3>1 DEF Sealable
    <3>. QED
      BY <1>5, <2>1, <3>2 DEF Approves, HoldsReview, DecisionsNamed, DecisionsInv
  <2>. QED
    BY <1>4, <2>1 DEF Kinds
<1>9. ASSUME NEW y, SessionFits(y), Apart(tx[s], y) PROVE SessionFits(y)'
  <2>1. CallFits(y)' /\ ReviewFits(y)'
    BY <1>3, <1>9 DEF SessionFits, CallFits, ReviewFits, OfCollection, DecisionAdmissible,
       DecisionsNamed, ExtendsChain, IsSuperseded
  <2>2. y.at \notin {"insert_bundle", "commit_bundle"}
    <3>. SUFFICES ASSUME y.at \in {"insert_bundle", "commit_bundle"} PROVE FALSE
      OBVIOUS
    <3>1. "MONTHLY" \in Kinds
      BY DEF Kinds
    <3>2. Approves(y.ask.reviews["MONTHLY"], "MONTHLY") /\ HoldsReview(y, y.ask.reviews["MONTHLY"])
      BY <1>9, <3>1 DEF SessionFits, SealFits, Sealable
    <3>3. <<"source", "MONTHLY">> \in y.holds
      BY <1>5, <3>2 DEF Approves, HoldsReview, DecisionsNamed, DecisionsInv
    <3>. QED
      BY <1>8, <1>9, <3>3 DEF Apart
  <2>3. SealFits(y)'
    BY <1>1, <1>3, <1>6, <1>9, <2>2 DEF SessionFits, SealFits, Apart, HoldsReview, DecisionsNamed
  <2>4. MoveFits(y)'
    <3>1. \A id : BundlesNamed(id) \subseteq BundlesNamed(id)'
      BY <1>3 DEF BundlesNamed
    <3>2. \A b : Standing(b)' <=> Standing(b)
      BY <1>3 DEF Standing, Approves, DecisionsNamed, IsSuperseded
    <3>3. \A a : TargetAdmissible(a) => TargetAdmissible(a)'
      BY <1>3, <3>1, <3>2 DEF TargetAdmissible, WasMadeCurrent
    <3>4. \A a : Movable(a) => Movable(a)'
      BY <1>3 DEF Movable, ExpectationHolds
    <3>. QED
      BY <1>9, <3>1, <3>3, <3>4 DEF SessionFits, MoveFits
  <2>. QED
    BY <2>1, <2>3, <2>4 DEF SessionFits
<1>. QED
  BY <1>3, <1>7, <1>9, CommitKeeps

(* Only the session that holds the channel row relies on the log.          *)
LEMMA CommitActivationKeeps ==
  ASSUME HistoricalInv, NEW s \in Sessions, CommitActivation(s)
  PROVE  HistoricalInv'
<1>1. CASE Refuse(s)
  BY <1>1, EndKeeps DEF Refuse
<1>2. CASE ~Refuse(s)
  <2>1. PICK a : a = tx[s].ask.row
    OBVIOUS
  <2>2. PICK pointer : pointer = [version |-> a.sequence, current |-> a.target]
    OBVIOUS
  <2>3. /\ tx[s].at = "commit_activation" /\ a \in ActivationRow
        /\ LogConsistent(activations \cup {a}, pointer)
        /\ activations' = activations \cup {a} /\ channel' = pointer /\ End(s, "done")
        /\ UNCHANGED <<content, decisions, bundles>>
    BY <1>2, <2>1, <2>2, CallersAt, HistoricalAssumption
    DEF CommitActivation, At, Ask, MoveStages, TransitionCall
  <2>4. <<"channel", None>> \in tx[s].holds /\ a.sequence = channel.version + 1
    BY <2>1, <2>3, CallersAt DEF SessionFits, MoveFits, MoveStages, Movable, ExpectationHolds
  <2>5. ContentInv /\ DecisionsInv /\ BundlesInv /\ LogInv
    BY DEF HistoricalInv, TablesInv
  <2>6. LogInv'
    <3>1. channel.version \in Nat /\ channel.version = Cardinality(activations)
      BY <2>5 DEF LogInv, ChannelRow, LogConsistent
    <3>2. \A e \in activations : e.sequence \in 1 .. channel.version
      BY <2>5, <3>1 DEF LogInv, LogConsistent
    <3>3. channel' \in ChannelRow /\ channel'.version = channel.version + 1
      BY <2>2, <2>3, <2>4 DEF ChannelRow, ActivationRow
    <3>4. \A e, f \in activations' : e.sequence = f.sequence => e = f
      BY <2>3, <2>4, <2>5, <3>1, <3>2 DEF LogInv
    <3>5. \A i \in 1 .. channel'.version : \E e \in activations' : e.sequence = i
      <4>. SUFFICES ASSUME NEW i \in 1 .. channel.version + 1
                    PROVE  \E e \in activations \cup {a} : e.sequence = i
        BY <2>3, <3>3
      <4>1. CASE i = channel.version + 1
        BY <2>4, <4>1
      <4>2. CASE i # channel.version + 1
        BY <2>5, <3>1, <4>2 DEF LogInv
      <4>. QED
        BY <4>1, <4>2
    <3>6. IsFiniteSet(activations')
      BY <2>3, <2>5, FS_AddElement DEF LogInv
    <3>. QED
      BY <2>3, <2>5, <3>1, <3>3, <3>4, <3>5, <3>6 DEF LogInv
  <2>7. TablesInv'
    BY <2>3, <2>5, <2>6 DEF TablesInv, ContentInv, DecisionsInv, OfCollection, ReviewChains,
       IsSuperseded, BundlesInv, BundleFits, Loads, DecisionsNamed
  <2>8. ASSUME NEW y, SessionFits(y), Apart(tx[s], y) PROVE SessionFits(y)'
    <3>1. CallFits(y)' /\ ReviewFits(y)'
      BY <2>3, <2>8 DEF SessionFits, CallFits, ReviewFits, OfCollection, DecisionAdmissible,
         DecisionsNamed, ExtendsChain, IsSuperseded
    <3>2. SealFits(y)'
      <4>1. PICK ask : ask = y.ask
        OBVIOUS
      <4>2. \A id : ContentReviewed(id)' = ContentReviewed(id)
        BY <2>3 DEF ContentReviewed
      <4>3. Parts(ask)' = Parts(ask)
        BY <4>2 DEF Parts
      <4>4. BundleOf(ask)' = BundleOf(ask)
        BY <4>3 DEF BundleOf
      <4>5. Sealable(ask)' <=> Sealable(ask)
        BY <2>3, <4>3 DEF Sealable, Approves, DecisionsNamed, IsSuperseded
      <4>. QED
        BY <2>3, <2>8, <4>1, <4>4, <4>5 DEF SessionFits, SealFits, HoldsReview, DecisionsNamed
    <3>3. y.at \notin MoveStages \ {"lock_channel"}
      BY <2>4, <2>8 DEF SessionFits, MoveFits, Apart
    <3>4. MoveFits(y)'
      BY <3>3 DEF MoveFits, MoveStages
    <3>. QED
      BY <3>1, <3>2, <3>4 DEF SessionFits
  <2>. QED
    BY <2>3, <2>7, <2>8, CommitKeeps
<1>. QED
  BY <1>1, <1>2

(* A completed collection had no reviews, so nothing relies on it.         *)
LEMMA CompleteCollectionKeeps ==
  ASSUME HistoricalInv, NEW c \in Collections, CompleteCollection(c)
  PROVE  HistoricalInv'
<1>1. PICK held \in ContentsOf[c] :
        /\ content[c] = None /\ content' = [content EXCEPT ![c] = held]
        /\ UNCHANGED <<decisions, bundles, activations, channel, tx, started>>
  BY DEF CompleteCollection
<1>2. ContentInv /\ DecisionsInv /\ BundlesInv /\ LogInv
  BY DEF HistoricalInv, TablesInv
<1>3. /\ content' \in [Collections -> UNION {ContentsOf[d] : d \in Collections} \cup {None}]
      /\ content'[c] = held /\ held # None
      /\ \A d \in Collections \ {c} : content'[d] = content[d]
  BY <1>1, <1>2, HistoricalAssumption DEF ContentInv
<1>4. ContentInv'
  BY <1>1, <1>2, <1>3 DEF ContentInv
<1>5. \A d \in decisions : d.collection \in Collections \ {c} /\ content'[d.collection] = content[d.collection]
  BY <1>1, <1>2, <1>3 DEF DecisionsInv, DecisionRow
<1>6. DecisionsInv'
  BY <1>1, <1>2, <1>5 DEF DecisionsInv, OfCollection, ReviewChains, IsSuperseded
<1>7. BundlesInv' /\ LogInv'
  BY <1>1, <1>2, <1>5 DEF BundlesInv, BundleFits, Loads, DecisionsNamed, LogInv
<1>8. ASSUME NEW y, SessionFits(y) PROVE SessionFits(y)'
  <2>1. CallFits(y)'
    BY <1>8 DEF SessionFits, CallFits
  <2>2. ReviewFits(y)'
    <3>1. ASSUME NEW d \in DecisionRow, DecisionAdmissible(d) PROVE DecisionAdmissible(d)'
      <4>1. d.collection \in Collections \ {c}
        BY <1>1, <3>1 DEF DecisionAdmissible, DecisionRow
      <4>. QED
        BY <1>1, <1>3, <3>1, <4>1 DEF DecisionAdmissible, DecisionsNamed, ExtendsChain, OfCollection, IsSuperseded
    <3>2. y.at \in ReviewStages => y.ask.row \in DecisionRow
      BY <1>8, HistoricalAssumption
      DEF SessionFits, CallFits, ReviewStages, SealStages, MoveStages, ReviewCall
    <3>. QED
      BY <1>1, <1>8, <3>1, <3>2 DEF SessionFits, ReviewFits, OfCollection, ReviewStages
  <2>3. SealFits(y)'
    <3>1. PICK ask : ask = y.ask
      OBVIOUS
    <3>2. Sealable(ask) => BundleOf(ask)' = BundleOf(ask) /\ Sealable(ask)'
      <4>. SUFFICES ASSUME Sealable(ask) PROVE BundleOf(ask)' = BundleOf(ask) /\ Sealable(ask)'
        OBVIOUS
      <4>1. \A k \in Kinds : Approves(ask.reviews[k], k)
        BY DEF Sealable
      <4>. QED
        BY <1>1, <1>2, <1>5, <1>6, <4>1, ReviewsStay
    <3>. QED
      BY <1>1, <1>8, <3>1, <3>2 DEF SessionFits, SealFits, HoldsReview, DecisionsNamed
  <2>4. MoveFits(y)'
    BY <1>1, <1>8 DEF SessionFits, MoveFits, Movable, ExpectationHolds, BundlesNamed,
       TargetAdmissible, Standing, Approves, DecisionsNamed, IsSuperseded, WasMadeCurrent
  <2>. QED
    BY <2>1, <2>2, <2>3, <2>4 DEF SessionFits
<1>9. SessionsInv'
  <2>1. ASSUME NEW t \in Sessions PROVE SessionFits(tx[t])'
    <3>1. PICK y : y = tx[t]
      OBVIOUS
    <3>2. SessionFits(y)'
      BY <1>8, <3>1 DEF HistoricalInv, SessionsInv
    <3>. QED
      BY <1>1, <3>1, <3>2
  <2>. QED
    BY <1>1, <2>1 DEF HistoricalInv, SessionsInv, TypedTx, Apart
<1>. QED
  BY <1>4, <1>6, <1>7, <1>9 DEF HistoricalInv, TablesInv

-----------------------------------------------------------------------------
(* The invariant always holds.                                             *)

LEMMA InvAtStart == Init => HistoricalInv
<1>. SUFFICES ASSUME Init PROVE HistoricalInv
  OBVIOUS
<1>1. ContentInv
  <2>1. ASSUME NEW c \in Collections PROVE content[c] \in ContentsOf[c] \cup {None}
    BY DEF Init
  <2>. QED
    BY <2>1 DEF Init, ContentInv
<1>2. DecisionsInv
  <2>1. decisions = Recorded
    BY DEF Init
  <2>2. ASSUME NEW d \in decisions PROVE content[d.collection] # None
    <3>1. d.collection \in Collections
      BY <2>1, HistoricalAssumption DEF DecisionRow
    <3>2. content[d.collection] \in ContentsOf[d.collection]
      BY <2>1, <3>1 DEF Init
    <3>. QED
      BY <3>1, <3>2, HistoricalAssumption
  <2>3. \A d \in decisions : ~IsSuperseded(d.id)
    BY <2>1, HistoricalAssumption DEF IsSuperseded, DecisionRow
  <2>4. ReviewChains
    BY <2>1, <2>3, HistoricalAssumption DEF ReviewChains, OfCollection
  <2>. QED
    BY <2>1, <2>2, <2>4, HistoricalAssumption DEF DecisionsInv
<1>3. BundlesInv
  BY DEF Init, BundlesInv
<1>4. LogInv
  <2>1. IsFiniteSet({}) /\ Cardinality({}) = 0
    BY FS_EmptySet
  <2>. QED
    BY <2>1 DEF Init, LogInv, LogConsistent, ChannelRow
<1>5. SessionsInv
  <2>1. PICK x : x = Idle("done")
    OBVIOUS
  <2>2. x \in TxRows({}) /\ x.at = "idle" /\ x.call = None /\ x.holds = {}
    BY <2>1 DEF Idle, TxRows, Statements
  <2>3. tx = [s \in Sessions |-> x] /\ started = 0
    BY <2>1 DEF Init
  <2>4. TypedTx
    BY <2>2, <2>3 DEF TypedTx
  <2>5. SessionFits(x) /\ Apart(x, x)
    BY <2>2, IdleFits, HistoricalAssumption DEF Apart, Services
  <2>. QED
    BY <2>3, <2>4, <2>5, HistoricalAssumption DEF SessionsInv
<1>. QED
  BY <1>1, <1>2, <1>3, <1>4, <1>5 DEF HistoricalInv, TablesInv

LEMMA StepKeeps == HistoricalInv /\ [Next]_vars => HistoricalInv'
<1>. SUFFICES ASSUME HistoricalInv, [Next]_vars PROVE HistoricalInv'
  OBVIOUS
<1>1. ASSUME NEW s \in Sessions, LockActor(s) \/ Abort(s) PROVE HistoricalInv'
  BY <1>1, LockActorKeeps, EndKeeps DEF Abort
<1>2. ASSUME NEW s \in Sessions, BeginReview(s) PROVE HistoricalInv'
  BY <1>2, OpenKeeps DEF BeginReview, Services
<1>3. ASSUME NEW s \in Sessions, BeginSeal(s) PROVE HistoricalInv'
  <2>1. PICK ask \in SealCalls :
          /\ \A b \in bundles : b.id # ask.id
          /\ \A t \in Sessions : tx[t].call = "seal" => Ask(t).id # ask.id
          /\ Open(s, "seal", ask)
    BY <1>3 DEF BeginSeal
  <2>. QED
    BY <2>1, OpenKeeps DEF Services
<1>4. ASSUME NEW s \in Sessions, BeginTransition(s) PROVE HistoricalInv'
  BY <1>4, OpenKeeps DEF BeginTransition, Services
<1>5. ASSUME NEW s \in Sessions,
             \/ ApproveLockCollection(s) \/ FindDecision(s) \/ LockCollection(s)
             \/ LockDecisions(s) \/ InsertDecision(s) \/ CommitDecision(s)
      PROVE  HistoricalInv'
  BY <1>5, ApproveLockCollectionKeeps, FindDecisionKeeps, LockCollectionKeeps, LockDecisionsKeeps,
     InsertDecisionKeeps, CommitDecisionKeeps
<1>6. ASSUME NEW s \in Sessions,
             \/ SealLockExisting(s) \/ LockReviews(s) \/ FindBundle(s) \/ InsertBundle(s)
             \/ CommitBundle(s)
      PROVE  HistoricalInv'
  BY <1>6, SealLockExistingKeeps, LockReviewsKeeps, FindBundleKeeps, InsertBundleKeeps,
     CommitBundleKeeps
<1>7. ASSUME NEW s \in Sessions,
             \/ LockChannel(s) \/ FindActivation(s) \/ LockTarget(s) \/ InsertActivation(s)
             \/ CommitActivation(s)
      PROVE  HistoricalInv'
  BY <1>7, LockChannelKeeps, FindActivationKeeps, LockTargetKeeps, InsertActivationKeeps,
     CommitActivationKeeps
<1>8. ASSUME UNCHANGED vars PROVE HistoricalInv'
  <2>1. UNCHANGED tables /\ UNCHANGED <<tx, started>> /\ TablesInv
    BY <1>8 DEF vars, tables, HistoricalInv
  <2>2. TablesInv'
    BY <2>1, TablesStay
  <2>3. ASSUME NEW t \in Sessions PROVE SessionFits(tx[t])'
    <3>1. PICK y : y = tx[t]
      OBVIOUS
    <3>2. SessionFits(y)
      BY <3>1 DEF HistoricalInv, SessionsInv
    <3>3. SessionFits(y)'
      BY <2>1, <3>2, FitsStays
    <3>. QED
      BY <2>1, <3>1, <3>3
  <2>. QED
    BY <2>1, <2>2, <2>3 DEF HistoricalInv, SessionsInv, TypedTx, Apart
<1>. QED
  BY <1>1, <1>2, <1>3, <1>4, <1>5, <1>6, <1>7, <1>8, CompleteCollectionKeeps DEF Next

LEMMA AlwaysInv == Spec => []HistoricalInv
BY InvAtStart, StepKeeps, PTL DEF Spec

(* Tables and transactions hold what they are declared for, and a session  *)
(* that ended holds no lock.                                               *)
THEOREM HistoricalTypes == Spec => []TypeOK
<1>1. HistoricalInv => TypeOK
  <2>. SUFFICES ASSUME HistoricalInv PROVE TypeOK
    OBVIOUS
  <2>1. \A s \in Sessions : tx[s].at \in Statements
    BY DEF HistoricalInv, SessionsInv, TypedTx, TxRows
  <2>2. \A s \in Sessions : At(s, "idle") => tx[s].holds = {}
    BY DEF HistoricalInv, SessionsInv, SessionFits, CallFits, At, ReviewStages, SealStages, MoveStages
  <2>. QED
    BY <2>1, <2>2 DEF HistoricalInv, TablesInv, SessionsInv, ContentInv, DecisionsInv, BundlesInv,
       BundleFits, LogInv, TypeOK
<1>. QED
  BY <1>1, AlwaysInv, PTL

(* However reviewers' statements interleave, the decisions about a         *)
(* collection are one chain with one standing decision at its end.         *)
THEOREM ReviewsFormChains == Spec => []ReviewChains
<1>1. HistoricalInv => ReviewChains
  BY DEF HistoricalInv, TablesInv, DecisionsInv
<1>. QED
  BY <1>1, AlwaysInv, PTL

(* Every sealed bundle has a page to show: its reviews load, each series   *)
(* has a complete history region and a date on the regions page, and every *)
(* market link leads to a markets page that accepts it.                    *)
THEOREM SealedBundlesAreReadable == Spec => []BundlesAreReadable
<1>1. HistoricalInv => BundlesAreReadable
  BY DEF HistoricalInv, TablesInv, BundlesInv, BundleFits, Readable, BundlesAreReadable
<1>. QED
  BY <1>1, AlwaysInv, PTL

-----------------------------------------------------------------------------
(* The tables implement the channel.                                       *)

EventAt(i) ==
  LET a == CHOOSE x \in activations : x.sequence = i
  IN [operation |-> a.operation, target |-> a.target]

Sealed == {b.id : b \in bundles}
Approved == {b.id : b \in {q \in bundles : Standing(q)}}
Events == [i \in 1 .. Cardinality(activations) |-> EventAt(i)]

LEMMA ChannelAbstracts ==
  /\ UNCHANGED <<Sealed, Approved, Events>> => UNCHANGED Channel!channelVars
  /\ Channel!Init <=> Sealed = {} /\ Approved = {} /\ Events = <<>>
  /\ \A r : Channel!Seal(r) <=> /\ r \in BundleIds \ Sealed
                                /\ Sealed' = Sealed \cup {r}
                                /\ Approved' = Approved \cup {r}
                                /\ Events' = Events
  /\ \A R : Channel!Revoke(R) <=> Approved' = Approved \ R /\ UNCHANGED <<Sealed, Events>>
  /\ \A op, r : Channel!Log(op, r) <=> /\ Events' = Append(Events, [operation |-> op, target |-> r])
                                       /\ UNCHANGED <<Sealed, Approved>>
  /\ \A r : Channel!WasCurrent(r) <=> \E i \in DOMAIN Events : Events[i].target = r
  /\ Channel!Current = IF Events = <<>> THEN None ELSE Events[Len(Events)].target
BY Zenon
DEF Channel!channelVars, Channel!Init, Channel!Seal, Channel!Revoke, Channel!Log,
    Channel!WasCurrent, Channel!Current, Sealed, Approved, Events, EventAt

LEMMA EventOf ==
  ASSUME LogInv, NEW a \in activations
  PROVE  /\ a.sequence \in 1 .. channel.version
         /\ EventAt(a.sequence) = [operation |-> a.operation, target |-> a.target]
<1>1. a.sequence \in 1 .. channel.version
  BY DEF LogInv, LogConsistent
<1>2. (CHOOSE x \in activations : x.sequence = a.sequence) = a
  BY DEF LogInv
<1>. QED
  BY <1>1, <1>2 DEF EventAt

(* The last event names the bundle the pointer names.                      *)
LEMMA CurrentIsLast ==
  ASSUME LogInv
  PROVE  Channel!Current = channel.current
<1>1. channel.version \in Nat /\ Cardinality(activations) = channel.version
  BY DEF LogInv, ChannelRow, LogConsistent
<1>2. Len(Events) = channel.version
  BY <1>1 DEF Events
<1>3. CASE channel.version = 0
  <2>1. Events = <<>>
    BY <1>1, <1>3 DEF Events
  <2>. QED
    BY <1>3, <2>1, ChannelAbstracts DEF LogInv
<1>4. CASE channel.version # 0
  <2>1. PICK a \in activations : a.sequence = channel.version
    BY <1>1, <1>4 DEF LogInv
  <2>2. EventAt(channel.version).target = channel.current
    <3>1. EventAt(a.sequence) = [operation |-> a.operation, target |-> a.target]
      BY EventOf
    <3>2. a.target = channel.current
      BY <1>1, <2>1 DEF LogInv, LogConsistent
    <3>. QED
      BY <2>1, <3>1, <3>2
  <2>3. Events[channel.version] = EventAt(channel.version) /\ Events # <<>>
    BY <1>1, <1>2, <1>4 DEF Events
  <2>. QED
    BY <1>2, <2>2, <2>3, ChannelAbstracts
<1>. QED
  BY <1>3, <1>4

(* A move of the pointer appends its event and keeps the earlier ones.     *)
LEMMA ActivationAppends ==
  ASSUME LogInv, LogInv', NEW a, activations' = activations \cup {a},
         a.sequence = channel.version + 1, channel'.version = a.sequence
  PROVE  Events' = Append(Events, [operation |-> a.operation, target |-> a.target])
<1>. DEFINE e == [operation |-> a.operation, target |-> a.target]
<1>1. PICK v : v = channel.version
  OBVIOUS
<1>2. /\ v \in Nat /\ Cardinality(activations) = v /\ Cardinality(activations') = v + 1
  BY <1>1 DEF LogInv, ChannelRow, LogConsistent
<1>3. EventAt(v + 1)' = e
  <2>1. (CHOOSE x \in activations' : x.sequence = v + 1) = a
    BY <1>1 DEF LogInv
  <2>. QED
    BY <2>1 DEF EventAt
<1>4. ASSUME NEW n \in 1 .. v PROVE EventAt(n)' = EventAt(n)
  <2>1. PICK b \in activations : b.sequence = n
    BY <1>1 DEF LogInv
  <2>2. (CHOOSE x \in activations' : x.sequence = n) = b
    BY <2>1 DEF LogInv
  <2>3. (CHOOSE x \in activations : x.sequence = n) = b
    BY <2>1 DEF LogInv
  <2>. QED
    BY <2>2, <2>3 DEF EventAt
<1>5. Len(Events) = v /\ DOMAIN Events = 1 .. v
  BY <1>2 DEF Events
<1>6. Append(Events, e) = [n \in 1 .. v + 1 |-> IF n = v + 1 THEN e ELSE Events[n]]
  BY <1>2, <1>5
<1>7. Events' = [n \in 1 .. v + 1 |-> EventAt(n)']
  BY <1>2 DEF Events
<1>8. \A n \in 1 .. v + 1 : EventAt(n)' = IF n = v + 1 THEN e ELSE Events[n]
  BY <1>2, <1>3, <1>4 DEF Events
<1>. QED
  BY <1>6, <1>7, <1>8

(* A new decision takes approvals and gives none: a bundle's reviews were  *)
(* there before.                                                           *)
LEMMA DecisionRevokes ==
  ASSUME HistoricalInv, NEW s \in Sessions, CommitDecision(s)
  PROVE  Channel!Next
<1>1. PICK d : d = tx[s].ask.row
  OBVIOUS
<1>2. /\ decisions' = decisions \cup {d} /\ UNCHANGED <<bundles, activations>>
      /\ \A e \in decisions : e.id # d.id
  <2>1. tx[s].at = "commit_decision"
    BY DEF CommitDecision, At
  <2>. QED
    BY <1>1, <2>1, CallersAt
    DEF CommitDecision, Ask, SessionFits, ReviewFits, DecisionAdmissible, DecisionsNamed
<1>3. UNCHANGED <<Sealed, Events>>
  BY <1>2 DEF Sealed, Events, EventAt
<1>4. ASSUME NEW b \in bundles, Standing(b)' PROVE Standing(b)
  <2>. SUFFICES ASSUME NEW k \in Kinds PROVE Approves(b.reviews[k], k)
    BY DEF Standing
  <2>1. PICK e \in decisions' : /\ e.id = b.reviews[k] /\ e.verdict = "APPROVE"
                                /\ KindOf[e.collection] = k
    BY <1>4 DEF Standing, Approves, DecisionsNamed
  <2>2. \E p \in decisions : p.id = b.reviews[k]
    BY DEF HistoricalInv, TablesInv, BundlesInv, BundleFits, Loads, DecisionsNamed
  <2>3. e \in decisions
    BY <1>2, <2>1, <2>2
  <2>4. ~IsSuperseded(b.reviews[k])
    BY <1>2, <1>4 DEF Standing, Approves, IsSuperseded
  <2>. QED
    BY <2>1, <2>3, <2>4 DEF Approves, DecisionsNamed
<1>5. Approved' \subseteq Approved
  BY <1>2, <1>4 DEF Approved
<1>6. Approved' = Approved \ (Approved \ Approved') /\ Approved \ Approved' \in SUBSET Approved
  BY <1>5
<1>7. \E R \in SUBSET Approved : Channel!Revoke(R)
  BY <1>3, <1>6, ChannelAbstracts
<1>. QED
  BY <1>7 DEF Channel!Next, Approved

(* The publisher's approvals still stand when the bundle commits.          *)
LEMMA BundleSeals ==
  ASSUME HistoricalInv, NEW s \in Sessions, CommitBundle(s)
  PROVE  Channel!Next
<1>1. PICK ask : ask = tx[s].ask
  OBVIOUS
<1>2. PICK q : q = BundleOf(ask)
  OBVIOUS
<1>3. /\ ask \in SealCalls /\ \A b \in bundles : b.id # ask.id
      /\ bundles' = bundles \cup {q} /\ UNCHANGED <<decisions, activations>>
      /\ Sealable(ask)
  <2>1. tx[s].at = "commit_bundle"
    BY DEF CommitBundle, At
  <2>. QED
    BY <1>1, <1>2, <2>1, CallersAt DEF CommitBundle, Ask, SealStages, SessionFits, SealFits
<1>4. q.id = ask.id /\ q.reviews = ask.reviews /\ q.id \in BundleIds
  BY <1>2, <1>3, HistoricalAssumption DEF BundleOf, SealCall
<1>5. \A b : Standing(b)' <=> Standing(b)
  BY <1>3 DEF Standing, Approves, DecisionsNamed, IsSuperseded
<1>6. Standing(q)
  BY <1>3, <1>4 DEF Standing, Sealable
<1>7. Sealed' = Sealed \cup {q.id} /\ q.id \in BundleIds \ Sealed
  BY <1>3, <1>4 DEF Sealed
<1>8. Approved' = Approved \cup {q.id}
  BY <1>3, <1>5, <1>6 DEF Approved
<1>9. Events' = Events
  BY <1>3 DEF Events, EventAt
<1>10. Channel!Seal(q.id)
  BY <1>7, <1>8, <1>9, ChannelAbstracts
<1>. QED
  BY <1>4, <1>10 DEF Channel!Next

(* An activation's target still stands when the pointer moves to it.       *)
LEMMA ActivationMoves ==
  ASSUME HistoricalInv, HistoricalInv', NEW s \in Sessions, CommitActivation(s), ~Refuse(s)
  PROVE  Channel!Next
<1>1. PICK a : a = tx[s].ask.row
  OBVIOUS
<1>2. /\ tx[s].at = "commit_activation" /\ a \in ActivationRow
      /\ activations' = activations \cup {a} /\ channel'.version = a.sequence
      /\ UNCHANGED <<decisions, bundles>>
  BY <1>1, CallersAt, HistoricalAssumption
  DEF CommitActivation, At, Ask, MoveStages, TransitionCall
<1>3. Movable(a) /\ TargetAdmissible(a)
  BY <1>1, <1>2, CallersAt DEF SessionFits, MoveFits
<1>4. LogInv /\ LogInv'
  BY DEF HistoricalInv, TablesInv
<1>5. a.sequence = channel.version + 1
  BY <1>3 DEF Movable, ExpectationHolds
<1>6. Channel!Log(a.operation, a.target)
  <2>1. UNCHANGED <<Sealed, Approved>>
    BY <1>2 DEF Sealed, Approved, Standing, Approves, DecisionsNamed, IsSuperseded
  <2>2. Events' = Append(Events, [operation |-> a.operation, target |-> a.target])
    BY <1>2, <1>4, <1>5, ActivationAppends
  <2>. QED
    BY <2>1, <2>2, ChannelAbstracts
<1>7. Channel!Current = channel.current
  BY <1>4, CurrentIsLast
<1>8. CASE a.operation = "WITHDRAW"
  <2>1. Channel!Withdraw
    BY <1>3, <1>6, <1>7, <1>8 DEF Movable, Channel!Withdraw
  <2>. QED
    BY <2>1 DEF Channel!Next
<1>9. CASE a.operation # "WITHDRAW"
  <2>1. PICK b \in bundles : /\ b.id = a.target
                             /\ a.operation = "ACTIVATE" => Standing(b)
                             /\ a.operation = "ROLLBACK" => WasMadeCurrent(b.id, a.sequence)
    BY <1>3, <1>9 DEF TargetAdmissible, BundlesNamed
  <2>2. a.target \in BundleIds /\ a.target # channel.current /\ a.target \in Sealed
    BY <1>3, <1>9, <2>1 DEF Movable, Sealed, HistoricalInv, TablesInv, BundlesInv, BundleFits
  <2>3. CASE a.operation = "ACTIVATE"
    <3>1. a.target \in Approved
      BY <2>1, <2>3 DEF Approved
    <3>2. Channel!Activate(a.target)
      BY <1>6, <1>7, <2>2, <2>3, <3>1 DEF Channel!Activate, Approved
    <3>. QED
      BY <2>2, <3>2 DEF Channel!Next
  <2>4. CASE a.operation = "ROLLBACK"
    <3>1. PICK e \in activations : e.target = a.target
      BY <2>1, <2>4 DEF WasMadeCurrent
    <3>2. e.sequence \in 1 .. channel.version /\ EventAt(e.sequence).target = a.target
      <4>1. /\ e.sequence \in 1 .. channel.version
            /\ EventAt(e.sequence) = [operation |-> e.operation, target |-> e.target]
        BY <1>4, EventOf
      <4>. QED
        BY <3>1, <4>1
    <3>3. Channel!WasCurrent(a.target)
      BY <1>4, <3>2, ChannelAbstracts DEF Events, LogInv, LogConsistent
    <3>4. Channel!Rollback(a.target)
      BY <1>6, <1>7, <2>2, <2>4, <3>3 DEF Channel!Rollback, Sealed
    <3>. QED
      BY <2>2, <3>4 DEF Channel!Next
  <2>. QED
    BY <1>2, <1>9, <2>3, <2>4 DEF ActivationRow, Operations
<1>. QED
  BY <1>8, <1>9

(* Steps that no table shows.                                              *)
LEMMA QuietSteps ==
  ASSUME [Next]_vars
  PROVE  \/ UNCHANGED <<decisions, bundles, activations>>
         \/ \E s \in Sessions :
              CommitDecision(s) \/ CommitBundle(s) \/ (CommitActivation(s) /\ ~Refuse(s))
<1>1. UNCHANGED tables => UNCHANGED <<decisions, bundles, activations>>
  BY DEF tables
<1>2. \A s \in Sessions : \A rows, next : Lock(s, rows, next) => UNCHANGED <<decisions, bundles, activations>>
  BY DEF Lock, tables
<1>3. \A s \in Sessions : \A call, ask : Open(s, call, ask) => UNCHANGED <<decisions, bundles, activations>>
  BY DEF Open, tables
<1>4. \A s \in Sessions : Refuse(s) \/ Abort(s) => UNCHANGED <<decisions, bundles, activations>>
  BY DEF Refuse, Abort, tables
<1>5. CASE UNCHANGED vars \/ \E c \in Collections : CompleteCollection(c)
  BY <1>5 DEF vars, CompleteCollection
<1>6. ASSUME NEW s \in Sessions, LockActor(s) \/ BeginReview(s) \/ BeginSeal(s) \/ BeginTransition(s)
      PROVE  UNCHANGED <<decisions, bundles, activations>>
  BY <1>2, <1>3, <1>6 DEF LockActor, BeginReview, BeginSeal, BeginTransition
<1>7. ASSUME NEW s \in Sessions,
             \/ ApproveLockCollection(s) \/ FindDecision(s) \/ LockCollection(s)
             \/ LockDecisions(s) \/ InsertDecision(s)
      PROVE  UNCHANGED <<decisions, bundles, activations>>
  BY <1>1, <1>2, <1>4, <1>7
  DEF ApproveLockCollection, FindDecision, LockCollection, LockDecisions, InsertDecision, Proceed
<1>8. ASSUME NEW s \in Sessions,
             SealLockExisting(s) \/ LockReviews(s) \/ FindBundle(s) \/ InsertBundle(s)
      PROVE  UNCHANGED <<decisions, bundles, activations>>
  BY <1>1, <1>2, <1>4, <1>8 DEF SealLockExisting, LockReviews, FindBundle, InsertBundle, Proceed
<1>9. ASSUME NEW s \in Sessions,
             LockChannel(s) \/ FindActivation(s) \/ LockTarget(s) \/ InsertActivation(s)
      PROVE  UNCHANGED <<decisions, bundles, activations>>
  BY <1>1, <1>2, <1>4, <1>9 DEF LockChannel, FindActivation, LockTarget, InsertActivation, Proceed
<1>. QED
  BY <1>4, <1>5, <1>6, <1>7, <1>8, <1>9 DEF Next

(* The historical channel keeps the promise of an abstract publication     *)
(* channel whose rollbacks go to any last-known-good revision.             *)
THEOREM HistoricalImplementsChannel == Spec => ImplementsChannel
<1>1. Init => Channel!Init
  <2>. SUFFICES ASSUME Init PROVE Channel!Init
    OBVIOUS
  <2>1. Cardinality({}) = 0
    BY FS_EmptySet
  <2>2. Sealed = {} /\ Approved = {} /\ Events = <<>>
    BY <2>1 DEF Init, Sealed, Approved, Events
  <2>. QED
    BY <2>2, ChannelAbstracts
<1>2. HistoricalInv /\ HistoricalInv' /\ [Next]_vars => [Channel!Next]_(Channel!channelVars)
  <2>. SUFFICES ASSUME HistoricalInv, HistoricalInv', [Next]_vars
                PROVE  Channel!Next \/ UNCHANGED <<Sealed, Approved, Events>>
    BY ChannelAbstracts
  <2>1. CASE UNCHANGED <<decisions, bundles, activations>>
    BY <2>1 DEF Sealed, Approved, Events, EventAt, Standing, Approves, DecisionsNamed, IsSuperseded
  <2>. QED
    BY <2>1, QuietSteps, DecisionRevokes, BundleSeals, ActivationMoves
<1>. QED
  BY <1>1, <1>2, AlwaysInv, PTL DEF Spec, ImplementsChannel, Channel!Spec

-----------------------------------------------------------------------------
(* Why a publisher is refused.                                             *)

(* A service answers with an outcome when its transaction ends.            *)
OutcomesFit == \A s \in Sessions : tx[s].call # None => tx[s].outcome = "open"

(* A refusal of a seal, at the statement that found a reason.              *)
SealRefused(s) ==
  \/ At(s, "lock_reviews") /\ Cardinality(ReviewsNamed(Ask(s))) # 3
  \/ At(s, "find_bundle") /\ ~Sealable(Ask(s))
  \/ /\ At(s, "find_bundle")
     /\ \E b \in bundles : SameFacts(b, BundleOf(Ask(s))) /\ ~SameBundle(b, BundleOf(Ask(s)))
  \/ At(s, "insert_bundle") /\ ~BundleAdmissible(BundleOf(Ask(s)))

(* Every step is one of a session that goes on, ends or begins.            *)
StepOf(s) ==
  \/ \E rows : \E next \in Statements : Lock(s, rows, next)
  \/ \E call \in Services : \E ask : Open(s, call, ask)
  \/ End(s, "done")
  \/ End(s, "refused") /\ (tx[s].at \in SealStages => SealRefused(s))

LEMMA StepShape ==
  ASSUME HistoricalInv, [Next]_vars
  PROVE  UNCHANGED tx \/ \E s \in Sessions : StepOf(s)
<1>1. \A s \in Sessions : \A rows : \A next \in Statements : Lock(s, rows, next) => StepOf(s)
  BY DEF StepOf
<1>2. \A s \in Sessions : End(s, "done") => StepOf(s)
  BY DEF StepOf
<1>3. \A s \in Sessions : Refuse(s) /\ tx[s].at \notin SealStages => StepOf(s)
  BY DEF StepOf, Refuse
<1>4. \A s \in Sessions : Refuse(s) /\ SealRefused(s) => StepOf(s)
  BY DEF StepOf, Refuse
<1>5. ASSUME NEW s \in Sessions, LockActor(s) PROVE StepOf(s)
  <2>1. tx[s].at = "lock_actor" /\ CallFits(tx[s])
    BY <1>5, CallersAt DEF LockActor, At, SessionFits
  <2>2. tx[s].call \in Services
    BY <2>1 DEF CallFits, Services
  <2>3. AfterActor(tx[s].call) \in Statements
    BY <2>2, Entries DEF Services, Statements
  <2>. QED
    BY <1>1, <1>5, <2>3 DEF LockActor
<1>6. ASSUME NEW s \in Sessions, BeginReview(s) \/ BeginSeal(s) \/ BeginTransition(s)
      PROVE  StepOf(s)
  BY <1>6 DEF BeginReview, BeginSeal, BeginTransition, StepOf, Services
<1>7. ASSUME NEW s \in Sessions,
             \/ ApproveLockCollection(s) \/ FindDecision(s) \/ LockCollection(s)
             \/ LockDecisions(s) \/ InsertDecision(s) \/ CommitDecision(s)
      PROVE  StepOf(s)
  <2>1. tx[s].at \in ReviewStages
    BY <1>7 DEF ApproveLockCollection, FindDecision, LockCollection, LockDecisions,
       InsertDecision, CommitDecision, At, ReviewStages
  <2>2. tx[s].at \notin SealStages
    BY <2>1 DEF ReviewStages, SealStages
  <2>. QED
    BY <1>1, <1>2, <1>3, <1>7, <2>2 DEF ApproveLockCollection, FindDecision, LockCollection,
       LockDecisions, InsertDecision, CommitDecision, Proceed, Statements
<1>8. ASSUME NEW s \in Sessions,
             LockChannel(s) \/ FindActivation(s) \/ LockTarget(s) \/ InsertActivation(s) \/ CommitActivation(s)
      PROVE  StepOf(s)
  <2>1. tx[s].at \in MoveStages
    BY <1>8 DEF LockChannel, FindActivation, LockTarget, InsertActivation, CommitActivation, At, MoveStages
  <2>2. tx[s].at \notin SealStages
    BY <2>1 DEF MoveStages, SealStages
  <2>. QED
    BY <1>1, <1>2, <1>3, <1>8, <2>2 DEF LockChannel, FindActivation, LockTarget,
       InsertActivation, CommitActivation, Proceed, Statements
<1>9. ASSUME NEW s \in Sessions, SealLockExisting(s) \/ CommitBundle(s) \/ Abort(s) PROVE StepOf(s)
  BY <1>1, <1>2, <1>9 DEF SealLockExisting, CommitBundle, Abort, Statements
<1>10. ASSUME NEW s \in Sessions, LockReviews(s) PROVE StepOf(s)
  BY <1>1, <1>4, <1>10 DEF LockReviews, SealRefused, Statements
<1>11. ASSUME NEW s \in Sessions, FindBundle(s) PROVE StepOf(s)
  BY <1>1, <1>2, <1>4, <1>11 DEF FindBundle, Proceed, SealRefused, Statements
<1>12. ASSUME NEW s \in Sessions, InsertBundle(s) PROVE StepOf(s)
  BY <1>1, <1>4, <1>12 DEF InsertBundle, Proceed, SealRefused, Statements
<1>13. CASE UNCHANGED vars \/ \E c \in Collections : CompleteCollection(c)
  BY <1>13 DEF vars, CompleteCollection
<1>. QED
  BY <1>5, <1>6, <1>7, <1>8, <1>9, <1>10, <1>11, <1>12, <1>13 DEF Next

(* What a step does to the sessions' answers.                              *)
LEMMA Answers ==
  ASSUME HistoricalInv, NEW s \in Sessions, StepOf(s)
  PROVE  /\ \A t \in Sessions \ {s} : tx'[t] = tx[t]
         /\ \/ tx'[s].call = tx[s].call /\ tx'[s].outcome = tx[s].outcome
            \/ tx'[s].outcome = "open"
            \/ tx'[s].call = None /\ tx'[s].outcome = "done"
            \/ /\ tx'[s].call = None
               /\ tx[s].at \in SealStages => SealRefused(s)
<1>1. TypedTx
  BY DEF HistoricalInv, SessionsInv
<1>2. PICK H : tx \in [Sessions -> TxRows(H)]
  BY <1>1 DEF TypedTx
<1>3. CASE \E rows : \E next \in Statements : Lock(s, rows, next)
  BY <1>1, <1>3, LockFields
<1>4. ASSUME NEW call \in Services, NEW ask, Open(s, call, ask)
      PROVE  tx'[s].outcome = "open" /\ \A t \in Sessions \ {s} : tx'[t] = tx[t]
  BY <1>2, <1>4 DEF Open
<1>5. CASE End(s, "done")
  BY <1>1, <1>5, EndFields
<1>6. CASE End(s, "refused") /\ (tx[s].at \in SealStages => SealRefused(s))
  BY <1>1, <1>6, EndFields
<1>. QED
  BY <1>3, <1>4, <1>5, <1>6 DEF StepOf

LEMMA OutcomesAlwaysFit == Spec => []OutcomesFit
<1>1. Init => OutcomesFit
  BY DEF Init, Idle, OutcomesFit
<1>2. HistoricalInv /\ OutcomesFit /\ [Next]_vars => OutcomesFit'
  BY StepShape, Answers DEF OutcomesFit
<1>. QED
  BY <1>1, <1>2, AlwaysInv, PTL DEF Spec

(* Whatever the interleaving, three standing approvals of complete         *)
(* collections are refused only because an earlier bundle publishes the    *)
(* same facts otherwise: the insert trigger never refuses what the service *)
(* let through.                                                            *)
THEOREM SealRefusalsAreJustified == Spec => SealRefusalsHaveACause
<1>1. ASSUME HistoricalInv, OutcomesFit, [Next]_vars, NEW s \in Sessions,
             tx[s].call = "seal", ~At(s, "lock_actor"), tx'[s].outcome = "refused",
             Cardinality(ReviewsNamed(Ask(s))) = 3, Sealable(Ask(s))
      PROVE  \E b \in bundles : SameFacts(b, BundleOf(Ask(s))) /\ ~SameBundle(b, BundleOf(Ask(s)))
  <2>1. tx[s].outcome = "open"
    BY <1>1, HistoricalAssumption DEF OutcomesFit, Services
  <2>2. tx[s].at \in SealStages
    BY <1>1, CallersAt, HistoricalAssumption DEF SessionFits, CallFits, At, Services
  <2>3. SealRefused(s)
    BY <1>1, <2>1, <2>2, StepShape, Answers
  <2>4. ~(At(s, "insert_bundle") /\ ~BundleAdmissible(BundleOf(Ask(s))))
    <3>. SUFFICES ASSUME At(s, "insert_bundle") PROVE BundleAdmissible(BundleOf(Ask(s)))
      OBVIOUS
    <3>1. \A b \in bundles : ~SameFacts(b, BundleOf(Ask(s)))
      BY <1>1, CallersAt DEF At, Ask, SessionFits, SealFits
    <3>2. BundleOf(Ask(s)).reviews = Ask(s).reviews
      BY DEF BundleOf
    <3>. QED
      BY <1>1, <3>1, <3>2 DEF BundleAdmissible, Sealable
  <2>. QED
    BY <1>1, <2>3, <2>4 DEF SealRefused
<1>2. HistoricalInv /\ OutcomesFit /\ [Next]_vars =>
        [\A s \in Sessions :
           /\ tx[s].call = "seal" /\ ~At(s, "lock_actor") /\ tx'[s].outcome = "refused"
           /\ Cardinality(ReviewsNamed(Ask(s))) = 3 /\ Sealable(Ask(s))
           => \E b \in bundles : /\ SameFacts(b, BundleOf(Ask(s)))
                                 /\ ~SameBundle(b, BundleOf(Ask(s)))]_vars
  BY <1>1
<1>. QED
  BY <1>2, AlwaysInv, OutcomesAlwaysFit, PTL DEF Spec, SealRefusalsHaveACause
=============================================================================
