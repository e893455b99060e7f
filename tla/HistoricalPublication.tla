------------------------- MODULE HistoricalPublication -------------------------
(***************************************************************************)
(* The historical channel, from completed collections to public pages:     *)
(* reviewers decide about collections, publishers seal one approved        *)
(* monthly, regional and market collection into a bundle and move the      *)
(* HISTORICAL_RETAIL pointer, and the price-history, regions and markets   *)
(* pages read the current bundle.                                          *)
(*                                                                         *)
(* historical_reviews.py, historical_publications.py,                      *)
(* historical_activations.py, the management commands that call them, the  *)
(* triggers of migrations 0024 to 0027, and the readers                    *)
(* historical_public_read.py, historical_history_read.py and               *)
(* historical_daily_read.py.                                               *)
(*                                                                         *)
(* Every call is one transaction under READ COMMITTED whose statements     *)
(* interleave with those of other sessions; a SELECT ... FOR UPDATE takes  *)
(* all its rows in one step.  There is one source per kind of collection.  *)
(***************************************************************************)
EXTENDS Integers, FiniteSets

CONSTANTS
  Sessions,          \* database sessions
  Actors,            \* user rows the commands lock
  Collections,       \* historical collections
  KindOf,            \* kind of each collection
  ContentsOf,        \* what a completed collection may contain
  Manifests,         \* hashes of the code manifest in force when one starts
  DecisionIds,       \* review decision UUIDs
  BundleIds,         \* publication revision UUIDs
  OperationIds,      \* activation UUIDs, chosen by the publisher
  Reports,           \* compatibility report hashes
  Recorded,          \* decisions recorded before the behaviour starts
  ReviewCalls,       \* [actor, row : DecisionRow]
  SealCalls,         \* [actor, reviews, report, id]: id is the uuid4 it would draw
  TransitionCalls,   \* [actor, row : ActivationRow]
  HistoryMonths,     \* 36: months a page of history shows
  DailySpan,         \* 30: days from the first to the last date of a daily page
  MaxCalls,          \* bound: calls started in a behaviour
  None               \* SQL NULL

Kinds == {"MONTHLY", "REGIONAL_DAILY", "MARKET_DAILY"}
Verdicts == {"APPROVE", "REJECT"}
Services == {"review", "seal", "transition"}
Operations == {"ACTIVATE", "ROLLBACK", "WITHDRAW"}

(* A collection's rows and the window its plan asked the source for.  A    *)
(* row is <<series, region, month or date>>; prices are left out.          *)
Content == [rows : SUBSET (STRING \X STRING \X Int), min : Int, max : Int, manifest : Manifests]

DecisionRow ==
  [id : DecisionIds, collection : Collections, verdict : Verdicts,
   supersedes : DecisionIds \cup {None}]

BundleRow ==
  [id : BundleIds, reviews : [Kinds -> DecisionIds], report : Reports,
   facts : [Kinds -> SUBSET (STRING \X STRING \X Int)], manifest : Manifests,
   monthMin : Int, monthMax : Int, dateMin : Int, dateMax : Int]

ActivationRow ==
  [id : OperationIds, operation : Operations, sequence : Nat \ {0},
   previous : BundleIds \cup {None}, target : BundleIds \cup {None}]

ChannelRow == [version : Nat, current : BundleIds \cup {None}]

(* What a command may ask for; without an actor, the service is called as  *)
(* such.                                                                   *)
Asker == Actors \cup {None}
ReviewCall == [actor : Asker, row : DecisionRow]
SealCall ==
  [actor : Asker, id : BundleIds, report : Reports, reviews : [Kinds -> DecisionIds]]
TransitionCall == [actor : Asker, row : ActivationRow]

ASSUME HistoricalAssumption ==
  /\ KindOf \in [Collections -> Kinds]
  /\ \A c \in Collections : \A held \in ContentsOf[c] :
       /\ held \in Content /\ held # None
       /\ \A row \in held.rows : row[3] \in held.min .. held.max
  /\ ReviewCalls \subseteq ReviewCall
  /\ SealCalls \subseteq SealCall
  /\ TransitionCalls \subseteq TransitionCall
  /\ Recorded \subseteq DecisionRow
  /\ \A d, e \in Recorded :
       d.supersedes = None /\ (d.id = e.id \/ d.collection = e.collection => d = e)
  /\ None \notin Sessions \cup Actors \cup DecisionIds \cup BundleIds \cup Services
  /\ HistoryMonths \in Nat \ {0} /\ DailySpan \in Nat /\ MaxCalls \in Nat

VARIABLES
  content,      \* what each completed collection holds, None before
  decisions,    \* grocery_historicalcollectionreviewdecision
  bundles,      \* grocery_historicalretailpublicationrevision, sealed
  activations,  \* grocery_historicalretailpublicationactivation
  channel,      \* the HISTORICAL_RETAIL row
  tx,           \* the open transaction of each session
  started       \* number of calls started

tables == <<content, decisions, bundles, activations, channel>>
vars == <<content, decisions, bundles, activations, channel, tx, started>>

-----------------------------------------------------------------------------
(* Transactions.                                                           *)

Statements ==
  {"idle", "lock_actor",
   "approve_lock_collection", "find_decision", "lock_collection", "lock_decisions",
   "insert_decision", "commit_decision",
   "seal_lock_existing", "lock_reviews", "find_bundle", "insert_bundle", "commit_bundle",
   "lock_channel", "find_activation", "lock_target", "insert_activation",
   "commit_activation"}

Idle(outcome) ==
  [at |-> "idle", call |-> None, ask |-> None, holds |-> {}, outcome |-> outcome]

At(s, statement) == tx[s].at = statement
Ask(s) == tx[s].ask

Free(s, rows) == \A t \in Sessions \ {s} : tx[t].holds \cap rows = {}

(* A statement that locks rows waits until nobody else holds one of them.  *)
Lock(s, rows, next) ==
  /\ Free(s, rows)
  /\ tx' = [tx EXCEPT ![s].at = next, ![s].holds = @ \cup rows]
  /\ UNCHANGED <<tables, started>>

Proceed(s, next) == Lock(s, {}, next)

(* The transaction ends and lets its locks go; a session reused with them  *)
(* would block everyone.                                                   *)
EndKeepingLocks(s, outcome) ==
  tx' = [tx EXCEPT ![s] = [Idle(outcome) EXCEPT !.holds = tx[s].holds]] /\ UNCHANGED started
End(s, outcome) == tx' = [tx EXCEPT ![s] = Idle(outcome)] /\ UNCHANGED started

(* A ValidationError or a trigger's exception rolls everything back.       *)
Refuse(s) == End(s, "refused") /\ UNCHANGED tables

(* The service's first statement, and the first of the command that calls  *)
(* it: a command takes the row of its actor before anything else.          *)
FirstStatement(call) ==
  CASE call = "review"     -> "find_decision"
    [] call = "seal"       -> "lock_reviews"
    [] call = "transition" -> "lock_channel"

AfterActor(call) ==
  CASE call = "review"     -> "approve_lock_collection"
    [] call = "seal"       -> "seal_lock_existing"
    [] call = "transition" -> "lock_channel"

Open(s, call, ask) ==
  /\ At(s, "idle") /\ started < MaxCalls
  /\ tx' = [tx EXCEPT ![s] =
       [at |-> IF ask.actor = None THEN FirstStatement(call) ELSE "lock_actor",
        call |-> call, ask |-> ask, holds |-> {}, outcome |-> "open"]]
  /\ started' = started + 1
  /\ UNCHANGED tables

LockActor(s) ==
  /\ At(s, "lock_actor")
  /\ Lock(s, {<<"actor", Ask(s).actor>>}, AfterActor(tx[s].call))

-----------------------------------------------------------------------------
(* Reviews: record_historical_review_decision.                             *)

DecisionsNamed(id) == {d \in decisions : d.id = id}
OfCollection(c) == {d \in decisions : d.collection = c}
IsSuperseded(id) == \E e \in decisions : e.supersedes = id

(* The chain test with the tail condition left out.                        *)
ExtendsAny(d) ==
  IF d.supersedes = None
  THEN \A e \in OfCollection(d.collection) : e.supersedes # None
  ELSE \E e \in OfCollection(d.collection) : e.id = d.supersedes

(* The first decision of its collection, or a replacement of its tail.     *)
ExtendsChain(d) ==
  IF d.supersedes = None
  THEN \A e \in OfCollection(d.collection) : e.supersedes # None
  ELSE \E e \in OfCollection(d.collection) : e.id = d.supersedes /\ ~IsSuperseded(e.id)

(* Every completed collection is VALIDATED: no code path fails one.        *)
DecisionAdmissible(d) ==
  /\ DecisionsNamed(d.id) = {}
  /\ content[d.collection] # None
  /\ ExtendsChain(d)

BeginReview(s) == \E ask \in ReviewCalls : Open(s, "review", ask)

(* Command._approve holds the collection and its source while it calls the *)
(* service.                                                                *)
ApproveLockCollection(s) ==
  LET c == Ask(s).row.collection IN
  /\ At(s, "approve_lock_collection")
  /\ Lock(s, {<<"collection", c>>, <<"source", KindOf[c]>>}, "find_decision")

(* An exact replay is answered with the stored decision; any other use of  *)
(* its UUID is refused.                                                    *)
FindDecision(s) ==
  LET named == DecisionsNamed(Ask(s).row.id) IN
  /\ At(s, "find_decision") /\ Free(s, {<<"decision", d.id>> : d \in named})
  /\ \/ named = {} /\ Proceed(s, "lock_collection")
     \/ named = {Ask(s).row} /\ End(s, "done") /\ UNCHANGED tables
     \/ named \notin {{}, {Ask(s).row}} /\ Refuse(s)

LockCollection(s) ==
  /\ At(s, "lock_collection")
  /\ Lock(s, {<<"collection", Ask(s).row.collection>>}, "lock_decisions")

LockDecisions(s) ==
  /\ At(s, "lock_decisions")
  /\ Lock(s, {<<"decision", d.id>> : d \in OfCollection(Ask(s).row.collection)}, "insert_decision")

(* The insert waits for another one of the same UUID.                      *)
InsertDecision(s) ==
  LET d == Ask(s).row IN
  /\ At(s, "insert_decision")
  /\ IF DecisionAdmissible(d) THEN Lock(s, {<<"new decision", d.id>>}, "commit_decision")
     ELSE Refuse(s)

CommitDecision(s) ==
  /\ At(s, "commit_decision")
  /\ decisions' = decisions \cup {Ask(s).row}
  /\ End(s, "done")
  /\ UNCHANGED <<content, bundles, activations, channel>>

-----------------------------------------------------------------------------
(* Bundles: seal_historical_publication.                                   *)

SeriesOf(rows) == {row[1] : row \in rows}
TimesOf(rows, series, region) == {row[3] : row \in {r \in rows : r[1] = series /\ r[2] = region}}
RegionsOf(rows, series) == {row[2] : row \in {r \in rows : r[1] = series}}

(* The months a complete history ends with.                                *)
RequiredMonths(monthMax) == (monthMax - HistoryMonths + 1) .. monthMax

WithinWindow(regional, market) ==
  regional.max - regional.min <= DailySpan /\ market.max - market.min <= DailySpan

Shared(regional, market) == regional.rows \cap market.rows

(* _validate_completeness: the three collections name the same series, and *)
(* every series has a region with a complete history and a region and date *)
(* with both a regional price and market prices.                           *)
Complete(monthly, regional, market) ==
  /\ SeriesOf(monthly.rows) # {}
  /\ SeriesOf(monthly.rows) = SeriesOf(regional.rows)
  /\ SeriesOf(monthly.rows) = SeriesOf(market.rows)
  /\ \A series \in SeriesOf(monthly.rows) :
       /\ \E region \in RegionsOf(monthly.rows, series) :
            RequiredMonths(monthly.max) \subseteq TimesOf(monthly.rows, series, region)
       /\ series \in SeriesOf(Shared(regional, market))

(* The decision is the standing approval of a completed collection of the  *)
(* kind asked for.                                                         *)
Approves(id, kind) ==
  \E d \in DecisionsNamed(id) :
    /\ d.verdict = "APPROVE" /\ ~IsSuperseded(id)
    /\ KindOf[d.collection] = kind

ContentReviewed(id) == content[(CHOOSE d \in decisions : d.id = id).collection]

SealableContents(parts) ==
  /\ Cardinality({parts[k].manifest : k \in Kinds}) = 1
  /\ WithinWindow(parts["REGIONAL_DAILY"], parts["MARKET_DAILY"])
  /\ Complete(parts["MONTHLY"], parts["REGIONAL_DAILY"], parts["MARKET_DAILY"])

Parts(ask) == [k \in Kinds |-> ContentReviewed(ask.reviews[k])]

Sealable(ask) ==
  /\ \A k \in Kinds : Approves(ask.reviews[k], k)
  /\ SealableContents(Parts(ask))

(* The row the service writes: typed facts without the windows, and the    *)
(* range of shared dates.                                                  *)
BundleOf(ask) ==
  LET parts == Parts(ask)
      dates == {row[3] : row \in Shared(parts["REGIONAL_DAILY"], parts["MARKET_DAILY"])}
  IN [id |-> ask.id, reviews |-> ask.reviews, report |-> ask.report,
      facts |-> [k \in Kinds |-> parts[k].rows], manifest |-> parts["MONTHLY"].manifest,
      monthMin |-> parts["MONTHLY"].min, monthMax |-> parts["MONTHLY"].max,
      dateMin |-> CHOOSE d \in dates : \A e \in dates : d <= e,
      dateMax |-> CHOOSE d \in dates : \A e \in dates : e <= d]

(* The uuid4 of a new bundle is one that nobody has drawn.                 *)
BeginSeal(s) ==
  \E ask \in SealCalls :
    /\ \A b \in bundles : b.id # ask.id
    /\ \A t \in Sessions : tx[t].call = "seal" => Ask(t).id # ask.id
    /\ Open(s, "seal", ask)

(* Command._seal locks the bundles of the same reviews to tell later       *)
(* whether the service made a new one.                                     *)
SealLockExisting(s) ==
  /\ At(s, "seal_lock_existing")
  /\ Lock(s, {<<"bundle", b.id>> : b \in {q \in bundles : q.reviews = Ask(s).reviews}},
          "lock_reviews")

(* The joined SELECT of the three decisions locks their collections and    *)
(* sources too.                                                            *)
ReviewRows(D) ==
  UNION {{<<"decision", d.id>>, <<"collection", d.collection>>,
          <<"source", KindOf[d.collection]>>} : d \in D}

ReviewsNamed(ask) == UNION {DecisionsNamed(ask.reviews[k]) : k \in Kinds}

LockReviews(s) ==
  LET named == ReviewsNamed(Ask(s)) IN
  /\ At(s, "lock_reviews")
  /\ \/ Cardinality(named) = 3 /\ Lock(s, ReviewRows(named), "find_bundle")
     \/ Cardinality(named) # 3 /\ Free(s, ReviewRows(named)) /\ Refuse(s)

SameFacts(b, q) == b.facts = q.facts

(* A bundle that already publishes the same facts is returned when every   *)
(* other field agrees too, and is a conflict when one differs.             *)
SameBundle(b, q) == [b EXCEPT !.id = None] = [q EXCEPT !.id = None]

FindBundle(s) ==
  LET wanted == BundleOf(Ask(s))
      stored == {b \in bundles : SameFacts(b, wanted)}
  IN
  /\ At(s, "find_bundle")
  /\ \/ ~Sealable(Ask(s)) /\ Refuse(s)
     \/ Sealable(Ask(s)) /\ stored = {} /\ Proceed(s, "insert_bundle")
     \/ /\ Sealable(Ask(s)) /\ Free(s, {<<"bundle", b.id>> : b \in stored})
        /\ \E b \in stored :
             \/ SameBundle(b, wanted) /\ End(s, "done") /\ UNCHANGED tables
             \/ ~SameBundle(b, wanted) /\ Refuse(s)

(* The unique index and the insert trigger, which asks for standing        *)
(* approvals once more.  Were the reviews one-to-one fields, no review     *)
(* could serve a second bundle.                                            *)
AdmissibleOncePerReview(b) ==
  \A q \in bundles : \A k \in Kinds : q.reviews[k] # b.reviews[k]

BundleAdmissible(b) ==
  /\ \A q \in bundles : ~SameFacts(q, b)
  /\ \A k \in Kinds : Approves(b.reviews[k], k)

InsertBundle(s) ==
  /\ At(s, "insert_bundle")
  /\ IF BundleAdmissible(BundleOf(Ask(s))) THEN Proceed(s, "commit_bundle") ELSE Refuse(s)

CommitBundle(s) ==
  /\ At(s, "commit_bundle")
  /\ bundles' = bundles \cup {BundleOf(Ask(s))}
  /\ End(s, "done")
  /\ UNCHANGED <<content, decisions, activations, channel>>

-----------------------------------------------------------------------------
(* The pointer: transition_historical_publication.                         *)

BundlesNamed(id) == {b \in bundles : b.id = id}

Standing(b) == \A k \in Kinds : Approves(b.reviews[k], k)

ExpectationHolds(a) ==
  a.sequence = channel.version + 1 /\ a.previous = channel.current

WasMadeCurrent(id, before) ==
  \E a \in activations :
    a.sequence < before /\ a.operation \in {"ACTIVATE", "ROLLBACK"} /\ a.target = id

Movable(a) ==
  /\ ExpectationHolds(a)
  /\ IF a.operation = "WITHDRAW"
     THEN a.target = None /\ channel.current # None
     ELSE a.target \notin {None, channel.current}

(* A rollback goes to any last-known-good bundle: only an activation asks  *)
(* for approvals that still stand.                                         *)
TargetAdmissible(a) ==
  a.operation # "WITHDRAW" =>
    \E b \in BundlesNamed(a.target) :
      /\ a.operation = "ACTIVATE" => Standing(b)
      /\ a.operation = "ROLLBACK" => WasMadeCurrent(b.id, a.sequence)

(* The deferred constraint triggers: the log is gapless, each event starts *)
(* where the one before ended, and the pointer is where the last one ended. *)
LogConsistent(log, pointer) ==
  /\ pointer.version = Cardinality(log)
  /\ \A a \in log :
       /\ a.sequence \in 1 .. Cardinality(log)
       /\ a.sequence = 1 => a.previous = None
       /\ a.sequence > 1 => \E b \in log : b.sequence = a.sequence - 1 /\ b.target = a.previous
       /\ a.sequence = Cardinality(log) => pointer.current = a.target

(* The channel row takes only the move that its logged activation records. *)
PointerMayMove(log, pointer) ==
  /\ pointer.version = channel.version + 1
  /\ \E a \in log : /\ a.sequence = pointer.version
                    /\ a.previous = channel.current /\ a.target = pointer.current

BeginTransition(s) == \E ask \in TransitionCalls : Open(s, "transition", ask)

(* The version-0 row is inserted if it is missing, and locked.             *)
LockChannel(s) ==
  /\ At(s, "lock_channel")
  /\ Lock(s, {<<"channel", None>>}, "find_activation")

FindActivation(s) ==
  LET a == Ask(s).row
      named == {b \in activations : b.id = a.id}
  IN
  /\ At(s, "find_activation")
  /\ \/ a \in named /\ End(s, "done") /\ UNCHANGED tables
     \/ a \notin named /\ (named # {} \/ ~Movable(a)) /\ Refuse(s)
     \/ /\ named = {} /\ Movable(a)
        /\ Proceed(s, IF a.operation = "WITHDRAW" THEN "insert_activation" ELSE "lock_target")

(* select_related locks the target's three reviews with it; locking the    *)
(* bundle alone would let a reviewer supersede one before the commit.      *)
TargetRowOnly(b) == {<<"bundle", b.id>>}
TargetRows(b) == {<<"bundle", b.id>>} \cup {<<"decision", b.reviews[k]>> : k \in Kinds}

LockTarget(s) ==
  LET target == BundlesNamed(Ask(s).row.target) IN
  /\ At(s, "lock_target")
  /\ \/ target # {} /\ Lock(s, UNION {TargetRows(b) : b \in target}, "insert_activation")
     \/ target = {} /\ Refuse(s)

InsertActivation(s) ==
  /\ At(s, "insert_activation")
  /\ IF TargetAdmissible(Ask(s).row) THEN Proceed(s, "commit_activation") ELSE Refuse(s)

(* The compare-and-set of the pointer and the deferred constraints.        *)
CommitActivation(s) ==
  LET a == Ask(s).row
      log == activations \cup {a}
      pointer == [version |-> a.sequence, current |-> a.target]
  IN
  /\ At(s, "commit_activation")
  /\ IF PointerMayMove(log, pointer) /\ LogConsistent(log, pointer)
     THEN /\ activations' = log /\ channel' = pointer
          /\ End(s, "done")
          /\ UNCHANGED <<content, decisions, bundles>>
     ELSE Refuse(s)

-----------------------------------------------------------------------------
(* The public pages of one bundle.                                         *)

(* load_active_historical_publication: every review is still an APPROVE of *)
(* a completed collection of its kind; whether it stands is not asked.     *)
Loads(b) ==
  \A k \in Kinds : \E d \in DecisionsNamed(b.reviews[k]) :
    /\ d.verdict = "APPROVE" /\ KindOf[d.collection] = k
    /\ content[d.collection] # None
    /\ content[d.collection].manifest = b.manifest

(* The history page: the regions with a complete history.                  *)
HistoryRegions(b, series) ==
  {region \in RegionsOf(b.facts["MONTHLY"], series) :
     RequiredMonths(b.monthMax) \subseteq TimesOf(b.facts["MONTHLY"], series, region)}

(* A page that starts its window one day late.                             *)
LateWindow(b) == (b.dateMax - DailySpan + 1) .. b.dateMax

DailyWindow(b) == (b.dateMax - DailySpan) .. b.dateMax

InWindow(b, kind, series) ==
  {row \in b.facts[kind] : row[1] = series /\ row[3] \in DailyWindow(b)}

(* The regions page: the dates it offers, and whether the row of a region  *)
(* links to its markets on that date.                                      *)
RegionDates(b, series) ==
  {row[3] : row \in InWindow(b, "REGIONAL_DAILY", series) \cap InWindow(b, "MARKET_DAILY", series)}

MarketAvailable(b, series, region, date) ==
  <<series, region, date>> \in InWindow(b, "MARKET_DAILY", series)

RegionRows(b, series, date) ==
  {row[2] : row \in {r \in InWindow(b, "REGIONAL_DAILY", series) : r[3] = date}}

(* The markets page of a region: the dates it accepts.                     *)
MarketDates(b, series, region) ==
  TimesOf(InWindow(b, "REGIONAL_DAILY", series), series, region)
    \cap TimesOf(InWindow(b, "MARKET_DAILY", series), series, region)

-----------------------------------------------------------------------------
(* The collector completes a collection, and connections are lost.         *)

CompleteCollection(c) ==
  /\ content[c] = None
  /\ \E held \in ContentsOf[c] : content' = [content EXCEPT ![c] = held]
  /\ UNCHANGED <<decisions, bundles, activations, channel, tx, started>>

Abort(s) == ~At(s, "idle") /\ End(s, "done") /\ UNCHANGED tables

Init ==
  /\ content \in [Collections -> UNION {ContentsOf[c] : c \in Collections} \cup {None}]
  /\ \A c \in Collections :
       IF \E d \in Recorded : d.collection = c THEN content[c] \in ContentsOf[c]
       ELSE content[c] = None
  /\ decisions = Recorded /\ bundles = {} /\ activations = {}
  /\ channel = [version |-> 0, current |-> None]
  /\ tx = [s \in Sessions |-> Idle("done")]
  /\ started = 0

Next ==
  \/ \E s \in Sessions :
       \/ LockActor(s) \/ Abort(s)
       \/ BeginReview(s) \/ ApproveLockCollection(s) \/ FindDecision(s) \/ LockCollection(s)
       \/ LockDecisions(s) \/ InsertDecision(s) \/ CommitDecision(s)
       \/ BeginSeal(s) \/ SealLockExisting(s) \/ LockReviews(s) \/ FindBundle(s)
       \/ InsertBundle(s) \/ CommitBundle(s)
       \/ BeginTransition(s) \/ LockChannel(s) \/ FindActivation(s) \/ LockTarget(s)
       \/ InsertActivation(s) \/ CommitActivation(s)
  \/ \E c \in Collections : CompleteCollection(c)

Spec == Init /\ [][Next]_vars

-----------------------------------------------------------------------------
(* Properties.                                                             *)

TypeOK ==
  /\ \A c \in Collections : content[c] \in ContentsOf[c] \cup {None}
  /\ decisions \subseteq DecisionRow
  /\ \A b \in bundles : b.id \in BundleIds /\ b.reviews \in [Kinds -> DecisionIds]
  /\ activations \subseteq ActivationRow
  /\ channel \in ChannelRow
  /\ \A s \in Sessions : tx[s].at \in Statements /\ (At(s, "idle") => tx[s].holds = {})
  /\ started \in 0..MaxCalls

(* The reviews of a collection form one chain from one root: reviewers who *)
(* decide at the same time never leave two standing decisions.             *)
(* (historical_reviews.py and trigger 0024)                                *)
ReviewChains ==
  \A c \in Collections :
    /\ \A d, e \in OfCollection(c) : d.supersedes = e.supersedes => d = e
    /\ OfCollection(c) # {} => \E d \in OfCollection(c) : ~IsSuperseded(d.id)

(* The tables, seen as the channel they implement: reviewers take          *)
(* approvals away between any two statements of a publisher, and still no  *)
(* activation commits for a bundle whose approvals have gone, no rollback  *)
(* for one that was never current, and no event on a pointer that moved.   *)
Channel ==
  INSTANCE PublicationChannel WITH
    Revisions <- BundleIds,
    RollbackNeedsApproval <- FALSE,
    sealed <- {b.id : b \in bundles},
    approved <- {b.id : b \in {q \in bundles : Standing(q)}},
    events <- [i \in 1 .. Cardinality(activations) |->
                 LET a == CHOOSE x \in activations : x.sequence = i
                 IN [operation |-> a.operation, target |-> a.target]]

ImplementsChannel == Channel!Spec

(* What is sealed can be read, and what is current can be loaded: a series *)
(* of a bundle has a history region, a date on its regions page, and every *)
(* market link of that page leads to a markets page that accepts it.  The  *)
(* seal checks collections, the pages read windows counted back from the   *)
(* last shared date of any series.  (historical_publications.py against    *)
(* historical_history_read.py and historical_daily_read.py)                *)
SeriesIsReadable(b, series) ==
  /\ HistoryRegions(b, series) # {}
  /\ RegionDates(b, series) # {}
  /\ \A date \in RegionDates(b, series) : \A region \in RegionRows(b, series, date) :
       MarketAvailable(b, series, region, date) => date \in MarketDates(b, series, region)

BundlesAreReadable ==
  \A b \in bundles :
    /\ Loads(b)
    /\ \A k \in Kinds : SeriesOf(b.facts[k]) = SeriesOf(b.facts["MONTHLY"])
    /\ \A series \in SeriesOf(b.facts["MONTHLY"]) : SeriesIsReadable(b, series)

(* Three standing approvals of complete collections can be sealed unless   *)
(* an earlier bundle publishes the same facts on other reviews, with       *)
(* another report or for another window.  Approving a collection again, or *)
(* collecting it again without a change, therefore strands its facts: the  *)
(* copy revision is fixed to ko-v4 and the old bundle may not be activated *)
(* either.  (historical_publications.py:240-253)                           *)
SealRefusalsHaveACause ==
  [][\A s \in Sessions :
       /\ tx[s].call = "seal" /\ ~At(s, "lock_actor") /\ tx'[s].outcome = "refused"
       /\ Cardinality(ReviewsNamed(Ask(s))) = 3 /\ Sealable(Ask(s))
       => \E b \in bundles : /\ SameFacts(b, BundleOf(Ask(s)))
                             /\ ~SameBundle(b, BundleOf(Ask(s)))]_vars
=============================================================================
