----------------------- MODULE HistoricalCollectionProofs -----------------------
(***************************************************************************)
(* The runs of a historical collection, for any number of runs,            *)
(* collections, regions and plans.                                         *)
(*                                                                         *)
(*   - An attempt is appended by the run that finds its ordinal free, so   *)
(*     ordinals have no gaps, and is changed only by the run that made it, *)
(*     while it is STARTED: what was fetched stays fetched.                *)
(*   - A part is never changed, is of the scope that the plan gives its    *)
(*     ordinal, and was fetched for that scope.                            *)
(*   - A run reaches partition i with the parts 1 .. i - 1 stored.         *)
(***************************************************************************)
EXTENDS HistoricalCollection, FunctionTheorems, FiniteSetTheorems, TLAPS

-----------------------------------------------------------------------------
(* The invariant.                                                          *)

Open == {"fetching", "failing", "fetched"}
Begun == {"counted", "stored", "persisted"} \cup Open

Planned(c, p) == collections[c] \in CollectionRow /\ collections[c].plan = p

(* Run x is the one that made attempt o of c.                              *)
Made(x, c, o) ==
  /\ run[x].collection = c /\ run[x].base # 0
  /\ o \in run[x].base .. (run[x].base + run[x].i - 1)
  /\ run[x].at = "counted" => o # AttemptOrdinal(x)

Types ==
  /\ active \in BOOLEAN
  /\ collections \in [Collections -> CollectionRow \cup {None}]
  /\ DOMAIN attempts = Collections
  /\ DOMAIN parts \subseteq Contents
  /\ run \in [Runs -> RunState]

AttemptsFit(c) ==
  /\ \E n \in Nat : DOMAIN attempts[c] = 1 .. n
  /\ \A o \in DOMAIN attempts[c] :
       /\ attempts[c][o] \in AttemptRow
       /\ \E x \in Runs : Made(x, c, o)
       /\ attempts[c][o].state = "STARTED" =>
            \E x \in Runs :
              /\ run[x].collection = c /\ run[x].base # 0 /\ AttemptOrdinal(x) = o
              /\ run[x].at \in Open \/ run[x].code = "STOPPED"

OneRunPerAttempt ==
  \A r, x \in Runs :
    /\ r # x /\ run[r].collection = run[x].collection
    /\ run[r].at \in Open /\ run[x].at \in Open
    => AttemptOrdinal(r) # AttemptOrdinal(x)

(* A stored part.                                                          *)
PartFits(k) ==
  LET c == parts[k].collection  o == parts[k].ordinal IN
  /\ parts[k] \in PartRow
  /\ collections[c] \in CollectionRow
  /\ o \in DOMAIN collections[c].plan /\ parts[k].scope = collections[c].plan[o]
  /\ Fetched(c, parts[k].scope, k)
  /\ InScope(k, parts[k].scope) /\ Readable(k)
  /\ \A other \in PartsOf(c) \ {k} :
       parts[other].ordinal # o /\ RegionsIn(other) \cap RegionsIn(k) = {}

ValidatedFits(c) ==
  collections[c] \in CollectionRow /\ collections[c].state = "VALIDATED" => AccordingToPlan(c)

(* What a run at work holds.                                               *)
WorkFits(r) ==
  LET c == run[r].collection  p == run[r].plan IN
  /\ run[r].at \in {"idle", "planned"} => run[r].base = 0 /\ run[r].stored = <<>>
  /\ run[r].at = "planned" => c \in Collections /\ p \in Plans /\ Planned(c, p)
  /\ run[r].base # 0 =>
       c \in Collections /\ p \in Plans /\ Planned(c, p) /\ run[r].i \in DOMAIN p
  /\ run[r].at \in Begun => run[r].base # 0
  /\ run[r].at = "counted" =>
       AttemptOrdinal(r) = 1 \/ AttemptOrdinal(r) - 1 \in DOMAIN attempts[c]
  /\ run[r].at \in Open \cup {"stored"} => AttemptOrdinal(r) \in DOMAIN attempts[c]
  /\ run[r].at \in Open =>
       attempts[c][AttemptOrdinal(r)] = [scope |-> ScopeAt(r), state |-> "STARTED", artifact |-> None]
  /\ run[r].at \in {"fetched", "stored"} => run[r].content \in Contents
  /\ run[r].at = "stored" => Fetched(c, ScopeAt(r), run[r].content)

(* The parts it stored or found.                                           *)
StoredFits(r) ==
  /\ run[r].at \in Begun \ {"persisted"} => Len(run[r].stored) = run[r].i - 1
  /\ run[r].at = "persisted" \/ run[r].code = "VALIDATED" =>
       run[r].base # 0 /\ Len(run[r].stored) = Len(run[r].plan)
  /\ run[r].at \in Begun \/ run[r].code = "VALIDATED" =>
       \A j \in DOMAIN run[r].stored :
         /\ run[r].stored[j] \in PartsOf(run[r].collection)
         /\ parts[run[r].stored[j]].ordinal = j

(* How it ended.                                                           *)
Conflict(r) ==
  /\ run[r].collection \in Collections
  /\ collections[run[r].collection] \in CollectionRow
  /\ collections[run[r].collection].plan # run[r].plan

Overtaken(r) ==
  /\ run[r].base # 0
  /\ \E other \in Runs \ {r} :
       /\ run[other].collection = run[r].collection /\ run[other].base # 0
       /\ AttemptOrdinal(r) \in run[other].base .. (run[other].base + run[other].i - 1)

EndFits(r) ==
  /\ IF run[r].at = "ended" THEN run[r].code \in Codes ELSE run[r].code = None
  /\ run[r].code = "VALIDATED" => collections[run[r].collection].state = "VALIDATED"
  /\ run[r].code = "PART_PERSISTENCE_FAILED" => run[r].base # 0 /\ RefusedParts(r)
  /\ run[r].code = "FAILED" => ~active \/ Conflict(r) \/ Overtaken(r)
  /\ run[r].code # "COLLECTION_COMPLETION_FAILED"

CollectionInv ==
  /\ Types
  /\ \A c \in Collections : AttemptsFit(c) /\ ValidatedFits(c)
  /\ OneRunPerAttempt
  /\ \A k \in DOMAIN parts : PartFits(k)
  /\ \A r \in Runs : WorkFits(r) /\ StoredFits(r) /\ EndFits(r)

-----------------------------------------------------------------------------
(* What no step takes away, and what a step of run r leaves to the others. *)

Frame(r) ==
  /\ active' => active
  /\ \A c \in Collections : collections[c] \in CollectionRow =>
       /\ collections'[c] \in CollectionRow
       /\ collections'[c].plan = collections[c].plan
       /\ collections[c].state = "VALIDATED" => collections'[c].state = "VALIDATED"
  /\ \A c \in Collections :
       /\ DOMAIN attempts[c] \subseteq DOMAIN attempts'[c]
       /\ \A o \in DOMAIN attempts[c] :
            \/ attempts'[c][o] = attempts[c][o]
            \/ run[r].at \in Open /\ c = run[r].collection /\ o = AttemptOrdinal(r)
  /\ \A k \in DOMAIN parts : k \in DOMAIN parts' /\ parts'[k] = parts[k]
  /\ \A x \in Runs \ {r} : run'[x] = run[x]
  /\ run[r].base # 0 =>
       /\ run'[r].base = run[r].base /\ run'[r].collection = run[r].collection
       /\ run'[r].i >= run[r].i
       /\ run'[r].at = "counted" => run'[r].i > run[r].i

(* The plan that a run is at work on is one of the plans, and its scopes   *)
(* are distinct.                                                           *)
LEMMA PlanFacts ==
  ASSUME NEW p \in Plans
  PROVE  /\ p \in Seq(Scopes) /\ Len(p) \in Nat \ {0} /\ DOMAIN p = 1 .. Len(p)
         /\ 1 \in DOMAIN p
         /\ \A i, j \in DOMAIN p : p[i] = p[j] => i = j
         /\ \A i \in DOMAIN p : p[i] \in Scopes /\ Answers[p[i]] \subseteq Contents
<1>1. p \in Seq(Scopes) /\ p # <<>> /\ IsInjective(p)
  BY CollectionAssumption
<1>2. Len(p) \in Nat \ {0} /\ DOMAIN p = 1 .. Len(p) /\ \A i \in DOMAIN p : p[i] \in Scopes
  BY <1>1
<1>3. \A i, j \in DOMAIN p : p[i] = p[j] => i = j
  BY <1>1 DEF IsInjective
<1>. QED
  BY <1>1, <1>2, <1>3, CollectionAssumption

(* What was fetched stays fetched: the attempt that a run overwrites is    *)
(* its own and still STARTED.                                              *)
LEMMA FetchedGrows ==
  ASSUME CollectionInv, NEW r \in Runs, Frame(r),
         NEW c \in Collections, NEW s, NEW k, Fetched(c, s, k)
  PROVE  Fetched(c, s, k)'
<1>1. PICK o \in DOMAIN attempts[c] :
        attempts[c][o] = [scope |-> s, state |-> "SUCCEEDED", artifact |-> k]
  BY DEF Fetched
<1>2. attempts[c][o].state = "SUCCEEDED"
  BY <1>1
<1>3. run[r].at \in Open /\ c = run[r].collection => attempts[c][AttemptOrdinal(r)].state = "STARTED"
  <2>1. WorkFits(r)
    BY DEF CollectionInv
  <2>2. run[r].at \in Open =>
          attempts[run[r].collection][AttemptOrdinal(r)]
            = [scope |-> ScopeAt(r), state |-> "STARTED", artifact |-> None]
    BY <2>1 DEF WorkFits
  <2>. QED
    BY <2>2
<1>4. attempts'[c][o] = attempts[c][o] /\ o \in DOMAIN attempts'[c]
  BY <1>2, <1>3 DEF Frame
<1>. QED
  BY <1>1, <1>4 DEF Fetched

(* A run that does not move keeps all that is known of it.                 *)
LEMMA OthersWorkFits ==
  ASSUME CollectionInv, NEW r \in Runs, Frame(r), NEW x \in Runs \ {r}
  PROVE  WorkFits(x)'
<1>1. WorkFits(x) /\ run'[x] = run[x]
  BY DEF CollectionInv, Frame
<1>2. AttemptOrdinal(x)' = AttemptOrdinal(x) /\ ScopeAt(x)' = ScopeAt(x)
  BY <1>1 DEF AttemptOrdinal, ScopeAt
<1>3. run[x].base # 0 => run[x].collection \in Collections
  BY <1>1 DEF WorkFits
<1>4. ASSUME NEW c \in Collections, NEW p, Planned(c, p)
      PROVE  Planned(c, p)'
  BY <1>4 DEF Planned, Frame
<1>5. run[x].at \in Open =>
        attempts'[run[x].collection][AttemptOrdinal(x)]
          = attempts[run[x].collection][AttemptOrdinal(x)]
  <2>1. SUFFICES ASSUME run[x].at \in Open
                 PROVE  attempts'[run[x].collection][AttemptOrdinal(x)]
                          = attempts[run[x].collection][AttemptOrdinal(x)]
    OBVIOUS
  <2>2. run[x].collection \in Collections
        /\ AttemptOrdinal(x) \in DOMAIN attempts[run[x].collection]
    BY <1>1, <2>1 DEF WorkFits, Begun
  <2>3. ~(run[r].at \in Open /\ run[x].collection = run[r].collection
          /\ AttemptOrdinal(x) = AttemptOrdinal(r))
    BY <2>1 DEF CollectionInv, OneRunPerAttempt
  <2>. QED
    BY <2>2, <2>3 DEF Frame
<1>6. run[x].at = "stored" => Fetched(run[x].collection, ScopeAt(x), run[x].content)'
  <2>1. SUFFICES ASSUME run[x].at = "stored"
                 PROVE  Fetched(run[x].collection, ScopeAt(x), run[x].content)'
    OBVIOUS
  <2>2. run[x].collection \in Collections /\ Fetched(run[x].collection, ScopeAt(x), run[x].content)
    BY <1>1, <2>1 DEF WorkFits, Begun
  <2>3. PICK c, s, k : c \in Collections /\ c = run[x].collection /\ s = ScopeAt(x) /\ k = run[x].content
    BY <2>2
  <2>4. Fetched(c, s, k)'
    BY <2>2, <2>3, FetchedGrows
  <2>. QED
    BY <2>3, <2>4, <1>1, <1>2 DEF Fetched
<1>7. \A c \in Collections : DOMAIN attempts[c] \subseteq DOMAIN attempts'[c]
  BY DEF Frame
<1>. QED
  BY <1>1, <1>2, <1>3, <1>4, <1>5, <1>6, <1>7 DEF WorkFits, Begun, Planned

LEMMA OthersStoredFits ==
  ASSUME CollectionInv, NEW r \in Runs, Frame(r), NEW x \in Runs \ {r}
  PROVE  StoredFits(x)'
<1>1. StoredFits(x) /\ run'[x] = run[x]
  BY DEF CollectionInv, Frame
<1>2. \A k \in DOMAIN parts : k \in DOMAIN parts' /\ parts'[k] = parts[k]
  BY DEF Frame
<1>. QED
  BY <1>1, <1>2 DEF StoredFits, PartsOf

LEMMA OthersEndFits ==
  ASSUME CollectionInv, Types', NEW r \in Runs, Frame(r), NEW x \in Runs \ {r}
  PROVE  EndFits(x)'
<1>1. EndFits(x) /\ WorkFits(x) /\ StoredFits(x) /\ run'[x] = run[x]
  BY DEF CollectionInv, Frame
<1>2. AttemptOrdinal(x)' = AttemptOrdinal(x) /\ ScopeAt(x)' = ScopeAt(x)
  BY <1>1 DEF AttemptOrdinal, ScopeAt
<1>3. run[x].code = "VALIDATED" => collections'[run[x].collection].state = "VALIDATED"
  <2>1. run[x].code = "VALIDATED" =>
          /\ run[x].collection \in Collections
          /\ collections[run[x].collection] \in CollectionRow
          /\ collections[run[x].collection].state = "VALIDATED"
    BY <1>1 DEF EndFits, StoredFits, WorkFits, Planned
  <2>. QED
    BY <2>1 DEF Frame
<1>4. RefusedParts(x) => RefusedParts(x)'
  <2>. DEFINE c == run[x].collection
              i == run[x].i
              k == run[x].content
  <2>1. /\ run'[x].collection = c /\ run'[x].i = i /\ run'[x].content = k
        /\ \A other \in DOMAIN parts : other \in DOMAIN parts' /\ parts'[other] = parts[other]
    BY <1>1 DEF Frame
  <2>2. CASE ~InScope(k, ScopeAt(x))
    BY <1>2, <2>1, <2>2 DEF RefusedParts, InScope
  <2>3. CASE k \in DOMAIN parts /\ <<parts[k].collection, parts[k].ordinal>> # <<c, i>>
    BY <2>1, <2>3 DEF RefusedParts
  <2>4. ASSUME NEW other \in PartsOf(c) \ {k},
               parts[other].ordinal = i \/ RegionsIn(other) \cap RegionsIn(k) # {}
        PROVE  RefusedParts(x)'
    <3>1. other \in DOMAIN parts /\ parts[other].collection = c /\ other # k
      BY <2>4 DEF PartsOf
    <3>2. other \in DOMAIN parts' /\ parts'[other].collection = c
          /\ parts'[other].ordinal = parts[other].ordinal
      BY <2>1, <3>1
    <3>. QED
      BY <2>1, <2>4, <3>1, <3>2 DEF RefusedParts, PartsOf
  <2>. QED
    BY <2>2, <2>3, <2>4 DEF RefusedParts
<1>5. Conflict(x) => Conflict(x)'
  BY <1>1 DEF Conflict, Frame
<1>6. Overtaken(x) => Overtaken(x)'
  <2>1. SUFFICES ASSUME Overtaken(x) PROVE Overtaken(x)'
    OBVIOUS
  <2>2. PICK other \in Runs \ {x} :
          /\ run[other].collection = run[x].collection /\ run[other].base # 0
          /\ AttemptOrdinal(x) \in run[other].base .. (run[other].base + run[other].i - 1)
    BY <2>1 DEF Overtaken
  <2>3. /\ run'[other].collection = run[other].collection
        /\ run'[other].base = run[other].base /\ run'[other].i >= run[other].i
    <3>1. run[other] \in RunState
      BY DEF CollectionInv, Types
    <3>. QED
      BY <2>2, <3>1 DEF Frame, RunState
  <2>4. run[other] \in RunState /\ run'[other].i \in Nat
    <3>1. run[other] \in RunState /\ run'[other] \in RunState
      BY DEF CollectionInv, Types
    <3>. QED
      BY <3>1 DEF RunState
  <2>5. AttemptOrdinal(x) \in run[other].base .. (run[other].base + run'[other].i - 1)
    BY <2>2, <2>3, <2>4 DEF RunState
  <2>. QED
    BY <1>1, <1>2, <2>1, <2>2, <2>3, <2>5 DEF Overtaken
<1>7. ~active => ~active'
  BY DEF Frame
<1>. QED
  BY <1>1, <1>3, <1>4, <1>5, <1>6, <1>7 DEF EndFits

(* Rows that nobody changes keep all that is known of them.                *)
LEMMA MadeGrows ==
  ASSUME CollectionInv, Types', NEW r \in Runs, Frame(r), NEW x \in Runs, NEW c, NEW o, Made(x, c, o)
  PROVE  Made(x, c, o)'
<1>1. run[x] \in RunState /\ run'[x] \in RunState
  BY DEF CollectionInv, Types
<1>2. CASE x # r
  <2>1. run'[x] = run[x]
    BY <1>2 DEF Frame
  <2>. QED
    BY <2>1 DEF Made, AttemptOrdinal
<1>3. CASE x = r
  <2>1. /\ run'[x].base = run[x].base /\ run'[x].collection = run[x].collection
        /\ run'[x].i >= run[x].i
        /\ run'[x].at = "counted" => run'[x].i > run[x].i
    BY <1>3 DEF Frame, Made
  <2>2. /\ run[x].base \in Nat /\ run[x].i \in Nat /\ run'[x].i \in Nat
    BY <1>1 DEF RunState
  <2>. QED
    BY <2>1, <2>2 DEF Made, AttemptOrdinal
<1>. QED
  BY <1>2, <1>3

(* As long as the run that made a STARTED attempt is at it, or stopped.    *)
LEMMA AttemptsStayFit ==
  ASSUME CollectionInv, Types', NEW r \in Runs, Frame(r), attempts' = attempts,
         run[r].at \in Open => run'[r].at \in Open \/ run'[r].code = "STOPPED",
         run[r].at \in Open => run'[r].i = run[r].i,
         run[r].at # "ended",
         NEW c \in Collections
  PROVE  AttemptsFit(c)'
<1>1. AttemptsFit(c)
  BY DEF CollectionInv
<1>2. \A x \in Runs : \A o : Made(x, c, o) => Made(x, c, o)'
  BY MadeGrows
<1>3. ASSUME NEW o \in DOMAIN attempts[c], attempts[c][o].state = "STARTED"
      PROVE  \E x \in Runs :
               /\ run'[x].collection = c /\ run'[x].base # 0 /\ AttemptOrdinal(x)' = o
               /\ run'[x].at \in Open \/ run'[x].code = "STOPPED"
  <2>1. PICK x \in Runs :
          /\ run[x].collection = c /\ run[x].base # 0 /\ AttemptOrdinal(x) = o
          /\ run[x].at \in Open \/ run[x].code = "STOPPED"
    BY <1>1, <1>3 DEF AttemptsFit
  <2>2. CASE x # r
    BY <2>1, <2>2 DEF Frame, AttemptOrdinal
  <2>3. CASE x = r
    <3>1. run[x].at \in Open
      <4>1. EndFits(r)
        BY DEF CollectionInv
      <4>2. run[r].code # "STOPPED"
        BY <4>1, NoneAssumption DEF EndFits, Codes
      <4>. QED
        BY <2>1, <2>3, <4>2
    <3>. QED
      BY <2>1, <2>3, <3>1 DEF Frame, AttemptOrdinal
  <2>. QED
    BY <2>2, <2>3
<1>. QED
  BY <1>1, <1>2, <1>3 DEF AttemptsFit

LEMMA PartsStayFit ==
  ASSUME CollectionInv, NEW r \in Runs, Frame(r), parts' = parts, NEW k \in DOMAIN parts
  PROVE  PartFits(k)'
<1>1. PartFits(k)
  BY DEF CollectionInv
<1>2. /\ parts[k] \in PartRow /\ parts[k].collection \in Collections
      /\ Fetched(parts[k].collection, parts[k].scope, k)
  BY <1>1 DEF PartFits, PartRow
<1>3. PICK c, s : c \in Collections /\ c = parts[k].collection /\ s = parts[k].scope
  BY <1>2
<1>4. Fetched(c, s, k)'
  BY <1>2, <1>3, FetchedGrows
<1>5. Fetched(parts[k].collection, parts[k].scope, k)'
  BY <1>3, <1>4 DEF Fetched
<1>6. /\ collections'[parts[k].collection] \in CollectionRow
      /\ collections'[parts[k].collection].plan = collections[parts[k].collection].plan
  BY <1>1, <1>2 DEF PartFits, Frame
<1>. QED
  BY <1>1, <1>5, <1>6 DEF PartFits, PartsOf, InScope

LEMMA ValidatedStayFit ==
  ASSUME CollectionInv, NEW r \in Runs, Frame(r), NEW c \in Collections, PartsOf(c)' = PartsOf(c),
         collections[c] \in CollectionRow, collections[c].state = "VALIDATED"
  PROVE  AccordingToPlan(c)'
<1>1. AccordingToPlan(c)
  BY DEF CollectionInv, ValidatedFits
<1>2. \A k \in PartsOf(c) : parts'[k] = parts[k]
  BY DEF Frame, PartsOf
<1>3. collections'[c].plan = collections[c].plan
  BY DEF Frame
<1>4. ASSUME NEW k \in PartsOf(c)
      PROVE  Fetched(c, parts[k].scope, k)'
  <2>1. PICK s : s = parts[k].scope
    OBVIOUS
  <2>2. Fetched(c, s, k)
    BY <1>1, <2>1 DEF AccordingToPlan
  <2>3. Fetched(c, s, k)'
    BY <2>2, FetchedGrows
  <2>4. parts'[k].scope = s
    BY <1>2, <2>1
  <2>. QED
    BY <2>3, <2>4 DEF Fetched
<1>5. \A k \in PartsOf(c) : Fetched(c, parts[k].scope, k)'
  BY <1>4
<1>. QED
  BY <1>1, <1>2, <1>3, <1>5 DEF AccordingToPlan, Fetched

(* A step that writes no attempt and no part has to account for its own    *)
(* run, and for the collections that it makes or validates.                *)
LEMMA QuietStep ==
  ASSUME CollectionInv, Types', NEW r \in Runs, Frame(r), attempts' = attempts, parts' = parts,
         run[r].at # "ended",
         run[r].at \in Open => run'[r].at \in Open \/ run'[r].code = "STOPPED",
         run[r].at \in Open => run'[r].i = run[r].i,
         run'[r].at \in Open => run[r].at \in Open,
         \A c \in Collections : ValidatedFits(c)',
         (WorkFits(r) /\ StoredFits(r) /\ EndFits(r))'
  PROVE  CollectionInv'
<1>1. \A c \in Collections : AttemptsFit(c)'
  BY AttemptsStayFit
<1>2. \A k \in DOMAIN parts : PartFits(k)'
  BY PartsStayFit
<1>3. \A k \in DOMAIN parts' : PartFits(k)'
  BY <1>2
<1>4. OneRunPerAttempt'
  <2>1. OneRunPerAttempt
    BY DEF CollectionInv
  <2>2. \A x \in Runs : run'[x].at \in Open =>
          /\ run[x].at \in Open /\ run'[x].collection = run[x].collection
          /\ AttemptOrdinal(x)' = AttemptOrdinal(x)
    <3>1. \A x \in Runs \ {r} : run'[x] = run[x]
      BY DEF Frame
    <3>2. run[r].at \in Open => run[r].base # 0
      BY DEF CollectionInv, WorkFits, Begun
    <3>. QED
      BY <3>1, <3>2 DEF Frame, AttemptOrdinal
  <2>. QED
    BY <2>1, <2>2 DEF OneRunPerAttempt
<1>5. \A x \in Runs \ {r} : (WorkFits(x) /\ StoredFits(x) /\ EndFits(x))'
  BY OthersWorkFits, OthersStoredFits, OthersEndFits
<1>6. \A x \in Runs : (WorkFits(x) /\ StoredFits(x) /\ EndFits(x))'
  BY <1>5
<1>. QED
  BY <1>1, <1>3, <1>4, <1>6 DEF CollectionInv

(* No collection is validated by a step that leaves their rows alone.      *)
LEMMA SameCollections ==
  ASSUME CollectionInv, NEW r \in Runs, Frame(r), collections' = collections, parts' = parts
  PROVE  \A c \in Collections : ValidatedFits(c)'
<1>1. \A c \in Collections : PartsOf(c)' = PartsOf(c)
  BY DEF PartsOf
<1>2. ASSUME NEW c \in Collections, collections[c] \in CollectionRow, collections[c].state = "VALIDATED"
      PROVE  AccordingToPlan(c)'
  BY <1>1, <1>2, ValidatedStayFit
<1>. QED
  BY <1>2 DEF ValidatedFits

-----------------------------------------------------------------------------
(* Planning.                                                               *)

LEMMA PlanKeeps ==
  ASSUME CollectionInv, NEW r \in Runs, NEW c \in Collections, NEW p \in Plans, Plan(r, c, p)
  PROVE  CollectionInv'
<1>1. /\ run[r].at = "idle" /\ run[r] \in RunState /\ WorkFits(r) /\ EndFits(r)
      /\ run[r].base = 0 /\ run[r].stored = <<>>
  BY DEF Plan, At, CollectionInv, Types, WorkFits
<1>2. /\ run' \in [Runs -> RunState]
      /\ \A x \in Runs \ {r} : run'[x] = run[x]
      /\ run'[r].at = "planned" /\ run'[r].collection = c /\ run'[r].plan = p
      /\ run'[r].base = 0 /\ run'[r].stored = <<>> /\ run'[r].code = run[r].code
  BY <1>1 DEF Plan, Goes, Asked, CollectionInv, Types, RunState, Stages
<1>3. /\ collections[c] \in CollectionRow /\ collections[c].plan = p /\ collections' = collections
      \/ /\ collections[c] = None /\ collections \in [Collections -> CollectionRow \cup {None}]
         /\ collections' = [collections EXCEPT ![c] = [plan |-> p, state |-> "STARTED"]]
  BY DEF Plan, SamePlan, CollectionInv, Types
<1>4. /\ collections' \in [Collections -> CollectionRow \cup {None}]
      /\ collections'[c] \in CollectionRow /\ collections'[c].plan = p
      /\ \A d \in Collections : collections[d] \in CollectionRow => collections'[d] = collections[d]
      /\ \A d \in Collections : collections'[d] = collections[d] \/ collections'[d].state = "STARTED"
  BY <1>3, NoneAssumption DEF CollectionRow, CollectionInv, Types
<1>5. Types'
  BY <1>2, <1>4 DEF Plan, CollectionInv, Types
<1>6. Frame(r)
  BY <1>1, <1>2, <1>4 DEF Frame, Plan
<1>7. \A d \in Collections : ValidatedFits(d)'
  <2>1. \A d \in Collections : PartsOf(d)' = PartsOf(d)
    BY DEF PartsOf, Plan
  <2>2. ASSUME NEW d \in Collections, collections'[d] \in CollectionRow,
               collections'[d].state = "VALIDATED"
        PROVE  AccordingToPlan(d)'
    <3>1. collections'[d] = collections[d]
      BY <1>4, <2>2
    <3>. QED
      BY <1>6, <2>1, <2>2, <3>1, ValidatedStayFit
  <2>. QED
    BY <2>2 DEF ValidatedFits
<1>8. WorkFits(r)'
  BY <1>2, <1>4 DEF WorkFits, Planned, Begun, Open
<1>9. StoredFits(r)' /\ EndFits(r)'
  <2>1. run[r].code = None
    BY <1>1 DEF EndFits
  <2>. QED
    BY <1>2, <2>1, NoneAssumption DEF StoredFits, EndFits, Begun, Open, Codes
<1>. QED
  BY <1>1, <1>2, <1>5, <1>6, <1>7, <1>8, <1>9, QuietStep DEF Plan, Open

LEMMA RefusePlanKeeps ==
  ASSUME CollectionInv, NEW r \in Runs, NEW c \in Collections, NEW p \in Plans, RefusePlan(r, c, p)
  PROVE  CollectionInv'
<1>1. /\ run[r].at = "idle" /\ run[r] \in RunState /\ WorkFits(r)
      /\ run[r].base = 0 /\ run[r].stored = <<>>
  BY DEF RefusePlan, At, CollectionInv, Types, WorkFits
<1>2. /\ run' \in [Runs -> RunState]
      /\ \A x \in Runs \ {r} : run'[x] = run[x]
      /\ run'[r].at = "ended" /\ run'[r].collection = c /\ run'[r].plan = p
      /\ run'[r].base = 0 /\ run'[r].stored = <<>> /\ run'[r].code = "FAILED"
  BY <1>1 DEF RefusePlan, Goes, Asked, CollectionInv, Types, RunState, Stages, Codes
<1>3. Types'
  BY <1>2 DEF RefusePlan, CollectionInv, Types
<1>4. Frame(r)
  BY <1>1, <1>2 DEF Frame, RefusePlan
<1>5. ~active' \/ Conflict(r)'
  <2>1. ~active \/ (collections[c] \in CollectionRow /\ collections[c].plan # p)
    BY DEF RefusePlan, SamePlan, CollectionInv, Types
  <2>. QED
    BY <1>2, <2>1 DEF Conflict, RefusePlan
<1>6. (WorkFits(r) /\ StoredFits(r) /\ EndFits(r))'
  BY <1>2, <1>5 DEF WorkFits, StoredFits, EndFits, Begun, Open, Codes
<1>7. \A d \in Collections : ValidatedFits(d)'
  BY <1>4, SameCollections DEF RefusePlan
<1>. QED
  BY <1>1, <1>2, <1>3, <1>4, <1>6, <1>7, QuietStep DEF RefusePlan, Open

(* Max and 1 .. n.                                                         *)
LEMMA MaxOfInterval ==
  ASSUME NEW n \in Nat
  PROVE  Max((1 .. n) \cup {0}) = n
<1>. DEFINE S == (1 .. n) \cup {0}
<1>1. n \in S /\ \A y \in S : n >= y
  OBVIOUS
<1>2. \A x \in S : (\A y \in S : x >= y) => x = n
  BY <1>1
<1>3. Max(S) \in S /\ \A y \in S : Max(S) >= y
  BY <1>1 DEF Max
<1>. QED
  BY <1>2, <1>3

LEMMA CountAttemptsKeeps ==
  ASSUME CollectionInv, NEW r \in Runs, CountAttempts(r)
  PROVE  CollectionInv'
<1>. DEFINE c == run[r].collection
            p == run[r].plan
<1>1. /\ run[r].at = "planned" /\ run[r] \in RunState /\ EndFits(r)
      /\ run[r].base = 0 /\ run[r].stored = <<>>
      /\ c \in Collections /\ p \in Plans /\ Planned(c, p)
  BY DEF CountAttempts, At, CollectionInv, Types, WorkFits
<1>2. PICK n \in Nat : DOMAIN attempts[c] = 1 .. n
  BY <1>1 DEF CollectionInv, AttemptsFit
<1>3. NextOrdinal(c) = n + 1
  BY <1>2, MaxOfInterval DEF NextOrdinal
<1>4. /\ run' \in [Runs -> RunState]
      /\ \A x \in Runs \ {r} : run'[x] = run[x]
      /\ run'[r].at = "counted" /\ run'[r].collection = c /\ run'[r].plan = p
      /\ run'[r].base = n + 1 /\ run'[r].i = 1 /\ run'[r].stored = <<>>
      /\ run'[r].code = run[r].code
  <2>1. run' = [run EXCEPT ![r] = [run[r] EXCEPT !.at = "counted", !.base = n + 1, !.i = 1]]
    BY <1>3 DEF CountAttempts, Goes
  <2>2. [run[r] EXCEPT !.at = "counted", !.base = n + 1, !.i = 1] \in RunState
    <3>1. "counted" \in Stages /\ n + 1 \in Nat /\ 1 \in Nat
      BY DEF Stages
    <3>2. run[r] \in RunState
      BY <1>1
    <3>. QED
      BY ONLY <3>1, <3>2 DEF RunState
  <2>3. run \in [Runs -> RunState]
    BY DEF CollectionInv, Types
  <2>4. run' \in [Runs -> RunState]
    BY <2>1, <2>2, <2>3
  <2>. QED
    BY <1>1, <2>1, <2>3, <2>4 DEF RunState
<1>5. Types'
  BY <1>4 DEF CountAttempts, CollectionInv, Types
<1>6. Frame(r)
  BY <1>1, <1>4 DEF Frame, CountAttempts
<1>7. WorkFits(r)'
  <2>1. AttemptOrdinal(r)' = n + 1
    BY <1>4 DEF AttemptOrdinal
  <2>2. n + 1 = 1 \/ n + 1 - 1 \in DOMAIN attempts[c]
    BY <1>2
  <2>3. 1 \in DOMAIN p
    BY <1>1, PlanFacts
  <2>. QED
    BY <1>1, <1>4, <2>1, <2>2, <2>3 DEF WorkFits, Planned, Begun, Open, CountAttempts
<1>8. StoredFits(r)' /\ EndFits(r)'
  <2>1. run[r].code = None
    BY <1>1 DEF EndFits
  <2>. QED
    BY <1>4, <2>1, NoneAssumption DEF StoredFits, EndFits, Begun, Open, Codes
<1>9. \A d \in Collections : ValidatedFits(d)'
  BY <1>6, SameCollections DEF CountAttempts
<1>. QED
  BY <1>1, <1>4, <1>5, <1>6, <1>7, <1>8, <1>9, QuietStep DEF CountAttempts, Open

-----------------------------------------------------------------------------
(* Fetching.                                                               *)

(* The ordinals of the runs at work are positive.                          *)
LEMMA OrdinalFacts ==
  ASSUME CollectionInv, NEW r \in Runs, run[r].base # 0
  PROVE  /\ run[r].collection \in Collections /\ run[r].plan \in Plans
         /\ run[r].i \in DOMAIN run[r].plan
         /\ run[r].i \in Nat \ {0} /\ run[r].base \in Nat \ {0}
         /\ AttemptOrdinal(r) \in Nat \ {0}
         /\ ScopeAt(r) \in Scopes /\ Answers[ScopeAt(r)] \subseteq Contents
<1>1. /\ run[r].collection \in Collections /\ run[r].plan \in Plans
      /\ run[r].i \in DOMAIN run[r].plan /\ run[r].base \in Nat
  BY DEF CollectionInv, Types, WorkFits, RunState
<1>2. run[r].i \in Nat \ {0}
  BY <1>1, PlanFacts
<1>3. AttemptOrdinal(r) \in Nat \ {0}
  BY <1>1, <1>2 DEF AttemptOrdinal
<1>4. ScopeAt(r) \in Scopes /\ Answers[ScopeAt(r)] \subseteq Contents
  BY <1>1, PlanFacts DEF ScopeAt
<1>. QED
  BY <1>1, <1>2, <1>3, <1>4

LEMMA SetAttemptFacts ==
  ASSUME NEW r \in Runs, NEW row, DOMAIN attempts = Collections, run[r].collection \in Collections,
         SetAttempt(r, row)
  PROVE  /\ DOMAIN attempts' = Collections
         /\ \A c \in Collections \ {run[r].collection} : attempts'[c] = attempts[c]
         /\ DOMAIN attempts'[run[r].collection]
              = DOMAIN attempts[run[r].collection] \cup {AttemptOrdinal(r)}
         /\ attempts'[run[r].collection][AttemptOrdinal(r)] = row
         /\ \A o \in DOMAIN attempts[run[r].collection] \ {AttemptOrdinal(r)} :
              attempts'[run[r].collection][o] = attempts[run[r].collection][o]
BY DEF SetAttempt

(* A run that changes no row but its own state.                            *)
LEMMA RefuseAttemptKeeps ==
  ASSUME CollectionInv, NEW r \in Runs, RefuseAttempt(r)
  PROVE  CollectionInv'
<1>. DEFINE c == run[r].collection
<1>1. /\ run[r].at = "counted" /\ run[r] \in RunState /\ WorkFits(r) /\ run[r].base # 0
      /\ c \in Collections
  BY DEF RefuseAttempt, At, CollectionInv, Types, WorkFits, Begun
<1>2. /\ run' \in [Runs -> RunState]
      /\ \A x \in Runs \ {r} : run'[x] = run[x]
      /\ run'[r].at = "ended" /\ run'[r].code = "FAILED"
      /\ run'[r].collection = c /\ run'[r].plan = run[r].plan
      /\ run'[r].base = run[r].base /\ run'[r].i = run[r].i
  BY <1>1 DEF RefuseAttempt, Ends, Goes, CollectionInv, Types, RunState, Stages, Codes
<1>3. Types'
  BY <1>2 DEF RefuseAttempt, CollectionInv, Types
<1>4. Frame(r)
  BY <1>1, <1>2 DEF Frame, RefuseAttempt, RunState
<1>5. AttemptOrdinal(r)' = AttemptOrdinal(r)
  BY <1>2 DEF AttemptOrdinal
<1>6. ~active' \/ Overtaken(r)'
  <2>1. CASE ~active
    BY <2>1 DEF RefuseAttempt
  <2>2. CASE AttemptOrdinal(r) \in DOMAIN attempts[c]
    <3>1. PICK x \in Runs : Made(x, c, AttemptOrdinal(r))
      BY <1>1, <2>2 DEF CollectionInv, AttemptsFit
    <3>2. x # r
      BY <1>1, <3>1 DEF Made
    <3>3. /\ run[x].collection = c /\ run[x].base # 0
          /\ AttemptOrdinal(r) \in run[x].base .. (run[x].base + run[x].i - 1)
      BY <3>1 DEF Made
    <3>4. run'[x] = run[x]
      BY <1>2, <3>2
    <3>. QED
      BY <1>1, <1>2, <1>5, <3>2, <3>3, <3>4 DEF Overtaken
  <2>. QED
    BY <2>1, <2>2 DEF RefuseAttempt
<1>7. WorkFits(r)'
  BY <1>1, <1>2, <1>5 DEF WorkFits, Planned, Begun, Open, RefuseAttempt
<1>8. StoredFits(r)' /\ EndFits(r)'
  BY <1>2, <1>6 DEF StoredFits, EndFits, Begun, Open, Codes
<1>9. \A d \in Collections : ValidatedFits(d)'
  BY <1>4, SameCollections DEF RefuseAttempt
<1>. QED
  BY <1>1, <1>2, <1>3, <1>4, <1>7, <1>8, <1>9, QuietStep DEF RefuseAttempt, Open

LEMMA FetchYieldsKeeps ==
  ASSUME CollectionInv, NEW r \in Runs, FetchYields(r)
  PROVE  CollectionInv'
<1>1. /\ run[r].at = "fetching" /\ run[r] \in RunState /\ run[r].base # 0
      /\ WorkFits(r) /\ StoredFits(r) /\ EndFits(r)
  BY DEF FetchYields, At, CollectionInv, Types, WorkFits, Begun, Open
<1>2. PICK k \in Answers[ScopeAt(r)] :
        run' = [run EXCEPT ![r] = [run[r] EXCEPT !.at = "fetched", !.content = k]]
  BY DEF FetchYields, Goes
<1>3. k \in Contents
  BY <1>1, <1>2, OrdinalFacts
<1>4. /\ run' \in [Runs -> RunState]
      /\ \A x \in Runs \ {r} : run'[x] = run[x]
      /\ run'[r].at = "fetched" /\ run'[r].content = k /\ run'[r].code = run[r].code
      /\ run'[r].collection = run[r].collection /\ run'[r].plan = run[r].plan
      /\ run'[r].base = run[r].base /\ run'[r].i = run[r].i /\ run'[r].stored = run[r].stored
  BY <1>1, <1>2, <1>3 DEF CollectionInv, Types, RunState, Stages
<1>5. Types'
  BY <1>4 DEF FetchYields, CollectionInv, Types
<1>6. Frame(r)
  BY <1>1, <1>4 DEF Frame, FetchYields, RunState
<1>7. WorkFits(r)'
  <2>1. AttemptOrdinal(r)' = AttemptOrdinal(r) /\ ScopeAt(r)' = ScopeAt(r)
    BY <1>4 DEF AttemptOrdinal, ScopeAt
  <2>. QED
    BY <1>1, <1>3, <1>4, <2>1 DEF WorkFits, Planned, Begun, Open, FetchYields
<1>8. StoredFits(r)' /\ EndFits(r)'
  BY <1>1, <1>4, NoneAssumption DEF StoredFits, EndFits, Begun, Open, Codes, PartsOf, FetchYields
<1>9. \A d \in Collections : ValidatedFits(d)'
  BY <1>6, SameCollections DEF FetchYields
<1>. QED
  BY <1>1, <1>4, <1>5, <1>6, <1>7, <1>8, <1>9, QuietStep DEF FetchYields, Open

LEMMA FetchFailsKeeps ==
  ASSUME CollectionInv, NEW r \in Runs, FetchFails(r)
  PROVE  CollectionInv'
<1>1. /\ run[r].at = "fetching" /\ run[r] \in RunState /\ run[r].base # 0
      /\ WorkFits(r) /\ StoredFits(r) /\ EndFits(r)
  BY DEF FetchFails, At, CollectionInv, Types, WorkFits, Begun, Open
<1>2. /\ run' \in [Runs -> RunState]
      /\ \A x \in Runs \ {r} : run'[x] = run[x]
      /\ run'[r].at = "failing" /\ run'[r].code = run[r].code
      /\ run'[r].collection = run[r].collection /\ run'[r].plan = run[r].plan
      /\ run'[r].base = run[r].base /\ run'[r].i = run[r].i /\ run'[r].stored = run[r].stored
  BY <1>1 DEF FetchFails, Goes, CollectionInv, Types, RunState, Stages
<1>3. Types'
  BY <1>2 DEF FetchFails, CollectionInv, Types
<1>4. Frame(r)
  BY <1>1, <1>2 DEF Frame, FetchFails, RunState
<1>5. WorkFits(r)'
  <2>1. AttemptOrdinal(r)' = AttemptOrdinal(r) /\ ScopeAt(r)' = ScopeAt(r)
    BY <1>2 DEF AttemptOrdinal, ScopeAt
  <2>. QED
    BY <1>1, <1>2, <2>1 DEF WorkFits, Planned, Begun, Open, FetchFails
<1>6. StoredFits(r)' /\ EndFits(r)'
  BY <1>1, <1>2, NoneAssumption DEF StoredFits, EndFits, Begun, Open, Codes, PartsOf, FetchFails
<1>7. \A d \in Collections : ValidatedFits(d)'
  BY <1>4, SameCollections DEF FetchFails
<1>. QED
  BY <1>1, <1>2, <1>3, <1>4, <1>5, <1>6, <1>7, QuietStep DEF FetchFails, Open

(* The ordinal that a run finds free is the next one, and no open run has  *)
(* it.                                                                     *)
LEMMA StartAttemptKeeps ==
  ASSUME CollectionInv, NEW r \in Runs, StartAttempt(r)
  PROVE  CollectionInv'
<1>. DEFINE c == run[r].collection
            a == AttemptOrdinal(r)
            row == [scope |-> ScopeAt(r), state |-> "STARTED", artifact |-> None]
<1>1. /\ run[r].at = "counted" /\ run[r] \in RunState /\ run[r].base # 0
      /\ WorkFits(r) /\ StoredFits(r) /\ EndFits(r) /\ c \in Collections
      /\ a \notin DOMAIN attempts[c]
  BY DEF StartAttempt, At, CollectionInv, Types, WorkFits, Begun
<1>2. /\ run' \in [Runs -> RunState]
      /\ \A x \in Runs \ {r} : run'[x] = run[x]
      /\ run'[r].at = "fetching" /\ run'[r].code = run[r].code
      /\ run'[r].collection = run[r].collection /\ run'[r].plan = run[r].plan
      /\ run'[r].base = run[r].base /\ run'[r].i = run[r].i /\ run'[r].stored = run[r].stored
  BY <1>1 DEF StartAttempt, Goes, CollectionInv, Types, RunState, Stages
<1>3. /\ DOMAIN attempts' = Collections
      /\ \A d \in Collections \ {c} : attempts'[d] = attempts[d]
      /\ DOMAIN attempts'[c] = DOMAIN attempts[c] \cup {a}
      /\ attempts'[c][a] = row
      /\ \A o \in DOMAIN attempts[c] \ {a} : attempts'[c][o] = attempts[c][o]
  <2>1. SetAttempt(r, row) /\ DOMAIN attempts = Collections
    BY DEF StartAttempt, CollectionInv, Types
  <2>. QED
    BY <1>1, <2>1, SetAttemptFacts
<1>4. Types'
  BY <1>2, <1>3 DEF StartAttempt, CollectionInv, Types
<1>5. Frame(r)
  BY <1>1, <1>2, <1>3 DEF Frame, StartAttempt, RunState
<1>6. a \in Nat \ {0} /\ ScopeAt(r) \in Scopes
  BY <1>1, OrdinalFacts
<1>7. AttemptOrdinal(r)' = a /\ ScopeAt(r)' = ScopeAt(r)
  BY <1>2 DEF AttemptOrdinal, ScopeAt
<1>8. ASSUME NEW d \in Collections
      PROVE  AttemptsFit(d)'
  <2>1. AttemptsFit(d)
    BY DEF CollectionInv
  <2>2. \A x \in Runs : \A o : Made(x, d, o) => Made(x, d, o)'
    BY <1>4, <1>5, MadeGrows
  <2>3. \E n \in Nat : DOMAIN attempts'[d] = 1 .. n
    <3>1. CASE d # c
      BY <1>3, <2>1, <3>1 DEF AttemptsFit
    <3>2. CASE d = c
      <4>1. PICK n \in Nat : DOMAIN attempts[c] = 1 .. n
        BY <2>1, <3>2 DEF AttemptsFit
      <4>2. a = 1 \/ a - 1 \in DOMAIN attempts[c]
        BY <1>1 DEF WorkFits
      <4>3. a = n + 1
        BY <1>1, <1>6, <4>1, <4>2
      <4>4. (1 .. n) \cup {n + 1} = 1 .. (n + 1)
        OBVIOUS
      <4>5. DOMAIN attempts'[d] = 1 .. (n + 1)
        BY <1>3, <3>2, <4>1, <4>3, <4>4
      <4>6. n + 1 \in Nat
        OBVIOUS
      <4>. QED
        BY <4>5, <4>6
    <3>. QED
      BY <3>1, <3>2
  <2>4. ASSUME NEW o \in DOMAIN attempts[d]
        PROVE  /\ attempts'[d][o] \in AttemptRow
               /\ \E x \in Runs : Made(x, d, o)'
               /\ attempts'[d][o].state = "STARTED" =>
                    \E x \in Runs :
                      /\ run'[x].collection = d /\ run'[x].base # 0 /\ AttemptOrdinal(x)' = o
                      /\ run'[x].at \in Open \/ run'[x].code = "STOPPED"
    <3>1. attempts'[d][o] = attempts[d][o]
      BY <1>1, <1>3
    <3>2. ASSUME NEW x \in Runs, run[x].collection = d, run[x].base # 0, AttemptOrdinal(x) = o,
                 run[x].at \in Open \/ run[x].code = "STOPPED"
          PROVE  /\ run'[x].collection = d /\ run'[x].base # 0 /\ AttemptOrdinal(x)' = o
                 /\ run'[x].at \in Open \/ run'[x].code = "STOPPED"
      <4>1. x # r
        <5>1. d = c /\ o = a => FALSE
          BY <1>1
        <5>. QED
          BY <3>2, <5>1
      <4>. QED
        BY <1>2, <3>2, <4>1 DEF AttemptOrdinal
    <3>. QED
      BY <2>1, <2>2, <3>1, <3>2 DEF AttemptsFit
  <2>5. /\ attempts'[c][a] \in AttemptRow
        /\ Made(r, c, a)'
        /\ run'[r].collection = c /\ run'[r].base # 0 /\ AttemptOrdinal(r)' = a
        /\ run'[r].at \in Open
    <3>1. a \in run'[r].base .. (run'[r].base + run'[r].i - 1)
      BY <1>1, <1>2, <1>6, OrdinalFacts DEF AttemptOrdinal
    <3>. QED
      BY <1>1, <1>2, <1>3, <1>6, <1>7, <3>1 DEF AttemptRow, Made, Open
  <2>6. \A o \in DOMAIN attempts'[d] : o \in DOMAIN attempts[d] \/ (d = c /\ o = a)
    BY <1>3
  <2>. QED
    BY <2>3, <2>4, <2>5, <2>6 DEF AttemptsFit
<1>9. OneRunPerAttempt'
  <2>1. \A x \in Runs \ {r} : run'[x].at \in Open /\ run'[x].collection = c =>
          AttemptOrdinal(x)' # a
    <3>1. \A x \in Runs \ {r} : run'[x] = run[x] /\ AttemptOrdinal(x)' = AttemptOrdinal(x)
      BY <1>2 DEF AttemptOrdinal
    <3>2. \A x \in Runs : run[x].at \in Open =>
            AttemptOrdinal(x) \in DOMAIN attempts[run[x].collection]
      BY DEF CollectionInv, WorkFits
    <3>. QED
      BY <1>1, <3>1, <3>2
  <2>2. \A x, y \in Runs \ {r} :
          /\ x # y /\ run'[x].collection = run'[y].collection
          /\ run'[x].at \in Open /\ run'[y].at \in Open
          => AttemptOrdinal(x)' # AttemptOrdinal(y)'
    <3>1. \A x \in Runs \ {r} : run'[x] = run[x] /\ AttemptOrdinal(x)' = AttemptOrdinal(x)
      BY <1>2 DEF AttemptOrdinal
    <3>. QED
      BY <3>1 DEF CollectionInv, OneRunPerAttempt
  <2>. QED
    BY <1>2, <1>7, <2>1, <2>2 DEF OneRunPerAttempt
<1>10. \A d \in Collections : ValidatedFits(d)'
  BY <1>5, SameCollections DEF StartAttempt
<1>11. \A k \in DOMAIN parts' : PartFits(k)'
  <2>1. parts' = parts
    BY DEF StartAttempt
  <2>2. \A k \in DOMAIN parts : PartFits(k)'
    BY <1>5, <2>1, PartsStayFit
  <2>. QED
    BY <2>1, <2>2
<1>12. WorkFits(r)'
  <2>1. Planned(c, run[r].plan)'
    BY <1>1, <1>2 DEF WorkFits, Planned, StartAttempt
  <2>2. c \in Collections /\ run[r].plan \in Plans /\ run[r].i \in DOMAIN run[r].plan
    BY <1>1, OrdinalFacts
  <2>. QED
    BY <1>1, <1>2, <1>3, <1>7, <2>1, <2>2 DEF WorkFits, Begun, Open, Planned
<1>13. StoredFits(r)' /\ EndFits(r)'
  BY <1>1, <1>2, NoneAssumption DEF StoredFits, EndFits, Begun, Open, Codes, PartsOf, StartAttempt
<1>14. \A x \in Runs \ {r} : (WorkFits(x) /\ StoredFits(x) /\ EndFits(x))'
  BY <1>4, <1>5, OthersWorkFits, OthersStoredFits, OthersEndFits
<1>15. \A x \in Runs : (WorkFits(x) /\ StoredFits(x) /\ EndFits(x))'
  BY <1>12, <1>13, <1>14
<1>. QED
  BY <1>4, <1>8, <1>9, <1>10, <1>11, <1>15 DEF CollectionInv

(* A run at work on its attempt writes how it ended.                       *)
LEMMA SettlesAttempt ==
  ASSUME CollectionInv, Types', NEW r \in Runs, Frame(r), run[r].at \in Open,
         NEW row \in AttemptRow, row.state # "STARTED", SetAttempt(r, row),
         parts' = parts, collections' = collections, run'[r].at \notin Open,
         (WorkFits(r) /\ StoredFits(r) /\ EndFits(r))'
  PROVE  CollectionInv'
<1>. DEFINE c == run[r].collection
            a == AttemptOrdinal(r)
<1>1. /\ c \in Collections /\ a \in DOMAIN attempts[c]
      /\ EndFits(r) /\ DOMAIN attempts = Collections
  BY DEF CollectionInv, Types, WorkFits, Begun
<1>2. /\ \A d \in Collections \ {c} : attempts'[d] = attempts[d]
      /\ DOMAIN attempts'[c] = DOMAIN attempts[c]
      /\ attempts'[c][a] = row
      /\ \A o \in DOMAIN attempts[c] \ {a} : attempts'[c][o] = attempts[c][o]
  <2>1. DOMAIN attempts'[c] = DOMAIN attempts[c] \cup {a}
    BY <1>1, SetAttemptFacts
  <2>2. DOMAIN attempts'[c] = DOMAIN attempts[c]
    BY <1>1, <2>1
  <2>. QED
    BY <1>1, <2>2, SetAttemptFacts
<1>3. ASSUME NEW d \in Collections
      PROVE  AttemptsFit(d)'
  <2>1. AttemptsFit(d) /\ DOMAIN attempts'[d] = DOMAIN attempts[d]
    BY <1>2 DEF CollectionInv
  <2>2. \A x \in Runs : \A o : Made(x, d, o) => Made(x, d, o)'
    BY MadeGrows
  <2>3. ASSUME NEW o \in DOMAIN attempts[d]
        PROVE  /\ attempts'[d][o] \in AttemptRow
               /\ attempts'[d][o].state = "STARTED" =>
                    \E x \in Runs :
                      /\ run'[x].collection = d /\ run'[x].base # 0 /\ AttemptOrdinal(x)' = o
                      /\ run'[x].at \in Open \/ run'[x].code = "STOPPED"
    <3>1. CASE d = c /\ o = a
      BY <1>2, <3>1
    <3>2. CASE ~(d = c /\ o = a)
      <4>1. attempts'[d][o] = attempts[d][o]
        BY <1>2, <3>2
      <4>2. ASSUME NEW x \in Runs, run[x].collection = d, run[x].base # 0, AttemptOrdinal(x) = o,
                   run[x].at \in Open \/ run[x].code = "STOPPED"
            PROVE  /\ run'[x].collection = d /\ run'[x].base # 0 /\ AttemptOrdinal(x)' = o
                   /\ run'[x].at \in Open \/ run'[x].code = "STOPPED"
        <5>1. x # r
          BY <3>2, <4>2
        <5>2. run'[x] = run[x]
          BY <5>1 DEF Frame
        <5>. QED
          BY <4>2, <5>2 DEF AttemptOrdinal
      <4>. QED
        BY <2>1, <4>1, <4>2 DEF AttemptsFit
    <3>. QED
      BY <3>1, <3>2
  <2>. QED
    BY <2>1, <2>2, <2>3 DEF AttemptsFit
<1>4. OneRunPerAttempt'
  <2>1. \A x \in Runs : run'[x].at \in Open =>
          x # r /\ run'[x] = run[x] /\ AttemptOrdinal(x)' = AttemptOrdinal(x)
    BY DEF Frame, AttemptOrdinal
  <2>. QED
    BY <2>1 DEF CollectionInv, OneRunPerAttempt
<1>5. \A d \in Collections : ValidatedFits(d)'
  BY SameCollections
<1>6. \A k \in DOMAIN parts' : PartFits(k)'
  BY PartsStayFit
<1>7. \A x \in Runs \ {r} : (WorkFits(x) /\ StoredFits(x) /\ EndFits(x))'
  BY OthersWorkFits, OthersStoredFits, OthersEndFits
<1>8. \A x \in Runs : (WorkFits(x) /\ StoredFits(x) /\ EndFits(x))'
  BY <1>7
<1>. QED
  BY <1>3, <1>4, <1>5, <1>6, <1>8 DEF CollectionInv

LEMMA FailAttemptKeeps ==
  ASSUME CollectionInv, NEW r \in Runs, FailAttempt(r)
  PROVE  CollectionInv'
<1>. DEFINE row == [scope |-> ScopeAt(r), state |-> "FAILED", artifact |-> None]
<1>1. /\ run[r].at = "failing" /\ run[r] \in RunState /\ run[r].base # 0
      /\ WorkFits(r) /\ run[r].collection \in Collections
      /\ DOMAIN attempts = Collections /\ SetAttempt(r, row) /\ ScopeAt(r) \in Scopes
  <2>1. run[r].at = "failing" /\ run[r].base # 0
    BY DEF FailAttempt, At, CollectionInv, WorkFits, Begun, Open
  <2>. QED
    BY <2>1, OrdinalFacts DEF FailAttempt, CollectionInv, Types
<1>2. /\ run' \in [Runs -> RunState]
      /\ \A x \in Runs \ {r} : run'[x] = run[x]
      /\ run'[r].at = "ended" /\ run'[r].code = "FETCH_FAILED"
      /\ run'[r].collection = run[r].collection /\ run'[r].plan = run[r].plan
      /\ run'[r].base = run[r].base /\ run'[r].i = run[r].i
  BY <1>1 DEF FailAttempt, Ends, Goes, CollectionInv, Types, RunState, Stages, Codes
<1>3. Types'
  BY <1>1, <1>2, SetAttemptFacts DEF FailAttempt, CollectionInv, Types
<1>4. Frame(r)
  <2>1. run[r].at \in Open
    BY <1>1 DEF Open
  <2>2. \A c \in Collections :
          /\ DOMAIN attempts[c] \subseteq DOMAIN attempts'[c]
          /\ \A o \in DOMAIN attempts[c] :
               attempts'[c][o] = attempts[c][o] \/ (c = run[r].collection /\ o = AttemptOrdinal(r))
    BY <1>1, SetAttemptFacts
  <2>. QED
    BY <1>1, <1>2, <2>1, <2>2 DEF Frame, FailAttempt, RunState
<1>5. row \in AttemptRow /\ row.state # "STARTED"
  BY <1>1 DEF AttemptRow
<1>6. (WorkFits(r) /\ StoredFits(r) /\ EndFits(r))'
  BY <1>1, <1>2 DEF WorkFits, Planned, StoredFits, EndFits, Begun, Open, Codes, FailAttempt
<1>. QED
  BY <1>1, <1>2, <1>3, <1>4, <1>5, <1>6, SettlesAttempt DEF FailAttempt, Open

LEMMA CompleteAttemptKeeps ==
  ASSUME CollectionInv, NEW r \in Runs, CompleteAttempt(r)
  PROVE  CollectionInv'
<1>. DEFINE row == [scope |-> ScopeAt(r), state |-> "SUCCEEDED", artifact |-> run[r].content]
            c == run[r].collection
            a == AttemptOrdinal(r)
<1>1. /\ run[r].at = "fetched" /\ run[r] \in RunState /\ run[r].base # 0
      /\ WorkFits(r) /\ StoredFits(r) /\ EndFits(r) /\ c \in Collections
      /\ DOMAIN attempts = Collections /\ SetAttempt(r, row) /\ ScopeAt(r) \in Scopes
      /\ run[r].content \in Contents
  <2>1. run[r].at = "fetched" /\ run[r].base # 0 /\ run[r].content \in Contents
    BY DEF CompleteAttempt, At, CollectionInv, WorkFits, Begun, Open
  <2>. QED
    BY <2>1, OrdinalFacts DEF CompleteAttempt, CollectionInv, Types
<1>2. /\ run' \in [Runs -> RunState]
      /\ \A x \in Runs \ {r} : run'[x] = run[x]
      /\ run'[r].at = "stored" /\ run'[r].code = run[r].code
      /\ run'[r].collection = run[r].collection /\ run'[r].plan = run[r].plan
      /\ run'[r].base = run[r].base /\ run'[r].i = run[r].i
      /\ run'[r].content = run[r].content /\ run'[r].stored = run[r].stored
  BY <1>1 DEF CompleteAttempt, Goes, CollectionInv, Types, RunState, Stages
<1>3. /\ DOMAIN attempts' = Collections
      /\ DOMAIN attempts'[c] = DOMAIN attempts[c] \cup {a} /\ attempts'[c][a] = row
  BY <1>1, SetAttemptFacts
<1>4. Types'
  BY <1>2, <1>3 DEF CompleteAttempt, CollectionInv, Types
<1>5. Frame(r)
  <2>1. run[r].at \in Open
    BY <1>1 DEF Open
  <2>2. \A d \in Collections :
          /\ DOMAIN attempts[d] \subseteq DOMAIN attempts'[d]
          /\ \A o \in DOMAIN attempts[d] :
               attempts'[d][o] = attempts[d][o] \/ (d = run[r].collection /\ o = AttemptOrdinal(r))
    BY <1>1, SetAttemptFacts
  <2>. QED
    BY <1>1, <1>2, <2>1, <2>2 DEF Frame, CompleteAttempt, RunState
<1>6. row \in AttemptRow /\ row.state # "STARTED"
  BY <1>1 DEF AttemptRow
<1>7. WorkFits(r)'
  <2>1. AttemptOrdinal(r)' = a /\ ScopeAt(r)' = ScopeAt(r)
    BY <1>2 DEF AttemptOrdinal, ScopeAt
  <2>2. Fetched(c, ScopeAt(r), run[r].content)'
    BY <1>2, <1>3, <2>1 DEF Fetched
  <2>. QED
    BY <1>1, <1>2, <1>3, <2>1, <2>2 DEF WorkFits, Planned, Begun, Open, CompleteAttempt
<1>8. StoredFits(r)' /\ EndFits(r)'
  BY <1>1, <1>2, NoneAssumption DEF StoredFits, EndFits, Begun, Open, Codes, PartsOf, CompleteAttempt
<1>. QED
  BY <1>1, <1>2, <1>4, <1>5, <1>6, <1>7, <1>8, SettlesAttempt DEF CompleteAttempt, Open

-----------------------------------------------------------------------------
(* Storing.                                                                *)

(* What a partition goes through with: the part is there already, or is    *)
(* new, of the partition's scope, and disjoint from the others.            *)
LEMMA PersistedParts ==
  ASSUME CollectionInv, NEW r \in Runs, PersistPart(r),
         NEW c, NEW i, NEW k, NEW s,
         c = run[r].collection, i = run[r].i, k = run[r].content, s = ScopeAt(r)
  PROVE
         \/ /\ k \in DOMAIN parts
            /\ parts' = parts /\ parts[k].collection = c /\ parts[k].ordinal = i
         \/ /\ k \notin DOMAIN parts /\ Attachable(c, i, s, k)
            /\ DOMAIN parts' = DOMAIN parts \cup {k}
            /\ \A other \in DOMAIN parts : parts'[other] = parts[other]
            /\ parts'[k] = [collection |-> c, ordinal |-> i, scope |-> s]
<1>1. Replays(c, i, k) \/ Attachable(c, i, s, k)
  BY DEF PersistPart, Storable
<1>2. CASE k \in DOMAIN parts
  BY <1>1, <1>2 DEF PersistPart, Replays, Attachable
<1>3. CASE k \notin DOMAIN parts
  BY <1>1, <1>3 DEF PersistPart, Replays
<1>. QED
  BY <1>2, <1>3

(* A list of contents with one more.                                       *)
LEMMA AppendedContent ==
  ASSUME NEW list \in Seq(Contents), NEW k \in Contents, NEW i \in Nat \ {0}, Len(list) = i - 1
  PROVE  /\ Len(Append(list, k)) = i
         /\ DOMAIN Append(list, k) = DOMAIN list \cup {i}
         /\ Append(list, k)[i] = k
         /\ \A j \in DOMAIN list : Append(list, k)[j] = list[j]
<1>1. Append(list, k) \in Seq(Contents) /\ Len(Append(list, k)) = i
  OBVIOUS
<1>2. DOMAIN list = 1 .. i - 1 /\ DOMAIN Append(list, k) = 1 .. i
  BY <1>1
<1>. QED
  BY <1>1, <1>2

LEMMA PersistPartKeeps ==
  ASSUME CollectionInv, NEW r \in Runs, PersistPart(r),
         NEW c, NEW p, NEW i, NEW k, NEW s,
         c = run[r].collection, p = run[r].plan, i = run[r].i, k = run[r].content, s = ScopeAt(r)
  PROVE  CollectionInv'
<1>. DEFINE last == ~(i < Len(p))
<1>1. /\ run[r].at = "stored" /\ run[r] \in RunState /\ run[r].base # 0
      /\ WorkFits(r) /\ StoredFits(r) /\ EndFits(r)
      /\ k \in Contents /\ Fetched(c, s, k) /\ Planned(c, p)
  BY DEF PersistPart, At, CollectionInv, Types, WorkFits, Begun
<1>2. /\ c \in Collections /\ p \in Plans /\ i \in 1 .. Len(p) /\ Len(p) \in Nat
      /\ i \in Nat \ {0} /\ run[r].base \in Nat \ {0} /\ s \in Scopes
      /\ run[r].stored \in Seq(Contents) /\ Len(run[r].stored) = i - 1
  BY <1>1, OrdinalFacts, PlanFacts DEF RunState, StoredFits, Begun
<1>3. /\ run' \in [Runs -> RunState]
      /\ \A x \in Runs \ {r} : run'[x] = run[x]
      /\ run'[r].at = IF last THEN "persisted" ELSE "counted"
      /\ run'[r].i = IF last THEN i ELSE i + 1
      /\ run'[r].code = run[r].code
      /\ run'[r].collection = c /\ run'[r].plan = p
      /\ run'[r].base = run[r].base /\ run'[r].stored = Append(run[r].stored, k)
  <2>1. run \in [Runs -> RunState] /\ run' = [run EXCEPT ![r] = Advanced(run[r])]
    BY DEF CollectionInv, Types, PersistPart, Goes
  <2>2. Advanced(run[r]) \in RunState
    <3>1. Append(run[r].stored, k) \in Seq(Contents) /\ i + 1 \in Nat
      BY <1>1, <1>2
    <3>2. "counted" \in Stages /\ "persisted" \in Stages
      BY DEF Stages
    <3>. QED
      BY <1>1, <3>1, <3>2 DEF Advanced, RunState
  <2>3. run' \in [Runs -> RunState]
    BY <2>1, <2>2
  <2>. QED
    BY <1>1, <2>1, <2>3 DEF Advanced, RunState
<1>p. \/ /\ k \in DOMAIN parts
         /\ parts' = parts /\ parts[k].collection = c /\ parts[k].ordinal = i
      \/ /\ k \notin DOMAIN parts /\ Attachable(c, i, s, k)
         /\ DOMAIN parts' = DOMAIN parts \cup {k}
         /\ \A other \in DOMAIN parts : parts'[other] = parts[other]
         /\ parts'[k] = [collection |-> c, ordinal |-> i, scope |-> s]
  BY PersistedParts
<1>4. /\ DOMAIN parts' = DOMAIN parts \cup {k} /\ k \in DOMAIN parts'
      /\ \A other \in DOMAIN parts : parts'[other] = parts[other]
      /\ parts'[k].collection = c /\ parts'[k].ordinal = i
  BY <1>p
<1>5. Types'
  BY <1>1, <1>3, <1>4 DEF PersistPart, CollectionInv, Types
<1>6. Frame(r)
  BY <1>1, <1>2, <1>3, <1>4 DEF Frame, PersistPart
<1>7. \A d \in Collections : AttemptsFit(d)'
  BY <1>1, <1>5, <1>6, AttemptsStayFit DEF PersistPart, Open
<1>8. OneRunPerAttempt'
  <2>1. \A x \in Runs : run'[x].at \in Open =>
          x # r /\ run'[x] = run[x] /\ AttemptOrdinal(x)' = AttemptOrdinal(x)
    BY <1>3 DEF Open, AttemptOrdinal
  <2>. QED
    BY <2>1 DEF CollectionInv, OneRunPerAttempt
<1>9. ASSUME NEW d \in Collections
      PROVE  ValidatedFits(d)'
  <2>1. SUFFICES ASSUME collections[d] \in CollectionRow, collections[d].state = "VALIDATED"
                 PROVE  AccordingToPlan(d)'
    BY DEF ValidatedFits, PersistPart
  <2>2. PartsOf(d)' = PartsOf(d)
    <3>1. k \notin DOMAIN parts => d # c
      BY <2>1, PersistedParts DEF Attachable
    <3>. QED
      BY <1>4, <3>1 DEF PartsOf
  <2>. QED
    BY <1>6, <2>1, <2>2, ValidatedStayFit
<1>10. \A other \in DOMAIN parts' : PartFits(other)'
  <2>1. CASE parts' = parts
    BY <1>6, <2>1, PartsStayFit
  <2>2. CASE /\ k \notin DOMAIN parts /\ Attachable(c, i, s, k)
             /\ parts'[k] = [collection |-> c, ordinal |-> i, scope |-> s]
    <3>1. \A other \in PartsOf(c) :
            other # k /\ parts[other].ordinal # i /\ RegionsIn(other) \cap RegionsIn(k) = {}
      BY <2>2 DEF Attachable, Overlaps, PartsOf
    <3>2. /\ PartsOf(c)' = PartsOf(c) \cup {k}
          /\ \A d \in Collections \ {c} : PartsOf(d)' = PartsOf(d)
      BY <1>4, <2>2 DEF PartsOf
    <3>3. PartFits(k)'
      <4>1. parts'[k] \in PartRow
        BY <1>2, <2>2 DEF PartRow
      <4>2. /\ collections'[c] \in CollectionRow /\ i \in DOMAIN collections'[c].plan
            /\ s = collections'[c].plan[i]
        BY <1>1, <1>2, PlanFacts DEF Planned, ScopeAt, PersistPart
      <4>3. Fetched(c, s, k) /\ attempts' = attempts
        BY <1>1 DEF PersistPart
      <4>4. Fetched(parts[k].collection, parts[k].scope, k)'
        BY <2>2, <4>3 DEF Fetched
      <4>5. InScope(k, s) /\ Readable(k)
        BY DEF PersistPart, Storable
      <4>6. \A other \in PartsOf(c)' \ {k} :
              parts'[other].ordinal # i /\ RegionsIn(other) \cap RegionsIn(k) = {}
        BY <1>4, <3>1, <3>2 DEF PartsOf
      <4>7. /\ parts'[k].collection = c /\ parts'[k].ordinal = i
            /\ parts'[k].scope = s
        BY <2>2
      <4>8. /\ \A other \in PartsOf(parts[k].collection)' \ {k} :
                 /\ parts'[other].ordinal # parts'[k].ordinal
                 /\ RegionsIn(other) \cap RegionsIn(k) = {}
        BY <4>6, <4>7 DEF PartsOf
      <4>9. InScope(k, parts[k].scope)'
        BY <4>5, <4>7 DEF InScope
      <4>. QED
        BY <4>1, <4>2, <4>4, <4>5, <4>7, <4>8, <4>9 DEF PartFits
    <3>4. ASSUME NEW other \in DOMAIN parts
          PROVE  PartFits(other)'
      <4>1. /\ PartFits(other) /\ parts'[other] = parts[other] /\ other # k
            /\ parts[other].collection \in Collections
        BY <1>4, <2>2 DEF CollectionInv, PartFits, PartRow
      <4>2. PICK d, e : d \in Collections /\ d = parts[other].collection /\ e = parts[other].scope
        BY <4>1
      <4>3. Fetched(d, e, other)'
        BY <1>6, <4>1, <4>2, FetchedGrows DEF PartFits
      <4>4. Fetched(parts[other].collection, parts[other].scope, other)'
        BY <4>1, <4>2, <4>3 DEF Fetched
      <4>5. \A third \in PartsOf(d)' \ {other} :
              /\ parts'[third].ordinal # parts[other].ordinal
              /\ RegionsIn(third) \cap RegionsIn(other) = {}
        <5>1. \A third \in PartsOf(d) \ {other} :
                /\ parts[third].ordinal # parts[other].ordinal
                /\ RegionsIn(third) \cap RegionsIn(other) = {}
                /\ parts'[third] = parts[third]
          BY <1>4, <4>1, <4>2 DEF PartFits, PartsOf
        <5>2. CASE d # c
          BY <3>2, <4>2, <5>1, <5>2
        <5>3. CASE d = c
          <6>1. other \in PartsOf(c)
            BY <4>2, <5>3 DEF PartsOf
          <6>2. parts[other].ordinal # i /\ RegionsIn(k) \cap RegionsIn(other) = {}
            BY <3>1, <6>1
          <6>. QED
            BY <1>4, <3>2, <5>1, <5>3, <6>2
        <5>. QED
          BY <5>2, <5>3
      <4>6. \A third \in PartsOf(parts[other].collection)' \ {other} :
              /\ parts'[third].ordinal # parts'[other].ordinal
              /\ RegionsIn(third) \cap RegionsIn(other) = {}
        BY <4>1, <4>2, <4>5 DEF PartsOf
      <4>7. InScope(other, parts[other].scope)'
        BY <4>1 DEF PartFits, InScope
      <4>. QED
        BY <4>1, <4>4, <4>6, <4>7 DEF PartFits, PersistPart
    <3>. QED
      BY <1>4, <3>3, <3>4
  <2>. QED
    BY <1>p, <2>1, <2>2
<1>11. WorkFits(r)'
  <2>1. CASE last
    BY <1>1, <1>2, <1>3, <2>1 DEF WorkFits, Planned, Begun, Open, PersistPart
  <2>2. CASE ~last
    <3>1. AttemptOrdinal(r)' - 1 = AttemptOrdinal(r)
      BY <1>2, <1>3, <2>2 DEF AttemptOrdinal
    <3>2. AttemptOrdinal(r) \in DOMAIN attempts'[c]
      BY <1>1 DEF WorkFits, PersistPart
    <3>3. i + 1 \in DOMAIN p
      BY <1>2, <2>2, PlanFacts
    <3>. QED
      BY <1>1, <1>2, <1>3, <2>2, <3>1, <3>2, <3>3
        DEF WorkFits, Planned, Begun, Open, PersistPart
  <2>. QED
    BY <2>1, <2>2
<1>12. StoredFits(r)'
  <2>1. /\ Len(run'[r].stored) = i
        /\ DOMAIN run'[r].stored = DOMAIN run[r].stored \cup {i}
        /\ run'[r].stored[i] = k
        /\ \A j \in DOMAIN run[r].stored : run'[r].stored[j] = run[r].stored[j]
    <3>1. run[r].stored \in Seq(Contents) /\ k \in Contents /\ i \in Nat \ {0} /\ Len(run[r].stored) = i - 1
      BY <1>1, <1>2
    <3>2. run'[r].stored = Append(run[r].stored, k)
      BY <1>3
    <3>. HIDE <1>1, <1>2, <1>3
    <3>. QED
      BY <3>1, <3>2, AppendedContent
  <2>2. \A j \in DOMAIN run'[r].stored :
          /\ run'[r].stored[j] \in PartsOf(c)'
          /\ parts'[run'[r].stored[j]].ordinal = j
    <3>1. \A j \in DOMAIN run[r].stored :
            run[r].stored[j] \in PartsOf(c) /\ parts[run[r].stored[j]].ordinal = j
      BY <1>1 DEF StoredFits, Begun
    <3>2. \A other \in PartsOf(c) : other \in PartsOf(c)' /\ parts'[other] = parts[other]
      BY <1>3, <1>4 DEF PartsOf
    <3>3. k \in PartsOf(c)' /\ parts'[k].ordinal = i
      BY <1>3, <1>4 DEF PartsOf
    <3>. QED
      BY <2>1, <3>1, <3>2, <3>3
  <2>3. run[r].code # "VALIDATED"
    BY <1>1, NoneAssumption DEF EndFits, Codes
  <2>. QED
    BY <1>2, <1>3, <2>1, <2>2, <2>3, SMTT(30) DEF StoredFits, Begun, Open
<1>13. EndFits(r)'
  BY <1>1, <1>3, NoneAssumption DEF EndFits, Codes
<1>14. \A x \in Runs \ {r} : (WorkFits(x) /\ StoredFits(x) /\ EndFits(x))'
  BY <1>5, <1>6, OthersWorkFits, OthersStoredFits, OthersEndFits
<1>15. \A x \in Runs : (WorkFits(x) /\ StoredFits(x) /\ EndFits(x))'
  BY <1>11, <1>12, <1>13, <1>14
<1>. QED
  BY <1>5, <1>7, <1>8, <1>9, <1>10, <1>15 DEF CollectionInv

(* A refused partition is one that the store could not take: a VALIDATED   *)
(* collection has a part for every ordinal, and a scope of the plan has    *)
(* one ordinal only.                                                       *)
LEMMA UnstorableIsRefused ==
  ASSUME CollectionInv, NEW r \in Runs, run[r].at = "stored", ~Storable(r)
  PROVE  RefusedParts(r)
<1>. DEFINE c == run[r].collection
            p == run[r].plan
            i == run[r].i
            k == run[r].content
<1>1. /\ WorkFits(r) /\ run[r].base # 0 /\ Fetched(c, ScopeAt(r), k) /\ Planned(c, p)
  BY DEF CollectionInv, WorkFits, Begun
<1>2. /\ c \in Collections /\ p \in Plans /\ i \in DOMAIN p
  BY <1>1, OrdinalFacts
<1>3. CASE ~InScope(k, ScopeAt(r))
  BY <1>3 DEF RefusedParts
<1>4. CASE k \in DOMAIN parts /\ ~Replays(c, i, k)
  <2>1. <<parts[k].collection, parts[k].ordinal>> # <<c, i>>
    BY <1>4 DEF Replays
  <2>. QED
    BY <1>4, <2>1 DEF RefusedParts
<1>5. CASE k \notin DOMAIN parts /\ ~Attachable(c, i, ScopeAt(r), k)
  <2>1. \A other \in PartsOf(c) : other # k
    BY <1>5 DEF PartsOf
  <2>2. CASE collections[c].state # "STARTED"
    <3>1. AccordingToPlan(c) /\ collections[c].plan = p
      BY <1>1, <1>2, <2>2 DEF CollectionInv, ValidatedFits, Planned, CollectionRow
    <3>2. \E other \in PartsOf(c) : parts[other].ordinal = i
      BY <1>2, <3>1 DEF AccordingToPlan
    <3>. QED
      BY <2>1, <3>2 DEF RefusedParts
  <2>3. ASSUME NEW other \in PartsOf(c), parts[other].ordinal = i \/ parts[other].scope = ScopeAt(r)
        PROVE  RefusedParts(r)
    <3>1. PartFits(other) /\ parts[other].collection = c
      BY DEF CollectionInv, PartsOf
    <3>2. parts[other].ordinal \in DOMAIN p /\ parts[other].scope = p[parts[other].ordinal]
      BY <1>1, <3>1 DEF PartFits, Planned
    <3>3. parts[other].ordinal = i
      BY <1>2, <2>3, <3>2, PlanFacts DEF ScopeAt
    <3>. QED
      BY <2>1, <3>3 DEF RefusedParts
  <2>4. CASE Overlaps(c, k)
    BY <2>1, <2>4 DEF Overlaps, RefusedParts
  <2>. QED
    BY <1>5, <2>2, <2>3, <2>4 DEF Attachable
<1>6. Storable(r) <=> /\ InScope(k, ScopeAt(r)) /\ Fetched(c, ScopeAt(r), k)
                      /\ Replays(c, i, k) \/ Attachable(c, i, ScopeAt(r), k)
  BY DEF Storable
<1>. QED
  BY <1>1, <1>3, <1>4, <1>5, <1>6

LEMMA RefusePartKeeps ==
  ASSUME CollectionInv, NEW r \in Runs, RefusePart(r)
  PROVE  CollectionInv'
<1>1. /\ run[r].at = "stored" /\ run[r] \in RunState /\ run[r].base # 0
      /\ WorkFits(r)
  BY DEF RefusePart, At, CollectionInv, Types, WorkFits, Begun
<1>2. PICK code \in {"PARSE_FAILED", "PART_PERSISTENCE_FAILED"} :
        /\ Ends(r, code)
        /\ code = "PART_PERSISTENCE_FAILED" => ~Storable(r)
  BY DEF RefusePart
<1>3. /\ run' \in [Runs -> RunState]
      /\ \A x \in Runs \ {r} : run'[x] = run[x]
      /\ run'[r].at = "ended" /\ run'[r].code = code
      /\ run'[r].collection = run[r].collection /\ run'[r].plan = run[r].plan
      /\ run'[r].base = run[r].base /\ run'[r].i = run[r].i /\ run'[r].content = run[r].content
  BY <1>1, <1>2 DEF Ends, Goes, CollectionInv, Types, RunState, Stages, Codes
<1>4. Types'
  BY <1>3 DEF RefusePart, CollectionInv, Types
<1>5. Frame(r)
  BY <1>1, <1>3 DEF Frame, RefusePart, RunState
<1>6. WorkFits(r)' /\ StoredFits(r)'
  BY <1>1, <1>3 DEF WorkFits, StoredFits, Planned, Begun, Open, RefusePart
<1>7. code = "PART_PERSISTENCE_FAILED" => RefusedParts(r)'
  <2>1. code = "PART_PERSISTENCE_FAILED" => RefusedParts(r)
    BY <1>1, <1>2, UnstorableIsRefused
  <2>2. ScopeAt(r)' = ScopeAt(r) /\ parts' = parts
    BY <1>3 DEF ScopeAt, RefusePart
  <2>. QED
    BY <1>3, <2>1, <2>2 DEF RefusedParts, PartsOf, InScope
<1>8. EndFits(r)'
  BY <1>1, <1>3, <1>7 DEF EndFits, Codes
<1>9. \A d \in Collections : ValidatedFits(d)'
  BY <1>5, SameCollections DEF RefusePart
<1>. QED
  BY <1>1, <1>3, <1>4, <1>5, <1>6, <1>8, <1>9, QuietStep DEF RefusePart, Open

-----------------------------------------------------------------------------
(* Completion.                                                             *)

(* With every partition stored the parts are those of the plan.            *)
LEMMA PersistedIsAccordingToPlan ==
  ASSUME CollectionInv, NEW r \in Runs, run[r].at = "persisted"
  PROVE  AccordingToPlan(run[r].collection)
<1>. DEFINE c == run[r].collection
            p == run[r].plan
<1>1. /\ WorkFits(r) /\ StoredFits(r) /\ run[r].base # 0 /\ Planned(c, p)
      /\ run[r].stored \in Seq(Contents) /\ Len(run[r].stored) = Len(p)
  BY DEF CollectionInv, Types, RunState, WorkFits, StoredFits, Begun
<1>2. c \in Collections /\ p \in Plans /\ collections[c].plan = p
  BY <1>1, OrdinalFacts DEF Planned
<1>3. \A k \in PartsOf(c) : PartFits(k) /\ parts[k].collection = c
  BY DEF CollectionInv, PartsOf
<1>4. \A k \in PartsOf(c) :
        /\ parts[k].ordinal \in DOMAIN p
        /\ parts[k].scope = collections[c].plan[parts[k].ordinal]
        /\ Fetched(c, parts[k].scope, k)
  BY <1>2, <1>3 DEF PartFits
<1>5. \A j \in DOMAIN p : \E k \in PartsOf(c) : parts[k].ordinal = j
  <2>1. DOMAIN run[r].stored = DOMAIN p
    BY <1>1, <1>2, PlanFacts
  <2>2. \A j \in DOMAIN run[r].stored :
          run[r].stored[j] \in PartsOf(c) /\ parts[run[r].stored[j]].ordinal = j
    BY <1>1 DEF StoredFits, Begun
  <2>. QED
    BY <2>1, <2>2
<1>6. {parts[k].ordinal : k \in PartsOf(c)} = DOMAIN collections[c].plan
  BY <1>2, <1>4, <1>5
<1>. QED
  BY <1>4, <1>6 DEF AccordingToPlan

LEMMA CompleteKeeps ==
  ASSUME CollectionInv, NEW r \in Runs, Complete(r), NEW c, c = run[r].collection
  PROVE  CollectionInv'
<1>1. /\ run[r].at = "persisted" /\ run[r] \in RunState /\ run[r].base # 0
      /\ WorkFits(r) /\ StoredFits(r) /\ Planned(c, run[r].plan) /\ c \in Collections
  BY DEF Complete, At, CollectionInv, Types, WorkFits, Begun
<1>2. /\ collections' = [collections EXCEPT ![c].state = "VALIDATED"]
      /\ Ends(r, "VALIDATED")
  BY <1>1, PersistedIsAccordingToPlan DEF Complete
<1>3. /\ run' \in [Runs -> RunState]
      /\ \A x \in Runs \ {r} : run'[x] = run[x]
      /\ run'[r].at = "ended" /\ run'[r].code = "VALIDATED"
      /\ run'[r].collection = c /\ run'[r].plan = run[r].plan
      /\ run'[r].base = run[r].base /\ run'[r].i = run[r].i /\ run'[r].stored = run[r].stored
  BY <1>1, <1>2 DEF Ends, Goes, CollectionInv, Types, RunState, Stages, Codes
<1>4. /\ collections' \in [Collections -> CollectionRow \cup {None}]
      /\ collections'[c] \in CollectionRow
      /\ collections'[c].plan = collections[c].plan /\ collections'[c].state = "VALIDATED"
      /\ \A d \in Collections \ {c} : collections'[d] = collections[d]
  <2>1. collections \in [Collections -> CollectionRow \cup {None}] /\ collections[c] \in CollectionRow
    BY <1>1 DEF CollectionInv, Types, Planned
  <2>. QED
    BY <1>1, <1>2, <2>1 DEF CollectionRow
<1>5. Types'
  BY <1>3, <1>4 DEF Complete, CollectionInv, Types
<1>6. Frame(r)
  BY <1>1, <1>3, <1>4 DEF Frame, Complete, RunState
<1>7. ASSUME NEW d \in Collections
      PROVE  ValidatedFits(d)'
  <2>1. PartsOf(d)' = PartsOf(d)
    BY DEF PartsOf, Complete
  <2>2. CASE d = c
    <3>1. AccordingToPlan(c)
      BY <1>1, PersistedIsAccordingToPlan
    <3>2. AccordingToPlan(c)'
      BY <1>4, <2>1, <2>2, <3>1 DEF AccordingToPlan, Complete, Fetched
    <3>. QED
      BY <2>2, <3>2 DEF ValidatedFits
  <2>3. CASE d # c
    BY <1>4, <1>6, <2>1, <2>3, ValidatedStayFit DEF ValidatedFits
  <2>. QED
    BY <2>2, <2>3
<1>8. WorkFits(r)'
  BY <1>1, <1>3, <1>4 DEF WorkFits, Planned, Begun, Open
<1>9. StoredFits(r)'
  BY <1>1, <1>3 DEF StoredFits, Begun, Open, PartsOf, Complete
<1>10. EndFits(r)'
  BY <1>3, <1>4 DEF EndFits, Codes
<1>. QED
  BY <1>1, <1>3, <1>5, <1>6, <1>7, <1>8, <1>9, <1>10, QuietStep DEF Complete, Open

LEMMA StopKeeps ==
  ASSUME CollectionInv, NEW r \in Runs, Stop(r)
  PROVE  CollectionInv'
<1>1. /\ run[r].at \notin {"idle", "ended"} /\ run[r] \in RunState /\ WorkFits(r)
  BY DEF Stop, CollectionInv, Types
<1>2. /\ run' \in [Runs -> RunState]
      /\ \A x \in Runs \ {r} : run'[x] = run[x]
      /\ run'[r].at = "ended" /\ run'[r].code = "STOPPED"
      /\ run'[r].collection = run[r].collection /\ run'[r].plan = run[r].plan
      /\ run'[r].base = run[r].base /\ run'[r].i = run[r].i
  BY <1>1 DEF Stop, Ends, Goes, CollectionInv, Types, RunState, Stages, Codes
<1>3. Types'
  BY <1>2 DEF Stop, CollectionInv, Types
<1>4. Frame(r)
  BY <1>1, <1>2 DEF Frame, Stop, RunState
<1>5. (WorkFits(r) /\ StoredFits(r) /\ EndFits(r))'
  BY <1>1, <1>2 DEF WorkFits, Planned, StoredFits, EndFits, Begun, Open, Codes, Stop
<1>6. \A d \in Collections : ValidatedFits(d)'
  BY <1>4, SameCollections DEF Stop
<1>. QED
  BY <1>1, <1>2, <1>3, <1>4, <1>5, <1>6, QuietStep DEF Stop, Open

(* The source may close at any time: a closed source is a cause by itself. *)
LEMMA CloseSourceKeeps ==
  ASSUME CollectionInv, CloseSource
  PROVE  CollectionInv'
<1>1. UNCHANGED <<collections, attempts, parts, run>> /\ active' = FALSE
  BY DEF CloseSource
<1>2. Types'
  BY <1>1 DEF CollectionInv, Types
<1>3. \A c \in Collections : (AttemptsFit(c) /\ ValidatedFits(c))'
  BY <1>1 DEF CollectionInv, AttemptsFit, ValidatedFits, Made, AttemptOrdinal, AccordingToPlan, PartsOf, Fetched
<1>4. OneRunPerAttempt'
  BY <1>1 DEF CollectionInv, OneRunPerAttempt, AttemptOrdinal
<1>5. \A k \in DOMAIN parts' : PartFits(k)'
  BY <1>1 DEF CollectionInv, PartFits, PartsOf, Fetched, InScope
<1>6. \A r \in Runs : (WorkFits(r) /\ StoredFits(r))'
  BY <1>1 DEF CollectionInv, WorkFits, StoredFits, Planned, AttemptOrdinal, ScopeAt, Fetched, PartsOf
<1>7. \A r \in Runs : EndFits(r)'
  BY <1>1 DEF CollectionInv, EndFits, RefusedParts, InScope, ScopeAt, PartsOf
<1>. QED
  BY <1>2, <1>3, <1>4, <1>5, <1>6, <1>7 DEF CollectionInv

-----------------------------------------------------------------------------
(* The theorems.                                                           *)

LEMMA InitialRows == Init => CollectionInv
<1>. SUFFICES ASSUME Init PROVE CollectionInv
  OBVIOUS
<1>1. Types
  <2>1. <<>> \in Seq(Contents)
    OBVIOUS
  <2>2. run \in [Runs -> RunState]
    BY <2>1 DEF Init, RunState, Stages
  <2>. QED
    BY <2>2 DEF Init, Types
<1>2. \A c \in Collections : AttemptsFit(c) /\ ValidatedFits(c)
  <2>1. \A c \in Collections : DOMAIN attempts[c] = 1 .. 0
    BY DEF Init
  <2>. QED
    BY <2>1, NoneAssumption DEF Init, AttemptsFit, ValidatedFits
<1>3. OneRunPerAttempt /\ \A k \in DOMAIN parts : PartFits(k)
  BY DEF Init, OneRunPerAttempt, Open
<1>4. \A r \in Runs : WorkFits(r) /\ StoredFits(r) /\ EndFits(r)
  BY NoneAssumption DEF Init, WorkFits, StoredFits, EndFits, Begun, Open, Codes
<1>. QED
  BY <1>1, <1>2, <1>3, <1>4 DEF CollectionInv

LEMMA StepsKeepRows == CollectionInv /\ [Next]_vars => CollectionInv'
<1>. SUFFICES ASSUME CollectionInv, [Next]_vars PROVE CollectionInv'
  OBVIOUS
<1>1. CASE CloseSource
  BY <1>1, CloseSourceKeeps
<1>2. ASSUME NEW r \in Runs, NEW c \in Collections, NEW p \in Plans,
             Plan(r, c, p) \/ RefusePlan(r, c, p)
      PROVE  CollectionInv'
  BY <1>2, PlanKeeps, RefusePlanKeeps
<1>3. ASSUME NEW r \in Runs,
             \/ CountAttempts(r)
             \/ StartAttempt(r)
             \/ RefuseAttempt(r)
             \/ FetchYields(r)
             \/ FetchFails(r)
             \/ FailAttempt(r)
             \/ CompleteAttempt(r)
             \/ RefusePart(r)
             \/ Stop(r)
      PROVE  CollectionInv'
  BY <1>3, CountAttemptsKeeps, StartAttemptKeeps, RefuseAttemptKeeps, FetchYieldsKeeps,
     FetchFailsKeeps, FailAttemptKeeps, CompleteAttemptKeeps, RefusePartKeeps, StopKeeps
<1>4. ASSUME NEW r \in Runs, PersistPart(r) \/ Complete(r)
      PROVE  CollectionInv'
  <2>1. PICK c, p, i, k, s :
          /\ c = run[r].collection /\ p = run[r].plan /\ i = run[r].i /\ k = run[r].content
          /\ s = ScopeAt(r)
    OBVIOUS
  <2>. QED
    BY <1>4, <2>1, PersistPartKeeps, CompleteKeeps
<1>5. CASE UNCHANGED vars
  <2>1. active' = active /\ UNCHANGED <<collections, attempts, parts, run>>
    BY <1>5 DEF vars
  <2>. QED
    BY <2>1 DEF CollectionInv, Types, AttemptsFit, ValidatedFits, Made, AttemptOrdinal, AccordingToPlan,
      PartsOf, Fetched, OneRunPerAttempt, PartFits, InScope, WorkFits, StoredFits, Planned, ScopeAt,
      EndFits, RefusedParts, Conflict, Overtaken
<1>. QED
  BY <1>1, <1>2, <1>3, <1>4, <1>5 DEF Next

LEMMA RowsFit == Spec => []CollectionInv
<1>. QED
  BY InitialRows, StepsKeepRows, PTL DEF Spec

(* For any plans, answers and number of runs: rows and the memory of the   *)
(* runs have their types, an attempt's ordinal is positive, and a run has  *)
(* an exit code exactly when it has ended.                                 *)
THEOREM CollectionTypes == Spec => []TypeOK
<1>1. ASSUME CollectionInv PROVE TypeOK
  <2>1. \A c \in Collections : \A o \in DOMAIN attempts[c] :
          o \in Nat \ {0} /\ attempts[c][o] \in AttemptRow
    <3>. SUFFICES ASSUME NEW c \in Collections, NEW o \in DOMAIN attempts[c]
                  PROVE  o \in Nat \ {0} /\ attempts[c][o] \in AttemptRow
      OBVIOUS
    <3>1. PICK n \in Nat : DOMAIN attempts[c] = 1 .. n
      BY <1>1 DEF CollectionInv, AttemptsFit
    <3>. QED
      BY <1>1, <3>1 DEF CollectionInv, AttemptsFit
  <2>2. \A k \in DOMAIN parts : parts[k] \in PartRow
    BY <1>1 DEF CollectionInv, PartFits
  <2>3. \A r \in Runs : (run[r].at = "ended") = (run[r].code # None)
    BY <1>1, NoneAssumption DEF CollectionInv, EndFits
  <2>. QED
    BY <1>1, <2>1, <2>2, <2>3 DEF CollectionInv, Types, TypeOK
<1>. QED
  BY <1>1, RowsFit, PTL

(* CountAttempts reads the next ordinal outside of any transaction and the *)
(* run uses it for as long as it lives; still, whatever runs overlap and   *)
(* wherever they stop, a collection's attempts are numbered 1, 2, 3, ...,  *)
(* and an attempt left STARTED is one whose run is at it or was stopped.   *)
THEOREM AttemptsHaveNoGaps == Spec => []AttemptsAreGapless
<1>1. ASSUME CollectionInv PROVE AttemptsAreGapless
  <2>. SUFFICES ASSUME NEW c \in Collections
                PROVE  /\ DOMAIN attempts[c] = 1 .. Max(DOMAIN attempts[c] \cup {0})
                       /\ \A o \in DOMAIN attempts[c] : attempts[c][o].state = "STARTED" =>
                            \E r \in Runs :
                              /\ run[r].collection = c /\ run[r].base # 0 /\ AttemptOrdinal(r) = o
                              /\ run[r].at \in {"fetching", "failing", "fetched"} \/ run[r].code = "STOPPED"
    BY DEF AttemptsAreGapless
  <2>1. AttemptsFit(c)
    BY <1>1 DEF CollectionInv
  <2>2. PICK n \in Nat : DOMAIN attempts[c] = 1 .. n
    BY <2>1 DEF AttemptsFit
  <2>3. DOMAIN attempts[c] = 1 .. Max(DOMAIN attempts[c] \cup {0})
    BY <2>2, MaxOfInterval
  <2>. QED
    BY <2>1, <2>3 DEF AttemptsFit, Open
<1>. QED
  BY <1>1, RowsFit, PTL

(* complete_historical_collection validates nothing but the whole plan:    *)
(* one part per partition, of bytes that were fetched for its scope, hold  *)
(* nothing outside of it and tell of no region twice; and nothing is added *)
(* to a collection once it is VALIDATED.                                   *)
THEOREM ValidatedCollectionsAreWhole == Spec => []ValidatedCollectionsReconcile
<1>1. ASSUME CollectionInv PROVE ValidatedCollectionsReconcile
  <2>. SUFFICES ASSUME NEW c \in Collections, collections[c] # None, collections[c].state = "VALIDATED"
                PROVE  /\ Cardinality(PartsOf(c)) = Len(collections[c].plan)
                       /\ AccordingToPlan(c)
                       /\ \A k, other \in PartsOf(c) :
                            /\ InScope(k, parts[k].scope) /\ Readable(k)
                            /\ k # other => RegionsIn(k) \cap RegionsIn(other) = {}
    BY DEF ValidatedCollectionsReconcile
  <2>1. collections[c] \in CollectionRow
    BY <1>1 DEF CollectionInv, Types
  <2>2. AccordingToPlan(c)
    BY <1>1, <2>1 DEF CollectionInv, ValidatedFits
  <2>3. \A k \in PartsOf(c) : PartFits(k) /\ parts[k].collection = c
    BY <1>1 DEF CollectionInv, PartsOf
  <2>4. \A k, other \in PartsOf(c) :
          /\ InScope(k, parts[k].scope) /\ Readable(k)
          /\ k # other => RegionsIn(k) \cap RegionsIn(other) = {}
    BY <2>3 DEF PartFits
  <2>5. Cardinality(PartsOf(c)) = Len(collections[c].plan)
    <3>. DEFINE p == collections[c].plan
                partition == [k \in PartsOf(c) |-> parts[k].ordinal]
    <3>1. Len(p) \in Nat /\ DOMAIN p = 1 .. Len(p)
      BY <2>1, PlanFacts DEF CollectionRow
    <3>2. partition \in [PartsOf(c) -> 1 .. Len(p)]
      BY <2>3, <3>1 DEF PartFits
    <3>3. \A k, other \in PartsOf(c) : partition[k] = partition[other] => k = other
      BY <2>3 DEF PartFits
    <3>4. \A j \in 1 .. Len(p) : \E k \in PartsOf(c) : partition[k] = j
      BY <2>2, <3>1 DEF AccordingToPlan
    <3>5. partition \in Bijection(PartsOf(c), 1 .. Len(p))
      BY <3>2, <3>3, <3>4 DEF Bijection, Injection, Surjection, IsInjective
    <3>6. ExistsBijection(1 .. Len(p), PartsOf(c))
      BY <3>5, Fun_ExistsBijSymmetric DEF ExistsBijection
    <3>7. IsFiniteSet(1 .. Len(p)) /\ Cardinality(1 .. Len(p)) = Len(p)
      BY <3>1, FS_Interval
    <3>. QED
      BY <3>6, <3>7, FS_Bijection
  <2>. QED
    BY <2>2, <2>4, <2>5
<1>. QED
  BY <1>1, RowsFit, PTL

(* A run that prints VALIDATED has told the truth of all its partitions:   *)
(* each is stored with the very bytes that this run fetched, also where    *)
(* persist_*_part found another run's part.                                *)
THEOREM ReceiptsAreTrue == Spec => []ReceiptsMatchStoredParts
<1>1. ASSUME CollectionInv PROVE ReceiptsMatchStoredParts
  <2>. SUFFICES ASSUME NEW r \in Runs, run[r].code = "VALIDATED"
                PROVE  /\ collections[run[r].collection].state = "VALIDATED"
                       /\ Len(run[r].stored) = Len(run[r].plan)
                       /\ \A i \in DOMAIN run[r].plan :
                            /\ run[r].stored[i] \in PartsOf(run[r].collection)
                            /\ parts[run[r].stored[i]].ordinal = i
    BY DEF ReceiptsMatchStoredParts
  <2>1. /\ run[r].base # 0 /\ run[r].stored \in Seq(Contents)
        /\ StoredFits(r) /\ EndFits(r)
    BY <1>1 DEF CollectionInv, Types, RunState, StoredFits
  <2>2. DOMAIN run[r].stored = DOMAIN run[r].plan
    BY <1>1, <2>1, OrdinalFacts, PlanFacts DEF StoredFits
  <2>. QED
    BY <2>1, <2>2 DEF StoredFits, EndFits
<1>. QED
  BY <1>1, RowsFit, PTL

(* PART_PERSISTENCE_FAILED is always about the rows or about another part, *)
(* FAILED about the source, the plan or another run's attempt, and         *)
(* COLLECTION_COMPLETION_FAILED is never seen.                             *)
THEOREM RefusalsAreJustified == Spec => []RefusalsHaveACause
<1>1. ASSUME CollectionInv PROVE RefusalsHaveACause
  <2>1. \A r \in Runs : EndFits(r)
    BY <1>1 DEF CollectionInv
  <2>. QED
    BY <2>1 DEF RefusalsHaveACause, EndFits, Conflict, Overtaken
<1>. QED
  BY <1>1, RowsFit, PTL
================================================================================
