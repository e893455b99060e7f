---------------------------- MODULE PublicReadProofs ----------------------------
(***************************************************************************)
(* What a reader is served, for every number of generations, series and    *)
(* requests, every price and every age limit.  The invariant follows a     *)
(* request through its reads: what it read stays true of the attempts that *)
(* had ended by then, because attempts are appended with later times and   *)
(* facts are never changed.                                                *)
(***************************************************************************)
EXTENDS PublicRead, TLAPS

-----------------------------------------------------------------------------
(* The comparison of prices: what the stored comparison of any two         *)
(* positive prices promises, and exactly when the public read refuses it.  *)

(* Integer division, as the rounding uses it.                              *)
LEMMA Division ==
  ASSUME NEW a \in Nat, NEW b \in Nat \ {0}
  PROVE  /\ a \div b \in Nat
         /\ b * (a \div b) <= a
         /\ a < b * (a \div b) + b
  <1>1. a = b * (a \div b) + (a % b) /\ a % b \in 0..(b - 1)
    BY SMT
  <1>2. a \div b \in Int
    BY SMT
  <1>3. a \div b >= 0
    BY SMT
  <1> QED
    BY <1>1, <1>2, <1>3, SMT

LEMMA SmallQuotient ==
  ASSUME NEW a \in Nat, NEW b \in Nat \ {0}
  PROVE  a \div b = 0 <=> a < b
  BY Division, SMT

LEMMA MagnitudeIsNat ==
  ASSUME NEW x \in Int
  PROVE  Magnitude(x) \in Nat
  BY DEF Magnitude

(* The percentage is the nearest tenth: quantize with ROUND_HALF_UP is off *)
(* by at most half a unit of the last place.  (_compare_reference.)        *)
THEOREM HalfUpIsNearest ==
  ASSUME NEW num \in Int, NEW den \in Nat \ {0}
  PROVE  /\ HalfUp(num, den) \in Int
         /\ 2 * Magnitude(num - den * HalfUp(num, den)) <= den
  <1> DEFINE m == Magnitude(num)
             q == (2 * m + den) \div (2 * den)
  <1>1. m \in Nat /\ 2 * m + den \in Nat /\ 2 * den \in Nat \ {0}
    BY MagnitudeIsNat
  <1>2. /\ q \in Nat
        /\ (2 * den) * q <= 2 * m + den
        /\ 2 * m + den < (2 * den) * q + 2 * den
    BY <1>1, Division
  <1> DEFINE p == den * q
  <1>3. p \in Nat /\ (2 * den) * q = 2 * p /\ den * (-q) = -p
    BY <1>2, SMT
  <1> HIDE DEF p
  <1>4. 2 * p <= 2 * m + den /\ 2 * m <= 2 * p + den
    BY <1>1, <1>2, <1>3, SMT
  <1>5. HalfUp(num, den) = IF num < 0 THEN -q ELSE q
    BY DEF HalfUp
  <1>6. num - den * HalfUp(num, den) = IF num < 0 THEN p - m ELSE m - p
    <2>1. num = IF num < 0 THEN -m ELSE m
      BY DEF Magnitude
    <2>2. den * HalfUp(num, den) = IF num < 0 THEN -p ELSE p
      BY <1>3, <1>5 DEF p
    <2> QED
      BY <2>1, <2>2, <1>1, <1>3, SMT
  <1> QED
    BY <1>1, <1>2, <1>3, <1>4, <1>5, <1>6, SMT DEF Magnitude

(* A rounded quotient is zero below half a unit, and has the sign of the   *)
(* number otherwise.                                                       *)
LEMMA HalfUpSign ==
  ASSUME NEW num \in Int, NEW den \in Nat \ {0}
  PROVE  /\ HalfUp(num, den) \in Int
         /\ HalfUp(num, den) = 0 <=> 2 * Magnitude(num) < den
         /\ HalfUp(num, den) < 0 <=> num < 0 /\ 2 * Magnitude(num) >= den
  <1> DEFINE m == Magnitude(num)
             q == (2 * m + den) \div (2 * den)
  <1>1. m \in Nat /\ 2 * m + den \in Nat /\ 2 * den \in Nat \ {0}
    BY MagnitudeIsNat
  <1>2. q \in Nat
    BY <1>1, Division
  <1>3. q = 0 <=> 2 * m + den < 2 * den
    BY <1>1, SmallQuotient
  <1>4. HalfUp(num, den) = IF num < 0 THEN -q ELSE q
    BY DEF HalfUp
  <1>5. num < 0 => m # 0
    BY DEF Magnitude
  <1> HIDE DEF q
  <1> QED
    BY <1>1, <1>2, <1>3, <1>4, <1>5, SMT

(* Every comparison of a positive price with a reference, or with none,    *)
(* satisfies the table's check constraint, so parsing never fails on it.   *)
(* (_compare_reference against grocery_change_value_state_valid.)          *)
THEOREM ComparisonsAreStorable ==
  ASSUME None \notin Int,
         NEW price \in Nat \ {0}, NEW reference \in (Nat \ {0}) \cup {None}
  PROVE  Storable(Compare(price, reference))
  <1>1. CASE reference = None
    BY <1>1 DEF Storable, Compare
  <1>2. CASE reference # None
    <2>1. reference \in Nat \ {0} /\ price - reference \in Int
      BY <1>2
    <2>2. HalfUp(1000 * (price - reference), reference) \in Int
      BY <2>1, HalfUpSign
    <2> QED
      BY <1>2, <2>1, <2>2 DEF Storable, Compare
  <1> QED
    BY <1>1, <1>2

(* A stored comparison can be served unless the prices differ by less than *)
(* a twentieth of a percent: then the percentage is zero and the direction *)
(* is not.  (_compare_reference against _comparison_context.)              *)
THEOREM ReadableUnlessTiny ==
  ASSUME None \notin Int,
         NEW price \in Nat \ {0}, NEW reference \in (Nat \ {0}) \cup {None}
  PROVE  Readable(Compare(price, reference)) <=> ~TinyChange(price, reference)
  <1>1. CASE reference = None
    BY <1>1 DEF Readable, Compare, TinyChange
  <1>2. CASE reference # None
    <2> DEFINE d == price - reference
               percentage == HalfUp(1000 * d, reference)
    <2>1. reference \in Nat \ {0} /\ d \in Int /\ 1000 * d \in Int
      BY <1>2
    <2>2. 2 * Magnitude(1000 * d) = 2000 * Magnitude(d)
      BY <2>1 DEF Magnitude
    <2>3. /\ percentage \in Int
          /\ percentage = 0 <=> 2000 * Magnitude(d) < reference
          /\ percentage < 0 <=> d < 0 /\ 2000 * Magnitude(d) >= reference
      <3> DEFINE num == 1000 * d
      <3>1. num \in Int /\ (num < 0 <=> d < 0) /\ 2 * Magnitude(num) = 2000 * Magnitude(d)
        BY <2>1, <2>2, SMT
      <3> HIDE DEF num, d
      <3>2. /\ HalfUp(num, reference) \in Int
            /\ HalfUp(num, reference) = 0 <=> 2 * Magnitude(num) < reference
            /\ HalfUp(num, reference) < 0 <=> num < 0 /\ 2 * Magnitude(num) >= reference
        BY <2>1, <3>1, HalfUpSign
      <3>3. percentage = HalfUp(num, reference)
        BY DEF num
      <3> HIDE DEF percentage
      <3> QED
        BY <3>1, <3>2, <3>3
    <2>4. Compare(price, reference) = [direction |-> DirectionOf(d), difference |-> d,
                                         percentage |-> percentage]
      BY <1>2 DEF Compare
    <2> HIDE DEF percentage
    <2>5. Readable(Compare(price, reference)) <=> DirectionOf(d) = DirectionOf(percentage)
      BY <2>1, <2>3, <2>4 DEF Readable, DirectionOf
    <2>6. TinyChange(price, reference) <=> d # 0 /\ 2000 * Magnitude(d) < reference
      BY <1>2, <2>1 DEF TinyChange
    <2>7. DirectionOf(d) = DirectionOf(percentage) <=>
            (d < 0 <=> percentage < 0) /\ (d = 0 <=> percentage = 0)
      BY <2>1, <2>3 DEF DirectionOf
    <2>8. Magnitude(d) \in Nat /\ (d = 0 => Magnitude(d) = 0)
      BY <2>1 DEF Magnitude
    <2> QED
      BY <2>1, <2>3, <2>5, <2>6, <2>7, <2>8, SMT
  <1> QED
    BY <1>1, <1>2

-----------------------------------------------------------------------------
(* The requests.                                                           *)

Attempt == [state : {"SUCCEEDED", "FAILED"}, artifact : Generations \cup {None}, at : Nat]

AttemptsInOrder ==
  /\ now \in Nat
  /\ attempts \in Seq(Attempt)
  /\ \A i \in DOMAIN attempts : attempts[i].at <= now
  /\ \A i, j \in DOMAIN attempts : i < j => attempts[i].at < attempts[j].at

FactsFixed ==
  /\ DOMAIN facts = Generations
  /\ \A g \in Generations : facts[g] = None \/ facts[g] = FactsOf(g)
  /\ current \in Generations \cup {None}
  /\ current # None => facts[current] # None

(* The request has chosen a revision, which has its facts, and a period.   *)
Chosen(r) ==
  /\ reader[r].revision \in Generations /\ reader[r].period \in Periods
  /\ facts[reader[r].revision] # None

(* The confirmation it read is a successful attempt of that revision.      *)
CheckedOf(r) == \E i \in Successes(reader[r].revision) : reader[r].checked = attempts[i].at

(* The latest attempt it read was the last one then, which was at or after *)
(* the confirmation it had read before.                                    *)
LatestOf(r) ==
  /\ reader[r].readAt \in Nat /\ reader[r].readAt <= now
  /\ \E k \in DOMAIN attempts :
       /\ reader[r].latest = attempts[k] /\ LastBy(k, reader[r].readAt)
       /\ \E i \in Successes(reader[r].revision) : i <= k /\ reader[r].checked = attempts[i].at

(* What the page will say of its freshness.                                *)
FreshnessHolds(r) ==
  /\ reader[r].readAt \in Nat /\ reader[r].readAt <= now
  /\ reader[r].freshness = "current" =>
       \E i \in Successes(reader[r].revision) :
         LastBy(i, reader[r].readAt) /\ reader[r].clock - attempts[i].at <= MaxAge

Page(g, p) == [s \in Series |-> Compare(Price[g][s], Reference[g][s][p])]

ResponseHolds(r) ==
  \/ reader[r].status = 200 /\ reader[r].revision = None
  \/ /\ reader[r].status = 200
     /\ Chosen(r) /\ FreshnessHolds(r)
     /\ reader[r].shown = Page(reader[r].revision, reader[r].period)
  \/ /\ reader[r].status = 503
     /\ \E s \in Series : TinyChange(Price[reader[r].revision][s],
                                     Reference[reader[r].revision][s][reader[r].period])

ReaderInv(r) ==
  /\ reader[r].at \in Stages
  /\ At(r, "confirmed") => Chosen(r)
  /\ At(r, "latest") => Chosen(r) /\ CheckedOf(r)
  /\ At(r, "clock") => Chosen(r) /\ LatestOf(r)
  /\ At(r, "entries") => Chosen(r) /\ FreshnessHolds(r)
  /\ At(r, "served") => ResponseHolds(r)

ReadersInv == DOMAIN reader = Readers /\ \A r \in Readers : ReaderInv(r)

ReadInv == AttemptsInOrder /\ FactsFixed /\ ReadersInv

-----------------------------------------------------------------------------
(* The table of attempts only grows, by attempts that end later than       *)
(* everything read so far, and facts are written once.                     *)
Grows ==
  /\ now' \in Nat /\ now <= now'
  /\ attempts' \in Seq(Attempt)
  /\ DOMAIN attempts \subseteq DOMAIN attempts'
  /\ \A i \in DOMAIN attempts : attempts'[i] = attempts[i]
  /\ \A j \in DOMAIN attempts' : j \in DOMAIN attempts \/ attempts'[j].at > now
  /\ \A g \in Generations : facts[g] # None => facts'[g] = facts[g]

LEMMA AttemptRow ==
  ASSUME NEW list \in Seq(Attempt), NEW i \in DOMAIN list
  PROVE  /\ list[i] \in Attempt /\ list[i].at \in Nat
         /\ list[i].state \in {"SUCCEEDED", "FAILED"}
  <1>1. list[i] \in Attempt
    OBVIOUS
  <1> QED
    BY <1>1 DEF Attempt

(* What a request has read stays true.                                     *)
LEMMA ReaderKept ==
  ASSUME AttemptsInOrder, Grows,
         NEW r, ReaderInv(r), reader'[r] = reader[r]
  PROVE  ReaderInv(r)'
  <1>1. \A i \in DOMAIN attempts, t \in Nat : t <= now /\ LastBy(i, t) => LastBy(i, t)'
    <2>1. SUFFICES ASSUME NEW i \in DOMAIN attempts, NEW t \in Nat, t <= now, LastBy(i, t)
                   PROVE  LastBy(i, t)'
      OBVIOUS
    <2>2. attempts'[i].at <= t
      BY <2>1 DEF LastBy, Grows
    <2>3. ASSUME NEW j \in DOMAIN attempts', attempts'[j].at <= t PROVE j <= i
      <3>1. attempts'[j].at \in Nat /\ now \in Nat
        BY <2>3, AttemptRow DEF Grows, AttemptsInOrder
      <3>2. j \in DOMAIN attempts
        BY <2>1, <2>3, <3>1 DEF Grows
      <3> QED
        BY <2>1, <2>3, <3>2 DEF LastBy, Grows
    <2> QED
      BY <2>2, <2>3 DEF LastBy
  <1>2. \A g, i : i \in Successes(g) => i \in Successes(g)' /\ i \in DOMAIN attempts
                                        /\ attempts'[i] = attempts[i]
    BY DEF Successes, Grows
  <1>3. \A s : At(r, s)' <=> At(r, s)
    BY DEF At
  <1>4. ASSUME Chosen(r) PROVE Chosen(r)'
    BY <1>4 DEF Chosen, Grows
  <1>5. ASSUME CheckedOf(r) PROVE CheckedOf(r)'
    BY <1>2, <1>5 DEF CheckedOf
  <1>6. ASSUME LatestOf(r) PROVE LatestOf(r)'
    <2>1. reader[r].readAt \in Nat /\ reader[r].readAt <= now
      BY <1>6 DEF LatestOf
    <2>2. PICK k \in DOMAIN attempts :
            /\ reader[r].latest = attempts[k] /\ LastBy(k, reader[r].readAt)
            /\ \E i \in Successes(reader[r].revision) :
                 i <= k /\ reader[r].checked = attempts[i].at
      BY <1>6 DEF LatestOf
    <2>3. LastBy(k, reader[r].readAt)' /\ k \in DOMAIN attempts' /\ attempts'[k] = attempts[k]
      BY <1>1, <2>1, <2>2 DEF Grows
    <2>4. reader'[r].readAt <= now'
      BY <2>1 DEF Grows, AttemptsInOrder
    <2> QED
      BY <1>2, <2>1, <2>2, <2>3, <2>4 DEF LatestOf
  <1>7. ASSUME FreshnessHolds(r) PROVE FreshnessHolds(r)'
    <2>1. reader[r].readAt \in Nat /\ reader[r].readAt <= now
      BY <1>7 DEF FreshnessHolds
    <2>2. reader'[r].readAt <= now'
      BY <2>1 DEF Grows, AttemptsInOrder
    <2>3. \A i \in Successes(reader[r].revision) :
            LastBy(i, reader[r].readAt) => LastBy(i, reader[r].readAt)'
      BY <1>1, <1>2, <2>1
    <2> QED
      BY <1>2, <1>7, <2>1, <2>2, <2>3 DEF FreshnessHolds
  <1>8. ASSUME ResponseHolds(r) PROVE ResponseHolds(r)'
    BY <1>4, <1>7, <1>8 DEF ResponseHolds
  <1> QED
    BY <1>3, <1>4, <1>5, <1>6, <1>7, <1>8 DEF ReaderInv

-----------------------------------------------------------------------------
(* The steps.                                                              *)

LEMMA InitEstablishes ==
  Init => ReadInv
  BY ReadAssumption DEF Init, ReadInv, AttemptsInOrder, FactsFixed, ReadersInv, ReaderInv,
     At, Stages, Attempt

LEMMA OthersGrow ==
  ASSUME AttemptsInOrder, UNCHANGED <<now, attempts, facts>>
  PROVE  AttemptsInOrder' /\ Grows
  BY DEF AttemptsInOrder, Grows

LEMMA AttemptAppended ==
  ASSUME ReadInv, NEW state \in {"SUCCEEDED", "FAILED"},
         NEW g \in Generations \cup {None}, EndAttempt(state, g)
  PROVE  AttemptsInOrder' /\ Grows
  <1> DEFINE a == [state |-> state, artifact |-> g, at |-> now + 1]
  <1>1. now \in Nat /\ now' = now + 1 /\ a \in Attempt /\ attempts \in Seq(Attempt)
        /\ attempts' = Append(attempts, a) /\ facts' = facts
    BY DEF EndAttempt, ReadInv, AttemptsInOrder, Attempt
  <1>2. /\ attempts' \in Seq(Attempt)
        /\ DOMAIN attempts' = DOMAIN attempts \cup {Len(attempts) + 1}
        /\ Len(attempts) + 1 \notin DOMAIN attempts
        /\ \A i \in DOMAIN attempts : attempts'[i] = attempts[i] /\ i < Len(attempts) + 1
        /\ attempts'[Len(attempts) + 1] = a
    BY <1>1
  <1>3. \A i \in DOMAIN attempts : attempts[i].at \in Nat /\ attempts[i].at <= now
    BY <1>1, AttemptRow DEF ReadInv, AttemptsInOrder
  <1>4. AttemptsInOrder'
    <2>1. \A i \in DOMAIN attempts' : attempts'[i].at <= now'
      BY <1>1, <1>2, <1>3
    <2>2. \A i, j \in DOMAIN attempts' : i < j => attempts'[i].at < attempts'[j].at
      BY <1>1, <1>2, <1>3 DEF ReadInv, AttemptsInOrder
    <2> QED
      BY <1>1, <1>2, <2>1, <2>2 DEF AttemptsInOrder
  <1>5. Grows
    BY <1>1, <1>2, <1>3 DEF Grows
  <1> QED
    BY <1>4, <1>5

(* A request's own step, given what it establishes for the request.        *)
LEMMA RequestStep ==
  ASSUME ReadInv, NEW r \in Readers, NEW q,
         Continue(r, q), reader'[r] = q => ReaderInv(r)'
  PROVE  ReadInv'
  <1>1. AttemptsInOrder' /\ Grows
    BY OthersGrow DEF ReadInv, Continue
  <1>2. FactsFixed'
    BY DEF ReadInv, FactsFixed, Continue, FactsOf
  <1>3. DOMAIN reader' = Readers /\ reader'[r] = q
    BY DEF ReadInv, ReadersInv, Continue
  <1>4. \A o \in Readers : ReaderInv(o)'
    <2>1. SUFFICES ASSUME NEW o \in Readers, o # r PROVE ReaderInv(o)'
      BY <1>3
    <2>2. reader'[o] = reader[o] /\ ReaderInv(o)
      BY <2>1 DEF ReadInv, ReadersInv, Continue
    <2> QED
      BY <1>1, <2>2, ReaderKept DEF ReadInv
  <1> QED
    BY <1>1, <1>2, <1>3, <1>4 DEF ReadInv, ReadersInv

LEMMA ReadChannelKeeps ==
  ASSUME ReadInv, NEW r \in Readers, ReadChannel(r)
  PROVE  ReadInv'
  <1>1. CASE current = None
    <2> DEFINE q == [at |-> "served", status |-> 200, revision |-> None]
    <2>1. Continue(r, q)
      BY <1>1 DEF ReadChannel
    <2>2. reader'[r] = q => ReaderInv(r)'
      BY DEF ReaderInv, At, Stages, ResponseHolds
    <2> QED
      BY <2>1, <2>2, RequestStep
  <1>2. CASE current # None
    <2>1. PICK p \in Periods : Continue(r, [at |-> "confirmed", revision |-> current, period |-> p])
      BY <1>2 DEF ReadChannel
    <2> DEFINE q == [at |-> "confirmed", revision |-> current, period |-> p]
    <2>2. facts' = facts /\ current \in Generations /\ facts[current] # None
      BY <1>2, <2>1 DEF Continue, ReadInv, FactsFixed
    <2>3. reader'[r] = q => ReaderInv(r)'
      BY <2>2 DEF ReaderInv, At, Stages, Chosen
    <2>4. PICK c : c = q
      OBVIOUS
    <2>5. Continue(r, c) /\ (reader'[r] = c => ReaderInv(r)')
      BY <2>1, <2>3, <2>4
    <2> QED
      BY <2>5, RequestStep
  <1> QED
    BY <1>1, <1>2

LEMMA ReadConfirmedKeeps ==
  ASSUME ReadInv, NEW r \in Readers, ReadConfirmed(r)
  PROVE  ReadInv'
  <1>1. PICK i \in Successes(reader[r].revision) :
          Continue(r, [at |-> "latest", revision |-> reader[r].revision,
                       period |-> reader[r].period, checked |-> attempts[i].at])
    BY DEF ReadConfirmed
  <1>2. PICK c : c = [at |-> "latest", revision |-> reader[r].revision,
                      period |-> reader[r].period, checked |-> attempts[i].at]
    OBVIOUS
  <1>3. Continue(r, c)
    BY <1>1, <1>2
  <1>4. Chosen(r) /\ UNCHANGED <<facts, attempts>>
    BY <1>1 DEF ReadConfirmed, ReadInv, ReadersInv, ReaderInv, Continue
  <1>5. reader'[r] = c => Chosen(r)' /\ CheckedOf(r)'
    BY <1>1, <1>2, <1>4 DEF Chosen, CheckedOf, Successes
  <1>6. reader'[r] = c => ReaderInv(r)'
    BY <1>2, <1>5 DEF ReaderInv, At, Stages
  <1> QED
    BY <1>3, <1>6, RequestStep

LEMMA ReadLatestKeeps ==
  ASSUME ReadInv, NEW r \in Readers, ReadLatest(r)
  PROVE  ReadInv'
  <1>1. PICK c : c = [at |-> "clock", revision |-> reader[r].revision,
                      period |-> reader[r].period, checked |-> reader[r].checked,
                      latest |-> attempts[Len(attempts)], readAt |-> now]
    OBVIOUS
  <1>2. Continue(r, c)
    BY <1>1 DEF ReadLatest
  <1>3. Chosen(r) /\ CheckedOf(r) /\ UNCHANGED <<now, facts, attempts>>
    BY <1>2 DEF ReadLatest, ReadInv, ReadersInv, ReaderInv, Continue
  <1>4. PICK i \in Successes(reader[r].revision) : reader[r].checked = attempts[i].at
    BY <1>3 DEF CheckedOf
  <1> DEFINE k == Len(attempts)
  <1>5. k \in DOMAIN attempts /\ i <= k /\ \A j \in DOMAIN attempts : j <= k
    BY <1>4 DEF Successes, ReadInv, AttemptsInOrder
  <1>6. LastBy(k, now) /\ now \in Nat
    BY <1>5 DEF LastBy, ReadInv, AttemptsInOrder
  <1>7. reader'[r] = c => LatestOf(r)'
    <2>1. SUFFICES ASSUME reader'[r] = c PROVE LatestOf(r)'
      OBVIOUS
    <2>2. /\ reader'[r].readAt = now /\ reader'[r].latest = attempts'[k]
          /\ reader'[r].revision = reader[r].revision /\ reader'[r].checked = attempts'[i].at
      BY <1>1, <1>3, <1>4, <2>1
    <2>3. LastBy(k, now)' /\ k \in DOMAIN attempts' /\ i \in Successes(reader[r].revision)'
      BY <1>3, <1>4, <1>5, <1>6, <2>2 DEF LastBy, Successes
    <2> HIDE DEF k
    <2> QED
      BY <1>3, <1>5, <1>6, <2>2, <2>3 DEF LatestOf, LastBy, Successes
  <1>8. reader'[r] = c => Chosen(r)'
    BY <1>1, <1>3 DEF Chosen
  <1>9. reader'[r] = c => ReaderInv(r)'
    BY <1>1, <1>7, <1>8 DEF ReaderInv, At, Stages
  <1> QED
    BY <1>2, <1>9, RequestStep

LEMMA ReadClockKeeps ==
  ASSUME ReadInv, NEW r \in Readers, ReadClock(r)
  PROVE  ReadInv'
  <1>1. PICK c : c = [at |-> "entries", revision |-> reader[r].revision,
                      period |-> reader[r].period, freshness |-> Freshness(reader[r]),
                      readAt |-> reader[r].readAt, clock |-> now]
    OBVIOUS
  <1>2. Continue(r, c)
    BY <1>1 DEF ReadClock
  <1>3. Chosen(r) /\ LatestOf(r) /\ UNCHANGED <<now, facts, attempts>>
    BY <1>2 DEF ReadClock, ReadInv, ReadersInv, ReaderInv, Continue
  <1>4. PICK k \in DOMAIN attempts :
          /\ reader[r].latest = attempts[k] /\ LastBy(k, reader[r].readAt)
          /\ \E i \in Successes(reader[r].revision) :
               i <= k /\ reader[r].checked = attempts[i].at
    BY <1>3 DEF LatestOf
  <1>5. PICK i \in Successes(reader[r].revision) : i <= k /\ reader[r].checked = attempts[i].at
    BY <1>4
  <1>6. /\ i \in DOMAIN attempts /\ attempts[i].state = "SUCCEEDED"
        /\ attempts[i].at \in Nat /\ attempts[k].at \in Nat /\ now \in Nat /\ i \in Nat /\ k \in Nat
        /\ attempts[k].state \in {"SUCCEEDED", "FAILED"}
        /\ attempts[i].at <= attempts[k].at
        /\ i # k => attempts[i].at < attempts[k].at
    <2>1. i \in DOMAIN attempts /\ attempts[i].state = "SUCCEEDED"
      BY <1>5 DEF Successes
    <2>2. /\ attempts \in Seq(Attempt) /\ now \in Nat
          /\ \A m, n \in DOMAIN attempts : m < n => attempts[m].at < attempts[n].at
      BY DEF ReadInv, AttemptsInOrder
    <2>3. /\ attempts[i].at \in Nat /\ attempts[k].at \in Nat /\ i \in Nat /\ k \in Nat
          /\ attempts[k].state \in {"SUCCEEDED", "FAILED"}
      BY <2>1, <2>2, AttemptRow
    <2> QED
      BY <1>5, <2>1, <2>2, <2>3
  <1>7. ASSUME Freshness(reader[r]) = "current"
        PROVE  k \in Successes(reader[r].revision) /\ now - attempts[k].at <= MaxAge
    <2>1. /\ ~NewerContent(attempts[k], reader[r].revision)
          /\ ~NewerFailure(attempts[k], attempts[i].at)
          /\ ~(now - attempts[i].at > MaxAge)
      BY <1>4, <1>5, <1>7 DEF Freshness
    <2>2. attempts[k].state # "FAILED"
      BY <1>6, <2>1 DEF NewerFailure
    <2>3. k \in Successes(reader[r].revision)
      BY <1>6, <2>1, <2>2 DEF NewerContent, Successes
    <2>4. now - attempts[k].at <= MaxAge
      BY <1>6, <2>1, ReadAssumption
    <2> QED
      BY <2>3, <2>4
  <1>8. reader'[r] = c => FreshnessHolds(r)'
    <2>1. SUFFICES ASSUME reader'[r] = c PROVE FreshnessHolds(r)'
      OBVIOUS
    <2>2. /\ reader'[r].readAt = reader[r].readAt /\ reader'[r].clock = now
          /\ reader'[r].revision = reader[r].revision
          /\ reader'[r].freshness = Freshness(reader[r])
      BY <1>1, <2>1
    <2>3. reader[r].readAt \in Nat /\ reader[r].readAt <= now
      BY <1>3 DEF LatestOf
    <2> QED
      BY <1>3, <1>4, <1>7, <2>2, <2>3 DEF FreshnessHolds, LastBy, Successes
  <1>9. reader'[r] = c => ReaderInv(r)'
    BY <1>1, <1>3, <1>8 DEF ReaderInv, At, Stages, Chosen
  <1> QED
    BY <1>2, <1>9, RequestStep

(* Whatever is refused is a tiny change, by the arithmetic alone.          *)
LEMMA ReadEntriesKeeps ==
  ASSUME ReadInv, NEW r \in Readers, ReadEntries(r)
  PROVE  ReadInv'
  <1> DEFINE g == reader[r].revision
             p == reader[r].period
             shown == [s \in Series |-> EntriesOf(reader[r])[s][p]]
  <1>1. Chosen(r) /\ FreshnessHolds(r)
    BY DEF ReadEntries, ReadInv, ReadersInv, ReaderInv
  <1>2. UNCHANGED <<now, facts, attempts>>
    BY DEF ReadEntries, Continue
  <1>3. shown = Page(g, p)
    <2>1. g \in Generations /\ p \in Periods /\ facts[g] = FactsOf(g)
      BY <1>1 DEF Chosen, ReadInv, FactsFixed
    <2>2. \A s \in Series : EntriesOf(reader[r])[s][p] = Compare(Price[g][s], Reference[g][s][p])
      BY <2>1 DEF EntriesOf, FactsOf
    <2> QED
      BY <2>2 DEF Page
  <1>4. CASE Continue(r, [at |-> "served", status |-> 200, revision |-> g, period |-> p,
                          freshness |-> reader[r].freshness, readAt |-> reader[r].readAt,
                          clock |-> reader[r].clock, shown |-> shown])
    <2>1. PICK c : c = [at |-> "served", status |-> 200, revision |-> g, period |-> p,
                        freshness |-> reader[r].freshness, readAt |-> reader[r].readAt,
                        clock |-> reader[r].clock, shown |-> shown]
      OBVIOUS
    <2>2. Continue(r, c)
      BY <1>4, <2>1
    <2>3. ASSUME reader'[r] = c PROVE Chosen(r)' /\ FreshnessHolds(r)'
      <3>1. /\ reader'[r].revision = g /\ reader'[r].period = p
            /\ reader'[r].freshness = reader[r].freshness
            /\ reader'[r].readAt = reader[r].readAt /\ reader'[r].clock = reader[r].clock
        BY <2>1, <2>3
      <3> QED
        BY <1>1, <1>2, <3>1 DEF Chosen, FreshnessHolds, LastBy, Successes
    <2>4. reader'[r] = c => reader'[r].shown = Page(reader'[r].revision, reader'[r].period)
      BY <1>3, <2>1
    <2>5. reader'[r] = c => ReaderInv(r)'
      BY <2>1, <2>3, <2>4 DEF ReaderInv, At, Stages, ResponseHolds, Page
    <2> QED
      BY <2>2, <2>5, RequestStep
  <1>5. CASE /\ \E s \in Series : ~Readable(shown[s])
             /\ Continue(r, [at |-> "served", status |-> 503, revision |-> g, period |-> p])
    <2>1. PICK c : c = [at |-> "served", status |-> 503, revision |-> g, period |-> p]
      OBVIOUS
    <2>2. PICK s \in Series : ~Readable(shown[s])
      BY <1>5
    <2>3. ~Readable(Compare(Price[g][s], Reference[g][s][p]))
      BY <1>3, <2>2 DEF Page
    <2>4. /\ None \notin Int /\ Price[g][s] \in Nat \ {0}
          /\ Reference[g][s][p] \in (Nat \ {0}) \cup {None}
      BY <1>1, ReadAssumption DEF Chosen
    <2>5. TinyChange(Price[g][s], Reference[g][s][p])
      BY <2>3, <2>4, ReadableUnlessTiny
    <2>6. reader'[r] = c => ReaderInv(r)'
      BY <2>1, <2>5 DEF ReaderInv, At, Stages, ResponseHolds
    <2>7. Continue(r, c)
      BY <1>5, <2>1
    <2> QED
      BY <2>6, <2>7, RequestStep
  <1> QED
    BY <1>4, <1>5 DEF ReadEntries

(* The steps of acquisition, parsing and publication touch no request.     *)
LEMMA WriterStep ==
  ASSUME ReadInv, AttemptsInOrder', Grows, FactsFixed', reader' = reader
  PROVE  ReadInv'
  <1>1. ASSUME NEW r \in Readers PROVE ReaderInv(r)'
    BY <1>1, ReaderKept DEF ReadInv, ReadersInv
  <1> QED
    BY <1>1 DEF ReadInv, ReadersInv

LEMMA ReadInvPreserved ==
  ASSUME ReadInv, [Next]_vars
  PROVE  ReadInv'
  <1>1. ASSUME NEW g \in Generations \cup {None}, NEW state \in {"SUCCEEDED", "FAILED"},
               EndAttempt(state, g)
        PROVE  ReadInv'
    <2>1. AttemptsInOrder' /\ Grows
      BY <1>1, AttemptAppended
    <2>2. FactsFixed' /\ reader' = reader
      BY <1>1 DEF EndAttempt, ReadInv, FactsFixed, FactsOf
    <2> QED
      BY <2>1, <2>2, WriterStep
  <1>2. CASE TimePasses
    <2>1. AttemptsInOrder' /\ Grows
      <3>1. now \in Nat /\ now' = now + 1 /\ attempts' = attempts /\ facts' = facts
        BY <1>2 DEF TimePasses, ReadInv, AttemptsInOrder
      <3>2. \A i \in DOMAIN attempts : attempts[i].at \in Nat /\ attempts[i].at <= now
        BY AttemptRow DEF ReadInv, AttemptsInOrder
      <3>3. \A i \in DOMAIN attempts : attempts[i].at <= now'
        BY <3>1, <3>2
      <3> QED
        BY <3>1, <3>3 DEF ReadInv, AttemptsInOrder, Grows
    <2>2. FactsFixed' /\ reader' = reader
      BY <1>2 DEF TimePasses, ReadInv, FactsFixed, FactsOf
    <2> QED
      BY <2>1, <2>2, WriterStep
  <1>3. ASSUME NEW g \in Generations, Parse(g)
        PROVE  ReadInv'
    <2>1. /\ facts[g] = None /\ facts' = [facts EXCEPT ![g] = FactsOf(g)]
          /\ UNCHANGED <<now, attempts, current, reader>>
      BY <1>3 DEF Parse
    <2>2. AttemptsInOrder'
      BY <2>1 DEF ReadInv, AttemptsInOrder
    <2>3. Grows
      BY <2>1 DEF ReadInv, AttemptsInOrder, FactsFixed, Grows
    <2>4. FactsFixed'
      <3>1. DOMAIN facts' = Generations
        BY <2>1 DEF ReadInv, FactsFixed
      <3>2. \A h \in Generations : facts'[h] = None \/ facts'[h] = FactsOf(h)
        BY <2>1 DEF ReadInv, FactsFixed
      <3>3. current # None => current # g /\ facts'[current] # None
        BY <2>1 DEF ReadInv, FactsFixed
      <3> QED
        BY <2>1, <3>1, <3>2, <3>3 DEF ReadInv, FactsFixed, FactsOf
    <2> QED
      BY <2>1, <2>2, <2>3, <2>4, WriterStep
  <1>4. ASSUME NEW g \in Generations \cup {None}, MovePointer(g)
        PROVE  ReadInv'
    <2>1. AttemptsInOrder' /\ Grows
      BY <1>4, OthersGrow DEF MovePointer, ReadInv
    <2>2. FactsFixed' /\ reader' = reader
      BY <1>4 DEF MovePointer, ReadInv, FactsFixed, FactsOf
    <2> QED
      BY <2>1, <2>2, WriterStep
  <1>5. ASSUME NEW r \in Readers, Request(r)
        PROVE  ReadInv'
    BY <1>5, ReadChannelKeeps, ReadConfirmedKeeps, ReadLatestKeeps, ReadClockKeeps,
       ReadEntriesKeeps DEF Request
  <1>6. CASE UNCHANGED vars
    <2>1. AttemptsInOrder' /\ Grows
      BY <1>6, OthersGrow DEF vars, ReadInv
    <2>2. FactsFixed' /\ reader' = reader
      BY <1>6 DEF vars, ReadInv, FactsFixed, FactsOf
    <2> QED
      BY <2>1, <2>2, WriterStep
  <1>7. ASSUME NEW g \in Generations, AttemptSucceeds(g) PROVE ReadInv'
    BY <1>1, <1>7 DEF AttemptSucceeds
  <1>8. CASE AttemptFails
    BY <1>1, <1>8 DEF AttemptFails
  <1> QED
    BY <1>2, <1>3, <1>4, <1>5, <1>6, <1>7, <1>8 DEF Next

-----------------------------------------------------------------------------

THEOREM ReadInvHolds == Spec => []ReadInv
  BY InitEstablishes, ReadInvPreserved, PTL DEF Spec

(* Every page shows the comparisons of exactly the revision whose          *)
(* freshness it states, whatever the publisher did meanwhile.              *)
(* (load_active_publication, then publication_entries.)                    *)
THEOREM PagesOfOneRevision == Spec => []PageOfOneRevision
  <1>1. ASSUME ReadInv PROVE PageOfOneRevision
    BY <1>1 DEF ReadInv, ReadersInv, ReaderInv, ResponseHolds, PageOfOneRevision, PageServed,
       At, Page
  <1> QED
    BY <1>1, ReadInvHolds, PTL

(* Every page marked current shows what the last attempt of that moment    *)
(* got from the source, not longer ago than the limit.                     *)
(* (load_active_publication.)                                              *)
THEOREM FreshPagesConfirmed == Spec => []FreshMeansConfirmed
  <1>1. ASSUME ReadInv PROVE FreshMeansConfirmed
    BY <1>1 DEF ReadInv, ReadersInv, ReaderInv, ResponseHolds, FreshnessHolds,
       FreshMeansConfirmed, PageServed, At
  <1> QED
    BY <1>1, ReadInvHolds, PTL

(* For any prices and references, the catalog is refused only over a       *)
(* difference of less than a twentieth of a percent in the asked period.   *)
(* (_comparison_context.)                                                  *)
THEOREM OnlyTinyChangesAreRefused == Spec => []OnlyTinyChangesFail
  <1>1. ASSUME ReadInv PROVE OnlyTinyChangesFail
    BY <1>1 DEF ReadInv, ReadersInv, ReaderInv, ResponseHolds, OnlyTinyChangesFail, At
  <1> QED
    BY <1>1, ReadInvHolds, PTL

-----------------------------------------------------------------------------
(* The bounded clock.                                                      *)

EndedAttempt ==
  [state : {"SUCCEEDED", "FAILED"}, artifact : Generations \cup {None}, at : 1..MaxTime]

Timely == now \in 0..MaxTime /\ attempts \in Seq(EndedAttempt)

LEMMA TimelyKept == Timely /\ [Next]_vars => Timely'
  <1> SUFFICES ASSUME Timely, [Next]_vars PROVE Timely'
    OBVIOUS
  <1>1. ASSUME NEW state \in {"SUCCEEDED", "FAILED"}, NEW g \in Generations \cup {None},
               EndAttempt(state, g)
        PROVE  Timely'
    <2>1. MaxTime \in Nat /\ now \in 0..MaxTime /\ now < MaxTime /\ now' = now + 1
      BY <1>1, ReadAssumption DEF EndAttempt, Timely
    <2>2. [state |-> state, artifact |-> g, at |-> now + 1] \in EndedAttempt
      BY <2>1 DEF EndedAttempt
    <2>3. attempts' = Append(attempts, [state |-> state, artifact |-> g, at |-> now + 1])
      BY <1>1, <2>1 DEF EndAttempt
    <2> QED
      BY <2>1, <2>2, <2>3 DEF Timely
  <1>2. CASE TimePasses
    BY <1>2, ReadAssumption DEF TimePasses, Timely
  <1>3. CASE UNCHANGED <<now, attempts>>
    BY <1>3 DEF Timely
  <1>4. ASSUME NEW r \in Readers, Request(r)
        PROVE  UNCHANGED <<now, attempts>>
    BY <1>4 DEF Request, ReadChannel, ReadConfirmed, ReadLatest, ReadClock, ReadEntries, Continue
  <1>5. ASSUME NEW g \in Generations, AttemptSucceeds(g) \/ Parse(g)
        PROVE  Timely'
    BY <1>1, <1>3, <1>5 DEF AttemptSucceeds, Parse
  <1>6. CASE AttemptFails
    BY <1>1, <1>6 DEF AttemptFails
  <1>7. ASSUME NEW g \in Generations \cup {None}, MovePointer(g)
        PROVE  Timely'
    BY <1>3, <1>7 DEF MovePointer
  <1>8. CASE UNCHANGED vars
    BY <1>3, <1>8 DEF vars
  <1> QED
    BY <1>2, <1>3, <1>4, <1>5, <1>6, <1>7, <1>8 DEF Next

(* The table of attempts keeps its types and its clock; a generation's     *)
(* facts are the comparisons of its own prices or are not there yet; and   *)
(* what the channel points to has its facts.                               *)
THEOREM ReadTypes == Spec => []TypeOK
  <1>1. Init => Timely
    <2>1. <<>> \in Seq(EndedAttempt)
      OBVIOUS
    <2> QED
      BY <2>1, ReadAssumption DEF Init, Timely
  <1>2. ASSUME ReadInv, Timely PROVE TypeOK
    BY <1>2 DEF ReadInv, FactsFixed, ReadersInv, ReaderInv, Timely, EndedAttempt, TypeOK
  <1> QED
    BY <1>1, <1>2, TimelyKept, ReadInvHolds, PTL DEF Spec
=============================================================================
