------------------------ MODULE MCHistoricalPublication ------------------------
(* The collections and calls HistoricalPublication is model-checked with.  *)
EXTENDS HistoricalPublication, TLC

CONSTANTS s1, s2, m1, m2, r1, k1, dm1, dm1b, dm2, dr, dk, b1, b2, b3, o1, o2, o3,
          report, manifest, reviewer, publisher

SessionSymmetry == Permutations(Sessions)

MCKindOf == (m1 :> "MONTHLY") @@ (m2 :> "MONTHLY") @@ (r1 :> "REGIONAL_DAILY")
              @@ (k1 :> "MARKET_DAILY")

Held(rows, min, max) == [rows |-> rows, min |-> min, max |-> max, manifest |-> manifest]

(* Two series in two regions.  Histories of two months in a window of      *)
(* three, or with a gap; daily windows of three days, or a regional one of *)
(* five.  The radish is priced by markets on the first day only.           *)
LongHistory == {"napa", "radish"} \X {"seoul"} \X {1, 2, 3}
GapHistory  == LongHistory \ {<<"radish", "seoul", 2>>}
MarketDays  == {<<"napa", "seoul", 3>>, <<"radish", "seoul", 1>>}
ThreeDays   == MarketDays \cup {<<"napa", "busan", 3>>}
FiveDays    == ThreeDays \cup {<<"napa", "busan", 5>>}

MCContentsOf ==
  (m1 :> {Held(LongHistory, 1, 3), Held(GapHistory, 1, 3)})
    @@ (m2 :> {Held(LongHistory, 1, 3), Held({row \in LongHistory : row[3] < 3}, 1, 2)})
    @@ (r1 :> {Held(ThreeDays, 1, 3), Held(FiveDays, 1, 5)})
    @@ (k1 :> {Held(MarketDays, 1, 3)})

Review(actor, id, c, verdict, supersedes) ==
  [actor |-> actor,
   row |-> [id |-> id, collection |-> c, verdict |-> verdict, supersedes |-> supersedes]]

Seal(actor, monthly, id) ==
  [actor |-> actor, id |-> id, report |-> report,
   reviews |-> [MONTHLY |-> monthly, REGIONAL_DAILY |-> dr, MARKET_DAILY |-> dk]]

Move(actor, id, op, sequence, previous, target) ==
  [actor |-> actor,
   row |-> [id |-> id, operation |-> op, sequence |-> sequence,
            previous |-> previous, target |-> target]]

MCRecorded ==
  {Review(None, dr, r1, "APPROVE", None).row, Review(None, dk, k1, "APPROVE", None).row}

MCReviews ==
  {Review(reviewer, dm1, m1, "APPROVE", None), Review(reviewer, dm2, m2, "APPROVE", None),
   Review(None, dm1b, m1, "REJECT", dm1), Review(reviewer, dm1b, m1, "APPROVE", dm1),
   Review(None, dm2, m1, "REJECT", dm1)}

MCSeals == {Seal(publisher, dm1, b1), Seal(None, dm2, b2), Seal(None, dm1b, b3), Seal(None, dm1, b3)}

MCTransitions ==
  {Move(publisher, o1, "ACTIVATE", 1, None, b1), Move(None, o2, "ACTIVATE", 2, b1, b2),
   Move(None, o2, "WITHDRAW", 2, b1, None), Move(publisher, o3, "ROLLBACK", 3, None, b1),
   Move(None, o3, "ROLLBACK", 3, b2, b1)}
=============================================================================
