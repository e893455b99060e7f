--------------------------- MODULE KamisFetchProofs ---------------------------
(***************************************************************************)
(* For every setting of the limits, page sizes and totals: the client      *)
(* stays within its budgets, collects no more rows than were declared, and *)
(* persistence accepts its results and all but two kinds of its errors.    *)
(* FetchInv says that while it fetches, every page before the current one  *)
(* was full, so the rows collected are a multiple of the page size and     *)
(* fewer than the total, which the page limit bounds; EvidenceInv, on top  *)
(* of it, that the receipts, the error and the attempt agree with that.    *)
(***************************************************************************)
EXTENDS KamisFetch, WellFoundedInduction, TLAPS

(* The scalars of the fetch keep their types.                              *)
Scalars ==
  /\ pageSize \in PageSizes
  /\ page \in Nat \ {0} /\ try \in Nat \ {0} /\ calls \in Nat /\ rows \in Nat
  /\ total \in Nat \cup {None}

(* Before the next call the pages before it were full, and the page limit  *)
(* covers the total that the first of them declared.                       *)
FullPagesBefore ==
  /\ total = None => page = 1 /\ rows = 0
  /\ total # None =>
       /\ total <= MaxPages * pageSize
       /\ rows = (page - 1) * pageSize
       /\ rows < total

FetchInv ==
  /\ Scalars
  /\ step \in {"started", "fetching"} => FullPagesBefore
  /\ FetchWithinLimits

-----------------------------------------------------------------------------

(* Dividing rounds up: no more rows than the required pages can hold.      *)
LEMMA RequiredPagesHold ==
  ASSUME NEW t \in Nat, NEW size \in Nat \ {0}, NEW pages \in Nat,
         (t + size - 1) \div size <= pages
  PROVE  t <= pages * size
<1> DEFINE q == (t + size - 1) \div size
<1>1. q \in Int /\ t + size - 1 < (q + 1) * size
  OBVIOUS
<1>2. t <= q * size
  BY <1>1
<1>3. q * size <= pages * size
  BY <1>1
<1> QED BY <1>1, <1>2, <1>3

(* When n full pages leave rows to come, there is a page n + 1.            *)
LEMMA RowsToComeNeedAPage ==
  ASSUME NEW n \in Nat, NEW pages \in Nat, NEW size \in Nat \ {0},
         n * size < pages * size
  PROVE  n < pages
<1> SUFFICES ASSUME pages <= n PROVE FALSE
  OBVIOUS
<1>1. pages * size <= n * size
  OBVIOUS
<1> QED BY <1>1

(* The page that is taken from a listing with known rows declared.         *)
LEMMA PageTaken ==
  ASSUME FetchInv, step = "fetching",
         NEW t \in Totals, NEW n \in Nat, PageVerdict(t, n) \in {"last", "more"},
         NEW known, known = IF total = None THEN t ELSE total
  PROVE  /\ known \in Nat /\ rows + n <= known /\ known <= MaxPages * pageSize
         /\ PageVerdict(t, n) = "more" =>
              rows + n = page * pageSize /\ rows + n < known /\ page < MaxPages
<1>1. /\ t \in Nat /\ pageSize \in Nat \ {0} /\ MaxPages \in Nat \ {0} /\ None \notin Nat
      /\ page \in Nat \ {0} /\ rows \in Nat /\ total \in Nat \cup {None}
      /\ total = None => page = 1 /\ rows = 0
      /\ total # None => total <= MaxPages * pageSize /\ rows = (page - 1) * pageSize /\ rows < total
  BY FetchAssumption DEF FetchInv, Scalars, FullPagesBefore
<1>2. rows = (page - 1) * pageSize
  BY <1>1
<1>3. known \in Nat /\ rows <= known /\ known <= MaxPages * pageSize
  <2>1. CASE total = None
    <3>1. RequiredPages(t) <= MaxPages
      BY <2>1, <1>1 DEF PageVerdict, RequiredPages
    <3>2. t <= MaxPages * pageSize
      <4>1. CASE t = 0
        BY <4>1, <1>1
      <4>2. CASE t # 0
        BY <4>2, <3>1, <1>1, RequiredPagesHold DEF RequiredPages
      <4> QED BY <4>1, <4>2
    <3> QED BY <3>2, <2>1, <1>1
  <2>2. CASE total # None
    BY <2>2, <1>1
  <2> QED BY <2>1, <2>2
<1>4. n = IF pageSize <= known - rows THEN pageSize ELSE known - rows
  BY DEF PageVerdict, RowCountFits
<1>5. rows + n <= known
  BY <1>1, <1>3, <1>4
<1>6. ASSUME PageVerdict(t, n) = "more"
      PROVE  rows + n = page * pageSize /\ rows + n < known /\ page < MaxPages
  <2>1. rows + n # known
    BY <1>6 DEF PageVerdict
  <2>2. n = pageSize /\ rows + n < known
    BY <2>1, <1>1, <1>3, <1>4
  <2>3. (page - 1) * pageSize + pageSize = page * pageSize
    BY <1>1
  <2>4. page * pageSize < MaxPages * pageSize
    BY <2>2, <2>3, <1>1, <1>2, <1>3
  <2>5. page < MaxPages
    BY <2>4, <1>1, RowsToComeNeedAPage
  <2> QED BY <2>2, <2>3, <2>5, <1>1, <1>2
<1> QED BY <1>3, <1>5, <1>6

LEMMA FetchInvInitially == Init => FetchInv
BY FetchAssumption DEF Init, FetchInv, Scalars, FullPagesBefore, FetchWithinLimits

LEMMA FetchInvPreserved == FetchInv /\ [Next]_vars => FetchInv'
<1> SUFFICES ASSUME FetchInv, [Next]_vars PROVE FetchInv'
  OBVIOUS
<1> USE FetchAssumption DEF FetchInv, Scalars, FetchWithinLimits
<1>1. CASE StartFetch
  BY <1>1 DEF StartFetch, FullPagesBefore
<1>2. CASE LoadSecret
  BY <1>2 DEF LoadSecret, Raise, clientVars, FullPagesBefore
<1>3. CASE BudgetExceeded
  BY <1>3 DEF BudgetExceeded, Raise, clientVars
<1>4. CASE ReceivePage
  <2>1. step = "fetching" /\ calls < MaxCalls /\ calls' = calls + 1 /\ pageSize' = pageSize
    BY <1>4 DEF ReceivePage, Call, WithinBudget
  <2>2. PICK t \in Totals, n \in 0..(pageSize + 1) :
          \/ /\ PageVerdict(t, n) \in {"last", "more"}
             /\ rows' = rows + n
             /\ total' = IF total = None THEN t ELSE total
             /\ IF PageVerdict(t, n) = "last"
                THEN step' = "fetched" /\ UNCHANGED <<page, try>>
                ELSE step' = "fetching" /\ page' = page + 1 /\ try' = 1
          \/ step' = "raised" /\ UNCHANGED <<page, try, total, rows>>
    BY <1>4 DEF ReceivePage, Raise
  <2>3. n \in Nat /\ t \in Nat
    OBVIOUS
  <2>4. CASE /\ PageVerdict(t, n) \in {"last", "more"}
             /\ rows' = rows + n
             /\ total' = IF total = None THEN t ELSE total
             /\ IF PageVerdict(t, n) = "last"
                THEN step' = "fetched" /\ UNCHANGED <<page, try>>
                ELSE step' = "fetching" /\ page' = page + 1 /\ try' = 1
    <3>1. PICK known : known = IF total = None THEN t ELSE total
      OBVIOUS
    <3>2. /\ known \in Nat /\ rows + n <= known /\ known <= MaxPages * pageSize
          /\ PageVerdict(t, n) = "more" =>
               rows + n = page * pageSize /\ rows + n < known /\ page < MaxPages
      BY <2>1, <2>3, <2>4, <3>1, PageTaken
    <3>3. CASE PageVerdict(t, n) = "last"
      BY <2>1, <2>3, <2>4, <3>1, <3>2, <3>3
    <3>4. CASE PageVerdict(t, n) = "more"
      <4>1. page' = page + 1 /\ step' = "fetching" /\ total' = known /\ rows' = rows + n
        BY <2>4, <3>1, <3>4
      <4>2. (page + 1) - 1 = page
        OBVIOUS
      <4>3. FullPagesBefore'
        BY <2>1, <3>2, <3>4, <4>1, <4>2 DEF FullPagesBefore
      <4> QED BY <2>1, <2>3, <2>4, <3>2, <3>4, <4>1, <4>3
    <3> QED BY <2>4, <3>3, <3>4
  <2>5. CASE step' = "raised" /\ UNCHANGED <<page, try, total, rows>>
    BY <2>1, <2>5
  <2> QED BY <2>2, <2>4, <2>5
<1>5. CASE ReceiveTransient
  BY <1>5 DEF ReceiveTransient, Call, WithinBudget, Raise, FullPagesBefore
<1>6. CASE ReceiveTerminal
  BY <1>6 DEF ReceiveTerminal, Call, WithinBudget, Raise
<1>7. CASE ReceiveBadHeader
  BY <1>7 DEF ReceiveBadHeader, Call, WithinBudget, Raise
<1>8. CASE CompleteFetch
  BY <1>8 DEF CompleteFetch, Raise, clientVars
<1>9. CASE FailFetch
  BY <1>9 DEF FailFetch, clientVars
<1>10. CASE Crash
  BY <1>10 DEF Crash, clientVars
<1>11. CASE UNCHANGED vars
  BY <1>11 DEF vars, clientVars, FullPagesBefore
<1> QED
  BY <1>1, <1>2, <1>3, <1>4, <1>5, <1>6, <1>7, <1>8, <1>9, <1>10, <1>11 DEF Next

(* For every limit, page size and listing: retries included, the client    *)
(* makes at most MaxCalls calls and MaxAttempts of them for a page, never  *)
(* asks for a page beyond MaxPages, and never collects more rows than the  *)
(* first page declared (_CallBudget, _fetch_prices and _fetch_page).       *)
THEOREM FetchStaysWithinLimits == Spec => []FetchWithinLimits
<1>1. FetchInv => FetchWithinLimits
  BY DEF FetchInv
<1> QED BY FetchInvInitially, FetchInvPreserved, <1>1, PTL DEF Spec

-----------------------------------------------------------------------------
(* The rows of a list of receipts, whatever its length: a set of numbers   *)
(* that holds 0 and with each its successor holds them all, so the sums    *)
(* exist, are unique, and grow by the last receipt.                        *)

LEMMA AllNumbers ==
  ASSUME NEW S, 0 \in S, \A n \in Nat : n \in S => n + 1 \in S
  PROVE  Nat \subseteq S
<1>. SUFFICES ASSUME ~(Nat \subseteq S) PROVE FALSE
  OBVIOUS
<1>. DEFINE T == Nat \ S
<1>1. T \subseteq Nat /\ T # {}
  OBVIOUS
<1>2. PICK x \in T : \A y \in T : ~(<<y, x>> \in OpToRel(<, Nat))
  <2>. HIDE DEF T
  <2>. QED
    BY <1>1, NatLessThanWellFounded, WFMin
<1>3. x # 0 /\ x \in Nat
  OBVIOUS
<1>4. x - 1 \in Nat /\ x - 1 < x /\ (x - 1) + 1 = x
  BY <1>3
<1>5. <<x - 1, x>> \in OpToRel(<, Nat)
  BY <1>3, <1>4 DEF OpToRel
<1>6. x - 1 \notin T
  BY <1>2, <1>5
<1>. QED
  BY <1>3, <1>4, <1>6

Sums(list, f, n) ==
  /\ f \in [0 .. n -> Nat] /\ f[0] = 0
  /\ \A i \in 1 .. n : f[i] = f[i - 1] + list[i].rows

LEMMA SumsExist ==
  ASSUME NEW list \in Seq(Receipt)
  PROVE  \E f : Sums(list, f, Len(list))
<1>. DEFINE S == {n \in Nat : n <= Len(list) => \E f : Sums(list, f, n)}
<1>1. 0 \in S
  <2>1. Sums(list, [i \in 0 .. 0 |-> 0], 0)
    BY DEF Sums
  <2>. QED
    BY <2>1
<1>2. ASSUME NEW n \in Nat, n \in S PROVE n + 1 \in S
  <2>1. SUFFICES ASSUME n + 1 <= Len(list) PROVE \E f : Sums(list, f, n + 1)
    OBVIOUS
  <2>2. PICK f : Sums(list, f, n)
    BY <1>2, <2>1
  <2>3. list[n + 1].rows \in Nat
    <3>1. n + 1 \in 1 .. Len(list) /\ Len(list) \in Nat
      BY <2>1
    <3>2. list[n + 1] \in Receipt
      BY <3>1
    <3>. QED
      BY <3>2 DEF Receipt
  <2>. DEFINE g == [i \in 0 .. n + 1 |-> IF i <= n THEN f[i] ELSE f[n] + list[n + 1].rows]
  <2>4. g \in [0 .. n + 1 -> Nat]
    BY <2>2, <2>3 DEF Sums
  <2>5. g[0] = 0
    BY <2>2 DEF Sums
  <2>6. ASSUME NEW i \in 1 .. n + 1 PROVE g[i] = g[i - 1] + list[i].rows
    <3>1. CASE i <= n
      BY <2>2, <3>1 DEF Sums
    <3>2. CASE i = n + 1
      BY <2>2, <3>2
    <3>. QED
      BY <3>1, <3>2
  <2>7. Sums(list, g, n + 1)
    BY <2>4, <2>5, <2>6 DEF Sums
  <2>. QED
    BY <2>7
<1>3. Nat \subseteq S
  <2>. HIDE DEF S
  <2>. QED
    BY <1>1, <1>2, AllNumbers
<1>. QED
  BY <1>3

LEMMA SumsAreUnique ==
  ASSUME NEW list, NEW N \in Nat, NEW f, NEW g, Sums(list, f, N),
         DOMAIN g = 0 .. N, g[0] = 0, \A i \in 1 .. N : g[i] = g[i - 1] + list[i].rows
  PROVE  g[N] = f[N]
<1>. DEFINE S == {n \in Nat : n <= N => g[n] = f[n]}
<1>1. 0 \in S
  BY DEF Sums
<1>2. ASSUME NEW n \in Nat, n \in S PROVE n + 1 \in S
  <2>1. SUFFICES ASSUME n + 1 <= N PROVE g[n + 1] = f[n + 1]
    OBVIOUS
  <2>2. g[n] = f[n] /\ n + 1 \in 1 .. N /\ (n + 1) - 1 = n
    BY <1>2, <2>1
  <2>3. g[n + 1] = g[n] + list[n + 1].rows /\ f[n + 1] = f[n] + list[n + 1].rows
    BY <2>2 DEF Sums
  <2>. QED
    BY <2>2, <2>3
<1>3. Nat \subseteq S
  <2>. HIDE DEF S
  <2>. QED
    BY <1>1, <1>2, AllNumbers
<1>. QED
  BY <1>3

LEMMA RowsAreSums ==
  ASSUME NEW list \in Seq(Receipt), NEW f, Sums(list, f, Len(list))
  PROVE  RowsOf(list) = f[Len(list)] /\ RowsOf(list) \in Nat
<1>. DEFINE N == Len(list)
            Fits(g) == g = [n \in 0 .. N |-> IF n = 0 THEN 0 ELSE g[n - 1] + list[n].rows]
            sum == CHOOSE g : Fits(g)
<1>1. N \in Nat
  OBVIOUS
<1>2. Fits(f)
  BY <1>1 DEF Sums
<1>3. Fits(sum)
  BY <1>2
<1>4. RowsOf(list) = sum[N]
  BY DEF RowsOf
<1>. HIDE DEF sum
<1>5. DOMAIN sum = 0 .. N /\ sum[0] = 0 /\ \A i \in 1 .. N : sum[i] = sum[i - 1] + list[i].rows
  <2>1. \A n \in 0 .. N : sum[n] = IF n = 0 THEN 0 ELSE sum[n - 1] + list[n].rows
    BY <1>3
  <2>2. DOMAIN sum = 0 .. N
    BY <1>3
  <2>. QED
    BY <1>1, <2>1, <2>2
<1>6. sum[N] = f[N]
  BY <1>1, <1>5, SumsAreUnique, ZenonT(40)
<1>7. f[N] \in Nat
  BY <1>1 DEF Sums
<1>. QED
  BY <1>4, <1>6, <1>7

LEMMA RowsOfNothing == RowsOf(<<>>) = 0
<1>1. <<>> \in Seq(Receipt) /\ Len(<<>>) = 0
  OBVIOUS
<1>2. Sums(<<>>, [i \in 0 .. 0 |-> 0], 0)
  BY DEF Sums
<1>. QED
  BY <1>1, <1>2, RowsAreSums

LEMMA RowsOfOneMore ==
  ASSUME NEW list \in Seq(Receipt), NEW r \in Receipt
  PROVE  RowsOf(Append(list, r)) = RowsOf(list) + r.rows
<1>. DEFINE N == Len(list)
            more == Append(list, r)
<1>1. /\ more \in Seq(Receipt) /\ Len(more) = N + 1 /\ N \in Nat
      /\ more[N + 1] = r /\ \A i \in 1 .. N : more[i] = list[i]
  OBVIOUS
<1>2. PICK f : Sums(more, f, N + 1)
  BY <1>1, SumsExist
<1>. DEFINE g == [i \in 0 .. N |-> f[i]]
<1>3. Sums(list, g, N)
  <2>1. g \in [0 .. N -> Nat] /\ g[0] = 0
    BY <1>1, <1>2 DEF Sums
  <2>2. ASSUME NEW i \in 1 .. N PROVE g[i] = g[i - 1] + list[i].rows
    BY <1>1, <1>2 DEF Sums
  <2>. QED
    BY <2>1, <2>2 DEF Sums
<1>4. RowsOf(more) = f[N + 1]
  BY <1>1, <1>2, RowsAreSums
<1>5. RowsOf(list) = f[N]
  <2>1. g[N] = f[N]
    BY <1>1
  <2>2. RowsOf(list) = g[N]
    <3>. HIDE DEF g
    <3>. QED
      BY <1>3, RowsAreSums
  <2>. QED
    BY <2>1, <2>2
<1>6. f[N + 1] = f[N] + more[N + 1].rows
  BY <1>1, <1>2 DEF Sums
<1>. QED
  BY <1>1, <1>4, <1>5, <1>6

-----------------------------------------------------------------------------
(* What the client holds, and what it hands over.                          *)

(* The receipts add up to the rows collected and declare one total, that   *)
(* of the first page, which fits into the page limit.                      *)
Held ==
  /\ receipts \in Seq(Receipt) /\ RowsOf(receipts) = rows
  /\ \A i \in DOMAIN receipts : receipts[i].total = total
  /\ IF total = None THEN receipts = <<>>
     ELSE total \in Totals /\ RequiredPages(total) <= MaxPages

(* Every page before the next call is full, and each call is charged.      *)
BeforeCall ==
  /\ Len(receipts) = page - 1
  /\ \A i \in DOMAIN receipts : receipts[i].rows = pageSize
  /\ page - 1 + try - 1 <= calls

Whole ==
  /\ Len(receipts) = page /\ Len(receipts) <= calls
  /\ rows = total
  /\ \A i \in 1 .. (Len(receipts) - 1) : receipts[i].rows = pageSize

(* An error carries no receipts, or all of an incomplete listing; the page *)
(* it names is the one after them, and only the budget's error may claim   *)
(* more calls than there were.                                             *)
ErrorFits ==
  /\ error \in ErrorRow
  /\ error.receipts # <<>> =>
       /\ error.receipts = receipts /\ total # None /\ rows < total
       /\ \A i \in DOMAIN receipts : receipts[i].rows = pageSize
       /\ Len(receipts) <= MaxPages
  /\ error.page # None => PageFollowsReceipts(error) /\ error.page <= MaxPages
  /\ error.try # None => error.try <= MaxAttempts
  /\ error.page # None /\ error.code # "call_budget_exceeded" => CallsInEvidence(error) <= MaxCalls

AttemptFits ==
  /\ attempt \in [state : AttemptStates, receipts : Seq(Receipt)]
  /\ attempt.state = "STARTED" => attempt.receipts = <<>>
  /\ step \in {"started", "fetching", "fetched", "raised"} => attempt.state = "STARTED"
  /\ EvidenceReconciles

EvidenceInv ==
  /\ step \in Steps
  /\ Held
  /\ step \in {"started", "fetching"} => BeforeCall
  /\ step = "fetched" => Whole
  /\ step = "raised" => ErrorFits
  /\ AttemptFits

(* What the client holds it keeps when its variables stay.                 *)
LEMMA HeldStays ==
  ASSUME Held, UNCHANGED <<pageSize, total, rows, receipts>>
  PROVE  Held'
BY DEF Held, RequiredPages

LEMMA AttemptStays ==
  ASSUME AttemptFits, attempt' = attempt, pageSize' = pageSize,
         step' \in {"started", "fetching", "fetched", "raised"} => attempt.state = "STARTED"
  PROVE  AttemptFits'
BY DEF AttemptFits, EvidenceReconciles, TotalsOf

(* The errors of the fetch itself.                                         *)
LEMMA ErrorOfFetch ==
  ASSUME FetchInv, EvidenceInv, step = "fetching",
         UNCHANGED <<pageSize, page, total, rows, receipts>>,
         NEW code \in ErrorCodes, NEW p \in {page, None}, NEW t \in Nat \cup {None},
         Raise(code, p, t, receipts),
         t # None => t <= MaxAttempts,
         p # None /\ code # "call_budget_exceeded" =>
           Len(receipts) + (IF t = None THEN 1 ELSE t) <= MaxCalls
  PROVE  EvidenceInv'
<1>1. /\ page \in Nat \ {0} /\ page <= MaxPages /\ MaxPages \in Nat
      /\ receipts \in Seq(Receipt) /\ Len(receipts) = page - 1
      /\ \A i \in DOMAIN receipts : receipts[i].rows = pageSize
      /\ receipts # <<>> => total # None /\ rows < total
  BY FetchAssumption
  DEF FetchInv, Scalars, FetchWithinLimits, FullPagesBefore, EvidenceInv, Held, BeforeCall
<1>2. /\ step' = "raised" /\ attempt' = attempt /\ attempt.state = "STARTED"
      /\ error' = [code |-> code, page |-> p, try |-> t, receipts |-> receipts]
  BY DEF Raise, EvidenceInv, AttemptFits
<1>3. /\ error'.code = code /\ error'.page = p /\ error'.try = t /\ error'.receipts = receipts
      /\ error' \in ErrorRow
  BY <1>1, <1>2 DEF ErrorRow
<1>4. ErrorFits'
  BY <1>1, <1>3 DEF ErrorFits, PageFollowsReceipts, CallsInEvidence
<1>5. Held' /\ AttemptFits'
  BY <1>2, HeldStays, AttemptStays DEF EvidenceInv
<1>. QED
  BY <1>2, <1>4, <1>5 DEF EvidenceInv, Steps

(* The errors before and after it.                                         *)
LEMMA ErrorOfCommand ==
  ASSUME FetchInv, EvidenceInv, step \in {"started", "fetched"}, UNCHANGED clientVars,
         NEW code \in ErrorCodes, Raise(code, None, None, <<>>)
  PROVE  EvidenceInv'
<1>1. /\ step' = "raised" /\ attempt' = attempt /\ attempt.state = "STARTED"
      /\ error' = [code |-> code, page |-> None, try |-> None, receipts |-> <<>>]
  BY DEF Raise, EvidenceInv, AttemptFits
<1>2. /\ error'.page = None /\ error'.try = None /\ error'.receipts = <<>> /\ error' \in ErrorRow
  BY <1>1 DEF ErrorRow
<1>3. ErrorFits'
  BY <1>2 DEF ErrorFits
<1>4. Held' /\ AttemptFits'
  BY <1>1, HeldStays, AttemptStays DEF EvidenceInv, clientVars
<1>. QED
  BY <1>1, <1>3, <1>4 DEF EvidenceInv, Steps

(* A page that is taken.                                                   *)
LEMMA PageAdded ==
  ASSUME FetchInv, EvidenceInv, step = "fetching", FetchInv',
         UNCHANGED <<attempt, pageSize, error>>, calls' = calls + 1,
         NEW t \in Totals, NEW n \in Nat, PageVerdict(t, n) \in {"last", "more"},
         rows' = rows + n, receipts' = Append(receipts, [rows |-> n, total |-> t]),
         total' = IF total = None THEN t ELSE total,
         \/ PageVerdict(t, n) = "last" /\ step' = "fetched" /\ UNCHANGED <<page, try>>
         \/ PageVerdict(t, n) = "more" /\ step' = "fetching" /\ page' = page + 1 /\ try' = 1
  PROVE  EvidenceInv'
<1>1. /\ page \in Nat \ {0} /\ try \in Nat \ {0} /\ calls \in Nat /\ rows \in Nat /\ t \in Nat
      /\ pageSize \in Nat \ {0} /\ None \notin Nat /\ Totals \subseteq Nat
      /\ total = None => page = 1 /\ rows = 0
  BY FetchAssumption DEF FetchInv, Scalars, FullPagesBefore
<1>2. Held /\ BeforeCall
  BY DEF EvidenceInv
<1>3. PICK r \in Receipt : r = [rows |-> n, total |-> t]
  BY <1>1 DEF Receipt
<1>4. r.rows = n /\ r.total = t
  BY <1>3
<1>5. total' = t
  BY DEF PageVerdict, TotalUnchanged
<1>6. /\ receipts \in Seq(Receipt) /\ receipts' = Append(receipts, r) /\ Len(receipts') = page
      /\ DOMAIN receipts' = 1 .. page /\ receipts'[page] = r
      /\ \A i \in 1 .. (page - 1) : receipts'[i] = receipts[i] /\ i \in DOMAIN receipts
  BY <1>1, <1>2, <1>3 DEF Held, BeforeCall
<1>7. Held'
  <2>1. RowsOf(receipts') = rows'
    <3>1. RowsOf(Append(receipts, r)) = RowsOf(receipts) + r.rows
      BY <1>6, RowsOfOneMore
    <3>. QED
      BY <1>2, <1>4, <1>6, <3>1 DEF Held
  <2>2. \A i \in DOMAIN receipts' : receipts'[i].total = t
    <3>1. \A i \in DOMAIN receipts : receipts[i].total = t
      BY <1>1, <1>2, <1>5 DEF Held
    <3>. QED
      BY <1>1, <1>4, <1>6, <3>1
  <2>3. RequiredPages(t) <= MaxPages
    <3>1. RequiredPages(t) \in Int /\ MaxPages \in Nat
      BY <1>1, FetchAssumption DEF RequiredPages
    <3>2. CASE total = None
      BY <3>1, <3>2 DEF PageVerdict
    <3>3. CASE total # None
      BY <1>2, <1>5, <3>3 DEF Held
    <3>. QED
      BY <3>2, <3>3
  <2>4. RequiredPages(total)' <= MaxPages
    BY <1>5, <2>3 DEF RequiredPages
  <2>5. receipts' \in Seq(Receipt)
    BY <1>3, <1>6
  <2>. QED
    BY <1>1, <1>5, <2>1, <2>2, <2>4, <2>5 DEF Held
<1>8. AttemptFits'
  BY AttemptStays DEF EvidenceInv, AttemptFits
<1>9. \A i \in 1 .. (page - 1) : receipts'[i].rows = pageSize
  BY <1>2, <1>6 DEF BeforeCall
<1>10. page <= calls + 1
  BY <1>1, <1>2 DEF BeforeCall
<1>11. CASE PageVerdict(t, n) = "last" /\ step' = "fetched" /\ UNCHANGED <<page, try>>
  <2>1. rows + n = t
    BY <1>5, <1>11 DEF PageVerdict
  <2>2. Whole'
    BY <1>1, <1>5, <1>6, <1>9, <1>10, <1>11, <2>1 DEF Whole
  <2>. QED
    BY <1>7, <1>8, <1>11, <2>2 DEF EvidenceInv, Steps
<1>12. CASE PageVerdict(t, n) = "more" /\ step' = "fetching" /\ page' = page + 1 /\ try' = 1
  <2>1. n = pageSize
    <3>1. rows + n # t /\ n = IF pageSize <= t - rows THEN pageSize ELSE t - rows
      BY <1>5, <1>12 DEF PageVerdict, RowCountFits
    <3>. QED
      BY <1>1, <3>1
  <2>2. \A i \in DOMAIN receipts' : receipts'[i].rows = pageSize
    BY <1>1, <1>4, <1>6, <1>9, <2>1
  <2>3. BeforeCall'
    BY <1>1, <1>6, <1>10, <1>12, <2>2 DEF BeforeCall
  <2>. QED
    BY <1>7, <1>8, <1>12, <2>3 DEF EvidenceInv, Steps
<1>. QED
  BY <1>11, <1>12

LEMMA EvidenceInvInitially == Init => EvidenceInv
BY RowsOfNothing
DEF Init, EvidenceInv, Steps, Held, AttemptFits, AttemptStates, EvidenceReconciles, TotalsOf

LEMMA EvidenceInvPreserved ==
  ASSUME FetchInv, EvidenceInv, [Next]_vars
  PROVE  EvidenceInv'
<1>1. FetchInv'
  BY FetchInvPreserved
<1>2. /\ page \in Nat \ {0} /\ try \in Nat \ {0} /\ calls \in Nat /\ rows \in Nat
      /\ MaxCalls \in Nat /\ MaxPages \in Nat /\ MaxAttempts \in Nat /\ None \notin Nat
      /\ try <= MaxAttempts
  BY FetchAssumption DEF FetchInv, Scalars, FetchWithinLimits
<1>3. step = "fetching" => Len(receipts) = page - 1 /\ Len(receipts) + try <= calls + 1
  BY <1>2 DEF EvidenceInv, BeforeCall
<1>4. CASE StartFetch
  <2>1. Held'
    BY <1>4, RowsOfNothing DEF StartFetch, Held
  <2>2. AttemptFits'
    BY <1>4 DEF StartFetch, AttemptFits, AttemptStates, EvidenceReconciles
  <2>3. BeforeCall'
    BY <1>4 DEF StartFetch, BeforeCall
  <2>. QED
    BY <1>4, <2>1, <2>2, <2>3 DEF StartFetch, EvidenceInv, Steps
<1>5. CASE LoadSecret
  <2>1. CASE step' = "fetching" /\ UNCHANGED <<attempt, error, clientVars>> /\ step = "started"
    <3>1. Held' /\ AttemptFits'
      BY <2>1, HeldStays, AttemptStays DEF EvidenceInv, AttemptFits, clientVars
    <3>2. BeforeCall'
      BY <2>1 DEF EvidenceInv, BeforeCall, clientVars
    <3>. QED
      BY <2>1, <3>1, <3>2 DEF EvidenceInv, Steps
  <2>2. CASE Raise("service_key_missing", None, None, <<>>)
    BY <1>5, <2>2, ErrorOfCommand DEF LoadSecret, ErrorCodes
  <2>. QED
    BY <1>5, <2>1, <2>2 DEF LoadSecret
<1>6. CASE BudgetExceeded
  BY <1>2, <1>6, ErrorOfFetch DEF BudgetExceeded, clientVars, ErrorCodes
<1>7. CASE ReceivePage
  <2>1. /\ step = "fetching" /\ calls' = calls + 1 /\ calls < MaxCalls /\ pageSize' = pageSize
        /\ PageSizes \subseteq Nat /\ pageSize \in Nat
    BY <1>7, FetchAssumption DEF ReceivePage, Call, WithinBudget, FetchInv, Scalars
  <2>2. PICK t \in Totals, n \in 0..(pageSize + 1) :
          \/ /\ PageVerdict(t, n) \in {"last", "more"}
             /\ rows' = rows + n
             /\ receipts' = Append(receipts, [rows |-> n, total |-> t])
             /\ total' = IF total = None THEN t ELSE total
             /\ IF PageVerdict(t, n) = "last"
                THEN step' = "fetched" /\ UNCHANGED <<page, try>>
                ELSE step' = "fetching" /\ page' = page + 1 /\ try' = 1
             /\ UNCHANGED <<attempt, error>>
          \/ /\ PageVerdict(t, n) \notin {"last", "more"}
             /\ Raise(PageVerdict(t, n), page, None, receipts)
             /\ UNCHANGED <<page, try, total, rows, receipts>>
    BY <1>7, <2>1 DEF ReceivePage
  <2>3. n \in Nat
    BY <2>1
  <2>4. CASE /\ PageVerdict(t, n) \notin {"last", "more"}
             /\ Raise(PageVerdict(t, n), page, None, receipts)
             /\ UNCHANGED <<page, try, total, rows, receipts>>
    <3>1. PageVerdict(t, n) \in ErrorCodes
      BY <2>4 DEF PageVerdict, ErrorCodes
    <3>2. Len(receipts) + 1 <= MaxCalls
      BY <1>2, <1>3, <2>1
    <3>. QED
      BY <2>1, <2>4, <3>1, <3>2, ErrorOfFetch
  <2>5. CASE /\ PageVerdict(t, n) \in {"last", "more"}
             /\ rows' = rows + n
             /\ receipts' = Append(receipts, [rows |-> n, total |-> t])
             /\ total' = IF total = None THEN t ELSE total
             /\ IF PageVerdict(t, n) = "last"
                THEN step' = "fetched" /\ UNCHANGED <<page, try>>
                ELSE step' = "fetching" /\ page' = page + 1 /\ try' = 1
             /\ UNCHANGED <<attempt, error>>
    BY <1>1, <2>1, <2>3, <2>5, PageAdded
  <2>. QED
    BY <2>2, <2>4, <2>5
<1>8. CASE ReceiveTransient
  <2>1. /\ step = "fetching" /\ calls' = calls + 1 /\ calls < MaxCalls
        /\ UNCHANGED <<pageSize, page, total, rows, receipts>>
    BY <1>8 DEF ReceiveTransient, Call, WithinBudget
  <2>2. CASE try' = try + 1 /\ UNCHANGED <<step, attempt, error>>
    <3>1. Held' /\ AttemptFits'
      BY <2>1, <2>2, HeldStays, AttemptStays DEF EvidenceInv, AttemptFits
    <3>2. BeforeCall'
      BY <1>2, <2>1, <2>2 DEF EvidenceInv, BeforeCall
    <3>. QED
      BY <2>1, <2>2, <3>1, <3>2 DEF EvidenceInv
  <2>3. CASE try = MaxAttempts /\ Raise("retry_exhausted", page, MaxAttempts, receipts)
    <3>1. Len(receipts) + MaxAttempts <= MaxCalls /\ MaxAttempts # None
      BY <1>2, <1>3, <2>1, <2>3
    <3>. QED
      BY <1>2, <2>1, <2>3, <3>1, ErrorOfFetch DEF ErrorCodes
  <2>. QED
    BY <1>8, <2>2, <2>3 DEF ReceiveTransient
<1>9. CASE ReceiveTerminal
  <2>1. /\ step = "fetching" /\ calls' = calls + 1 /\ calls < MaxCalls
        /\ Raise("terminal_http_status", page, None, receipts)
        /\ UNCHANGED <<pageSize, page, total, rows, receipts>>
    BY <1>9 DEF ReceiveTerminal, Call, WithinBudget
  <2>2. Len(receipts) + 1 <= MaxCalls
    BY <1>2, <1>3, <2>1
  <2>. QED
    BY <2>1, <2>2, ErrorOfFetch DEF ErrorCodes
<1>10. CASE ReceiveBadHeader
  BY <1>10, ErrorOfFetch DEF ReceiveBadHeader, Call, ErrorCodes
<1>11. CASE CompleteFetch
  <2>1. CASE /\ step = "fetched" /\ ResultAccepted /\ UNCHANGED <<clientVars, error>>
             /\ attempt' = [state |-> "SUCCEEDED", receipts |-> receipts]
             /\ step' = "ended"
    <3>1. Held'
      BY <2>1, HeldStays DEF EvidenceInv, clientVars
    <3>2. /\ attempt'.state = "SUCCEEDED" /\ attempt'.receipts = receipts
          /\ attempt' \in [state : AttemptStates, receipts : Seq(Receipt)]
      BY <2>1 DEF EvidenceInv, Held, AttemptStates
    <3>3. /\ TotalsOf(receipts) = {RowsOf(receipts)}
          /\ \A i \in 1 .. (Len(receipts) - 1) : receipts[i].rows = pageSize
      BY <2>1 DEF ResultAccepted, EvidenceInv, Whole
    <3>4. EvidenceReconciles'
      BY <2>1, <3>2, <3>3 DEF EvidenceReconciles, clientVars
    <3>. QED
      BY <2>1, <3>1, <3>2, <3>4 DEF EvidenceInv, AttemptFits, Steps
  <2>2. CASE /\ step = "fetched" /\ UNCHANGED clientVars
             /\ Raise("transport_internal_error", None, None, <<>>)
    BY <2>2, ErrorOfCommand DEF ErrorCodes
  <2>. QED
    BY <1>11, <2>1, <2>2 DEF CompleteFetch
<1>12. CASE FailFetch
  <2>1. /\ step' = "ended" /\ UNCHANGED <<clientVars, error>> /\ ErrorFits /\ Held'
    BY <1>12, HeldStays DEF FailFetch, EvidenceInv, clientVars
  <2>2. CASE attempt' = attempt
    <3>1. AttemptFits'
      BY <2>1, <2>2, AttemptStays DEF EvidenceInv, clientVars
    <3>. QED
      BY <2>1, <3>1 DEF EvidenceInv, Steps
  <2>3. CASE attempt' = [state |-> FailureState(error.code), receipts |-> error.receipts]
    <3>1. /\ attempt'.state \in AttemptStates \ {"STARTED", "SUCCEEDED"}
          /\ attempt'.receipts = error.receipts /\ error.receipts \in Seq(Receipt)
          /\ attempt' \in [state : AttemptStates, receipts : Seq(Receipt)]
      BY <2>1, <2>3 DEF FailureState, AttemptStates, ErrorFits, ErrorRow
    <3>2. EvidenceReconciles'
      <4>1. CASE error.receipts = <<>>
        BY <3>1, <4>1 DEF EvidenceReconciles
      <4>2. CASE error.receipts # <<>>
        <5>1. /\ error.receipts = receipts /\ pageSize' = pageSize
              /\ \A i \in DOMAIN receipts : receipts[i].rows = pageSize
              /\ \A i \in DOMAIN receipts : RowsOf(receipts) < receipts[i].total
          BY <2>1, <4>2 DEF ErrorFits, EvidenceInv, Held, clientVars
        <5>2. \A i \in 1 .. (Len(receipts) - 1) : i \in DOMAIN receipts
          BY DEF EvidenceInv, Held
        <5>. QED
          BY <3>1, <5>1, <5>2 DEF EvidenceReconciles
      <4>. QED
        BY <4>1, <4>2
    <3>. QED
      BY <2>1, <3>1, <3>2 DEF EvidenceInv, AttemptFits, Steps
  <2>. QED
    BY <1>12, <2>2, <2>3 DEF FailFetch
<1>13. CASE Crash
  BY <1>13, HeldStays, AttemptStays DEF Crash, EvidenceInv, Steps, clientVars
<1>14. CASE UNCHANGED vars
  <2>1. Held' /\ AttemptFits'
    BY <1>14, HeldStays, AttemptStays DEF vars, clientVars, EvidenceInv, AttemptFits
  <2>. QED
    BY <1>14, <2>1
    DEF vars, clientVars, EvidenceInv, BeforeCall, Whole, ErrorFits, PageFollowsReceipts, CallsInEvidence
<1>. QED
  BY <1>4, <1>5, <1>6, <1>7, <1>8, <1>9, <1>10, <1>11, <1>12, <1>13, <1>14 DEF Next

LEMMA AlwaysEvidence == Spec => [](FetchInv /\ EvidenceInv)
<1>1. Init => FetchInv /\ EvidenceInv
  BY FetchInvInitially, EvidenceInvInitially
<1>2. FetchInv /\ EvidenceInv /\ [Next]_vars => FetchInv' /\ EvidenceInv'
  BY FetchInvPreserved, EvidenceInvPreserved
<1>. QED
  BY <1>1, <1>2, PTL DEF Spec

-----------------------------------------------------------------------------

(* For every limit and every reply of the source: the attempt, the error   *)
(* being handled and what the client holds keep their types.               *)
THEOREM FetchTypes == Spec => []TypeOK
<1>1. FetchInv /\ EvidenceInv => TypeOK
  BY DEF FetchInv, Scalars, EvidenceInv, Held, ErrorFits, AttemptFits, TypeOK
<1>. QED
  BY <1>1, AlwaysEvidence, PTL

(* Whatever limits and page size are in force, persistence accepts every   *)
(* result the client hands over: what the client checked page by page adds *)
(* up to what complete_kamis_fetch checks of the whole.                    *)
THEOREM ClientResultsAreAccepted == Spec => []ResultsAreAccepted
<1>1. FetchInv /\ EvidenceInv => ResultsAreAccepted
  <2>. SUFFICES ASSUME FetchInv, EvidenceInv, step = "fetched" PROVE ResultAccepted
    BY DEF ResultsAreAccepted
  <2>1. /\ page \in Nat \ {0} /\ page <= MaxPages /\ calls <= MaxCalls /\ rows \in Nat
        /\ Whole /\ Held /\ None \notin Nat
    BY FetchAssumption DEF FetchInv, Scalars, FetchWithinLimits, EvidenceInv
  <2>2. receipts # <<>> /\ Len(receipts) <= MaxPages
    BY <2>1 DEF Whole, Held
  <2>3. \A i \in DOMAIN receipts : receipts[i].total = rows
    BY <2>1 DEF Whole, Held
  <2>4. TotalsOf(receipts) = {rows}
    <3>1. 1 \in DOMAIN receipts
      BY <2>1, <2>2 DEF Held
    <3>. QED
      BY <2>3, <3>1 DEF TotalsOf
  <2>. QED
    BY <2>1, <2>2, <2>4 DEF ResultAccepted, Whole, Held
<1>. QED
  BY <1>1, AlwaysEvidence, PTL

(* The receipts of a succeeded attempt are one whole pagination, those of  *)
(* a failed one an incomplete prefix, for every listing the source serves. *)
(* (complete_kamis_fetch, fail_kamis_fetch.)                               *)
THEOREM EvidenceAlwaysReconciles == Spec => []EvidenceReconciles
<1>1. EvidenceInv => EvidenceReconciles
  BY DEF EvidenceInv, AttemptFits
<1>. QED
  BY <1>1, AlwaysEvidence, PTL

(* An error that fits is accepted as evidence unless it comes from a later *)
(* page and names none, or is the budget's.                                *)
LEMMA FittingErrorsAccepted ==
  ASSUME FetchInv, EvidenceInv, step = "raised", ~FailureAccepted(error)
  PROVE  /\ error.receipts # <<>>
         /\ \/ error.page = None
            \/ error.code = "call_budget_exceeded" /\ CallsInEvidence(error) > MaxCalls
<1>1. /\ ErrorFits /\ Held /\ MaxPages \in Nat /\ MaxCalls \in Nat /\ MaxAttempts \in Nat
      /\ MaxPages <= MaxCalls /\ MaxAttempts <= MaxCalls /\ Totals \subseteq Nat /\ None \notin Nat
      /\ rows \in Nat /\ pageSize \in Nat \ {0}
  BY FetchAssumption DEF FetchInv, Scalars, EvidenceInv
<1>2. /\ error.page # None => error.page <= MaxPages
      /\ error.try # None => error.try <= MaxAttempts /\ error.try <= MaxCalls
  <2>1. error.try # None => error.try \in Nat
    BY <1>1 DEF ErrorFits, ErrorRow
  <2>. QED
    BY <1>1, <2>1 DEF ErrorFits
<1>3. error.receipts # <<>>
  BY <1>2 DEF FailureAccepted
<1>4. SUFFICES ASSUME error.page # None, CallsInEvidence(error) <= MaxCalls
               PROVE  FALSE
  <2>1. CallsInEvidence(error) \in Nat
    BY <1>1 DEF CallsInEvidence, ErrorFits, ErrorRow
  <2>2. error.page # None /\ error.code # "call_budget_exceeded" => CallsInEvidence(error) <= MaxCalls
    BY <1>1 DEF ErrorFits
  <2>. QED
    BY <1>1, <1>3, <1>4, <2>1, <2>2
<1>5. /\ error.receipts = receipts /\ total # None /\ rows < total
      /\ receipts \in Seq(Receipt) /\ Len(receipts) <= MaxPages
      /\ \A i \in DOMAIN receipts : receipts[i].rows = pageSize /\ receipts[i].total = total
  BY <1>1, <1>3 DEF ErrorFits, Held
<1>6. total \in Totals /\ total > 0 /\ RequiredPages(total) <= MaxPages /\ RowsOf(receipts) < total
  <2>1. total \in Totals /\ RequiredPages(total) <= MaxPages /\ RowsOf(receipts) = rows
    BY <1>1, <1>5 DEF Held
  <2>2. total \in Nat
    BY <1>1, <2>1
  <2>3. total > 0
    BY <1>1, <1>5, <2>2
  <2>. QED
    BY <1>5, <2>1, <2>3
<1>7. TotalsOf(receipts) = {total}
  <2>1. 1 \in DOMAIN receipts
    BY <1>3, <1>5
  <2>. QED
    BY <1>5, <2>1 DEF TotalsOf
<1>8. RequiredPages(total) <= MaxCalls /\ Len(receipts) <= MaxCalls
  <2>1. RequiredPages(total) \in Int
    BY <1>1, <1>6 DEF RequiredPages
  <2>. QED
    BY <1>1, <1>5, <1>6, <2>1
<1>9. PageFollowsReceipts(error)
  BY <1>1, <1>4 DEF ErrorFits
<1>10. FailureAccepted(error)
  BY <1>2, <1>4, <1>5, <1>6, <1>7, <1>8, <1>9 DEF FailureAccepted
<1>. QED
  BY <1>10

(* For every limit: an attempt of a command that ended in an error stays   *)
(* STARTED only after an error of a later page that names no page or is    *)
(* the budget's.  (fail_kamis_fetch.)                                      *)
THEOREM OnlyTwoErrorsStayOpen == Spec => OnlyTheseStayStarted
<1>. DEFINE Open == step = "raised" /\ step' = "ended" /\ attempt'.state = "STARTED" =>
                      /\ error.receipts # <<>>
                      /\ \/ error.page = None
                         \/ error.code = "call_budget_exceeded" /\ CallsInEvidence(error) > MaxCalls
<1>1. FetchInv /\ EvidenceInv /\ [Next]_vars => [Open]_vars
  <2>. SUFFICES ASSUME FetchInv, EvidenceInv, [Next]_vars,
                       step = "raised", step' = "ended", attempt'.state = "STARTED"
                PROVE  /\ error.receipts # <<>>
                       /\ \/ error.page = None
                          \/ error.code = "call_budget_exceeded" /\ CallsInEvidence(error) > MaxCalls
    OBVIOUS
  <2>1. FailFetch
    BY DEF Next, vars, StartFetch, LoadSecret, Raise, BudgetExceeded, ReceivePage,
       ReceiveTransient, ReceiveTerminal, ReceiveBadHeader, Call, CompleteFetch, Crash
  <2>2. ~FailureAccepted(error)
    BY <2>1 DEF FailFetch, FailureState
  <2>. QED
    BY <2>2, FittingErrorsAccepted
<1>. QED
  BY <1>1, AlwaysEvidence, PTL DEF Spec, OnlyTheseStayStarted
=============================================================================
