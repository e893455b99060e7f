------------------------------ MODULE KamisFetch ------------------------------
(***************************************************************************)
(* One acquisition of the ingest command, from its FetchAttempt row to the *)
(* end of the command: KamisHttpClient reads the pages of one source       *)
(* listing within a call budget that retries share (source/client.py),     *)
(* and the attempt is completed with the receipts of all pages or failed   *)
(* with those of the pages before the failure (source/persistence.py).     *)
(* The source and the network answer each call as they like.               *)
(*                                                                         *)
(* Page bodies are abstracted to what reconciliation looks at: the total a *)
(* page declares and the number of its rows.                               *)
(***************************************************************************)
EXTENDS Integers, Sequences

CONSTANTS
  MaxPages,       \* MAX_PAGES, stored as max_pages_per_attempt
  MaxCalls,       \* MAX_CALLS, stored as max_requests_per_attempt
  MaxAttempts,    \* MAX_ATTEMPTS_PER_PAGE, stored as max_retries + 1
  PageSizes,      \* page sizes the command may ask for
  Totals,         \* totals a page may declare
  Replies,        \* how one call may end, a subset of ReplyKinds
  None

ReplyKinds == {"page", "transient", "terminal", "bad_header"}

ASSUME FetchAssumption ==
  /\ MaxPages \in Nat \ {0}
  /\ MaxAttempts \in Nat \ {0}
  /\ MaxCalls \in Nat /\ MaxCalls >= MaxPages /\ MaxCalls >= MaxAttempts
  /\ PageSizes \subseteq Nat \ {0}
  /\ Totals \subseteq Nat
  /\ Replies \subseteq ReplyKinds
  /\ None \notin Nat

VARIABLES
  step,           \* where the command is
  attempt,        \* its FetchAttempt row, with the persisted page receipts
  pageSize,       \* numOfRows of this acquisition
  page,           \* page_number being fetched
  try,            \* attempt of that page about to be made
  calls,          \* _CallBudget.count
  total,          \* expected_total, None before the first page
  rows,           \* len(rows) collected
  receipts,       \* receipts of the completed pages
  error           \* the KamisTransportError being handled, or None

clientVars == <<pageSize, page, try, calls, total, rows, receipts>>
vars == <<step, attempt, clientVars, error>>

-----------------------------------------------------------------------------
(* Data.                                                                   *)

Steps == {"idle", "started", "fetching", "fetched", "raised", "ended", "crashed"}
AttemptStates == {"STARTED", "SUCCEEDED", "RETRYABLE_FAILED", "TERMINAL_FAILED"}
(* The codes of a KamisTransportError; one stands for all that are raised  *)
(* the same way.                                                           *)
ErrorCodes ==
  {"service_key_missing", "call_budget_exceeded", "retry_exhausted", "terminal_http_status",
   "unexpected_content_type", "page_budget_exceeded", "declared_total_changed",
   "page_row_count_mismatch", "transport_internal_error"}
Receipt == [rows : Nat, total : Nat]

(* received_row_count: the rows of a list of receipts.                     *)
RowsOf(list) ==
  LET sum[n \in 0 .. Len(list)] == IF n = 0 THEN 0 ELSE sum[n - 1] + list[n].rows
  IN sum[Len(list)]

TotalsOf(list) == {list[i].total : i \in DOMAIN list}

(* max(1, ceil(t / pageSize)).                                             *)
RequiredPages(t) == IF t = 0 THEN 1 ELSE (t + pageSize - 1) \div pageSize

-----------------------------------------------------------------------------
(* What the client decides.                                                *)

(* A count of rows that does not fill the page is let through.             *)
RowCountBounded(t, n) == n <= pageSize /\ n <= t - rows

(* A page holds as many rows as fit, and the last one what remains.        *)
RowCountFits(t, n) == n = IF pageSize <= t - rows THEN pageSize ELSE t - rows

(* The total is compared with the first page's only when it is smaller.    *)
TotalNotSmaller(t) == total = None \/ t >= total
TotalUnchanged(t) == total = None \/ t = total

(* Retries of a page are not charged to the budget.                        *)
FirstTryWithinBudget == try > 1 \/ calls < MaxCalls
WithinBudget == calls < MaxCalls

(* The checks of one decoded page in the order of _fetch_prices.  Its last *)
(* two, row_total_exceeded and page_budget_exceeded on the next page, can  *)
(* not fire once these have passed: see FetchWithinLimits.                 *)
PageVerdict(t, n) ==
  IF total = None /\ RequiredPages(t) > MaxPages THEN "page_budget_exceeded"
  ELSE IF ~TotalUnchanged(t) THEN "declared_total_changed"
  ELSE IF ~RowCountFits(IF total = None THEN t ELSE total, n) THEN "page_row_count_mismatch"
  ELSE IF rows + n = (IF total = None THEN t ELSE total) THEN "last" ELSE "more"

-----------------------------------------------------------------------------
(* What persistence accepts.                                               *)

(* _validate_result_budget and _receipt_candidates of complete_kamis_fetch. *)
ResultAccepted ==
  /\ receipts # <<>>
  /\ Len(receipts) <= calls /\ calls <= MaxCalls
  /\ Len(receipts) <= MaxPages
  /\ RowsOf(receipts) = rows
  /\ TotalsOf(receipts) = {rows}

(* The failed page is the last one received instead of the one after it.   *)
PageIsLastReceived(e) == e.page = Len(e.receipts)
PageFollowsReceipts(e) == e.page = Len(e.receipts) + 1

(* The calls that the evidence shows at least: one for every page received *)
(* and, for the failed one, as many as its attempt, which for              *)
(* call_budget_exceeded is the attempt that was not made any more.         *)
CallsInEvidence(e) == Len(e.receipts) + (IF e.try = None THEN 1 ELSE e.try)

(* _partial_receipt_candidates of fail_kamis_fetch.                        *)
FailureAccepted(e) ==
  /\ e.page # None => e.page <= MaxPages
  /\ e.try # None => e.try <= MaxAttempts /\ e.try <= MaxCalls
  /\ e.receipts # <<>> =>
       /\ Len(e.receipts) <= MaxPages /\ Len(e.receipts) <= MaxCalls
       /\ PageFollowsReceipts(e)
       /\ CallsInEvidence(e) <= MaxCalls
       /\ \A i \in DOMAIN e.receipts :
            e.receipts[i].total > 0 /\ e.receipts[i].rows = pageSize
       /\ \E t \in Totals :
            /\ TotalsOf(e.receipts) = {t}
            /\ RequiredPages(t) <= MaxPages /\ RequiredPages(t) <= MaxCalls
            /\ RowsOf(e.receipts) < t

(* The error code is stored where the state of the attempt goes.           *)
CodeAsState(code) == code

(* _classify_transport_failure.                                            *)
FailureState(code) ==
  IF code = "retry_exhausted" THEN "RETRYABLE_FAILED" ELSE "TERMINAL_FAILED"

-----------------------------------------------------------------------------
(* The command.                                                            *)

Init ==
  /\ step = "idle"
  /\ attempt = [state |-> "STARTED", receipts |-> <<>>]
  /\ pageSize \in PageSizes
  /\ page = 1 /\ try = 1 /\ calls = 0
  /\ total = None /\ rows = 0 /\ receipts = <<>>
  /\ error = None

(* start_kamis_fetch: every acquisition has a row of its own.              *)
StartFetch ==
  /\ step \in {"idle", "ended", "crashed"}
  /\ step' = "started"
  /\ attempt' = [state |-> "STARTED", receipts |-> <<>>]
  /\ pageSize' \in PageSizes
  /\ page' = 1 /\ try' = 1 /\ calls' = 0
  /\ total' = None /\ rows' = 0 /\ receipts' = <<>>
  /\ error' = None

Raise(code, p, t, evidence) ==
  /\ step' = "raised"
  /\ error' = [code |-> code, page |-> p, try |-> t, receipts |-> evidence]
  /\ UNCHANGED attempt

LoadSecret ==
  /\ step = "started"
  /\ \/ step' = "fetching" /\ UNCHANGED <<attempt, error>>
     \/ Raise("service_key_missing", None, None, <<>>)
  /\ UNCHANGED clientVars

BudgetExceeded ==
  /\ step = "fetching"
  /\ ~WithinBudget
  /\ Raise("call_budget_exceeded", page, try, receipts)
  /\ UNCHANGED clientVars

(* budget.consume, and one HTTPS request that ends in a reply of this kind. *)
Call(reply) ==
  /\ step = "fetching"
  /\ WithinBudget
  /\ reply \in Replies
  /\ calls' = calls + 1

ReceivePage ==
  /\ Call("page")
  /\ \E t \in Totals, n \in 0..(pageSize + 1) :
       \/ /\ PageVerdict(t, n) \in {"last", "more"}
          /\ rows' = rows + n
          /\ receipts' = Append(receipts, [rows |-> n, total |-> t])
          /\ total' = IF total = None THEN t ELSE total
          /\ IF PageVerdict(t, n) = "last"
             THEN step' = "fetched" /\ UNCHANGED <<page, try>>
             ELSE step' = "fetching" /\ page' = page + 1 /\ try' = 1
          /\ UNCHANGED <<attempt, pageSize, error>>
       \/ /\ PageVerdict(t, n) \notin {"last", "more"}
          /\ Raise(PageVerdict(t, n), page, None, receipts)
          /\ UNCHANGED <<pageSize, page, try, total, rows, receipts>>

(* HTTP 429 and 5xx, timeouts, network errors and transient provider codes. *)
ReceiveTransient ==
  /\ Call("transient")
  /\ \/ /\ try < MaxAttempts
        /\ try' = try + 1
        /\ UNCHANGED <<step, attempt, error>>
     \/ /\ try = MaxAttempts
        /\ Raise("retry_exhausted", page, MaxAttempts, receipts)
        /\ UNCHANGED try
  /\ UNCHANGED <<pageSize, page, total, rows, receipts>>

(* Any other status, TLS failure, or body that does not decode.            *)
ReceiveTerminal ==
  /\ Call("terminal")
  /\ Raise("terminal_http_status", page, None, receipts)
  /\ UNCHANGED <<pageSize, page, try, total, rows, receipts>>

(* _validated_content_type and _content_length raise without a page number. *)
ReceiveBadHeader ==
  /\ Call("bad_header")
  /\ Raise("unexpected_content_type", None, None, receipts)
  /\ UNCHANGED <<pageSize, page, try, total, rows, receipts>>

(* complete_kamis_fetch; what makes it raise rolls it back, and the command *)
(* fails the attempt with an error of its own that carries no receipts.    *)
CompleteFetch ==
  /\ step = "fetched"
  /\ \/ /\ ResultAccepted
        /\ attempt' = [state |-> "SUCCEEDED", receipts |-> receipts]
        /\ step' = "ended"
        /\ UNCHANGED error
     \/ Raise("transport_internal_error", None, None, <<>>)
  /\ UNCHANGED clientVars

(* fail_kamis_fetch; when it raises too, the command gives up on the row.  *)
FailFetch ==
  /\ step = "raised"
  /\ attempt' = IF FailureAccepted(error)
                THEN [state |-> FailureState(error.code), receipts |-> error.receipts]
                ELSE attempt
  /\ step' = "ended"
  /\ UNCHANGED <<clientVars, error>>

(* The process dies; its row stays as it is.                               *)
Crash ==
  /\ step \notin {"idle", "ended", "crashed"}
  /\ step' = "crashed"
  /\ UNCHANGED <<attempt, clientVars, error>>

Next ==
  \/ StartFetch \/ LoadSecret
  \/ BudgetExceeded \/ ReceivePage \/ ReceiveTransient \/ ReceiveTerminal \/ ReceiveBadHeader
  \/ CompleteFetch \/ FailFetch \/ Crash

Spec == Init /\ [][Next]_vars

-----------------------------------------------------------------------------
(* Properties.                                                             *)

ErrorRow ==
  [code : ErrorCodes, page : Nat \cup {None}, try : Nat \cup {None}, receipts : Seq(Receipt)]

TypeOK ==
  /\ step \in Steps
  /\ attempt \in [state : AttemptStates, receipts : Seq(Receipt)]
  /\ pageSize \in PageSizes
  /\ page \in Nat /\ try \in Nat /\ calls \in Nat /\ rows \in Nat
  /\ total \in Nat \cup {None}
  /\ receipts \in Seq(Receipt)
  /\ step = "raised" => error \in ErrorRow

(* The client never makes more calls than its budget, retries included,    *)
(* never asks for a page beyond the page limit and never collects more     *)
(* rows than were declared, so the last two checks of its loop are dead.   *)
(* (_CallBudget and _fetch_prices.)                                        *)
FetchWithinLimits ==
  /\ calls <= MaxCalls
  /\ page <= MaxPages
  /\ try <= MaxAttempts
  /\ total # None => rows <= total

(* What the client hands over as a result, complete_kamis_fetch accepts:   *)
(* the two check the same contract separately, the client page by page and *)
(* persistence over the whole listing.                                     *)
ResultsAreAccepted == step = "fetched" => ResultAccepted

(* A SUCCEEDED attempt holds one whole pagination: full pages but for the  *)
(* last, adding up to the total that each of them declares.  A failed one  *)
(* holds an incomplete prefix of one.  (complete_ and fail_kamis_fetch.)   *)
EvidenceReconciles ==
  LET list == attempt.receipts IN
  /\ \A i \in 1..(Len(list) - 1) : list[i].rows = pageSize
  /\ attempt.state = "SUCCEEDED" => TotalsOf(list) = {RowsOf(list)}
  /\ attempt.state # "SUCCEEDED" => \A i \in DOMAIN list : RowsOf(list) < list[i].total

(* A command that fails leaves its attempt STARTED only if the error came  *)
(* from a later page and either names no page or is the budget's.          *)
(* (fail_kamis_fetch against the errors the client can raise.)             *)
OnlyTheseStayStarted ==
  [][step = "raised" /\ step' = "ended" /\ attempt'.state = "STARTED" =>
       /\ error.receipts # <<>>
       /\ \/ error.page = None
          \/ error.code = "call_budget_exceeded" /\ CallsInEvidence(error) > MaxCalls]_vars

(* A command that ends, ends its attempt: "Finalize a failed attempt using *)
(* only the transport's redacted error fields."  (fail_kamis_fetch.)       *)
EndedMeansFinalized == step = "ended" => attempt.state # "STARTED"
=============================================================================
