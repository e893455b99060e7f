----------------------------- MODULE MCKamisFetch -----------------------------
(* The client's own limits, with page sizes that reach and pass them.       *)
EXTENDS KamisFetch

MCTotals == {0, 1, 2, 3, 11, 12, 13, 25}
AllReplies == ReplyKinds
PagesAndBadHeaders == {"page", "bad_header"}
=============================================================================
