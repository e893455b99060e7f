--------------------------- MODULE MCRecentIngestion ---------------------------
(* Content that is accepted, that the parser refuses, and that parses into *)
(* something other than the ten series of the registry.                    *)
EXTENDS RecentIngestion, TLC

CONSTANTS c1, c2, c3, good, drifted, partial

MCParserRejects ==
  [k \in Contents |-> IF k = drifted THEN "IDENTITY_DRIFT" ELSE None]
MCGenerationRejects ==
  [k \in Contents |-> IF k = partial THEN "RECONCILIATION_FAILED" ELSE None]

Interchangeable == Permutations(Commands)
=============================================================================
