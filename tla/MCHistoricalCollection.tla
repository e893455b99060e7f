------------------------- MODULE MCHistoricalCollection -------------------------
(* Two regions; a country-wide scope, and one scope per region.            *)
EXTENDS HistoricalCollection, TLC

CONSTANTS seoul, busan, first, revised

Country == {seoul, busan}

(* Region by region, and a list with one scope inside another.             *)
MCPlans == {<<{seoul}, {busan}>>, <<Country, {seoul}>>}

Says(region, edition) == {<<region, edition>>}

(* No rows, the rows of Seoul in two editions, rows of Seoul when Busan    *)
(* was asked for, and rows that the parser does not accept.                *)
MCAnswers ==
  [s \in {{seoul}, {busan}, Country} |->
     IF s = {busan} THEN {{}, Says(busan, first), Says(seoul, first)}
     ELSE IF s = {seoul} THEN {{}, Says(seoul, first), Says(seoul, revised)}
     ELSE {Says(seoul, Drifted), Says(seoul, first) \cup Says(busan, first)}]

Symmetry == Permutations(Runs) \cup Permutations(Collections)
================================================================================
