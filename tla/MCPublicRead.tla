---------------------------- MODULE MCPublicRead ----------------------------
(* Two generations of two series.  Around 2000 won, a won is the smallest  *)
(* difference that still rounds to a tenth of a percent: against 2000 it   *)
(* is a tie, against 2001 just below it.                                   *)
EXTENDS PublicRead

CONSTANTS g1, g2, s1, s2

MCPrice ==
  [g \in Generations |-> [s \in Series |->
     IF s = s1 THEN (IF g = g1 THEN 2001 ELSE 2000) ELSE 150]]

(* Every reference of g1 can be shown; the month of g2 can not.            *)
MCReference ==
  [g \in Generations |-> [s \in Series |->
     IF s = s1
     THEN IF g = g1
          THEN [WEEK |-> 2000, MONTH |-> 2001, YEAR |-> 1000]
          ELSE [WEEK |-> 1999, MONTH |-> 2001, YEAR |-> None]
     ELSE [WEEK |-> 150, MONTH |-> 200, YEAR |-> None]]]
=============================================================================
