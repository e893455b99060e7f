------------------------------ MODULE PublicRead ------------------------------
(***************************************************************************)
(* The public catalog over the one published generation: what a reader is  *)
(* served while acquisitions confirm or change the source's content, the   *)
(* parser adds generations and a publisher moves the pointer.  A request   *)
(* is several SELECTs in autocommit, each of which sees what is committed  *)
(* when it runs (views.catalog, load_active_publication,                   *)
(* publication_entries).                                                   *)
(*                                                                         *)
(* A generation stands for an artifact, its parse run and the revision     *)
(* sealed from it; PublicationTransactions.tla has their workflow and      *)
(* KamisFetch.tla that of an acquisition.  Completions are serialised by   *)
(* the lock on the source row, so their times are distinct and increase.   *)
(***************************************************************************)
EXTENDS PriceComparison, Sequences

CONSTANTS
  Generations,    \* contents of the source, with what is made of them
  Series,         \* price series, the same in every generation
  Price,          \* [Generations -> [Series -> won]]
  Reference,      \* [Generations -> [Series -> [Periods -> won or None]]]
  Readers,        \* concurrent requests
  MaxAge,         \* KAMIS_CONFIRMATION_MAX_AGE_HOURS
  MaxTime         \* bound: the clock stops here

ASSUME ReadAssumption ==
  /\ \A g \in Generations, s \in Series :
       /\ Price[g][s] \in Nat \ {0}
       /\ \A p \in Periods : Reference[g][s][p] \in (Nat \ {0}) \cup {None}
  /\ None \notin Generations \cup Int
  /\ MaxAge \in Nat /\ MaxTime \in Nat

VARIABLES
  now,            \* the clock
  attempts,       \* the fetch attempts that ended, by completed_at
  facts,          \* change facts persisted with each parsed generation
  current,        \* the generation the channel points to
  reader          \* what each request has read, or was served last

vars == <<now, attempts, facts, current, reader>>

-----------------------------------------------------------------------------
(* Acquisition, parsing and publication.                                   *)

Successes(g) ==
  {i \in DOMAIN attempts : attempts[i].state = "SUCCEEDED" /\ attempts[i].artifact = g}

(* An attempt ends, with the bytes of generation g or with a failure.      *)
EndAttempt(state, g) ==
  /\ now < MaxTime
  /\ now' = now + 1
  /\ attempts' = Append(attempts, [state |-> state, artifact |-> g, at |-> now'])
  /\ UNCHANGED <<facts, current, reader>>

AttemptSucceeds(g) == EndAttempt("SUCCEEDED", g)
AttemptFails == EndAttempt("FAILED", None)

TimePasses ==
  /\ now < MaxTime
  /\ now' = now + 1
  /\ UNCHANGED <<attempts, facts, current, reader>>

FactsOf(g) ==
  [s \in Series |-> [p \in Periods |-> Compare(Price[g][s], Reference[g][s][p])]]

(* persist_reference_price_facts for every row, in one transaction.        *)
Parse(g) ==
  /\ Successes(g) # {} /\ facts[g] = None
  /\ \A s \in Series, p \in Periods : Storable(FactsOf(g)[s][p])
  /\ facts' = [facts EXCEPT ![g] = FactsOf(g)]
  /\ UNCHANGED <<now, attempts, current, reader>>

(* The target is taken as it is found.                                     *)
MoveToAny(g) ==
  /\ g # current
  /\ current' = g
  /\ UNCHANGED <<now, attempts, facts, reader>>

(* transition_recent_publication, to a parsed, approved and sealed         *)
(* generation or, for a withdrawal, to none.                               *)
MovePointer(g) ==
  /\ g # current
  /\ g # None => facts[g] # None
  /\ current' = g
  /\ UNCHANGED <<now, attempts, facts, reader>>

-----------------------------------------------------------------------------
(* A request.                                                              *)

Stages == {"idle", "confirmed", "latest", "clock", "entries", "served"}
At(r, stage) == reader[r].at = stage

Continue(r, read) ==
  /\ reader' = [reader EXCEPT ![r] = read]
  /\ UNCHANGED <<now, attempts, facts, current>>

(* The channel with its current revision, artifact and source.             *)
ReadChannel(r) ==
  /\ At(r, "idle") \/ At(r, "served")
  /\ \/ /\ current = None
        /\ Continue(r, [at |-> "served", status |-> 200, revision |-> None])
     \/ /\ current # None
        /\ \E p \in Periods :
             Continue(r, [at |-> "confirmed", revision |-> current, period |-> p])

(* The successful attempt with that revision's artifact that ended last;   *)
(* there is one, or the generation would not have been parsed.             *)
ReadConfirmed(r) ==
  LET q == reader[r] IN
  /\ At(r, "confirmed")
  /\ \E i \in Successes(q.revision) :
       /\ \A j \in Successes(q.revision) : j <= i
       /\ Continue(r, [at |-> "latest", revision |-> q.revision, period |-> q.period,
                       checked |-> attempts[i].at])

(* The attempt of any content that ended last, and when that was read.     *)
ReadLatest(r) ==
  LET q == reader[r] IN
  /\ At(r, "latest")
  /\ Continue(r, [at |-> "clock", revision |-> q.revision, period |-> q.period,
                  checked |-> q.checked, latest |-> attempts[Len(attempts)], readAt |-> now])

(* Only attempts that failed since are looked at.                          *)
NoNewerContent(seen, g) == FALSE
NewerContent(seen, g) == seen.state = "SUCCEEDED" /\ seen.artifact # g

NewerFailure(seen, checked) == seen.state = "FAILED" /\ seen.at > checked

Freshness(q) ==
  IF \/ NewerContent(q.latest, q.revision)
     \/ NewerFailure(q.latest, q.checked)
     \/ now - q.checked > MaxAge
  THEN "stale" ELSE "current"

(* timezone.now, and the state derived from the three reads.               *)
ReadClock(r) ==
  LET q == reader[r] IN
  /\ At(r, "clock")
  /\ Continue(r, [at |-> "entries", revision |-> q.revision, period |-> q.period,
                  freshness |-> Freshness(q), readAt |-> q.readAt, clock |-> now])

(* The entries of whatever revision is current by then.                    *)
EntriesOfCurrent(q) ==
  IF current = None THEN facts[q.revision] ELSE facts[current]

(* active.revision.entries, with the references of the asked period.       *)
EntriesOf(q) == facts[q.revision]

(* Every entry is checked before any is shown, whatever page is asked for. *)
ReadEntries(r) ==
  LET q == reader[r]
      shown == [s \in Series |-> EntriesOf(q)[s][q.period]] IN
  /\ At(r, "entries")
  /\ \/ /\ \A s \in Series : Readable(shown[s])
        /\ Continue(r, [at |-> "served", status |-> 200, revision |-> q.revision,
                        period |-> q.period, freshness |-> q.freshness,
                        readAt |-> q.readAt, clock |-> q.clock, shown |-> shown])
     \/ /\ \E s \in Series : ~Readable(shown[s])
        /\ Continue(r, [at |-> "served", status |-> 503, revision |-> q.revision,
                        period |-> q.period])

-----------------------------------------------------------------------------

Init ==
  /\ now = 0
  /\ attempts = <<>>
  /\ facts = [g \in Generations |-> None]
  /\ current = None
  /\ reader = [r \in Readers |-> [at |-> "idle"]]

Request(r) ==
  ReadChannel(r) \/ ReadConfirmed(r) \/ ReadLatest(r) \/ ReadClock(r) \/ ReadEntries(r)

Next ==
  \/ \E g \in Generations : AttemptSucceeds(g) \/ Parse(g)
  \/ AttemptFails \/ TimePasses
  \/ \E g \in Generations \cup {None} : MovePointer(g)
  \/ \E r \in Readers : Request(r)

Spec == Init /\ [][Next]_vars

-----------------------------------------------------------------------------
(* Properties.                                                             *)

(* Only parsed generations are ever current, and attempts are ordered by   *)
(* the time they ended.                                                    *)
TypeOK ==
  /\ now \in 0..MaxTime
  /\ attempts \in Seq([state : {"SUCCEEDED", "FAILED"},
                       artifact : Generations \cup {None}, at : 1..MaxTime])
  /\ DOMAIN facts = Generations /\ \A g \in Generations : facts[g] \in {None, FactsOf(g)}
  /\ current \in Generations \cup {None} /\ (current # None => facts[current] # None)
  /\ DOMAIN reader = Readers /\ \A r \in Readers : reader[r].at \in Stages

(* The last response to a request was a page of a revision.                *)
PageServed(r) == At(r, "served") /\ reader[r].status = 200 /\ reader[r].revision # None

(* A page shows the comparisons of the revision whose freshness it states, *)
(* however the pointer moved while it was built.  (publication_entries     *)
(* reads from the revision load_active_publication returned.)              *)
PageOfOneRevision ==
  \A r \in Readers : PageServed(r) =>
    LET page == reader[r] IN
    page.shown = [s \in Series |->
                    Compare(Price[page.revision][s], Reference[page.revision][s][page.period])]

(* The attempt that had ended last when a request read the table.          *)
LastBy(i, time) ==
  /\ attempts[i].at <= time
  /\ \A j \in DOMAIN attempts : attempts[j].at <= time => j <= i

(* A page marked current shows the content that the very last attempt of   *)
(* that time got from the source, no longer than the maximum age ago, even *)
(* though the confirmation, the latest attempt and the clock are read one  *)
(* after the other while attempts end in between.                          *)
(* (load_active_publication.)                                              *)
FreshMeansConfirmed ==
  \A r \in Readers : PageServed(r) /\ reader[r].freshness = "current" =>
    LET page == reader[r] IN
    \E i \in Successes(page.revision) :
      LastBy(i, page.readAt) /\ page.clock - attempts[i].at <= MaxAge

(* The catalog is refused only over a difference too small for the         *)
(* percentage's one decimal; whatever else is parsed and stored can be     *)
(* served.  (_compare_reference against _comparison_context.)              *)
OnlyTinyChangesFail ==
  \A r \in Readers : At(r, "served") /\ reader[r].status = 503 =>
    LET page == reader[r] IN
    \E s \in Series : TinyChange(Price[page.revision][s],
                                 Reference[page.revision][s][page.period])

(* What is stored as a valid comparison and published can be read: the     *)
(* rounding is defined for every positive reference, and the direction "is *)
(* only the result of the arithmetic".                                     *)
(* (docs/DATA-AND-AUDIT-MODEL.md:167-169 and _comparison_context.)         *)
PublishedIsReadable ==
  \A r \in Readers : At(r, "served") => reader[r].status = 200
=============================================================================
