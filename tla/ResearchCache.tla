----------------------------- MODULE ResearchCache -----------------------------
(***************************************************************************)
(* The research data cache, shared by the steps of all experiments with    *)
(* one symbol.  A step of the multi-agent pipeline loads the datasets of   *)
(* its two providers one after the other inside the transaction of its     *)
(* artifacts, which stays open through all later calls of the model: what  *)
(* it has written it keeps locked, and nobody sees it, until it ends.      *)
(*                                                                         *)
(* ResearchCache, Fmp..., YahooSentimentResearchProvider                   *)
(*                             modules/agents/provider_factory.py          *)
(* ResearchDataCacheRepository persistence/repositories/                   *)
(***************************************************************************)
EXTENDS Integers

CONSTANTS
    Steps,          \* threads that run steps of experiments with the symbol
    NumFmp,         \* datasets 1..NumFmp are FMP's, in the order it loads them
    NumDatasets,    \* the others are Yahoo's
    Ttl,            \* per dataset: how long a row is fresh; Forever for transcripts
    Forever,
    MaxTime         \* bound on the clock

Datasets == 1..NumDatasets

ASSUME CacheAssumption ==
    /\ NumFmp \in Nat /\ NumDatasets \in Nat /\ NumFmp <= NumDatasets
    /\ NumDatasets > 0
    /\ Forever \notin Int
    /\ Ttl \in [Datasets -> (Nat \ {0}) \cup {Forever}]
    /\ MaxTime \in Nat

Time == 0..MaxTime

\* A row: research_data_cache.fetched_at, and when the payload really was read
\* from the provider (history).  expires_at is fetched_at plus the dataset's ttl.
Row == [fetchedAt : Time, read : Time]
NoRow == [fetchedAt |-> -1, read |-> -1]

\* A payload that load has returned as a hit: when it was read from the provider
\* and when it was served.
HitRecord == [dataset : Datasets, read : Time, at : Time]
NoHit == [dataset |-> 0, read |-> 0, at |-> 0]

VARIABLES
    clock,
    row,        \* committed rows of the table
    mine,       \* per step: the rows its open transaction has written
    pc,         \* where the step is
    at,         \* number of the call of load it is at
    now,        \* local variable now of load
    answer,     \* when the provider answered the step's request
    hit,        \* the hit that load has returned last (history)
    known       \* datasets that had a row when the step began (history)

vars == <<clock, row, mine, pc, at, now, answer, hit, known>>

-----------------------------------------------------------------------------

Place ==
    {"idle", "look", "fetch", "upsert", "insert", "update", "agents", "conflict"}

TypeOK ==
    /\ clock \in Time
    /\ row \in [Datasets -> Row \cup {NoRow}]
    /\ mine \in [Steps -> [Datasets -> Row \cup {NoRow}]]
    /\ pc \in [Steps -> Place]
    /\ at \in [Steps -> Datasets]
    /\ now \in [Steps -> Time]
    /\ answer \in [Steps -> Time]
    /\ hit \in [Steps -> HitRecord \cup {NoHit}]
    /\ known \in [Steps -> SUBSET Datasets]

Init ==
    /\ clock = 0
    /\ row = [d \in Datasets |-> NoRow]
    /\ mine = [t \in Steps |-> [d \in Datasets |-> NoRow]]
    /\ pc = [t \in Steps |-> "idle"]
    /\ at = [t \in Steps |-> 1]
    /\ now = [t \in Steps |-> 0]
    /\ answer = [t \in Steps |-> 0]
    /\ hit = [t \in Steps |-> NoHit]
    /\ known = [t \in Steps |-> {}]

-----------------------------------------------------------------------------

\* AgentDecisionPipeline.run begins to load its research.
Begin(t) ==
    /\ pc[t] = "idle"
    /\ pc' = [pc EXCEPT ![t] = "look"]
    /\ known' = [known EXCEPT ![t] = {d \in Datasets : row[d] # NoRow}]
    /\ UNCHANGED <<clock, row, mine, at, now, answer, hit>>

\* load returns; after the last call it is the agents' turn.
Goto(t, d) ==
    /\ pc' = [pc EXCEPT ![t] = IF d \in Datasets THEN "look" ELSE "agents"]
    /\ at' = [at EXCEPT ![t] = IF d \in Datasets THEN d ELSE @]
    /\ now' = [now EXCEPT ![t] = 0]
    /\ answer' = [answer EXCEPT ![t] = 0]

\* Mutant of Current: the order of the datasets depends on the step.
CurrentReversed(t) ==
    IF t = CHOOSE u \in Steps : TRUE THEN NumDatasets + 1 - at[t] ELSE at[t]

\* The dataset of the at-th call: load_fundamental and then load_sentiment name
\* them one after the other.
Current(t) == at[t]

Fresh(d, time) ==
    /\ row[d] # NoRow
    /\ Ttl[d] # Forever => time < row[d].fetchedAt + Ttl[d]

\* load with a row that get_fresh returns.
Hit(t) ==
    /\ pc[t] = "look"
    /\ Fresh(Current(t), clock)
    /\ hit' = [hit EXCEPT ![t] = [dataset |-> Current(t), read |-> row[Current(t)].read, at |-> clock]]
    /\ Goto(t, at[t] + 1)
    /\ UNCHANGED <<clock, row, mine, known>>

Miss(t) ==
    /\ pc[t] = "look"
    /\ ~Fresh(Current(t), clock)
    /\ now' = [now EXCEPT ![t] = clock]
    /\ pc' = [pc EXCEPT ![t] = "fetch"]
    /\ UNCHANGED <<clock, row, mine, at, answer, hit, known>>

\* fetch returns.
Fetch(t) ==
    /\ pc[t] = "fetch"
    /\ answer' = [answer EXCEPT ![t] = clock]
    /\ pc' = [pc EXCEPT ![t] = "upsert"]
    /\ UNCHANGED <<clock, row, mine, at, now, hit, known>>

\* httpx.HTTPError: the old row if there is one, or else the provider gives up
\* its other datasets too.
FetchFails(t) ==
    /\ pc[t] = "fetch"
    /\ IF row[Current(t)] # NoRow
       THEN Goto(t, at[t] + 1)
       ELSE Goto(t, IF at[t] <= NumFmp THEN NumFmp + 1 ELSE NumDatasets + 1)
    /\ hit' = [hit EXCEPT ![t] = NoHit]
    /\ UNCHANGED <<clock, row, mine, known>>

\* Mutant of UpsertStatement: a row that has expired is taken for none.
UpsertStatementIfFresh(t) == IF Fresh(Current(t), clock) THEN "update" ELSE "insert"

\* upsert's own query for the row, whether fresh or not.
UpsertStatement(t) == IF row[Current(t)] = NoRow THEN "insert" ELSE "update"

Upsert(t) ==
    /\ pc[t] = "upsert"
    /\ pc' = [pc EXCEPT ![t] = UpsertStatement(t)]
    /\ UNCHANGED <<clock, row, mine, at, now, answer, hit, known>>

\* Mutant of NewRow: fetched_at is the time of the write.
NewRowAtWrite(t) == [fetchedAt |-> clock, read |-> answer[t]]

NewRow(t) == [fetchedAt |-> now[t], read |-> answer[t]]

\* The flush of an INSERT waits for a transaction that has inserted the same key,
\* an UPDATE for one that has updated the row.
Locked(t, d) == \E u \in Steps \ {t} : mine[u][d] # NoRow

Write(t) ==
    /\ pc[t] \in {"insert", "update"}
    /\ ~Locked(t, Current(t))
    /\ pc[t] = "insert" => row[Current(t)] = NoRow
    /\ mine' = [mine EXCEPT ![t][Current(t)] = NewRow(t)]
    /\ hit' = [hit EXCEPT ![t] = NoHit]
    /\ Goto(t, at[t] + 1)
    /\ UNCHANGED <<clock, row, known>>

\* An INSERT whose key has been committed meanwhile raises IntegrityError, which
\* is no HTTPError: the step fails.
Conflict(t) ==
    /\ pc[t] = "insert"
    /\ ~Locked(t, Current(t))
    /\ row[Current(t)] # NoRow
    /\ pc' = [pc EXCEPT ![t] = "conflict"]
    /\ UNCHANGED <<clock, row, mine, at, now, answer, hit, known>>

EndTransaction(t) ==
    /\ mine' = [mine EXCEPT ![t] = [d \in Datasets |-> NoRow]]
    /\ pc' = [pc EXCEPT ![t] = "idle"]
    /\ at' = [at EXCEPT ![t] = 1]
    /\ now' = [now EXCEPT ![t] = 0]
    /\ answer' = [answer EXCEPT ![t] = 0]
    /\ hit' = [hit EXCEPT ![t] = NoHit]
    /\ known' = [known EXCEPT ![t] = {}]
    /\ UNCHANGED clock

\* The agents have decided; the step's artifacts are committed.
Commit(t) ==
    /\ pc[t] = "agents"
    /\ row' = [d \in Datasets |-> IF mine[t][d] # NoRow THEN mine[t][d] ELSE row[d]]
    /\ EndTransaction(t)

\* The step fails: on a conflict, on a reply that is no JSON, in an agent, or
\* with its process.
Rollback(t) ==
    /\ pc[t] # "idle"
    /\ EndTransaction(t)
    /\ UNCHANGED row

Tick ==
    /\ clock < MaxTime
    /\ clock' = clock + 1
    /\ UNCHANGED <<row, mine, pc, at, now, answer, hit, known>>

-----------------------------------------------------------------------------

\* What a step does without waiting for another.
Act(t) ==
    \/ Hit(t) \/ Miss(t) \/ Fetch(t) \/ FetchFails(t) \/ Upsert(t)
    \/ Commit(t)
    \/ pc[t] = "conflict" /\ Rollback(t)

Flush(t) == Write(t) \/ Conflict(t)

Next ==
    \/ \E t \in Steps : Begin(t) \/ Act(t) \/ Flush(t) \/ Rollback(t)
    \/ Tick

Spec == Init /\ [][Next]_vars

\* Requests time out and the agents decide.  PostgreSQL serves those who wait for
\* a lock in the order they came, so nobody is overtaken for ever.
FairSpec == Spec /\ \A t \in Steps : WF_vars(Act(t)) /\ SF_vars(Flush(t))

-----------------------------------------------------------------------------
(***************************************************************************)
(* Properties                                                              *)
(***************************************************************************)

\* Two steps that fetch a dataset nobody has fetched before collide, and the one
\* that comes second fails.  It is a matter of the first fetch alone: no step
\* fails over a dataset that had a row when it began, however often that row
\* expires and whoever else refreshes it at the same time.
CollisionIsFirstFetch ==
    \A t \in Steps : pc[t] = "conflict" => Current(t) \notin known[t]

\* What a step takes from the cache without marking it as stale was read from the
\* provider less than the dataset's ttl ago, however long the step that fetched
\* it waited for the lock and for its own commit.
HitsAreFresh ==
    \A t \in Steps :
        hit[t] # NoHit /\ Ttl[hit[t].dataset] # Forever =>
            hit[t].at < hit[t].read + Ttl[hit[t].dataset]

\* Steps that keep rows locked while they wait for other rows do not wait for
\* each other: all load the datasets in the same order.
LoadsEnd == \A t \in Steps : pc[t] = "look" ~> pc[t] \in {"agents", "idle"}

=============================================================================
