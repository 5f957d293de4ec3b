------------------------------ MODULE NewsEvents ------------------------------
(***************************************************************************)
(* The event scanner: articles of the news provider become events with an  *)
(* impact per symbol, and decisions about the experiments of that symbol.  *)
(* The job looks back over a window at every interval, so an article is    *)
(* seen more than once; two backend processes may scan at the same time    *)
(* while one replaces the other.                                           *)
(*                                                                         *)
(* EventScannerService         modules/events/service.py                   *)
(* DeterministicEventClassifier modules/events/classifier.py               *)
(* AlpacaNewsProvider          modules/events/alpaca_news_provider.py      *)
(*                                                                         *)
(* A unit of time is the interval of the job.  What run_event_step does    *)
(* with a decision is in PaperSteps.                                       *)
(***************************************************************************)
EXTENDS Integers

CONSTANTS
    Scanners,       \* threads that scan: one in a process
    Articles,
    Experiments,
    Symbols,
    None,
    SymbolOf,       \* experiments.asset_symbol
    Lookback,       \* event_lookback_minutes, in intervals; 2 by default
    Threshold,      \* event_relevance_threshold, in hundredths
    MaxTime,        \* bound on the clock
    MaxMishaps      \* bound on scans that fail, start late or take too long

ASSUME NewsAssumption ==
    /\ Scanners # {}
    /\ SymbolOf \in [Experiments -> Symbols]
    /\ Lookback \in Nat /\ MaxTime \in Nat /\ MaxMishaps \in Nat
    /\ Threshold \in 0..100

NoTime == -1
Time == 0..MaxTime

\* An article's text, as far as the classifier tells it apart.
Headline == {"keyword", "general"}

\* DeterministicEventClassifier.classify, in hundredths; scan_once asks only for
\* symbols that the article names.
Relevance(text) == IF text = "keyword" THEN 85 ELSE 70
NoImpact == -1

VARIABLES
    clock,
    published,      \* created_at of an article, NoTime before it is published
    headline,       \* its present text; the provider may edit it
    about,          \* its symbols
    since,          \* since when an experiment is RUNNING, or NoTime
    event,          \* news_events: the articles stored
    impact,         \* event_asset_impacts: relevance for a symbol, or NoImpact
    decision,       \* event_decisions: pairs of article and experiment
    pc,             \* where a scan is
    begun,          \* when the scanner's last scan began, or NoTime
    todo,           \* what is left of the scan's loop over articles and symbols
    entry,          \* the article and symbol it is at
    isNew,          \* it has found no row for the article, or none for the symbol
    targets,        \* experiments left to trigger
    cur,            \* the experiment whose decision it inserts
    mishaps

world == <<published, headline, about>>
tables == <<event, impact, decision>>
local == <<todo, entry, isNew, targets, cur>>
vars == <<clock, world, since, tables, pc, begun, local, mishaps>>

-----------------------------------------------------------------------------

Entry == [article : Articles, symbol : Symbols, text : Headline]

TypeOK ==
    /\ clock \in Time
    /\ published \in [Articles -> Time \cup {NoTime}]
    /\ headline \in [Articles -> Headline]
    /\ about \in [Articles -> SUBSET Symbols]
    /\ since \in [Experiments -> Time \cup {NoTime}]
    /\ event \subseteq Articles
    /\ impact \in [Articles \X Symbols -> {NoImpact, 70, 85}]
    /\ decision \subseteq Articles \X Experiments
    /\ pc \in [Scanners -> {"idle", "look", "store", "trigger", "insert"}]
    /\ begun \in [Scanners -> Time \cup {NoTime}]
    /\ todo \in [Scanners -> SUBSET Entry]
    /\ isNew \in [Scanners -> [event : BOOLEAN, impact : BOOLEAN]]
    /\ entry \in [Scanners -> Entry \cup {None}]
    /\ targets \in [Scanners -> SUBSET Experiments]
    /\ cur \in [Scanners -> Experiments \cup {None}]
    /\ mishaps \in 0..MaxMishaps
    /\ \A s \in Scanners :
          /\ pc[s] \in {"store", "trigger", "insert"} => entry[s] \in todo[s]
          /\ pc[s] = "insert" => cur[s] \in targets[s]

Old == [event |-> FALSE, impact |-> FALSE]

Init ==
    /\ clock = 0
    /\ published = [a \in Articles |-> NoTime]
    /\ headline = [a \in Articles |-> "general"]
    /\ about = [a \in Articles |-> {}]
    /\ since \in [Experiments -> {0, NoTime}]
    /\ event = {}
    /\ impact = [i \in Articles \X Symbols |-> NoImpact]
    /\ decision = {}
    /\ pc = [s \in Scanners |-> "idle"]
    /\ begun = [s \in Scanners |-> NoTime]
    /\ todo = [s \in Scanners |-> {}]
    /\ entry = [s \in Scanners |-> None]
    /\ isNew = [s \in Scanners |-> Old]
    /\ targets = [s \in Scanners |-> {}]
    /\ cur = [s \in Scanners |-> None]
    /\ mishaps = 0

-----------------------------------------------------------------------------
(***************************************************************************)
(* The news and the users                                                  *)
(***************************************************************************)

Publish(a) ==
    /\ published[a] = NoTime
    /\ published' = [published EXCEPT ![a] = clock]
    /\ \E h \in Headline, S \in SUBSET Symbols \ {{}} :
          /\ headline' = [headline EXCEPT ![a] = h]
          /\ about' = [about EXCEPT ![a] = S]
    /\ UNCHANGED <<clock, since, tables, pc, begun, local, mishaps>>

Edit(a) ==
    /\ published[a] # NoTime
    /\ \E h \in Headline \ {headline[a]} : headline' = [headline EXCEPT ![a] = h]
    /\ UNCHANGED <<clock, published, about, since, tables, pc, begun, local, mishaps>>

\* Lifecycle requests make an experiment RUNNING, or something else.
Start(x) ==
    /\ since[x] = NoTime
    /\ since' = [since EXCEPT ![x] = clock]
    /\ UNCHANGED <<clock, world, tables, pc, begun, local, mishaps>>

Halt(x) ==
    /\ since[x] # NoTime
    /\ since' = [since EXCEPT ![x] = NoTime]
    /\ UNCHANGED <<clock, world, tables, pc, begun, local, mishaps>>

-----------------------------------------------------------------------------
(***************************************************************************)
(* A scan                                                                  *)
(***************************************************************************)

\* list_event_agent_paper_experiments; the other conditions of its query never change.
RunningWith(symbol) == {x \in Experiments : since[x] # NoTime /\ SymbolOf[x] = symbol}

\* What fetch_news returns for these symbols, crossed with them.
Fetched(symbols) ==
    {[article |-> i[1], symbol |-> i[2], text |-> headline[i[1]]] :
        i \in {j \in Articles \X symbols :
                  /\ published[j[1]] # NoTime
                  /\ published[j[1]] >= clock - Lookback
                  /\ j[2] \in about[j[1]]}}

\* scan_once up to its loop; with no symbols, or no news, it is done.
Scan(s) ==
    LET found == Fetched({SymbolOf[x] : x \in {y \in Experiments : since[y] # NoTime}})
    IN  /\ pc[s] = "idle"
        /\ begun[s] # clock
        /\ begun' = [begun EXCEPT ![s] = clock]
        /\ todo' = [todo EXCEPT ![s] = found]
        /\ pc' = [pc EXCEPT ![s] = IF found = {} THEN "idle" ELSE "look"]
        /\ UNCHANGED <<clock, world, since, tables, entry, isNew, targets, cur, mishaps>>

\* The provider sorts by time, newest first.
Newest(S) == {e \in S : \A f \in S : published[f.article] <= published[e.article]}

\* _store_event_and_impact, its queries.
Look(s) ==
    /\ pc[s] = "look"
    /\ \E e \in Newest(todo[s]) :
          /\ entry' = [entry EXCEPT ![s] = e]
          /\ isNew' = [isNew EXCEPT ![s] =
                [event |-> e.article \notin event,
                 impact |-> impact[<<e.article, e.symbol>>] = NoImpact]]
    /\ pc' = [pc EXCEPT ![s] = "store"]
    /\ UNCHANGED <<clock, world, since, tables, begun, todo, targets, cur, mishaps>>

\* A scan ends, because its loop is finished or with an exception.
Idle(s) ==
    /\ pc' = [pc EXCEPT ![s] = "idle"]
    /\ todo' = [todo EXCEPT ![s] = {}]
    /\ entry' = [entry EXCEPT ![s] = None]
    /\ isNew' = [isNew EXCEPT ![s] = Old]
    /\ targets' = [targets EXCEPT ![s] = {}]
    /\ cur' = [cur EXCEPT ![s] = None]

\* A unique constraint refuses a row that has been committed since the query.
Duplicate(s) ==
    \/ isNew[s].event /\ entry[s].article \in event
    \/ isNew[s].impact /\ impact[<<entry[s].article, entry[s].symbol>>] # NoImpact

\* Mutant of Targets: the relevance is the one just classified, not the stored one.
TargetsOfText(s, stored) ==
    IF Relevance(entry[s].text) < Threshold THEN {} ELSE RunningWith(entry[s].symbol)

\* Mutant of Targets: only an event that is stored now is acted upon.
TargetsOfNewEvent(s, stored) ==
    IF stored < Threshold \/ ~isNew[s].event THEN {} ELSE RunningWith(entry[s].symbol)

Targets(s, stored) == IF stored < Threshold THEN {} ELSE RunningWith(entry[s].symbol)

\* _store_event_and_impact, its inserts, and the experiments to trigger.  A row
\* that is there already keeps what it says.
Store(s) ==
    LET i == <<entry[s].article, entry[s].symbol>>
        stored == IF isNew[s].impact THEN Relevance(entry[s].text) ELSE impact[i]
    IN  /\ pc[s] = "store"
        /\ ~Duplicate(s)
        /\ event' = event \cup {entry[s].article}
        /\ impact' = [impact EXCEPT ![i] = stored]
        /\ targets' = [targets EXCEPT ![s] = Targets(s, stored)]
        /\ pc' = [pc EXCEPT ![s] = "trigger"]
        /\ UNCHANGED <<clock, world, since, decision, begun, todo, entry, isNew, cur, mishaps>>

\* The next round of the loop.
NextEntry(s) ==
    /\ pc[s] = "trigger"
    /\ targets[s] = {}
    /\ IF todo[s] = {entry[s]}
       THEN Idle(s)
       ELSE /\ todo' = [todo EXCEPT ![s] = @ \ {entry[s]}]
            /\ pc' = [pc EXCEPT ![s] = "look"]
            /\ UNCHANGED <<entry, isNew, targets, cur>>
    /\ UNCHANGED <<clock, world, since, tables, begun, mishaps>>

\* _trigger_once, its query.
TriggerOnce(s) ==
    /\ pc[s] = "trigger"
    /\ \E x \in targets[s] :
          IF <<entry[s].article, x>> \in decision
          THEN /\ targets' = [targets EXCEPT ![s] = @ \ {x}]
               /\ UNCHANGED <<pc, cur>>
          ELSE /\ cur' = [cur EXCEPT ![s] = x]
               /\ pc' = [pc EXCEPT ![s] = "insert"]
               /\ UNCHANGED targets
    /\ UNCHANGED <<clock, world, since, tables, begun, todo, entry, isNew, mishaps>>

\* _trigger_once, its insert, and run_event_step, whose exceptions it catches.
InsertDecision(s) ==
    /\ pc[s] = "insert"
    /\ <<entry[s].article, cur[s]>> \notin decision
    /\ decision' = decision \cup {<<entry[s].article, cur[s]>>}
    /\ targets' = [targets EXCEPT ![s] = @ \ {cur[s]}]
    /\ cur' = [cur EXCEPT ![s] = None]
    /\ pc' = [pc EXCEPT ![s] = "trigger"]
    /\ UNCHANGED <<clock, world, since, event, impact, begun, todo, entry, isNew, mishaps>>

\* IntegrityError is caught nowhere: the rest of the scan is lost.
Conflict(s) ==
    /\ \/ pc[s] = "store" /\ Duplicate(s)
       \/ pc[s] = "insert" /\ <<entry[s].article, cur[s]>> \in decision
    /\ Idle(s)
    /\ UNCHANGED <<clock, world, since, tables, begun, mishaps>>

-----------------------------------------------------------------------------
(***************************************************************************)
(* Time, and what goes wrong                                               *)
(***************************************************************************)

\* Any other exception, of the provider or the database, or the end of the process.
ScanFails(s) ==
    /\ pc[s] # "idle"
    /\ mishaps < MaxMishaps
    /\ mishaps' = mishaps + 1
    /\ Idle(s)
    /\ UNCHANGED <<clock, world, since, tables, begun>>

Late == {s \in Scanners : pc[s] # "idle" \/ begun[s] # clock}

\* The next interval.  A scheduler that has not begun its scan by now has missed it
\* (misfire_grace_time); one that is still busy skips the next (max_instances).
Tick ==
    /\ clock < MaxTime
    /\ \/ Late = {} /\ UNCHANGED <<begun, mishaps>>
       \/ /\ mishaps < MaxMishaps
          /\ \E s \in Scanners :
                /\ Late = {s}
                /\ begun' = IF pc[s] = "idle" THEN begun
                            ELSE [begun EXCEPT ![s] = clock + 1]
          /\ mishaps' = mishaps + 1
    /\ clock' = clock + 1
    /\ UNCHANGED <<world, since, tables, pc, local>>

Step(s) ==
    \/ Scan(s) \/ Look(s) \/ Store(s) \/ NextEntry(s) \/ TriggerOnce(s)
    \/ InsertDecision(s) \/ Conflict(s) \/ ScanFails(s)

Next ==
    \/ \E s \in Scanners : Step(s)
    \/ \E a \in Articles : Publish(a) \/ Edit(a)
    \/ \E x \in Experiments : Start(x) \/ Halt(x)
    \/ Tick

Spec == Init /\ [][Next]_vars

-----------------------------------------------------------------------------
(***************************************************************************)
(* Properties                                                              *)
(***************************************************************************)

\* BR-027C: an experiment is triggered by news that was found relevant when it was
\* stored, whichever scan stored it and whatever the provider has made of the text
\* since, and the relevance on record is the one that was acted upon.
DecisionIsRelevant ==
    \A d \in decision : impact[<<d[1], SymbolOf[d[2]]>>] >= Threshold

\* The experiment of x was running before article a came out, and is ever since.
Waits(a, x) ==
    /\ published[a] # NoTime /\ SymbolOf[x] \in about[a]
    /\ since[x] # NoTime /\ since[x] <= published[a]

\* The decision is there, or the news is on record as irrelevant.
Served(a, x) ==
    \/ <<a, x>> \in decision
    \/ impact[<<a, SymbolOf[x]>>] \in {70, 85} /\ impact[<<a, SymbolOf[x]>>] < Threshold

\* The window covers several intervals (two by default), so every article is in as
\* many scans of each process.  Fewer mishaps than that lose no article, whatever
\* the scans of the other processes do to a scan: a conflict ends it, but not the
\* one that writes last.  When the window has passed, the experiment is served.
ServedInWindow ==
    mishaps < Lookback =>
        \A a \in Articles, x \in Experiments :
            (Waits(a, x) /\ clock > published[a] + Lookback) => Served(a, x)

=============================================================================
