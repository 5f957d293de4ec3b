--------------------------- MODULE NewsEventsProofs ---------------------------
(***************************************************************************)
(* The event scanner, for any number of scanning processes, articles,      *)
(* symbols and experiments, whatever the provider does with its texts.     *)
(***************************************************************************)
EXTENDS NewsEvents, TLAPS

\* A scan acts only in the rounds of its loop that stored something, and its
\* targets trade the symbol whose impact on record is relevant.
TargetInv ==
    \A s \in Scanners : targets[s] # {} =>
        /\ pc[s] \in {"trigger", "insert"}
        /\ impact[<<entry[s].article, entry[s].symbol>>] >= Threshold
        /\ \A x \in targets[s] : SymbolOf[x] = entry[s].symbol

\* A scan that found an impact is right about it.
FoundInv ==
    \A s \in Scanners :
        (pc[s] = "store" /\ ~isNew[s].impact) =>
            impact[<<entry[s].article, entry[s].symbol>>] # NoImpact

\* Nothing has happened in the future.
TimeInv ==
    /\ \A s \in Scanners : begun[s] <= clock
    /\ \A a \in Articles : published[a] <= clock

\* The scan s will come to article a for experiment x, or is about to trigger it.
Reaches(s, a, x) ==
    /\ \E e \in todo[s] : e.article = a /\ e.symbol = SymbolOf[x]
    /\ (/\ pc[s] \in {"trigger", "insert"}
        /\ entry[s].article = a /\ entry[s].symbol = SymbolOf[x]) => x \in targets[s]

\* The next insert of scan s is refused: another scan was faster.
Doomed(s) ==
    \/ pc[s] = "store" /\ Duplicate(s)
    \/ pc[s] = "insert" /\ <<entry[s].article, cur[s]>> \in decision

\* A scanner has not begun in this interval, or goes on.
Alive(s) == IF pc[s] = "idle" THEN begun[s] # clock ELSE ~Doomed(s)

\* This interval may still serve x: every scan under way comes to a, whatever it does
\* to the others, and they cannot all be stopped.
Hope(a, x) ==
    /\ \A s \in Scanners : pc[s] # "idle" => Reaches(s, a, x)
    /\ \E s \in Scanners : Alive(s)

\* Every full interval that has passed without serving x has cost a mishap, and
\* this one serves x or has cost a mishap as well.
CountInv ==
    \A a \in Articles, x \in Experiments :
        (Waits(a, x) /\ ~Served(a, x) /\ clock > published[a]) =>
            \/ mishaps >= Lookback
            \/ mishaps >= clock - published[a]
            \/ /\ mishaps >= clock - published[a] - 1
               /\ clock <= published[a] + Lookback
               /\ Hope(a, x)

IInv == TypeOK /\ TargetInv /\ DecisionIsRelevant /\ FoundInv /\ TimeInv /\ CountInv

-----------------------------------------------------------------------------
(***************************************************************************)
(* Types                                                                   *)
(***************************************************************************)

\* What Fetched returns are entries of the loop.
LEMMA FetchedTypes ==
    ASSUME TypeOK, NEW S, S \subseteq Symbols
    PROVE  Fetched(S) \subseteq Entry
  BY DEF Fetched, TypeOK, Entry

\* The classifier's relevance of an entry.
LEMMA RelevanceTypes ==
    ASSUME NEW text \in Headline
    PROVE  Relevance(text) \in {70, 85}
  BY DEF Relevance

\* A scan that is in the middle of a round has an entry and knows its pair.
LEMMA EntryTypes ==
    ASSUME TypeOK, NEW s \in Scanners, pc[s] \in {"store", "trigger", "insert"}
    PROVE  /\ entry[s] \in todo[s] /\ entry[s] \in Entry
           /\ entry[s].article \in Articles /\ entry[s].symbol \in Symbols
           /\ entry[s].text \in Headline
           /\ <<entry[s].article, entry[s].symbol>> \in Articles \X Symbols
  <1>1. entry[s] \in todo[s] /\ todo[s] \subseteq Entry
    BY DEF TypeOK
  <1>2. entry[s] \in Entry
    BY <1>1
  <1> QED
    BY <1>1, <1>2 DEF Entry

\* The end of a scan leaves the local variables in their types.
LEMMA IdleTypes ==
    ASSUME TypeOK, NEW s \in Scanners, Idle(s),
           UNCHANGED <<clock, world, since, tables, begun>>, mishaps' \in 0..MaxMishaps
    PROVE  TypeOK'
  BY DEF TypeOK, Idle, Old, world, tables, Entry

LEMMA InitTypes == Init => TypeOK
  BY NewsAssumption DEF Init, TypeOK, Old, Time, NoTime, Headline, NoImpact

LEMMA StepTypes ==
    ASSUME TypeOK, NEW s \in Scanners, Step(s)
    PROVE  TypeOK'
  <1>1. CASE Scan(s)
    <2>1. {SymbolOf[x] : x \in {y \in Experiments : since[y] # NoTime}} \subseteq Symbols
      BY NewsAssumption
    <2> DEFINE found == Fetched({SymbolOf[x] : x \in {y \in Experiments : since[y] # NoTime}})
    <2>2. found \subseteq Entry
      BY <2>1, FetchedTypes
    <2>3. todo' = [todo EXCEPT ![s] = found] /\ begun' = [begun EXCEPT ![s] = clock]
      BY <1>1 DEF Scan
    <2>4. pc' = [pc EXCEPT ![s] = IF found = {} THEN "idle" ELSE "look"] /\ pc[s] = "idle"
      BY <1>1 DEF Scan
    <2>5. UNCHANGED <<clock, world, since, tables, entry, isNew, targets, cur, mishaps>>
      BY <1>1 DEF Scan
    <2> HIDE DEF found
    <2>6. todo' \in [Scanners -> SUBSET Entry]
      BY <2>2, <2>3 DEF TypeOK
    <2> QED
      BY <2>3, <2>4, <2>5, <2>6 DEF TypeOK, world, tables
  <1>2. CASE Look(s)
    <2>1. PICK e \in Newest(todo[s]) :
             /\ entry' = [entry EXCEPT ![s] = e]
             /\ isNew' = [isNew EXCEPT ![s] =
                   [event |-> e.article \notin event,
                    impact |-> impact[<<e.article, e.symbol>>] = NoImpact]]
      BY <1>2 DEF Look
    <2>2. e \in todo[s] /\ e \in Entry
      BY DEF Newest, TypeOK
    <2>3. isNew' \in [Scanners -> [event : BOOLEAN, impact : BOOLEAN]]
      BY <2>1 DEF TypeOK
    <2> QED
      BY <1>2, <2>1, <2>2, <2>3 DEF TypeOK, Look, world, tables
  <1>3. CASE Store(s)
    <2> DEFINE stored == IF isNew[s].impact THEN Relevance(entry[s].text)
                         ELSE impact[<<entry[s].article, entry[s].symbol>>]
    <2>1. stored \in {NoImpact, 70, 85} /\ entry[s].article \in Articles
      BY <1>3, EntryTypes, RelevanceTypes DEF Store, TypeOK
    <2>2. Targets(s, stored) \subseteq Experiments
      BY DEF Targets, RunningWith
    <2>3. /\ pc[s] = "store"
          /\ event' = event \cup {entry[s].article}
          /\ impact' = [impact EXCEPT ![<<entry[s].article, entry[s].symbol>>] = stored]
          /\ targets' = [targets EXCEPT ![s] = Targets(s, stored)]
          /\ pc' = [pc EXCEPT ![s] = "trigger"]
          /\ UNCHANGED <<clock, world, since, decision, begun, todo, entry, isNew, cur, mishaps>>
      BY <1>3 DEF Store
    <2> HIDE DEF stored
    <2>4. impact' \in [Articles \X Symbols -> {NoImpact, 70, 85}]
      BY <2>1, <2>3 DEF TypeOK
    <2>5. event' \subseteq Articles /\ targets' \in [Scanners -> SUBSET Experiments]
      BY <2>1, <2>2, <2>3 DEF TypeOK
    <2>6. \A u \in Scanners :
             /\ pc'[u] \in {"store", "trigger", "insert"} => entry'[u] \in todo'[u]
             /\ pc'[u] = "insert" => cur'[u] \in targets'[u]
      BY <2>3 DEF TypeOK
    <2> QED
      BY <2>3, <2>4, <2>5, <2>6 DEF TypeOK, world
  <1>4. CASE NextEntry(s)
    <2>1. CASE Idle(s)
      BY <1>4, <2>1, IdleTypes DEF NextEntry, TypeOK
    <2>2. CASE ~Idle(s)
      <3>1. /\ todo' = [todo EXCEPT ![s] = @ \ {entry[s]}]
            /\ pc' = [pc EXCEPT ![s] = "look"]
            /\ UNCHANGED <<clock, world, since, tables, begun, entry, isNew, targets, cur, mishaps>>
        BY <1>4, <2>2 DEF NextEntry
      <3>2. todo' \in [Scanners -> SUBSET Entry]
        BY <3>1 DEF TypeOK
      <3>3. \A u \in Scanners :
               /\ pc'[u] \in {"store", "trigger", "insert"} => entry'[u] \in todo'[u]
               /\ pc'[u] = "insert" => cur'[u] \in targets'[u]
        BY <3>1 DEF TypeOK
      <3> QED
        BY <3>1, <3>2, <3>3 DEF TypeOK, world, tables
    <2> QED
      BY <2>1, <2>2
  <1>5. CASE TriggerOnce(s)
    <2>1. pc[s] = "trigger" /\ UNCHANGED <<clock, world, since, tables, begun, todo, entry, isNew, mishaps>>
      BY <1>5 DEF TriggerOnce
    <2>2. PICK x \in targets[s] :
             \/ targets' = [targets EXCEPT ![s] = @ \ {x}] /\ UNCHANGED <<pc, cur>>
             \/ /\ cur' = [cur EXCEPT ![s] = x]
                /\ pc' = [pc EXCEPT ![s] = "insert"]
                /\ UNCHANGED targets
      BY <1>5 DEF TriggerOnce
    <2>3. x \in Experiments
      BY DEF TypeOK
    <2>4. CASE targets' = [targets EXCEPT ![s] = @ \ {x}] /\ UNCHANGED <<pc, cur>>
      BY <2>1, <2>4 DEF TypeOK, world, tables
    <2>5. CASE /\ cur' = [cur EXCEPT ![s] = x]
               /\ pc' = [pc EXCEPT ![s] = "insert"]
               /\ UNCHANGED targets
      BY <2>1, <2>3, <2>5 DEF TypeOK, world, tables
    <2> QED
      BY <2>2, <2>4, <2>5
  <1>6. CASE InsertDecision(s)
    <2>1. cur[s] \in Experiments /\ entry[s].article \in Articles
      BY <1>6, EntryTypes DEF InsertDecision, TypeOK
    <2> QED
      BY <1>6, <2>1 DEF InsertDecision, TypeOK, world
  <1>7. CASE Conflict(s)
    BY <1>7, IdleTypes DEF Conflict, TypeOK
  <1>8. CASE ScanFails(s)
    <2>1. mishaps' \in 0..MaxMishaps
      BY <1>8, NewsAssumption DEF ScanFails, TypeOK
    <2> QED
      BY <1>8, <2>1, IdleTypes DEF ScanFails
  <1> QED
    BY <1>1, <1>2, <1>3, <1>4, <1>5, <1>6, <1>7, <1>8 DEF Step

LEMMA NextTypes == TypeOK /\ [Next]_vars => TypeOK'
  <1> SUFFICES ASSUME TypeOK, [Next]_vars PROVE TypeOK'
    OBVIOUS
  <1>1. CASE \E s \in Scanners : Step(s)
    BY <1>1, StepTypes
  <1>2. CASE \E a \in Articles : Publish(a)
    BY <1>2 DEF Publish, TypeOK, world, tables, local, Headline, Time
  <1>3. CASE \E a \in Articles : Edit(a)
    BY <1>3 DEF Edit, TypeOK, tables, local, Headline
  <1>4. CASE \E x \in Experiments : Start(x) \/ Halt(x)
    BY <1>4 DEF Start, Halt, TypeOK, world, tables, local, Time
  <1>5. CASE Tick
    <2>1. clock' \in Time /\ clock + 1 \in Time
      BY <1>5, NewsAssumption DEF Tick, TypeOK, Time
    <2>2. begun' \in [Scanners -> Time \cup {NoTime}] /\ mishaps' \in 0..MaxMishaps
      BY <1>5, <2>1, NewsAssumption DEF Tick, TypeOK
    <2> QED
      BY <1>5, <2>1, <2>2 DEF Tick, TypeOK, world, tables, local
  <1>6. CASE UNCHANGED vars
    BY <1>6 DEF TypeOK, vars, world, tables, local
  <1> QED
    BY <1>1, <1>2, <1>3, <1>4, <1>5, <1>6 DEF Next

-----------------------------------------------------------------------------
(***************************************************************************)
(* Relevance                                                               *)
(***************************************************************************)

\* An impact that is on record is never written again: the unique
\* constraint refuses a second row, and a row that was found is not updated.
LEMMA RecordedStays ==
    ASSUME TypeOK, NEW s \in Scanners, Store(s),
           NEW i \in Articles \X Symbols, impact[i] # NoImpact
    PROVE  impact'[i] = impact[i]
  <1> DEFINE j == <<entry[s].article, entry[s].symbol>>
  <1>1. j \in Articles \X Symbols
    BY EntryTypes DEF Store
  <1>3. ~Duplicate(s)
    BY DEF Store
  <1>4. i = j => ~isNew[s].impact
    BY <1>3 DEF Duplicate
  <1>5. impact' = [impact EXCEPT ![j] =
                      IF isNew[s].impact THEN Relevance(entry[s].text) ELSE impact[j]]
    BY DEF Store
  <1>6. impact \in [Articles \X Symbols -> {NoImpact, 70, 85}]
    BY DEF TypeOK
  <1> HIDE DEF j
  <1> QED
    BY <1>1, <1>4, <1>5, <1>6

\* The targets of the round that has just stored its rows.
LEMMA StoreTargets ==
    ASSUME TypeOK, NEW s \in Scanners, Store(s), targets'[s] # {}
    PROVE  /\ impact'[<<entry[s].article, entry[s].symbol>>] >= Threshold
           /\ \A x \in targets'[s] : SymbolOf[x] = entry[s].symbol
  <1> DEFINE j == <<entry[s].article, entry[s].symbol>>
             stored == IF isNew[s].impact THEN Relevance(entry[s].text) ELSE impact[j]
  <1>1. j \in Articles \X Symbols /\ stored \in {NoImpact, 70, 85}
    BY EntryTypes, RelevanceTypes DEF Store, TypeOK
  <1>2. impact' = [impact EXCEPT ![j] = stored] /\ targets' = [targets EXCEPT ![s] = Targets(s, stored)]
    BY DEF Store
  <1>3. impact'[j] = stored /\ targets'[s] = Targets(s, stored)
    BY <1>1, <1>2 DEF TypeOK
  <1>4. ~(stored < Threshold) /\ \A x \in targets'[s] : SymbolOf[x] = entry[s].symbol
    BY <1>3 DEF Targets, RunningWith
  <1>5. stored >= Threshold
    BY <1>1, <1>4, NewsAssumption DEF NoImpact
  <1> QED
    BY <1>3, <1>4, <1>5

\* The invariant's second part is kept by a scan that leaves the others alone, if
\* it is left with no target, or with some of those it had.
LEMMA FewerTargets ==
    ASSUME TypeOK, TargetInv, NEW s \in Scanners, UNCHANGED impact,
           targets' = [targets EXCEPT ![s] = targets'[s]],
           pc' = [pc EXCEPT ![s] = pc'[s]], entry' = [entry EXCEPT ![s] = entry'[s]],
           targets'[s] # {} => /\ targets'[s] \subseteq targets[s]
                               /\ entry'[s] = entry[s] /\ pc'[s] \in {"trigger", "insert"}
    PROVE  TargetInv'
  BY DEF TypeOK, TargetInv

\* A round that has no targets yet or no longer.
LEMMA StepTargets ==
    ASSUME IInv, NEW s \in Scanners, Step(s)
    PROVE  TargetInv'
  <1>0. TypeOK /\ TargetInv
    BY DEF IInv
  <1>1. CASE Scan(s)
    <2>1. pc[s] = "idle" /\ targets[s] = {}
      BY <1>0, <1>1 DEF Scan, TargetInv
    <2> QED
      BY <1>0, <1>1, <2>1, FewerTargets DEF Scan, TypeOK, tables
  <1>2. CASE Look(s)
    <2>1. targets[s] = {} /\ UNCHANGED <<impact, targets>>
      BY <1>0, <1>2 DEF Look, TargetInv, tables
    <2>2. PICK e : entry' = [entry EXCEPT ![s] = e]
      BY <1>2 DEF Look
    <2>3. entry' = [entry EXCEPT ![s] = entry'[s]] /\ pc' = [pc EXCEPT ![s] = pc'[s]]
      BY <1>0, <1>2, <2>2 DEF Look, TypeOK
    <2> QED
      BY <1>0, <2>1, <2>3, FewerTargets DEF TypeOK
  <1>3. CASE Store(s)
    <2> SUFFICES ASSUME NEW u \in Scanners, targets'[u] # {}
                 PROVE  /\ pc'[u] \in {"trigger", "insert"}
                        /\ impact'[<<entry'[u].article, entry'[u].symbol>>] >= Threshold
                        /\ \A x \in targets'[u] : SymbolOf[x] = entry'[u].symbol
      BY DEF TargetInv
    <2>1. CASE u = s
      BY <1>0, <1>3, <2>1, StoreTargets DEF Store, TypeOK
    <2>2. CASE u # s
      <3>1. targets'[u] = targets[u] /\ pc'[u] = pc[u] /\ entry'[u] = entry[u]
        BY <1>0, <1>3, <2>2 DEF Store, TypeOK
      <3>2. /\ pc[u] \in {"trigger", "insert"}
            /\ impact[<<entry[u].article, entry[u].symbol>>] >= Threshold
            /\ \A x \in targets[u] : SymbolOf[x] = entry[u].symbol
        BY <1>0, <3>1 DEF TargetInv
      <3>3. <<entry[u].article, entry[u].symbol>> \in Articles \X Symbols
        BY <1>0, <3>2, EntryTypes
      <3>4. impact'[<<entry[u].article, entry[u].symbol>>] = impact[<<entry[u].article, entry[u].symbol>>]
        BY <1>0, <1>3, <3>2, <3>3, RecordedStays, NewsAssumption DEF NoImpact
      <3> QED
        BY <3>1, <3>2, <3>4
    <2> QED
      BY <2>1, <2>2
  <1>4. CASE NextEntry(s)
    <2>1. targets[s] = {} /\ UNCHANGED impact
      BY <1>4 DEF NextEntry, tables
    <2>2. CASE Idle(s)
      <3>1. targets' = [targets EXCEPT ![s] = {}]
        BY <2>2 DEF Idle
      <3>2. targets'[s] = {} /\ targets' = [targets EXCEPT ![s] = targets'[s]]
        BY <1>0, <3>1 DEF TypeOK
      <3>3. pc' = [pc EXCEPT ![s] = pc'[s]] /\ entry' = [entry EXCEPT ![s] = entry'[s]]
        BY <1>0, <2>2 DEF Idle, TypeOK
      <3> QED
        BY <1>0, <2>1, <3>2, <3>3, FewerTargets
    <2>3. CASE ~Idle(s)
      <3>1. UNCHANGED <<targets, entry>>
        BY <1>4, <2>3 DEF NextEntry
      <3>2. targets'[s] = {} /\ targets' = [targets EXCEPT ![s] = targets'[s]]
        BY <1>0, <2>1, <3>1 DEF TypeOK
      <3>3. pc' = [pc EXCEPT ![s] = pc'[s]] /\ entry' = [entry EXCEPT ![s] = entry'[s]]
        BY <1>0, <1>4, <2>3, <3>1 DEF NextEntry, TypeOK
      <3> QED
        BY <1>0, <2>1, <3>2, <3>3, FewerTargets
    <2> QED
      BY <2>2, <2>3
  <1>5. CASE TriggerOnce(s)
    BY <1>0, <1>5, FewerTargets DEF TriggerOnce, TypeOK, tables
  <1>6. CASE InsertDecision(s)
    <2>1. /\ targets' = [targets EXCEPT ![s] = targets'[s]]
          /\ targets'[s] \subseteq targets[s]
      BY <1>0, <1>6 DEF InsertDecision, TypeOK
    <2>2. /\ pc' = [pc EXCEPT ![s] = pc'[s]] /\ pc'[s] = "trigger"
          /\ entry' = [entry EXCEPT ![s] = entry'[s]]
          /\ UNCHANGED <<impact, entry>>
      BY <1>0, <1>6 DEF InsertDecision, TypeOK
    <2> QED
      BY <1>0, <2>1, <2>2, FewerTargets
  <1>7. CASE Conflict(s) \/ ScanFails(s)
    <2>1. targets'[s] = {}
      BY <1>0, <1>7 DEF Conflict, ScanFails, Idle, TypeOK
    <2> QED
      BY <1>0, <1>7, <2>1, FewerTargets DEF Conflict, ScanFails, Idle, TypeOK, tables
  <1> QED
    BY <1>1, <1>2, <1>3, <1>4, <1>5, <1>6, <1>7 DEF Step

LEMMA StepRelevance ==
    ASSUME IInv, NEW s \in Scanners, Step(s)
    PROVE  DecisionIsRelevant'
  <1>0. TypeOK /\ TargetInv /\ DecisionIsRelevant
    BY DEF IInv
  <1> SUFFICES ASSUME NEW d \in decision'
               PROVE  impact'[<<d[1], SymbolOf[d[2]]>>] >= Threshold
    BY DEF DecisionIsRelevant
  <1>1. CASE InsertDecision(s) /\ d \notin decision
    <2>1. d = <<entry[s].article, cur[s]>> /\ pc[s] = "insert" /\ UNCHANGED impact
      BY <1>1 DEF InsertDecision
    <2>2. cur[s] \in targets[s]
      BY <1>0, <2>1 DEF TypeOK
    <2>3. SymbolOf[cur[s]] = entry[s].symbol
          /\ impact[<<entry[s].article, entry[s].symbol>>] >= Threshold
      BY <1>0, <2>2 DEF TargetInv
    <2> QED
      BY <2>1, <2>3
  <1>2. CASE d \in decision
    <2>1. d \in Articles \X Experiments /\ impact[<<d[1], SymbolOf[d[2]]>>] >= Threshold
      BY <1>0, <1>2 DEF TypeOK, DecisionIsRelevant
    <2>2. <<d[1], SymbolOf[d[2]]>> \in Articles \X Symbols
      BY <2>1, NewsAssumption
    <2>3. CASE Store(s)
      BY <1>0, <2>1, <2>2, <2>3, RecordedStays, NewsAssumption DEF NoImpact
    <2>4. CASE ~Store(s)
      <3>1. UNCHANGED impact
        BY <2>4 DEF Step, Scan, Look, NextEntry, TriggerOnce, InsertDecision, Conflict,
                    ScanFails, tables
      <3> QED
        BY <2>1, <3>1
    <2> QED
      BY <2>3, <2>4
  <1>3. decision' = decision \/ InsertDecision(s)
    BY DEF Step, Scan, Look, Store, NextEntry, TriggerOnce, InsertDecision, Conflict,
           ScanFails, tables
  <1> QED
    BY <1>1, <1>2, <1>3

-----------------------------------------------------------------------------
(***************************************************************************)
(* Serving in the window                                                   *)
(***************************************************************************)

\* The pair of an article and an experiment's symbol.
LEMMA PairTypes ==
    ASSUME NEW a \in Articles, NEW x \in Experiments
    PROVE  SymbolOf[x] \in Symbols /\ <<a, SymbolOf[x]>> \in Articles \X Symbols
  BY NewsAssumption

\* What a round stores is a relevance.
LEMMA StoredIsRelevance ==
    ASSUME TypeOK, FoundInv, NEW s \in Scanners, Store(s)
    PROVE  LET j == <<entry[s].article, entry[s].symbol>> IN
           /\ j \in Articles \X Symbols
           /\ impact'[j] \in {70, 85}
           /\ targets'[s] = Targets(s, impact'[j])
  <1> DEFINE j == <<entry[s].article, entry[s].symbol>>
             stored == IF isNew[s].impact THEN Relevance(entry[s].text) ELSE impact[j]
  <1>1. pc[s] = "store" /\ j \in Articles \X Symbols /\ entry[s].text \in Headline
    BY EntryTypes DEF Store
  <1>2. impact[j] \in {NoImpact, 70, 85}
    BY <1>1 DEF TypeOK
  <1>3. ~isNew[s].impact => impact[j] # NoImpact
    BY <1>1 DEF FoundInv
  <1>4. stored \in {70, 85}
    BY <1>1, <1>2, <1>3, RelevanceTypes
  <1>5. impact' = [impact EXCEPT ![j] = stored] /\ targets' = [targets EXCEPT ![s] = Targets(s, stored)]
    BY DEF Store
  <1> HIDE DEF j, stored
  <1>6. impact'[j] = stored /\ targets'[s] = Targets(s, stored)
    BY <1>1, <1>5 DEF TypeOK
  <1>7. j \in Articles \X Symbols /\ impact'[j] \in {70, 85} /\ targets'[s] = Targets(s, impact'[j])
    BY <1>1, <1>4, <1>6
  <1> QED
    BY <1>7 DEF j

\* Only Store writes an impact.
LEMMA ImpactStays ==
    ASSUME TypeOK, NEW s \in Scanners, Step(s),
           NEW i \in Articles \X Symbols, impact[i] # NoImpact
    PROVE  impact'[i] = impact[i]
  <1>1. CASE Store(s)
    BY <1>1, RecordedStays
  <1>2. CASE ~Store(s)
    BY <1>2 DEF Step, Scan, Look, NextEntry, TriggerOnce, InsertDecision, Conflict, ScanFails, tables
  <1> QED
    BY <1>1, <1>2

\* An experiment that is served stays served.
LEMMA ServedStays ==
    ASSUME TypeOK, NEW s \in Scanners, Step(s),
           NEW a \in Articles, NEW x \in Experiments, Served(a, x)
    PROVE  Served(a, x)'
  <1>1. decision \subseteq decision'
    BY DEF Step, Scan, Look, Store, NextEntry, TriggerOnce, InsertDecision, Conflict,
           ScanFails, tables
  <1>2. CASE <<a, x>> \in decision
    BY <1>1, <1>2 DEF Served
  <1>3. CASE impact[<<a, SymbolOf[x]>>] \in {70, 85} /\ impact[<<a, SymbolOf[x]>>] < Threshold
    <2>1. impact'[<<a, SymbolOf[x]>>] = impact[<<a, SymbolOf[x]>>]
      BY <1>3, PairTypes, ImpactStays DEF NoImpact
    <2> QED
      BY <1>3, <2>1 DEF Served
  <1> QED
    BY <1>2, <1>3 DEF Served

\* What one scan does leaves the local variables of the others alone.
LEMMA OthersStay ==
    ASSUME TypeOK, NEW s \in Scanners, Step(s), NEW u \in Scanners \ {s}
    PROVE  /\ pc'[u] = pc[u] /\ begun'[u] = begun[u] /\ todo'[u] = todo[u]
           /\ entry'[u] = entry[u] /\ isNew'[u] = isNew[u]
           /\ targets'[u] = targets[u] /\ cur'[u] = cur[u]
  <1>1. CASE Idle(s) /\ UNCHANGED begun
    BY <1>1 DEF Idle, TypeOK
  <1>2. CASE Scan(s)
    BY <1>2 DEF Scan, TypeOK
  <1>3. CASE Look(s)
    BY <1>3 DEF Look, TypeOK
  <1>4. CASE Store(s)
    BY <1>4 DEF Store, TypeOK
  <1>5. CASE NextEntry(s) /\ ~Idle(s)
    BY <1>5 DEF NextEntry, TypeOK
  <1>6. CASE TriggerOnce(s)
    BY <1>6 DEF TriggerOnce, TypeOK
  <1>7. CASE InsertDecision(s)
    BY <1>7 DEF InsertDecision, TypeOK
  <1> QED
    BY <1>1, <1>2, <1>3, <1>4, <1>5, <1>6, <1>7 DEF Step, NextEntry, Conflict, ScanFails

LEMMA StepFound ==
    ASSUME TypeOK, FoundInv, NEW s \in Scanners, Step(s)
    PROVE  FoundInv'
  <1> SUFFICES ASSUME NEW u \in Scanners, pc'[u] = "store", ~isNew'[u].impact
               PROVE  impact'[<<entry'[u].article, entry'[u].symbol>>] # NoImpact
    BY DEF FoundInv
  <1>1. CASE u # s
    <2>1. pc[u] = "store" /\ ~isNew[u].impact /\ entry'[u] = entry[u]
      BY <1>1, OthersStay
    <2>2. /\ impact[<<entry[u].article, entry[u].symbol>>] # NoImpact
          /\ <<entry[u].article, entry[u].symbol>> \in Articles \X Symbols
      BY <2>1, EntryTypes DEF FoundInv
    <2>3. impact'[<<entry[u].article, entry[u].symbol>>] # NoImpact
      BY <2>2, ImpactStays
    <2> QED
      BY <2>1, <2>3
  <1>2. CASE u = s
    <2>1. Look(s)
      BY <1>2 DEF Step, Scan, Look, Store, NextEntry, TriggerOnce, InsertDecision, Conflict,
                  ScanFails, Idle, TypeOK
    <2>2. PICK e \in Newest(todo[s]) :
             /\ entry' = [entry EXCEPT ![s] = e]
             /\ isNew' = [isNew EXCEPT ![s] =
                   [event |-> e.article \notin event,
                    impact |-> impact[<<e.article, e.symbol>>] = NoImpact]]
      BY <2>1 DEF Look
    <2>3. entry'[s] = e /\ (isNew'[s].impact <=> impact[<<e.article, e.symbol>>] = NoImpact)
      BY <2>2 DEF TypeOK
    <2>4. UNCHANGED impact
      BY <2>1 DEF Look, tables
    <2> QED
      BY <1>2, <2>3, <2>4
  <1> QED
    BY <1>1, <1>2

LEMMA StepTime ==
    ASSUME TypeOK, TimeInv, NEW s \in Scanners, Step(s)
    PROVE  TimeInv'
  <1>1. UNCHANGED <<clock, published>>
    BY DEF Step, Scan, Look, Store, NextEntry, TriggerOnce, InsertDecision, Conflict,
           ScanFails, world
  <1>2. begun' = begun \/ begun' = [begun EXCEPT ![s] = clock]
    BY DEF Step, Scan, Look, Store, NextEntry, TriggerOnce, InsertDecision, Conflict, ScanFails
  <1>3. \A u \in Scanners : begun'[u] \in {begun[u], clock}
    BY <1>2 DEF TypeOK
  <1>4. clock \in Int
    BY NewsAssumption DEF TypeOK, Time
  <1> QED
    BY <1>1, <1>3, <1>4 DEF TimeInv

\* A scan that begins in the window finds the article.
LEMMA ScanReaches ==
    ASSUME TypeOK, NEW s \in Scanners, Scan(s),
           NEW a \in Articles, NEW x \in Experiments, Waits(a, x),
           clock <= published[a] + Lookback
    PROVE  Reaches(s, a, x)' /\ pc'[s] = "look"
  <1> DEFINE S == {SymbolOf[y] : y \in {z \in Experiments : since[z] # NoTime}}
             e == [article |-> a, symbol |-> SymbolOf[x], text |-> headline[a]]
  <1>1. SymbolOf[x] \in S
    BY DEF Waits
  <1>2. published[a] >= clock - Lookback
    BY NewsAssumption DEF TypeOK, Waits, Time
  <1>3. <<a, SymbolOf[x]>> \in {j \in Articles \X S :
                  /\ published[j[1]] # NoTime
                  /\ published[j[1]] >= clock - Lookback
                  /\ j[2] \in about[j[1]]}
    BY <1>1, <1>2 DEF Waits
  <1>4. e \in Fetched(S)
    BY <1>3 DEF Fetched
  <1>5. /\ todo' = [todo EXCEPT ![s] = Fetched(S)]
        /\ pc' = [pc EXCEPT ![s] = IF Fetched(S) = {} THEN "idle" ELSE "look"]
    BY DEF Scan
  <1> HIDE DEF S
  <1>6. todo'[s] = Fetched(S) /\ pc'[s] = "look"
    BY <1>4, <1>5 DEF TypeOK
  <1> QED
    BY <1>4, <1>6 DEF Reaches

\* A scan that goes on still reaches the article, until x is served.
LEMMA StepReaches ==
    ASSUME IInv, NEW s \in Scanners,
           Look(s) \/ Store(s) \/ NextEntry(s) \/ TriggerOnce(s) \/ InsertDecision(s),
           NEW a \in Articles, NEW x \in Experiments, Waits(a, x),
           Reaches(s, a, x), ~Served(a, x)'
    PROVE  Reaches(s, a, x)' /\ pc'[s] # "idle" /\ ~Doomed(s)'
  <1>0. TypeOK /\ FoundInv
    BY DEF IInv
  <1>1. CASE Look(s)
    <2>1. PICK e \in Newest(todo[s]) :
             /\ entry' = [entry EXCEPT ![s] = e]
             /\ isNew' = [isNew EXCEPT ![s] =
                   [event |-> e.article \notin event,
                    impact |-> impact[<<e.article, e.symbol>>] = NoImpact]]
      BY <1>1 DEF Look
    <2>2. /\ entry'[s] = e
          /\ isNew'[s].event <=> e.article \notin event
          /\ isNew'[s].impact <=> impact[<<e.article, e.symbol>>] = NoImpact
      BY <1>0, <2>1 DEF TypeOK
    <2>3. pc'[s] = "store" /\ UNCHANGED <<tables, todo>>
      BY <1>0, <1>1 DEF Look, TypeOK
    <2> QED
      BY <2>2, <2>3 DEF Reaches, Doomed, Duplicate, tables
  <1>2. CASE Store(s)
    <2> DEFINE j == <<entry[s].article, entry[s].symbol>>
    <2>1. impact'[j] \in {70, 85} /\ targets'[s] = Targets(s, impact'[j])
      BY <1>0, <1>2, StoredIsRelevance
    <2>2. pc'[s] = "trigger" /\ UNCHANGED <<todo, entry>>
      BY <1>0, <1>2 DEF Store, TypeOK
    <2>3. (entry[s].article = a /\ entry[s].symbol = SymbolOf[x]) => x \in targets'[s]
      BY <2>1 DEF Served, Targets, RunningWith, Waits
    <2> QED
      BY <2>2, <2>3 DEF Reaches, Doomed
  <1>3. CASE NextEntry(s)
    <2>1. PICK e \in todo[s] : e.article = a /\ e.symbol = SymbolOf[x]
      BY DEF Reaches
    <2>2. e # entry[s]
      BY <1>3, <2>1 DEF NextEntry, Reaches
    <2>3. todo' = [todo EXCEPT ![s] = @ \ {entry[s]}] /\ pc' = [pc EXCEPT ![s] = "look"]
      BY <1>3, <2>1, <2>2 DEF NextEntry
    <2>4. e \in todo'[s] /\ pc'[s] = "look"
      BY <1>0, <2>1, <2>2, <2>3 DEF TypeOK
    <2> QED
      BY <2>1, <2>4 DEF Reaches, Doomed
  <1>4. CASE TriggerOnce(s)
    <2>1. pc[s] = "trigger" /\ UNCHANGED <<todo, entry, tables>>
      BY <1>4 DEF TriggerOnce
    <2>2. PICK y \in targets[s] :
             \/ /\ <<entry[s].article, y>> \in decision
                /\ targets' = [targets EXCEPT ![s] = @ \ {y}]
                /\ UNCHANGED pc
             \/ /\ <<entry[s].article, y>> \notin decision
                /\ cur' = [cur EXCEPT ![s] = y]
                /\ pc' = [pc EXCEPT ![s] = "insert"]
                /\ UNCHANGED targets
      BY <1>4 DEF TriggerOnce
    <2>3. CASE /\ <<entry[s].article, y>> \in decision
               /\ targets' = [targets EXCEPT ![s] = @ \ {y}]
               /\ UNCHANGED pc
      <3>1. targets'[s] = targets[s] \ {y}
        BY <1>0, <2>3 DEF TypeOK
      <3>2. entry[s].article = a => y # x
        BY <2>1, <2>3 DEF Served, tables
      <3> QED
        BY <2>1, <2>3, <3>1, <3>2 DEF Reaches, Doomed
    <2>4. CASE /\ <<entry[s].article, y>> \notin decision
               /\ cur' = [cur EXCEPT ![s] = y]
               /\ pc' = [pc EXCEPT ![s] = "insert"]
               /\ UNCHANGED targets
      <3>1. cur'[s] = y /\ pc'[s] = "insert"
        BY <1>0, <2>4 DEF TypeOK
      <3> QED
        BY <2>1, <2>4, <3>1 DEF Reaches, Doomed, tables
    <2> QED
      BY <2>2, <2>3, <2>4
  <1>5. CASE InsertDecision(s)
    <2>1. /\ pc[s] = "insert" /\ UNCHANGED <<todo, entry>>
          /\ decision' = decision \cup {<<entry[s].article, cur[s]>>}
      BY <1>5 DEF InsertDecision
    <2>2. targets'[s] = targets[s] \ {cur[s]} /\ pc'[s] = "trigger"
      BY <1>0, <1>5 DEF InsertDecision, TypeOK
    <2>3. entry[s].article = a => cur[s] # x
      BY <2>1 DEF Served
    <2> QED
      BY <2>1, <2>2, <2>3 DEF Reaches, Doomed
  <1> QED
    BY <1>1, <1>2, <1>3, <1>4, <1>5

\* An interval that may serve x keeps doing so: a scan that is stopped by a conflict
\* was doomed, so another one is alive, and one that takes any other step is.
LEMMA StepHope ==
    ASSUME IInv, NEW s \in Scanners, Step(s), ~ScanFails(s),
           NEW a \in Articles, NEW x \in Experiments, Waits(a, x),
           clock <= published[a] + Lookback, Hope(a, x), ~Served(a, x)'
    PROVE  Hope(a, x)'
  <1>0. TypeOK
    BY DEF IInv
  <1>1. \A u \in Scanners \ {s} : pc'[u] # "idle" => Reaches(u, a, x)'
    BY <1>0, OthersStay DEF Hope, Reaches
  <1>2. CASE Conflict(s)
    <2>1. pc[s] # "idle" /\ Doomed(s) /\ pc'[s] = "idle" /\ UNCHANGED <<clock, tables>>
      BY <1>0, <1>2 DEF Conflict, Doomed, Idle, TypeOK
    <2>2. PICK w \in Scanners : Alive(w)
      BY DEF Hope
    <2>3. w # s
      BY <2>1, <2>2 DEF Alive
    <2>4. /\ pc'[w] = pc[w] /\ begun'[w] = begun[w]
          /\ entry'[w] = entry[w] /\ isNew'[w] = isNew[w] /\ cur'[w] = cur[w]
      BY <1>0, <2>3, OthersStay
    <2>5. Alive(w)'
      BY <2>1, <2>2, <2>4 DEF Alive, Doomed, Duplicate, tables
    <2> QED
      BY <1>1, <2>1, <2>5 DEF Hope
  <1>3. CASE ~Conflict(s)
    <2>1. Reaches(s, a, x)' /\ pc'[s] # "idle" /\ ~Doomed(s)'
      <3>1. CASE Scan(s)
        BY <1>0, <3>1, ScanReaches DEF Doomed
      <3>2. CASE Look(s) \/ Store(s) \/ NextEntry(s) \/ TriggerOnce(s) \/ InsertDecision(s)
        <4>1. pc[s] # "idle"
          BY <3>2 DEF Look, Store, NextEntry, TriggerOnce, InsertDecision
        <4>2. Reaches(s, a, x)
          BY <4>1 DEF Hope
        <4> QED
          BY <3>2, <4>2, StepReaches
      <3> QED
        BY <1>3, <3>1, <3>2 DEF Step
    <2>2. Alive(s)'
      BY <2>1 DEF Alive
    <2> QED
      BY <1>1, <2>1, <2>2 DEF Hope
  <1> QED
    BY <1>2, <1>3

LEMMA StepCount ==
    ASSUME IInv, NEW s \in Scanners, Step(s)
    PROVE  CountInv'
  <1>0. TypeOK /\ CountInv
    BY DEF IInv
  <1>1. UNCHANGED <<clock, published, about, since>>
    BY DEF Step, Scan, Look, Store, NextEntry, TriggerOnce, InsertDecision, Conflict,
           ScanFails, world
  <1>2. mishaps' = IF ScanFails(s) THEN mishaps + 1 ELSE mishaps
    BY DEF Step, Scan, Look, Store, NextEntry, TriggerOnce, InsertDecision, Conflict, ScanFails
  <1> SUFFICES ASSUME NEW a \in Articles, NEW x \in Experiments,
                      Waits(a, x)', ~Served(a, x)', clock' > published'[a]
               PROVE  \/ mishaps' >= Lookback
                      \/ mishaps' >= clock' - published'[a]
                      \/ /\ mishaps' >= clock' - published'[a] - 1
                         /\ clock' <= published'[a] + Lookback
                         /\ Hope(a, x)'
    BY DEF CountInv
  <1>3. Waits(a, x) /\ ~Served(a, x) /\ clock > published[a]
    BY <1>0, <1>1, ServedStays DEF Waits
  <1>4. \/ mishaps >= Lookback
        \/ mishaps >= clock - published[a]
        \/ /\ mishaps >= clock - published[a] - 1
           /\ clock <= published[a] + Lookback
           /\ Hope(a, x)
    BY <1>0, <1>3 DEF CountInv
  <1>5. mishaps \in Nat /\ Lookback \in Nat /\ clock \in Nat /\ published[a] \in Int
    BY <1>0, NewsAssumption DEF TypeOK, Time, NoTime
  <1>6. CASE ScanFails(s)
    BY <1>1, <1>2, <1>4, <1>5, <1>6
  <1>7. CASE ~ScanFails(s)
    <2>1. CASE Hope(a, x) /\ clock <= published[a] + Lookback
      BY <1>1, <1>2, <1>3, <1>4, <1>7, <2>1, StepHope
    <2>2. CASE ~(Hope(a, x) /\ clock <= published[a] + Lookback)
      BY <1>1, <1>2, <1>4, <1>7, <2>2
    <2> QED
      BY <2>1, <2>2
  <1> QED
    BY <1>6, <1>7

\* The next interval: if it comes without a mishap, every scan has ended, so that
\* the interval before has not kept its promise; all scanners begin anew.
LEMMA TickCount ==
    ASSUME IInv, Tick
    PROVE  CountInv' /\ TimeInv'
  <1>0. TypeOK /\ CountInv /\ TimeInv
    BY DEF IInv
  <1>1. /\ clock' = clock + 1
        /\ UNCHANGED <<published, about, since, event, impact, decision, pc,
                       todo, entry, isNew, targets, cur>>
    BY DEF Tick, world, tables, local
  <1>2. /\ clock \in Nat /\ mishaps \in Nat /\ Lookback \in Nat
        /\ \A u \in Scanners : begun[u] \in Int
        /\ \A b \in Articles : published[b] \in Int
    BY <1>0, NewsAssumption DEF TypeOK, Time, NoTime
  <1>3. \/ Late = {} /\ UNCHANGED <<begun, mishaps>>
        \/ /\ mishaps' = mishaps + 1
           /\ \E s \in Scanners :
                 /\ Late = {s}
                 /\ begun' = IF pc[s] = "idle" THEN begun ELSE [begun EXCEPT ![s] = clock + 1]
    BY DEF Tick
  <1>4. TimeInv'
    <2>1. \A u \in Scanners : begun'[u] \in {begun[u], clock + 1}
      <3>1. DOMAIN begun = Scanners
        BY <1>0 DEF TypeOK
      <3>2. CASE begun' = begun
        BY <3>2
      <3>3. CASE \E s \in Scanners : begun' = [begun EXCEPT ![s] = clock + 1]
        BY <3>1, <3>3
      <3> QED
        BY <1>3, <3>2, <3>3
    <2>2. \A u \in Scanners : begun[u] <= clock
      BY <1>0 DEF TimeInv
    <2>3. \A u \in Scanners : begun'[u] <= clock'
      BY <1>1, <1>2, <2>1, <2>2
    <2>4. \A a \in Articles : published'[a] <= clock'
      <3>1. \A a \in Articles : published[a] <= clock
        BY <1>0 DEF TimeInv
      <3> QED
        BY <1>1, <1>2, <3>1
    <2> QED
      BY <2>3, <2>4 DEF TimeInv
  <1> SUFFICES ASSUME NEW a \in Articles, NEW x \in Experiments,
                      Waits(a, x)', ~Served(a, x)', clock' > published'[a]
               PROVE  \/ mishaps' >= Lookback
                      \/ mishaps' >= clock' - published'[a]
                      \/ /\ mishaps' >= clock' - published'[a] - 1
                         /\ clock' <= published'[a] + Lookback
                         /\ Hope(a, x)'
    BY <1>4 DEF CountInv
  <1>5. Waits(a, x) /\ ~Served(a, x) /\ published[a] <= clock /\ published' = published
    BY <1>0, <1>1 DEF Waits, Served, TimeInv
  <1>6. clock > published[a] =>
            \/ mishaps >= Lookback
            \/ mishaps >= clock - published[a]
            \/ /\ mishaps >= clock - published[a] - 1
               /\ clock <= published[a] + Lookback
               /\ Hope(a, x)
    BY <1>0, <1>5 DEF CountInv
  <1>7. CASE Late = {} /\ UNCHANGED <<begun, mishaps>>
    <2>1. \A u \in Scanners : pc[u] = "idle" /\ begun[u] = clock
      BY <1>7 DEF Late
    <2>2. ~Hope(a, x)
      BY <2>1 DEF Hope, Alive
    <2>3. \A u \in Scanners : pc'[u] = "idle" /\ begun'[u] # clock'
      BY <1>1, <1>2, <1>7, <2>1
    <2>4. Hope(a, x)'
      BY <2>3, NewsAssumption DEF Hope, Alive
    <2>5. mishaps >= Lookback \/ mishaps >= clock - published[a]
      BY <1>2, <1>5, <1>6, <2>2
    <2> QED
      BY <1>1, <1>2, <1>5, <1>7, <2>4, <2>5
  <1>8. CASE /\ mishaps' = mishaps + 1
             /\ \E s \in Scanners :
                   /\ Late = {s}
                   /\ begun' = IF pc[s] = "idle" THEN begun ELSE [begun EXCEPT ![s] = clock + 1]
    <2>1. CASE clock > published[a] /\ Hope(a, x)
      <3>1. PICK s \in Scanners :
               /\ Late = {s}
               /\ begun' = IF pc[s] = "idle" THEN begun ELSE [begun EXCEPT ![s] = clock + 1]
        BY <1>8
      <3>2. PICK w \in Scanners : Alive(w)
        BY <2>1 DEF Hope
      <3>3. Alive(w)'
        <4>1. CASE pc[w] = "idle"
          <5>1. begun[w] # clock
            BY <3>2, <4>1 DEF Alive
          <5>2. w = s
            BY <3>1, <5>1 DEF Late
          <5>3. begun'[w] = begun[w] /\ begun[w] <= clock
            BY <1>0, <3>1, <4>1, <5>2 DEF TimeInv
          <5>4. begun'[w] # clock'
            BY <1>1, <1>2, <5>3
          <5> QED
            BY <1>1, <4>1, <5>4 DEF Alive
        <4>2. CASE pc[w] # "idle"
          BY <1>1, <3>2, <4>2 DEF Alive, Doomed, Duplicate
        <4> QED
          BY <4>1, <4>2
      <3>4. \A u \in Scanners : pc'[u] # "idle" => Reaches(u, a, x)'
        BY <1>1, <2>1 DEF Hope, Reaches
      <3>5. Hope(a, x)'
        BY <3>3, <3>4 DEF Hope
      <3> QED
        BY <1>1, <1>2, <1>5, <1>6, <1>8, <2>1, <3>5
    <2>2. CASE ~(clock > published[a] /\ Hope(a, x))
      BY <1>1, <1>2, <1>5, <1>6, <1>8, <2>2
    <2> QED
      BY <2>1, <2>2
  <1> QED
    BY <1>3, <1>7, <1>8

\* News and users: an article that comes out, or an experiment that is started, now
\* is not of an earlier interval.
LEMMA WorldCount ==
    ASSUME IInv,
           \/ \E a \in Articles : Publish(a) \/ Edit(a)
           \/ \E x \in Experiments : Start(x) \/ Halt(x)
           \/ UNCHANGED vars
    PROVE  CountInv' /\ TimeInv'
  <1>0. TypeOK /\ CountInv /\ TimeInv
    BY DEF IInv
  <1>1. UNCHANGED <<clock, event, impact, decision, pc, begun, todo, entry, isNew, targets, cur, mishaps>>
    BY DEF Publish, Edit, Start, Halt, vars, tables, local
  <1>2. clock \in Nat /\ NoTime = -1
    BY <1>0, NewsAssumption DEF TypeOK, Time, NoTime
  <1>3. \A a \in Articles : published'[a] = clock \/ (published'[a] = published[a] /\ about'[a] = about[a])
    BY <1>0 DEF Publish, Edit, Start, Halt, vars, world, TypeOK
  <1>4. \A x \in Experiments : since'[x] \in {clock, NoTime, since[x]}
    BY <1>0 DEF Publish, Edit, Start, Halt, vars, world, TypeOK
  <1>5. TimeInv'
    BY <1>0, <1>1, <1>2, <1>3 DEF TimeInv
  <1> SUFFICES ASSUME NEW a \in Articles, NEW x \in Experiments,
                      Waits(a, x)', ~Served(a, x)', clock' > published'[a]
               PROVE  \/ mishaps' >= Lookback
                      \/ mishaps' >= clock' - published'[a]
                      \/ /\ mishaps' >= clock' - published'[a] - 1
                         /\ clock' <= published'[a] + Lookback
                         /\ Hope(a, x)'
    BY <1>5 DEF CountInv
  <1>6. published'[a] = published[a] /\ about'[a] = about[a] /\ published[a] \in Int
    BY <1>0, <1>1, <1>2, <1>3 DEF TypeOK, Time
  <1>7. since'[x] = since[x]
    <2>1. since'[x] # NoTime /\ since'[x] <= published[a] /\ clock > published[a]
      BY <1>1, <1>6 DEF Waits
    <2> QED
      BY <1>2, <1>4, <1>6, <2>1
  <1>8. Waits(a, x) /\ ~Served(a, x) /\ clock > published[a]
    BY <1>1, <1>6, <1>7 DEF Waits, Served
  <1>9. Hope(a, x)' <=> Hope(a, x)
    BY <1>1 DEF Hope, Alive, Reaches, Doomed, Duplicate
  <1> QED
    BY <1>0, <1>1, <1>6, <1>8, <1>9 DEF CountInv

-----------------------------------------------------------------------------

LEMMA InitInv == Init => IInv
  <1> SUFFICES ASSUME Init PROVE IInv
    OBVIOUS
  <1>1. TypeOK
    BY InitTypes
  <1>2. TargetInv /\ DecisionIsRelevant /\ FoundInv
    BY DEF TargetInv, DecisionIsRelevant, FoundInv, Init
  <1>3. TimeInv /\ CountInv
    BY DEF TimeInv, CountInv, Waits, Init, NoTime
  <1> QED
    BY <1>1, <1>2, <1>3 DEF IInv

LEMMA NextInv == IInv /\ [Next]_vars => IInv'
  <1> SUFFICES ASSUME IInv, [Next]_vars PROVE IInv'
    OBVIOUS
  <1>1. TypeOK'
    BY NextTypes DEF IInv
  <1>2. CASE \E s \in Scanners : Step(s)
    BY <1>1, <1>2, StepTargets, StepRelevance, StepFound, StepTime, StepCount DEF IInv
  <1>3. CASE ~ \E s \in Scanners : Step(s)
    <2>1. UNCHANGED <<impact, decision, pc, entry, isNew, targets>>
      BY <1>3 DEF Next, Publish, Edit, Start, Halt, Tick, vars, world, tables, local
    <2>2. TargetInv' /\ DecisionIsRelevant' /\ FoundInv'
      BY <2>1 DEF IInv, TargetInv, DecisionIsRelevant, FoundInv
    <2>3. CountInv' /\ TimeInv'
      BY <1>3, TickCount, WorldCount DEF Next
    <2> QED
      BY <1>1, <2>2, <2>3 DEF IInv
  <1> QED
    BY <1>2, <1>3

\* Every variable of the scanner stays in its type.
THEOREM TypeCorrect == Spec => []TypeOK
  <1>1. TypeOK /\ [Next]_vars => TypeOK'
    BY NextTypes
  <1> QED
    BY <1>1, InitTypes, PTL DEF Spec

\* BR-027C: every decision is about an impact that is on record and relevant.
THEOREM DecisionsAreRelevant == Spec => []DecisionIsRelevant
  <1>1. IInv => DecisionIsRelevant
    BY DEF IInv
  <1> QED
    BY <1>1, InitInv, NextInv, PTL DEF Spec

\* No article is lost, with any number of scanning processes and conflicts between
\* them: as long as there were fewer mishaps than intervals in the window, an
\* experiment that was running all the time is served when the window has passed.
THEOREM ServedBeforeWindowEnds == Spec => []ServedInWindow
  <1>1. IInv => ServedInWindow
    <2> SUFFICES ASSUME IInv, mishaps < Lookback, NEW a \in Articles, NEW x \in Experiments,
                        Waits(a, x), clock > published[a] + Lookback, ~Served(a, x)
                 PROVE  FALSE
      BY DEF ServedInWindow
    <2>1. mishaps \in Nat /\ Lookback \in Nat /\ clock \in Nat /\ published[a] \in Int
      BY NewsAssumption DEF IInv, TypeOK, Time, NoTime
    <2>2. \/ mishaps >= Lookback
          \/ mishaps >= clock - published[a]
          \/ clock <= published[a] + Lookback
      BY <2>1 DEF IInv, CountInv
    <2> QED
      BY <2>1, <2>2
  <1> QED
    BY <1>1, InitInv, NextInv, PTL DEF Spec

\* A decision stands, with the relevance it was based on: no scan withdraws a
\* decision, stores an article again or reclassifies one that was found relevant.
THEOREM RelevantForEver ==
    Spec => [][ /\ decision \subseteq decision'
                /\ \A i \in Articles \X Symbols :
                       impact[i] >= Threshold => impact'[i] = impact[i] ]_vars
  <1> DEFINE Stands == /\ decision \subseteq decision'
                       /\ \A i \in Articles \X Symbols :
                              impact[i] >= Threshold => impact'[i] = impact[i]
  <1>1. TypeOK /\ [Next]_vars => [Stands]_vars
    <2> SUFFICES ASSUME TypeOK, Next
                 PROVE  Stands
      BY DEF Stands
    <2>1. CASE \E s \in Scanners : Store(s)
      <3>1. UNCHANGED decision
        BY <2>1 DEF Store
      <3>2. ASSUME NEW i \in Articles \X Symbols, impact[i] >= Threshold
            PROVE  impact'[i] = impact[i]
        BY <2>1, <3>2, RecordedStays, NewsAssumption DEF NoImpact
      <3> QED
        BY <3>1, <3>2
    <2>2. CASE \E s \in Scanners : InsertDecision(s)
      BY <2>2 DEF InsertDecision
    <2>3. CASE ~ \E s \in Scanners : Store(s) \/ InsertDecision(s)
      <3>1. UNCHANGED <<decision, impact>>
        BY <2>3 DEF Next, Step, Scan, Look, NextEntry, TriggerOnce, Conflict,
                    ScanFails, Publish, Edit, Start, Halt, Tick, world, tables
      <3> QED
        BY <3>1
    <2> QED
      BY <2>1, <2>2, <2>3
  <1> QED
    BY <1>1, TypeCorrect, PTL DEF Spec

=============================================================================
