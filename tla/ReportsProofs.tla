--------------------------- MODULE ReportsProofs ----------------------------
(***************************************************************************)
(* Proofs about Reports: it is a client of DiscoveryCache that adds no     *)
(* behaviour to it, so what is proved of the cache holds of every call     *)
(* made through it; and what a reading pieced together from several        *)
(* discoveries pairs, counts and reports.                                  *)
(***************************************************************************)
EXTENDS Reports, DiscoveryCacheProofs, SequenceTheorems

\* Discovering moves nobody, clears nothing, and is stamped no later than the
\* last clear.
LEMMA DiscoverQuiet ==
    ASSUME NEW t \in Threads, Discover(t) \/ Answer(t)
    PROVE  UNCHANGED <<system, clears, calm>>
BY DEF Discover, Ask, ReadOwnPath, PickMount, Probe, Store, Answer

LEMMA OwnIsProcess == Reporter \in Threads /\ Own \in Processes
BY ReporterAssumption, ProcessAssumption DEF Own

\* Every step of a report is a step of the cache or none.
LEMMA StepIsCacheStep == [ReportNext]_allVars => [Next]_vars
<1> SUFFICES ASSUME [ReportNext]_allVars
             PROVE  [Next]_vars
  OBVIOUS
<1>1. CASE Around
  BY <1>1, OwnIsProcess DEF Around, Next
<1>2. CASE \E kind \in setting.calls : Begin(kind)
  BY <1>2 DEF Begin
<1>3. CASE Lookup
  BY <1>3, OwnIsProcess DEF Lookup, Next
<1>4. CASE Answered
  BY <1>4, OwnIsProcess DEF Answered, Next
<1>5. CASE Judge \/ Return
  BY <1>5 DEF Judge, Return
<1>6. CASE UNCHANGED allVars
  BY <1>6 DEF allVars
<1> QED
  BY <1>1, <1>2, <1>3, <1>4, <1>5, <1>6 DEF ReportNext

\* The calls of the sensor are a client of the cache: what they do to it is what
\* DiscoveryCache allows, in every order.
THEOREM ImplementsCache == ReportSpec => Spec
<1>1. ReportInit => Init
  BY DEF ReportInit
<1> QED
  BY <1>1, StepIsCacheStep, PTL DEF ReportSpec, Spec

LEMMA EmptyPlan == <<>> \in Seq(Purposes) /\ RatePlan(<<>>)
<1>1. <<>> \in Seq(Purposes) /\ Len(<<>>) = 0
  BY EmptySeq
<1>2. RatePlan(<<>>)
  BY <1>1 DEF RatePlan
<1> QED
  BY <1>1, <1>2

\* The plan without its first lookup.
LEMMA TailKeeps ==
    ASSUME NEW S, NEW s \in Seq(S), s # <<>>
    PROVE  /\ Tail(s) \in Seq(S)
           /\ RatePlan(s) => RatePlan(Tail(s))
           /\ RatePlan(s) /\ Head(s) = "counter" => Tail(s) = <<>>
<1>1. /\ Tail(s) \in Seq(S) /\ Len(Tail(s)) = Len(s) - 1
      /\ \A i \in 1..Len(Tail(s)) : Tail(s)[i] = s[i + 1]
  BY HeadTailProperties
<1>2. Len(s) \in Nat \ {0} /\ DOMAIN s = 1..Len(s) /\ DOMAIN Tail(s) = 1..Len(Tail(s))
  BY <1>1, LenProperties, EmptySeq
<1>3. RatePlan(s) => RatePlan(Tail(s))
  BY <1>1, <1>2 DEF RatePlan
<1>4. Head(s) = s[1]
  BY <1>2
<1>5. RatePlan(s) /\ Head(s) = "counter" => Tail(s) = <<>>
  <2> SUFFICES ASSUME RatePlan(s), s[1] = "counter"
               PROVE  Tail(s) = <<>>
    BY <1>4
  <2>1. Len(s) = 1
    BY <1>2 DEF RatePlan
  <2>2. Len(Tail(s)) = 0
    BY <1>1, <2>1
  <2>3. Tail(s) # <<>> => Len(Tail(s)) \in Nat \ {0}
    BY <1>1, EmptySeq
  <2> QED
    BY <2>2, <2>3
<1> QED
  BY <1>1, <1>3, <1>5

\* The plan with one more lookup before it.
LEMMA PushKeeps ==
    ASSUME NEW S, NEW rest \in Seq(S), NEW x \in S, x # "usage", x # "counter"
    PROVE  <<x>> \o rest \in Seq(S) /\ (RatePlan(rest) => RatePlan(<<x>> \o rest))
<1> DEFINE longer == <<x>> \o rest
<1>1. <<x>> \in Seq(S) /\ Len(<<x>>) = 1 /\ <<x>>[1] = x
  OBVIOUS
<1>2. /\ longer \in Seq(S) /\ Len(longer) = 1 + Len(rest) /\ Len(rest) \in Nat
      /\ \A i \in 1..1 + Len(rest) : longer[i] = IF i <= 1 THEN <<x>>[i] ELSE rest[i - 1]
  BY <1>1, ConcatProperties, LenProperties
<1>3. DOMAIN longer = 1..Len(longer) /\ DOMAIN rest = 1..Len(rest)
  BY <1>2, LenProperties
<1> HIDE DEF longer
<1>4. ASSUME RatePlan(rest)
      PROVE  RatePlan(longer)
  <2> SUFFICES ASSUME NEW i \in 1..1 + Len(rest)
               PROVE  longer[i] # "usage" /\ (longer[i] = "counter" => i = 1 + Len(rest))
    BY <1>2, <1>3 DEF RatePlan
  <2>1. CASE i = 1
    BY <1>1, <1>2, <2>1
  <2>2. CASE i > 1
    <3>1. longer[i] = rest[i - 1] /\ i - 1 \in 1..Len(rest)
      BY <1>2, <2>2
    <3> QED
      BY <1>2, <1>3, <1>4, <3>1 DEF RatePlan
  <2> QED
    BY <1>2, <2>1, <2>2
<1> QED
  BY <1>2, <1>4 DEF longer

\* What comes next after a lookup.
LEMMA ThenKeeps ==
    ASSUME NEW s \in Seq(Purposes), s # <<>>,
           NEW more, more = <<>> \/ \E x \in {"why", "cpu why", "quota scope", "set scope"} : more = <<x>>
    PROVE  /\ more \o Tail(s) \in Seq(Purposes)
           /\ RatePlan(s) => RatePlan(more \o Tail(s))
           /\ RatePlan(s) /\ Head(s) = "counter" /\ more = <<>> => more \o Tail(s) = <<>>
<1>1. CASE more = <<>>
  <2>1. more \o Tail(s) = Tail(s)
    BY <1>1, TailKeeps, ConcatEmptySeq
  <2> QED
    BY <2>1, TailKeeps
<1>2. ASSUME NEW x \in {"why", "cpu why", "quota scope", "set scope"}, more = <<x>>
      PROVE  /\ more \o Tail(s) \in Seq(Purposes)
             /\ RatePlan(s) => RatePlan(more \o Tail(s))
             /\ more # <<>>
  <2>1. x \in Purposes /\ x # "usage" /\ x # "counter"
    BY DEF Purposes
  <2>2. Tail(s) \in Seq(Purposes) /\ (RatePlan(s) => RatePlan(Tail(s)))
    BY TailKeeps
  <2>3. more # <<>>
    BY <1>2
  <2> QED
    BY <1>2, <2>1, <2>2, <2>3, PushKeeps
<1> QED
  BY <1>1, <1>2

LEMMA InitReport == ReportInit => ScopeInv
<1> SUFFICES ASSUME ReportInit
             PROVE  ScopeInv
  OBVIOUS
<1>1. /\ call = None /\ todo = <<>> /\ report = Blank /\ asked = 0 /\ setting \in Settings
      /\ restriction = [kind \in Kinds |-> NoLevels] /\ clears[Own] = 0
  BY OwnIsProcess DEF ReportInit, Init
<1>2. ReportTypeOK
  BY <1>1 DEF ReportTypeOK, Blank, NoLevels
<1>3. IdleInv
  BY <1>1 DEF IdleInv
<1>4. call # "rate" \/ RatePlan(todo)
  BY <1>1 DEF RatePlan
<1>5. PlanInv
  BY <1>1, <1>4 DEF PlanInv
<1>6. PairInv /\ CounterOfOwnChain
  BY <1>1 DEF PairInv, CounterOfOwnChain, Returning, Blank, NoLevels
<1> QED
  BY <1>2, <1>3, <1>5, <1>6 DEF ScopeInv

\* What the system and the other threads do to the process of the reporter: it
\* keeps running, and is calm after no more clears only if it was and stayed.
LEMMA AroundFacts ==
    IInv /\ Around =>
      /\ Own \in born => Own \in born'
      /\ clears[Own] \in Nat /\ clears'[Own] \in Nat /\ clears[Own] <= clears'[Own]
      /\ Own \in born /\ calm'[Own] /\ clears'[Own] = clears[Own] => calm[Own] /\ home'[Own] = home[Own]
<1> SUFFICES ASSUME IInv, Around
             PROVE  /\ Own \in born => Own \in born'
                    /\ clears[Own] \in Nat /\ clears'[Own] \in Nat /\ clears[Own] <= clears'[Own]
                    /\ Own \in born /\ calm'[Own] /\ clears'[Own] = clears[Own]
                         => calm[Own] /\ home'[Own] = home[Own]
  OBVIOUS
<1>1. /\ home \in [Processes -> Groups] /\ clears \in [Processes -> Nat]
      /\ calm \in [Processes -> BOOLEAN] /\ Own \in Processes /\ clears[Own] \in Nat
  BY OwnIsProcess DEF IInv, TypeOK
<1>2. CASE \E p \in Processes, g \in Groups : Move(p, g)
  BY <1>1, <1>2 DEF Move
<1>3. CASE \E g \in Groups : Remove(g)
  BY <1>1, <1>3 DEF Remove
<1>4. CASE \E p, c \in Processes : Fork(p, c)
  BY <1>1, <1>4 DEF Fork
<1>5. CASE \E t \in Threads : Discover(t) \/ Answer(t)
  BY <1>1, <1>5, DiscoverQuiet DEF system
<1>6. CASE \E t \in Threads : ClearCache(t)
  <2>1. PICK t \in Threads : ClearCache(t)
    BY <1>6
  <2>2. Of[t] \in Processes
    BY ProcessAssumption
  <2>3. UNCHANGED <<born, home>>
    BY <2>1 DEF ClearCache, system
  <2>4. /\ Of[t] = Own => clears'[Own] = clears[Own] + 1
        /\ Of[t] # Own => clears'[Own] = clears[Own] /\ calm'[Own] = calm[Own]
    BY <1>1, <2>1, <2>2 DEF ClearCache
  <2> QED
    BY <1>1, <2>3, <2>4
<1> QED
  BY <1>2, <1>3, <1>4, <1>5, <1>6, OwnIsProcess DEF Around

LEMMA AroundInv == IInv /\ ScopeInv /\ Around => ScopeInv'
<1> SUFFICES ASSUME IInv, ScopeInv, Around
             PROVE  ScopeInv'
  OBVIOUS
<1>1. UNCHANGED <<setting, call, todo, restriction, report, since, asked>>
  BY DEF Around, reporting
<1>2. /\ Own \in born => Own \in born'
      /\ clears[Own] \in Nat /\ clears'[Own] \in Nat /\ clears[Own] <= clears'[Own]
      /\ Own \in born /\ calm'[Own] /\ clears'[Own] = clears[Own]
           => calm[Own] /\ home'[Own] = home[Own]
  BY AroundFacts
<1>3. ReportTypeOK'
  BY <1>1, <1>2 DEF ScopeInv, ReportTypeOK
<1>4. IdleInv' /\ PlanInv' /\ PairInv'
  BY <1>1, <1>2 DEF ScopeInv, IdleInv, PlanInv, PairInv, Counterpart
<1>5. CounterOfOwnChain'
  BY <1>1, <1>2 DEF ScopeInv, ReportTypeOK, IdleInv, CounterOfOwnChain, Returning, Chain
<1> QED
  BY <1>3, <1>4, <1>5 DEF ScopeInv

LEMMA PlanTypes == \A kind \in Calls : Plan[kind] \in Seq(Purposes) /\ Plan[kind] # <<>>
<1>1. Plan["budget"] \in Seq(Purposes) /\ Plan["budget"] # <<>>
  BY DEF Plan, Purposes
<1>2. Plan["limit"] \in Seq(Purposes) /\ Plan["limit"] # <<>>
  BY DEF Plan, Purposes
<1>3. Plan["usage"] \in Seq(Purposes) /\ Plan["usage"] # <<>>
  BY DEF Plan, Purposes
<1>4. Plan["rate"] \in Seq(Purposes) /\ Plan["rate"] # <<>>
  BY DEF Plan, Purposes
<1>5. Plan["snapshot"] \in Seq(Purposes) /\ Plan["snapshot"] # <<>>
  BY DEF Plan, Purposes
<1>6. Plan["describe"] \in Seq(Purposes) /\ Plan["describe"] # <<>>
  BY DEF Plan, Purposes
<1> QED
  BY <1>1, <1>2, <1>3, <1>4, <1>5, <1>6 DEF Calls

LEMMA BeginInv == ScopeInv /\ (\E kind \in setting.calls : Begin(kind)) => ScopeInv'
<1> SUFFICES ASSUME ScopeInv, NEW kind \in setting.calls, Begin(kind)
             PROVE  ScopeInv'
  OBVIOUS
<1>1. /\ call = None /\ call' = kind /\ todo' = Plan[kind] /\ Own \in born
      /\ UNCHANGED <<setting, restriction, report, asked, born, clears, calm, home>>
  BY DEF Begin, vars, system
<1>2. kind \in Calls
  BY SettingAssumption DEF ScopeInv, ReportTypeOK, Setting
<1>3. report = Blank
  BY <1>1 DEF ScopeInv, IdleInv
<1>4. todo' \in Seq(Purposes) /\ todo' # <<>>
  BY <1>1, <1>2, PlanTypes
<1>5. kind = "rate" => RatePlan(todo')
  BY <1>1 DEF Plan, RatePlan
<1>6. ReportTypeOK'
  BY <1>1, <1>2, <1>4 DEF ScopeInv, ReportTypeOK
<1>7. IdleInv'
  BY <1>1, <1>2, CallAssumption DEF ScopeInv, IdleInv
<1>8. PlanInv'
  BY <1>1, <1>3, <1>5 DEF PlanInv, Blank
<1>9. PairInv' /\ CounterOfOwnChain'
  BY <1>1, <1>3, <1>4 DEF ScopeInv, PairInv, Counterpart, CounterOfOwnChain, Returning, Blank
<1> QED
  BY <1>6, <1>7, <1>8, <1>9 DEF ScopeInv

LEMMA LookupInv == ScopeInv /\ Lookup => ScopeInv'
<1> SUFFICES ASSUME ScopeInv, Lookup
             PROVE  ScopeInv'
  OBVIOUS
<1>1. UNCHANGED <<setting, call, todo, restriction, report, since, asked, born, home, clears, calm>>
  BY OwnIsProcess, DiscoverQuiet DEF Lookup, reporting, system
<1> QED
  BY <1>1 DEF ScopeInv, ReportTypeOK, IdleInv, PlanInv, PairInv, Counterpart, CounterOfOwnChain, Returning,
             Chain

\* The counterpart stays while the setting does.
LEMMA CounterpartStays == UNCHANGED setting => \A level : Counterpart(level)' = Counterpart(level)
BY DEF Counterpart

\* Every level named comes from the chain of the group at hand.
LEMMA GroupLevels ==
    ASSUME NEW group \in Groups \cup {None}
    PROVE  /\ Standing(group) \subseteq Chain(group) /\ Chain(group) \subseteq Levels
           /\ Counted(group) \subseteq Chain(group) \cup {Outer} /\ Chain(group) \subseteq Times
           /\ Closest(group) \in Levels \cup {None}
           /\ \A level : /\ UsageLevel(level, group) \in {Counterpart(level), None}
                        /\ UsageLevel(level, group) \in Times \cup {None}
                        /\ CounterLevel(level, group) \in {level, None}
                        /\ CounterLevel(level, group) \in Chain(group) \cup {Outer, None}
                        /\ CounterLevel(level, group) \in Times \cup {None}
<1>1. /\ Standing(group) \subseteq Chain(group) /\ Chain(group) \subseteq Levels
      /\ Closest(group) \in Levels \cup {None} /\ Levels \cup {Outer} = Times
  BY DEF Standing, Chain, Closest, Levels, Times
<1>2. Counted(group) \subseteq Chain(group) \cup {Outer} /\ Chain(group) \subseteq Times
  BY <1>1 DEF Counted
<1> QED
  BY <1>1, <1>2 DEF UsageLevel, CounterLevel

\* The answer of a lookup, and how calm it was.
LEMMA AnswerFacts ==
    IInv /\ Answered =>
      /\ entry[Reporter].group \in Groups \cup {None}
      /\ began[Reporter] \in Nat /\ began[Reporter] <= clears[Own]
      /\ calm[Own] /\ began[Reporter] = clears[Own] => entry[Reporter].group = home[Own]
      /\ UNCHANGED <<setting, call, since, born, home, clears, calm>>
      /\ asked' = began[Reporter]
      /\ call # None /\ todo # <<>>
<1> SUFFICES ASSUME IInv, Answered
             PROVE  /\ entry[Reporter].group \in Groups \cup {None}
                    /\ began[Reporter] \in Nat /\ began[Reporter] <= clears[Own]
                    /\ calm[Own] /\ began[Reporter] = clears[Own]
                         => entry[Reporter].group = home[Own]
                    /\ UNCHANGED <<setting, call, since, born, home, clears, calm>>
                    /\ asked' = began[Reporter]
                    /\ call # None /\ todo # <<>>
  OBVIOUS
<1>1. Answer(Reporter) /\ asked' = began[Reporter] /\ UNCHANGED <<setting, call, since>>
      /\ call # None /\ todo # <<>>
  BY DEF Answered, Asks
<1>2. UNCHANGED <<born, home, clears, calm>>
  BY <1>1, OwnIsProcess, DiscoverQuiet DEF system
<1>3. pc[Reporter] = "answer"
  BY <1>1 DEF Answer
<1>4. entry[Reporter] \in Entries \cup {None} /\ entry[Reporter] # None /\ began[Reporter] \in Nat
  BY <1>3, OwnIsProcess DEF IInv, TypeOK, CallInv
<1>5. /\ began[Reporter] <= clears[Own]
      /\ calm[Own] /\ began[Reporter] = clears[Own] => entry[Reporter].group = home[Own]
  BY <1>3, OwnIsProcess DEF IInv, CallInv, Own
<1>6. entry[Reporter].group \in Groups \cup {None}
  BY <1>4 DEF Entries
<1> QED
  BY <1>1, <1>2, <1>4, <1>5, <1>6

Follow == {<<>>} \cup {<<x>> : x \in {"why", "cpu why", "quota scope", "set scope"}}

\* What is looked up next, whatever was found.
LEMMA UseThen ==
    ASSUME NEW group, Use(Head(todo), group)
    PROVE  \E more \in Follow : /\ todo' = more \o Tail(todo)
                                /\ Head(todo) = "counter" => more = <<>>
<1> DEFINE Goal == \E more \in Follow : /\ todo' = more \o Tail(todo)
                                        /\ Head(todo) = "counter" => more = <<>>
<1>1. Then(<<>>) => Goal
  BY DEF Then, Follow
<1>2. ASSUME NEW x \in {"why", "cpu why", "quota scope", "set scope"}, Then(<<x>>),
             Head(todo) # "counter"
      PROVE  Goal
  <2>1. <<x>> \in Follow
    BY DEF Follow
  <2> QED
    BY <1>2, <2>1 DEF Then
<1>3. CASE Head(todo) = "counter"
  <2>1. Then(<<>>)
    BY <1>3 DEF Use, Count
  <2> QED
    BY <1>1, <2>1
<1>4. CASE Head(todo) # "counter"
  <2>1. \/ Then(<<>>) \/ Then(<<"why">>) \/ Then(<<"quota scope">>) \/ Then(<<"set scope">>)
    BY <1>4 DEF Use, ReadSources, ReadMemory, Explain, ReadQuota, ReadSet, Find, Pair, Count, ReadNotices
  <2> QED
    BY <1>1, <1>2, <1>4, <2>1
<1> QED
  BY <1>3, <1>4

\* What was read is paired, so far as it is, with its counterpart.
LEMMA UseRestriction ==
    ASSUME ReportTypeOK, PairInv, UNCHANGED setting, NEW group \in Groups \cup {None}, Use(Head(todo), group)
    PROVE  /\ restriction' \in [Kinds -> [level : Levels \cup {None}, usage_level : Times \cup {None}]]
           /\ \A kind \in Kinds : restriction'[kind].usage_level \in {Counterpart(restriction'[kind].level), None}
<1> DEFINE Goal == /\ restriction' \in [Kinds -> [level : Levels \cup {None}, usage_level : Times \cup {None}]]
                   /\ \A kind \in Kinds : restriction'[kind].usage_level \in {Counterpart(restriction'[kind].level), None}
<1>0. restriction \in [Kinds -> [level : Levels \cup {None}, usage_level : Times \cup {None}]]
  BY DEF ReportTypeOK
<1>1. UNCHANGED restriction => Goal
  BY <1>0 DEF PairInv
<1>2. ASSUME NEW kind \in Kinds, NEW levels \in SUBSET Levels, NEW scope, Find(kind, levels, scope)
      PROVE  Goal
  <2>1. CASE UNCHANGED restriction
    BY <1>1, <2>1
  <2>2. CASE \E l \in levels : restriction' = [restriction EXCEPT ![kind] = [level |-> l, usage_level |-> None]]
    BY <1>0, <2>2 DEF PairInv
  <2> QED
    BY <1>2, <2>1, <2>2 DEF Find
<1>3. ASSUME NEW kind \in Kinds, Pair(kind, group)
      PROVE  Goal
  <2>1. restriction[kind].level \in Levels \cup {None}
    BY <1>0
  <2>2. PICK scope \in Times \cup {None} :
          /\ scope \in {Counterpart(restriction[kind].level), None}
          /\ restriction' = [restriction EXCEPT ![kind].usage_level = scope]
    BY <1>3, <2>1, GroupLevels DEF Pair
  <2> QED
    BY <1>0, <2>1, <2>2 DEF PairInv
<1>4. Standing(group) \cap setting.limited \subseteq Levels /\ {Closest(group)} \ {None} \subseteq Levels
  BY GroupLevels
<1>5. "quota" \in Kinds /\ "set" \in Kinds
  BY DEF Kinds
<1>6. CASE UNCHANGED restriction
  BY <1>1, <1>6
<1>7. CASE ReadQuota(group)
  BY <1>2, <1>4, <1>5, <1>7 DEF ReadQuota
<1>8. CASE ReadSet(group)
  BY <1>2, <1>4, <1>5, <1>8 DEF ReadSet
<1>9. CASE Pair("quota", group) \/ Pair("set", group)
  BY <1>3, <1>5, <1>9
<1> QED
  BY <1>6, <1>7, <1>8, <1>9 DEF Use, ReadSources, ReadMemory, Explain, Count, ReadNotices

\* Only two purposes read a counter, and none judges.
LEMMA UseReport ==
    ASSUME ReportTypeOK, NEW group \in Groups \cup {None}, Use(Head(todo), group)
    PROVE  /\ report' \in [mechanism : BOOLEAN, unavailable : BOOLEAN,
                           memory_limit_level : Levels \cup {None}, cpu_limit_level : Levels \cup {None},
                           cpu_rate_level : Times \cup {None}, counter_level : Times \cup {None}]
           /\ UNCHANGED <<report.cpu_limit_level, report.cpu_rate_level>>
           /\ \/ UNCHANGED report.counter_level
              \/ Head(todo) = "usage"
              \/ Head(todo) = "counter" /\ report'.counter_level = CounterLevel(report.cpu_rate_level, group)
<1>0. report \in [mechanism : BOOLEAN, unavailable : BOOLEAN,
                  memory_limit_level : Levels \cup {None}, cpu_limit_level : Levels \cup {None},
                  cpu_rate_level : Times \cup {None}, counter_level : Times \cup {None}]
  BY DEF ReportTypeOK
<1>1. CASE UNCHANGED report
  BY <1>0, <1>1
<1>2. CASE ReadSources(group) \/ Explain(group)
  BY <1>0, <1>2 DEF ReadSources, Explain
<1>3. CASE ReadMemory(group)
  <2>1. CASE \E l \in Standing(group) \cap setting.limited : report' = [report EXCEPT !.memory_limit_level = l]
    <3>1. PICK l \in Levels : report' = [report EXCEPT !.memory_limit_level = l]
      BY <2>1, GroupLevels
    <3> QED
      BY <1>0, <3>1
  <2> QED
    BY <1>1, <1>3, <2>1 DEF ReadMemory
<1>4. CASE Head(todo) = "usage" /\ Count(Closest(group))
  <2>1. Closest(group) \in Times \cup {None}
    BY GroupLevels DEF Times
  <2> QED
    BY <1>0, <1>4, <2>1 DEF Count
<1>5. CASE Head(todo) = "counter" /\ Count(CounterLevel(report.cpu_rate_level, group))
  <2>2. CounterLevel(report.cpu_rate_level, group) \in Times \cup {None}
    BY GroupLevels
  <2> QED
    BY <1>0, <1>5, <2>2 DEF Count
<1> QED
  BY <1>1, <1>2, <1>3, <1>4, <1>5 DEF Use, ReadQuota, ReadSet, Find, Pair, ReadNotices

LEMMA AnsweredInv == IInv /\ ScopeInv /\ Answered => ScopeInv'
<1> SUFFICES ASSUME IInv, ScopeInv, Answered
             PROVE  ScopeInv'
  OBVIOUS
<1> DEFINE group == entry[Reporter].group
<1>1. /\ group \in Groups \cup {None}
      /\ began[Reporter] \in Nat /\ began[Reporter] <= clears[Own]
      /\ calm[Own] /\ began[Reporter] = clears[Own] => group = home[Own]
      /\ UNCHANGED <<setting, call, since, born, home, clears, calm>>
      /\ asked' = began[Reporter]
      /\ call # None /\ todo # <<>>
      /\ Use(Head(todo), group)
  BY AnswerFacts DEF Answered
<1> HIDE DEF group
<1>2. ReportTypeOK /\ PairInv /\ todo \in Seq(Purposes)
  BY DEF ScopeInv, ReportTypeOK
<1>3. /\ todo' \in Seq(Purposes)
      /\ RatePlan(todo) => RatePlan(todo')
      /\ RatePlan(todo) /\ Head(todo) = "counter" => todo' = <<>>
  <2>1. PICK more \in Follow : todo' = more \o Tail(todo) /\ (Head(todo) = "counter" => more = <<>>)
    BY <1>1, UseThen
  <2>2. more = <<>> \/ \E x \in {"why", "cpu why", "quota scope", "set scope"} : more = <<x>>
    BY <2>1 DEF Follow
  <2> QED
    BY <1>1, <1>2, <2>1, <2>2, ThenKeeps
<1>4. /\ restriction' \in [Kinds -> [level : Levels \cup {None}, usage_level : Times \cup {None}]]
      /\ \A kind \in Kinds : restriction'[kind].usage_level \in {Counterpart(restriction'[kind].level), None}
  BY <1>1, <1>2, UseRestriction
<1>5. /\ report' \in [mechanism : BOOLEAN, unavailable : BOOLEAN,
                      memory_limit_level : Levels \cup {None}, cpu_limit_level : Levels \cup {None},
                      cpu_rate_level : Times \cup {None}, counter_level : Times \cup {None}]
      /\ UNCHANGED <<report.cpu_limit_level, report.cpu_rate_level>>
      /\ \/ UNCHANGED report.counter_level
         \/ Head(todo) = "usage"
         \/ Head(todo) = "counter" /\ report'.counter_level = CounterLevel(report.cpu_rate_level, group)
  BY <1>1, <1>2, UseReport
<1>6. ReportTypeOK'
  BY <1>1, <1>2, <1>3, <1>4, <1>5 DEF ReportTypeOK
<1>7. IdleInv'
  BY <1>1 DEF ScopeInv, IdleInv
<1>8. ASSUME call = "rate"
      PROVE  /\ RatePlan(todo) /\ report.counter_level = None
             /\ Head(todo) # "usage"
  <2>1. RatePlan(todo) /\ report.counter_level = None
    BY <1>1, <1>8 DEF ScopeInv, PlanInv
  <2>2. 1 \in DOMAIN todo /\ Head(todo) = todo[1]
    BY <1>1, <1>2, EmptySeq, LenProperties
  <2> QED
    BY <2>1, <2>2 DEF RatePlan
<1>9. PlanInv'
  BY <1>1, <1>3, <1>5, <1>8 DEF PlanInv
<1>10. CounterLevel(report.cpu_rate_level, group) \in {report.cpu_rate_level, None}
       /\ CounterLevel(report.cpu_rate_level, group) \in Chain(group) \cup {Outer, None}
  BY <1>1, GroupLevels
<1>11. PairInv'
  <2>1. \A level : Counterpart(level)' = Counterpart(level)
    BY <1>1, CounterpartStays
  <2>2. report'.cpu_rate_level \in {Counterpart(report'.cpu_limit_level), None}
    BY <1>2, <1>5 DEF PairInv
  <2>3. call = "rate" => report'.counter_level \in {report'.cpu_rate_level, None}
    BY <1>5, <1>8, <1>10
  <2> QED
    BY <1>1, <1>4, <2>1, <2>2, <2>3 DEF PairInv, Counterpart
<1>12. CounterOfOwnChain'
  <2> SUFFICES ASSUME call = "rate", calm[Own], began[Reporter] = clears[Own]
               PROVE  report'.counter_level \in Chain(home[Own]) \cup {Outer, None}
    BY <1>1 DEF CounterOfOwnChain, Returning, Chain
  <2> QED
    BY <1>1, <1>5, <1>8, <1>10
<1> QED
  BY <1>6, <1>7, <1>9, <1>11, <1>12 DEF ScopeInv

LEMMA JudgeInv == ScopeInv /\ Judge => ScopeInv'
<1> SUFFICES ASSUME ScopeInv, Judge
             PROVE  ScopeInv'
  OBVIOUS
<1>1. /\ call # None /\ todo # <<>> /\ Head(todo) = "judge"
      /\ UNCHANGED <<setting, call, restriction, since, asked, born, home, clears, calm>>
  BY DEF Judge, vars, system
<1>2. ReportTypeOK /\ PairInv /\ todo \in Seq(Purposes)
  BY DEF ScopeInv, ReportTypeOK
<1>3. \/ UNCHANGED report
      \/ \E kind \in Kinds :
           report' = [report EXCEPT !.cpu_limit_level = restriction[kind].level,
                                    !.cpu_rate_level = restriction[kind].usage_level]
  BY DEF Judge
<1>4. \E more \in {<<>>, <<"cpu why">>}, rest \in {<<>>, Tail(todo)} : todo' = more \o rest \/ todo' = rest
  <2> DEFINE found == {kind \in Kinds : restriction[kind].level # None}
             more == IF found = {} THEN <<"cpu why">> ELSE <<>>
             stays == IF call = "rate" THEN <<>> ELSE Tail(todo)
  <2>1. \/ todo' = more \o stays
        \/ todo' = <<>> \/ todo' = Tail(todo)
    BY DEF Judge
  <2>2. more \in {<<>>, <<"cpu why">>} /\ stays \in {<<>>, Tail(todo)}
    OBVIOUS
  <2> HIDE DEF more, stays
  <2> QED
    BY <2>1, <2>2
<1>5. PICK more \in {<<>>, <<"cpu why">>}, rest \in {<<>>, Tail(todo)} : todo' = more \o rest \/ todo' = rest
  BY <1>4
<1>6. rest \in Seq(Purposes) /\ (RatePlan(todo) => RatePlan(rest))
  <2>1. CASE rest = <<>>
    BY <2>1, EmptyPlan
  <2>2. CASE rest = Tail(todo)
    BY <1>1, <1>2, <2>2, TailKeeps
  <2> QED
    BY <2>1, <2>2
<1>7. todo' \in Seq(Purposes) /\ (RatePlan(todo) => RatePlan(todo'))
  <2>1. CASE todo' = rest
    BY <1>6, <2>1
  <2>2. CASE todo' = more \o rest /\ more = <<>>
    <3>1. todo' = rest
      BY <1>6, <2>2, ConcatEmptySeq
    <3> QED
      BY <1>6, <3>1
  <2>3. CASE todo' = more \o rest /\ more = <<"cpu why">>
    <3>1. "cpu why" \in Purposes
      BY DEF Purposes
    <3> QED
      BY <1>6, <2>3, <3>1, PushKeeps
  <2> QED
    BY <1>5, <2>1, <2>2, <2>3
<1>8. ReportTypeOK'
  <2>1. report' \in [mechanism : BOOLEAN, unavailable : BOOLEAN,
                     memory_limit_level : Levels \cup {None}, cpu_limit_level : Levels \cup {None},
                     cpu_rate_level : Times \cup {None}, counter_level : Times \cup {None}]
    BY <1>2, <1>3 DEF ReportTypeOK
  <2> QED
    BY <1>1, <1>2, <1>7, <2>1 DEF ReportTypeOK
<1>9. IdleInv'
  BY <1>1 DEF ScopeInv, IdleInv
<1>10. report'.counter_level = report.counter_level
  BY <1>2, <1>3 DEF ReportTypeOK
<1>11. call = "rate" => RatePlan(todo) /\ report.counter_level = None
  BY <1>1 DEF ScopeInv, PlanInv
<1>12. PlanInv'
  BY <1>1, <1>7, <1>10, <1>11 DEF PlanInv
<1>13. PairInv'
  <2>1. report'.cpu_rate_level \in {Counterpart(report'.cpu_limit_level), None}
    BY <1>2, <1>3 DEF ReportTypeOK, PairInv
  <2> QED
    BY <1>1, <1>2, <1>10, <1>11, <2>1 DEF PairInv, Counterpart
<1>14. CounterOfOwnChain'
  BY <1>1, <1>10, <1>11 DEF CounterOfOwnChain, Returning
<1> QED
  BY <1>8, <1>9, <1>12, <1>13, <1>14 DEF ScopeInv

LEMMA ReturnInv == IInv /\ ScopeInv /\ Return => ScopeInv'
<1> SUFFICES ASSUME IInv, ScopeInv, Return
             PROVE  ScopeInv'
  OBVIOUS
<1>1. /\ call' = None /\ todo = <<>> /\ todo' = todo /\ report' = Blank /\ asked' = 0
      /\ restriction' = [kind \in Kinds |-> NoLevels]
      /\ UNCHANGED <<setting, born, home, clears, calm>>
  BY DEF Return, vars, system
<1>2. clears[Own] \in Nat
  BY OwnIsProcess DEF IInv, TypeOK
<1>3. ReportTypeOK'
  BY <1>1, <1>2 DEF ScopeInv, ReportTypeOK, Blank, NoLevels
<1>4. IdleInv' /\ PlanInv'
  BY <1>1, CallAssumption DEF IdleInv, PlanInv, Calls
<1>5. PairInv' /\ CounterOfOwnChain'
  BY <1>1 DEF PairInv, CounterOfOwnChain, Returning, Blank, NoLevels
<1> QED
  BY <1>3, <1>4, <1>5 DEF ScopeInv

\* What a report is pieced together from.
LEMMA ScopesHold == ReportSpec => []ScopeInv
<1>1. IInv /\ ScopeInv /\ [ReportNext]_allVars => ScopeInv'
  <2> SUFFICES ASSUME IInv, ScopeInv, [ReportNext]_allVars
               PROVE  ScopeInv'
    OBVIOUS
  <2>1. CASE UNCHANGED allVars
    <3>1. UNCHANGED <<setting, call, todo, restriction, report, since, asked, born, home, clears, calm>>
      BY <2>1 DEF allVars, vars, system, reporting
    <3> QED
      BY <3>1 DEF ScopeInv, ReportTypeOK, IdleInv, PlanInv, PairInv, Counterpart, CounterOfOwnChain, Returning,
             Chain
  <2> QED
    BY <2>1, AroundInv, BeginInv, LookupInv, AnsweredInv, JudgeInv, ReturnInv DEF ReportNext
<1>2. ReportSpec => []IInv
  BY ImplementsCache, Inductive, PTL
<1> QED
  BY InitReport, <1>1, <1>2, PTL DEF ReportSpec

\* A lookup that asks after a clear which met no discovery finds the group the
\* process is in, and has no counterpart for a restriction of another group: it
\* leaves one that was read before the process was moved unpaired.
THEOREM PairsOwn == ReportSpec => PairsOwnChain
<1>1. IInv /\ ScopeInv /\ [ReportNext]_allVars =>
        \A kind \in Kinds :
          Paired(kind) /\ calm[Own] /\ asked' = clears[Own]
            => /\ restriction'[kind].level \in Chain(home[Own])
               /\ restriction'[kind].usage_level \in Chain(home[Own]) \cup {Outer}
  <2> SUFFICES ASSUME IInv, ScopeInv, [ReportNext]_allVars, NEW kind \in Kinds,
                      Paired(kind), calm[Own], asked' = clears[Own]
               PROVE  /\ restriction'[kind].level \in Chain(home[Own])
                      /\ restriction'[kind].usage_level \in Chain(home[Own]) \cup {Outer}
    OBVIOUS
  <2>0. /\ restriction'[kind].usage_level \notin {restriction[kind].usage_level, None}
        /\ restriction \in [Kinds -> [level : Levels \cup {None}, usage_level : Times \cup {None}]]
        /\ None \notin Times /\ Outer \notin Levels
    BY TopAssumption, GroupAssumption DEF ScopeInv, ReportTypeOK, Times, Levels, Paired
  <2>1. Answered
    <3>1. restriction' # restriction
      BY <2>0
    <3>2. ~Return
      BY <2>0 DEF Return, NoLevels
    <3> QED
      BY <3>1, <3>2 DEF ReportNext, allVars, Around, Begin, Lookup, Judge, reporting
  <2>2. PICK group \in Groups \cup {None} : group = home[Own] /\ Use(Head(todo), group)
    <3>1. entry[Reporter].group \in Groups \cup {None} /\ entry[Reporter].group = home[Own]
      BY <2>1, AnswerFacts
    <3>2. Use(Head(todo), entry[Reporter].group)
      BY <2>1 DEF Answered
    <3> QED
      BY <3>1, <3>2
  <2>3. ASSUME NEW k \in Kinds, NEW levels, NEW scope, Find(k, levels, scope)
        PROVE  FALSE
    BY <2>0, <2>3 DEF Find
  <2>4. "quota" \in Kinds /\ "set" \in Kinds
    BY DEF Kinds
  <2>5. PICK k \in Kinds : Pair(k, group)
    <3>1. UNCHANGED restriction \/ ReadQuota(group) \/ ReadSet(group)
            \/ Pair("quota", group) \/ Pair("set", group)
      BY <2>2 DEF Use, ReadSources, ReadMemory, Explain, Count, ReadNotices
    <3>2. ~ReadQuota(group) /\ ~ReadSet(group)
      BY <2>3, <2>4 DEF ReadQuota, ReadSet
    <3> QED
      BY <2>0, <2>4, <3>1, <3>2
  <2>6. /\ kind = k /\ restriction'[kind].level = restriction[kind].level
        /\ restriction'[kind].usage_level = UsageLevel(restriction[kind].level, group)
    BY <2>0, <2>5 DEF Pair
  <2> DEFINE l == restriction[kind].level
  <2>7. Counterpart(l) \in Counted(group) /\ UsageLevel(l, group) = Counterpart(l)
    BY <2>0, <2>6 DEF UsageLevel
  <2>8. Counterpart(l) \in Chain(group) \cup {Outer} /\ Counterpart(l) # None /\ l \in Levels \cup {None}
    BY <2>0, <2>6, <2>7, GroupLevels
  <2>9. l \in Chain(group)
    <3>1. CASE ~setting.split
      BY <2>0, <2>8, <3>1, TopAssumption DEF Counterpart
    <3>2. CASE setting.split
      <4>1. l = Top
        BY <2>8, <3>2 DEF Counterpart
      <4>2. group # None
        BY <2>2, OwnIsProcess, GroupAssumption DEF IInv, TypeOK
      <4> QED
        BY <4>1, <4>2 DEF Chain
    <3> QED
      BY <3>1, <3>2
  <2> QED
    BY <2>2, <2>6, <2>7, <2>8, <2>9
<1>2. ReportSpec => []IInv
  BY ImplementsCache, Inductive, PTL
<1> QED
  BY <1>1, <1>2, ScopesHold, PTL DEF ReportSpec, PairsOwnChain

\* A rate begun before the process was moved reads no counter of the group left
\* behind once it asks after a clear.
THEOREM CountsOwnChain == ReportSpec => []CounterOfOwnChain
<1>1. ScopeInv => CounterOfOwnChain
  BY DEF ScopeInv
<1> QED
  BY <1>1, ScopesHold, PTL

\* What is proved of the cache holds of every lookup of every call.
THEOREM ReportsFresh == ReportSpec => []FreshAfterQuietClear
BY ImplementsCache, FreshAfterClear, PTL

LEMMA PlaceIsNumber == \A x : Place(x) \in 1..11
BY DEF Place

LEMMA Places ==
    /\ Place("sources") = 1 /\ Place("memory") = 2 /\ Place("why") = 3 /\ Place("quota") = 4
    /\ Place("quota scope") = 5 /\ Place("set") = 6 /\ Place("set scope") = 7 /\ Place("judge") = 8
    /\ Place("cpu why") = 9 /\ Place("usage") = 10 /\ Place("counter") = 10 /\ Place("notices") = 11
BY DEF Place

\* The lookups of a plan.
Members(s) == {s[i] : i \in DOMAIN s}

\* An ordered plan without its first lookup.
LEMMA TailOrdered ==
    ASSUME NEW S, NEW s \in Seq(S), s # <<>>, Ordered(s)
    PROVE  /\ Tail(s) \in Seq(S) /\ Ordered(Tail(s))
           /\ Members(Tail(s)) = Members(s) \ {Head(s)} /\ Head(s) \in Members(s)
           /\ \A x \in Members(Tail(s)) : x \notin Followups /\ Place(Head(s)) < Place(x)
<1>1. /\ Tail(s) \in Seq(S) /\ Len(Tail(s)) = Len(s) - 1
      /\ \A i \in 1..Len(Tail(s)) : Tail(s)[i] = s[i + 1]
  BY HeadTailProperties
<1>2. Len(s) \in Nat \ {0} /\ DOMAIN s = 1..Len(s) /\ DOMAIN Tail(s) = 1..Len(Tail(s))
  BY <1>1, LenProperties, EmptySeq
<1>3. Head(s) = s[1]
  BY <1>2
<1>4. Ordered(Tail(s))
  <2> SUFFICES ASSUME NEW i \in 1..Len(Tail(s))
               PROVE  /\ i > 1 => Tail(s)[i] \notin Followups
                      /\ \A j \in 1..(i - 1) : Place(Tail(s)[j]) < Place(Tail(s)[i])
    BY <1>2 DEF Ordered
  <2>1. i + 1 \in DOMAIN s /\ i + 1 > 1 /\ Tail(s)[i] = s[i + 1]
    BY <1>1, <1>2
  <2>2. \A j \in 1..(i - 1) : Tail(s)[j] = s[j + 1] /\ j + 1 \in 1..((i + 1) - 1)
    BY <1>1, <1>2
  <2> QED
    BY <2>1, <2>2 DEF Ordered
<1>5. \A k \in 2..Len(s) : s[k] \notin Followups /\ Place(s[1]) < Place(s[k])
  BY <1>2 DEF Ordered
<1>6. Members(Tail(s)) = {s[k] : k \in 2..Len(s)}
  <2>1. Members(Tail(s)) \subseteq {s[k] : k \in 2..Len(s)}
    BY <1>1, <1>2 DEF Members
  <2>2. ASSUME NEW k \in 2..Len(s)
        PROVE  s[k] \in Members(Tail(s))
    <3>1. k - 1 \in 1..Len(Tail(s)) /\ s[k] = Tail(s)[k - 1]
      BY <1>1, <1>2
    <3> QED
      BY <1>2, <3>1 DEF Members
  <2> QED
    BY <2>1, <2>2
<1>7. s[1] \notin {s[k] : k \in 2..Len(s)}
  BY <1>5, PlaceIsNumber
<1>8. Members(s) = {s[k] : k \in 2..Len(s)} \cup {s[1]}
  BY <1>2 DEF Members
<1> QED
  BY <1>1, <1>3, <1>4, <1>5, <1>6, <1>7, <1>8

\* An ordered plan with one lookup before it.
LEMMA PushOrdered ==
    ASSUME NEW S, NEW rest \in Seq(S), NEW x \in S, Ordered(rest),
           \A y \in Members(rest) : y \notin Followups /\ Place(x) < Place(y)
    PROVE  Ordered(<<x>> \o rest) /\ Members(<<x>> \o rest) = Members(rest) \cup {x}
<1> DEFINE longer == <<x>> \o rest
<1>1. <<x>> \in Seq(S) /\ Len(<<x>>) = 1 /\ <<x>>[1] = x
  OBVIOUS
<1>2. /\ longer \in Seq(S) /\ Len(longer) = 1 + Len(rest) /\ Len(rest) \in Nat
      /\ \A i \in 1..1 + Len(rest) : longer[i] = IF i <= 1 THEN <<x>>[i] ELSE rest[i - 1]
  BY <1>1, ConcatProperties, LenProperties
<1>3. DOMAIN longer = 1..Len(longer) /\ DOMAIN rest = 1..Len(rest)
  BY <1>2, LenProperties
<1> HIDE DEF longer
<1>4. longer[1] = x /\ \A i \in 2..1 + Len(rest) : longer[i] = rest[i - 1] /\ i - 1 \in 1..Len(rest)
  BY <1>1, <1>2
<1>5. Members(longer) = Members(rest) \cup {x}
  <2>1. Members(longer) \subseteq Members(rest) \cup {x}
    <3> SUFFICES ASSUME NEW i \in 1..1 + Len(rest)
                 PROVE  longer[i] \in Members(rest) \cup {x}
      BY <1>2, <1>3 DEF Members
    <3>1. i = 1 \/ i \in 2..1 + Len(rest)
      BY <1>2
    <3> QED
      BY <1>3, <1>4, <3>1 DEF Members
  <2>2. ASSUME NEW k \in 1..Len(rest)
        PROVE  rest[k] \in Members(longer)
    <3>1. k + 1 \in 2..1 + Len(rest) /\ k + 1 \in DOMAIN longer /\ (k + 1) - 1 = k
      BY <1>2, <1>3
    <3>2. longer[k + 1] = rest[k]
      BY <1>4, <3>1
    <3> QED
      BY <3>1, <3>2 DEF Members
  <2>3. x \in Members(longer)
    BY <1>2, <1>3, <1>4 DEF Members
  <2> QED
    BY <1>3, <2>1, <2>2, <2>3 DEF Members
<1>6. Ordered(longer)
  <2> SUFFICES ASSUME NEW i \in 2..1 + Len(rest)
               PROVE  /\ longer[i] \notin Followups
                      /\ \A j \in 1..(i - 1) : Place(longer[j]) < Place(longer[i])
    BY <1>2, <1>3 DEF Ordered
  <2>1. longer[i] = rest[i - 1] /\ i - 1 \in DOMAIN rest /\ rest[i - 1] \in Members(rest)
    BY <1>3, <1>4 DEF Members
  <2>2. ASSUME NEW j \in 1..(i - 1)
        PROVE  Place(longer[j]) < Place(longer[i])
    <3>1. CASE j = 1
      BY <1>4, <2>1, <3>1
    <3>2. CASE j # 1
      <4>1. j \in 2..1 + Len(rest) /\ j - 1 \in 1..((i - 1) - 1)
        BY <1>2, <3>2
      <4>2. longer[j] = rest[j - 1]
        BY <1>4, <4>1
      <4> QED
        BY <2>1, <4>1, <4>2 DEF Ordered
    <3> QED
      BY <3>1, <3>2
  <2> QED
    BY <2>1, <2>2
<1> QED
  BY <1>5, <1>6 DEF longer

\* A lookup that calls for another one makes it the next, before the rest.
CallsFor(x, y) ==
    \/ x = "memory" /\ y = "why"
    \/ x = "quota" /\ y = "quota scope"
    \/ x = "set" /\ y = "set scope"
    \/ x = "judge" /\ y = "cpu why"

LEMMA NextOrdered ==
    ASSUME NEW s \in Seq(Purposes), s # <<>>, Ordered(s)
    PROVE  /\ <<>> \o Tail(s) = Tail(s)
           /\ Ordered(Tail(s)) /\ Members(Tail(s)) = Members(s) \ {Head(s)}
           /\ \A x : CallsFor(Head(s), x) =>
                /\ Ordered(<<x>> \o Tail(s))
                /\ Members(<<x>> \o Tail(s)) = (Members(s) \ {Head(s)}) \cup {x}
<1>1. /\ Tail(s) \in Seq(Purposes) /\ Ordered(Tail(s))
      /\ Members(Tail(s)) = Members(s) \ {Head(s)}
      /\ \A y \in Members(Tail(s)) : y \notin Followups /\ Place(Head(s)) < Place(y)
  BY TailOrdered
<1>2. <<>> \o Tail(s) = Tail(s)
  BY <1>1, ConcatEmptySeq
<1>3. \A y \in Members(Tail(s)) : y \in Purposes
  BY <1>1, ElementOfSeq, LenProperties DEF Members
<1> DEFINE h == Head(s)
           rest == Tail(s)
<1> HIDE DEF h, rest
<1>4. ASSUME NEW x, CallsFor(h, x)
      PROVE  Ordered(<<x>> \o rest) /\ Members(<<x>> \o rest) = Members(rest) \cup {x}
  <2>1. x \in Purposes /\ Place(x) = Place(h) + 1 /\ Place(x) \in {3, 5, 7, 9}
    <3>1. CASE h = "memory" /\ x = "why"
      <4>1. Place(x) = 3 /\ Place(h) = 2
        BY <3>1, Places, Zenon
      <4>2. x \in Purposes
        BY <3>1 DEF Purposes
      <4> QED
        BY <4>1, <4>2
    <3>2. CASE h = "quota" /\ x = "quota scope"
      <4>1. Place(x) = 5 /\ Place(h) = 4
        BY <3>2, Places, Zenon
      <4>2. x \in Purposes
        BY <3>2 DEF Purposes
      <4> QED
        BY <4>1, <4>2
    <3>3. CASE h = "set" /\ x = "set scope"
      <4>1. Place(x) = 7 /\ Place(h) = 6
        BY <3>3, Places, Zenon
      <4>2. x \in Purposes
        BY <3>3 DEF Purposes
      <4> QED
        BY <4>1, <4>2
    <3>4. CASE h = "judge" /\ x = "cpu why"
      <4>1. Place(x) = 9 /\ Place(h) = 8
        BY <3>4, Places, Zenon
      <4>2. x \in Purposes
        BY <3>4 DEF Purposes
      <4> QED
        BY <4>1, <4>2
    <3> QED
      BY <1>4, <3>1, <3>2, <3>3, <3>4 DEF CallsFor
  <2>2. ASSUME NEW y \in Members(rest)
        PROVE  y \notin Followups /\ Place(x) < Place(y)
    <3>1. y \in Purposes /\ y \notin Followups /\ Place(h) < Place(y)
      BY <1>1, <1>3 DEF h, rest
    <3>2. Place(y) \notin {3, 5, 7, 9}
      <4>1. \/ y = "sources" \/ y = "memory" \/ y = "quota" \/ y = "set" \/ y = "judge"
            \/ y = "usage" \/ y = "counter" \/ y = "notices"
        BY <3>1 DEF Purposes, Followups
      <4>2. Place(y) \in {1, 2, 4, 6, 8, 10, 11}
        BY <4>1, Places
      <4> QED
        BY <4>2
    <3>3. Place(x) \in Nat /\ Place(y) \in Nat /\ Place(h) \in Nat
      BY PlaceIsNumber
    <3>4. Place(y) # Place(x)
      BY <2>1, <3>2
    <3> QED
      BY <2>1, <3>1, <3>3, <3>4
  <2>3. rest \in Seq(Purposes) /\ Ordered(rest)
    BY <1>1 DEF rest
  <2> QED
    BY <2>1, <2>2, <2>3, PushOrdered
<1>5. \A x : CallsFor(h, x) =>
        Ordered(<<x>> \o rest) /\ Members(<<x>> \o rest) = (Members(s) \ {h}) \cup {x}
  <2>1. Members(rest) = Members(s) \ {h}
    BY <1>1 DEF h, rest
  <2> QED
    BY <1>4, <2>1
<1> QED
  BY <1>1, <1>2, <1>5 DEF h, rest

LEMMA Calling == CallsFor("memory", "why") /\ CallsFor("quota", "quota scope") /\ CallsFor("set", "set scope")
BY DEF CallsFor

\* What comes before another lookup is not ahead of it.
LEMMA Passed ==
    /\ ~(Place("quota scope") < Place("quota")) /\ ~(Place("set scope") < Place("set"))
    /\ ~(Place("counter") < Place("judge")) /\ ~(Place("judge") < Place("quota"))
    /\ ~(Place("judge") < Place("quota scope")) /\ ~(Place("judge") < Place("set"))
    /\ ~(Place("judge") < Place("set scope"))
<1>1. ~(5 < 4) /\ ~(7 < 6) /\ ~(10 < 8) /\ ~(8 < 4) /\ ~(8 < 5) /\ ~(8 < 6) /\ ~(8 < 7)
  OBVIOUS
<1> QED
  BY <1>1, Places, Zenon

\* What is ahead of a call are the lookups of its plan.
LEMMA AheadIsMembers == Ahead = Members(todo) /\ Ahead' = Members(todo')
BY DEF Ahead, Members

\* What is ahead after a lookup.
LEMMA ThenAhead ==
    ASSUME todo \in Seq(Purposes), todo # <<>>, Ordered(todo)
    PROVE  /\ Head(todo) \in Ahead
           /\ \A y \in Ahead : y = Head(todo) \/ Place(Head(todo)) < Place(y)
           /\ Then(<<>>) => Ordered(todo') /\ Ahead' = Ahead \ {Head(todo)}
           /\ \A x : CallsFor(Head(todo), x) /\ Then(<<x>>) =>
                Ordered(todo') /\ Ahead' = (Ahead \ {Head(todo)}) \cup {x}
<1>1. /\ Head(todo) \in Ahead
      /\ Members(Tail(todo)) = Ahead \ {Head(todo)}
      /\ \A y \in Members(Tail(todo)) : Place(Head(todo)) < Place(y)
  BY TailOrdered, AheadIsMembers
<1>2. \A y \in Ahead : y = Head(todo) \/ Place(Head(todo)) < Place(y)
  BY <1>1
<1>3. Then(<<>>) => Ordered(todo') /\ Ahead' = Ahead \ {Head(todo)}
  BY NextOrdered, AheadIsMembers DEF Then
<1>4. ASSUME NEW x, CallsFor(Head(todo), x), Then(<<x>>)
      PROVE  Ordered(todo') /\ Ahead' = (Ahead \ {Head(todo)}) \cup {x}
  <2>1. todo' = <<x>> \o Tail(todo)
    BY <1>4 DEF Then
  <2>2. Ordered(<<x>> \o Tail(todo)) /\ Members(<<x>> \o Tail(todo)) = (Members(todo) \ {Head(todo)}) \cup {x}
    BY <1>4, NextOrdered
  <2> QED
    BY <2>1, <2>2, AheadIsMembers
<1> QED
  BY <1>1, <1>2, <1>3, <1>4

\* What is known stays so where nothing it is about changes.
LEMMA Keeps ==
    ASSUME UNCHANGED <<call, setting>>, home'[Own] = home[Own]
    PROVE  /\ Limiting' = Limiting /\ \A level : Counterpart(level)' = Counterpart(level)
           /\ SourceKnown /\ UNCHANGED <<report.unavailable, report.mechanism>>
                /\ ("sources" \in Ahead => "sources" \in Ahead') => SourceKnown'
           /\ MemoryKnown /\ UNCHANGED report.memory_limit_level
                /\ ("memory" \in Ahead <=> "memory" \in Ahead') => MemoryKnown'
           /\ QuotaKnown /\ UNCHANGED restriction["quota"] /\ ("quota" \in Ahead <=> "quota" \in Ahead')
                /\ ("quota scope" \in Ahead => "quota scope" \in Ahead') => QuotaKnown'
           /\ SetKnown /\ UNCHANGED restriction["set"] /\ ("set" \in Ahead <=> "set" \in Ahead')
                /\ ("set scope" \in Ahead => "set scope" \in Ahead') => SetKnown'
           /\ CpuKnown /\ UNCHANGED <<report.cpu_limit_level, report.cpu_rate_level>>
                /\ ("judge" \in Ahead <=> "judge" \in Ahead') => CpuKnown'
           /\ CounterKnown /\ UNCHANGED <<report.cpu_rate_level, report.counter_level>>
                /\ ("judge" \in Ahead' => "judge" \in Ahead)
                /\ ("counter" \in Ahead => "counter" \in Ahead')
                /\ ("usage" \in Ahead => "usage" \in Ahead') => CounterKnown'
<1>0. Limiting' = Limiting /\ \A level : Counterpart(level)' = Counterpart(level)
  BY CounterpartStays DEF Limiting, Chain
<1>1. SourceKnown /\ UNCHANGED <<report.unavailable, report.mechanism>>
        /\ ("sources" \in Ahead => "sources" \in Ahead') => SourceKnown'
  BY DEF SourceKnown
<1>2. MemoryKnown /\ UNCHANGED report.memory_limit_level
        /\ ("memory" \in Ahead <=> "memory" \in Ahead') => MemoryKnown'
  BY <1>0 DEF MemoryKnown
<1>3. QuotaKnown /\ UNCHANGED restriction["quota"] /\ ("quota" \in Ahead <=> "quota" \in Ahead')
        /\ ("quota scope" \in Ahead => "quota scope" \in Ahead') => QuotaKnown'
  BY <1>0 DEF QuotaKnown, Counterpart
<1>4. SetKnown /\ UNCHANGED restriction["set"] /\ ("set" \in Ahead <=> "set" \in Ahead')
        /\ ("set scope" \in Ahead => "set scope" \in Ahead') => SetKnown'
  BY <1>0 DEF SetKnown, Counterpart
<1>5. CpuKnown /\ UNCHANGED <<report.cpu_limit_level, report.cpu_rate_level>>
        /\ ("judge" \in Ahead <=> "judge" \in Ahead') => CpuKnown'
  BY <1>0 DEF CpuKnown, Counterpart
<1>6. CounterKnown /\ UNCHANGED <<report.cpu_rate_level, report.counter_level>>
        /\ ("judge" \in Ahead' => "judge" \in Ahead)
        /\ ("counter" \in Ahead => "counter" \in Ahead')
        /\ ("usage" \in Ahead => "usage" \in Ahead') => CounterKnown'
  BY DEF CounterKnown
<1> QED
  BY <1>0, <1>1, <1>2, <1>3, <1>4, <1>5, <1>6

Known == SourceKnown /\ MemoryKnown /\ QuotaKnown /\ SetKnown /\ CpuKnown /\ CounterKnown

\* The process of a call is in a group that stands, and so does its whole chain.
LEMMA HomeStands ==
    IInv /\ Own \in born =>
      /\ home[Own] \in Groups /\ home[Own] # None /\ Top # None
      /\ Standing(home[Own]) = Chain(home[Own]) /\ Closest(home[Own]) = home[Own]
      /\ Chain(home[Own]) = {home[Own], Top}
      /\ \A l \in Chain(home[Own]) : UsageLevel(l, home[Own]) = Counterpart(l)
      /\ UsageLevel(None, home[Own]) = None
      /\ \A l \in Chain(home[Own]) \cup {None} : CounterLevel(Counterpart(l), home[Own]) = Counterpart(l)
<1> SUFFICES ASSUME IInv, Own \in born
             PROVE  /\ home[Own] \in Groups /\ home[Own] # None /\ Top # None
                    /\ Standing(home[Own]) = Chain(home[Own]) /\ Closest(home[Own]) = home[Own]
                    /\ Chain(home[Own]) = {home[Own], Top}
                    /\ \A l \in Chain(home[Own]) : UsageLevel(l, home[Own]) = Counterpart(l)
                    /\ UsageLevel(None, home[Own]) = None
                    /\ \A l \in Chain(home[Own]) \cup {None} : CounterLevel(Counterpart(l), home[Own]) = Counterpart(l)
  OBVIOUS
<1>1. home[Own] \in Groups /\ home[Own] \in alive /\ home[Own] # None /\ Top # None
  BY OwnIsProcess, TopAssumption, GroupAssumption DEF IInv, TypeOK
<1>2. Chain(home[Own]) = {home[Own], Top}
  BY <1>1 DEF Chain
<1>3. Standing(home[Own]) = Chain(home[Own]) /\ Closest(home[Own]) = home[Own]
  BY <1>1, <1>2 DEF Standing, Closest
<1>4. None \notin Counted(home[Own]) /\ Counterpart(None) = None
  BY <1>1, <1>2, <1>3, TopAssumption DEF Counted, Counterpart
<1>5. \A l \in Chain(home[Own]) : Counterpart(l) \in Counted(home[Own]) \cup {None}
  BY <1>1, <1>2, <1>3 DEF Counted, Counterpart
<1> QED
  BY <1>1, <1>2, <1>3, <1>4, <1>5 DEF UsageLevel, CounterLevel

\* No lookup puts the rest out of order or adds one for a counter.
LEMMA UseOrder ==
    ASSUME todo \in Seq(Purposes), todo # <<>>, Ordered(todo), NEW group, Use(Head(todo), group)
    PROVE  Ordered(todo') /\ ("counter" \in Ahead' => "counter" \in Ahead)
<1>1. CASE Then(<<>>)
  BY <1>1, ThenAhead
<1>2. ASSUME NEW x, CallsFor(Head(todo), x), Then(<<x>>)
      PROVE  Ordered(todo') /\ ("counter" \in Ahead' => "counter" \in Ahead)
  <2>1. Ordered(todo') /\ Ahead' = (Ahead \ {Head(todo)}) \cup {x}
    BY <1>2, ThenAhead
  <2>2. x # "counter"
    BY <1>2 DEF CallsFor
  <2> QED
    BY <2>1, <2>2
<1>3. \/ Then(<<>>)
      \/ Head(todo) = "memory" /\ Then(<<"why">>)
      \/ Head(todo) = "quota" /\ Then(<<"quota scope">>)
      \/ Head(todo) = "set" /\ Then(<<"set scope">>)
  BY DEF Use, ReadSources, ReadMemory, Explain, ReadQuota, ReadSet, Find, Pair, Count, ReadNotices
<1>4. CallsFor("memory", "why") /\ CallsFor("quota", "quota scope") /\ CallsFor("set", "set scope")
  BY Calling
<1>5. CASE Head(todo) = "memory" /\ Then(<<"why">>)
  BY <1>2, <1>4, <1>5
<1>6. CASE Head(todo) = "quota" /\ Then(<<"quota scope">>)
  BY <1>2, <1>4, <1>6
<1>7. CASE Head(todo) = "set" /\ Then(<<"set scope">>)
  BY <1>2, <1>4, <1>7
<1> QED
  BY <1>1, <1>3, <1>5, <1>6, <1>7

\* A lookup that answers for the group the process is in adds what it is for.
LEMMA UseKnown ==
    ASSUME IInv, Own \in born, ScopeInv, OrderInv, Known, todo # <<>>, call # None,
           Use(Head(todo), home[Own]), UNCHANGED <<call, setting>>, home'[Own] = home[Own]
    PROVE  Known'
<1> DEFINE h == Head(todo)
           H == home[Own]
<1>0. /\ todo \in Seq(Purposes) /\ Ordered(todo)
      /\ report \in [mechanism : BOOLEAN, unavailable : BOOLEAN,
                     memory_limit_level : Levels \cup {None}, cpu_limit_level : Levels \cup {None},
                     cpu_rate_level : Times \cup {None}, counter_level : Times \cup {None}]
      /\ restriction \in [Kinds -> [level : Levels \cup {None}, usage_level : Times \cup {None}]]
      /\ "quota" \in Kinds /\ "set" \in Kinds
  BY DEF ScopeInv, ReportTypeOK, OrderInv, Kinds
<1>1. /\ H \in Groups /\ H # None /\ Top # None /\ Standing(H) = Chain(H) /\ Closest(H) = H
      /\ Chain(H) = {H, Top}
      /\ \A l \in Chain(H) : UsageLevel(l, H) = Counterpart(l)
      /\ UsageLevel(None, H) = None
      /\ \A l \in Chain(H) \cup {None} : CounterLevel(Counterpart(l), H) = Counterpart(l)
      /\ \A l : Counterpart(l)' = Counterpart(l)
  BY HomeStands, CounterpartStays
<1>2. /\ h \in Ahead
      /\ \A y \in Ahead : y = h \/ Place(h) < Place(y)
      /\ Then(<<>>) => Ahead' = Ahead \ {h}
      /\ \A x : CallsFor(h, x) /\ Then(<<x>>) => Ahead' = (Ahead \ {h}) \cup {x}
  BY <1>0, ThenAhead
<1>3. /\ SourceKnown /\ MemoryKnown /\ QuotaKnown /\ SetKnown /\ CpuKnown /\ CounterKnown
      /\ Limiting' = Limiting /\ Limiting = Standing(H) \cap setting.limited
      /\ Limiting \subseteq {H, Top}
      /\ "counter" \in Ahead => call = "rate"
  BY <1>1, Keeps DEF Known, OrderInv, Limiting
<1>4. Use(h, H)
  OBVIOUS
<1> HIDE DEF h, H
<1>5. CASE h = "sources" /\ ReadSources(H)
  <2>1. /\ UNCHANGED restriction /\ Ahead' = Ahead \ {h}
        /\ report' = [report EXCEPT !.mechanism = TRUE]
    BY <1>1, <1>2, <1>5 DEF ReadSources
  <2>2. SourceKnown'
    BY <1>0, <1>3, <2>1 DEF SourceKnown
  <2> QED
    BY <1>0, <1>3, <1>5, <2>1, <2>2, Keeps DEF Known
<1>6. CASE h = "memory" /\ ReadMemory(H)
  <2>1. UNCHANGED restriction /\ "memory" \notin Ahead' /\ Ahead \ {h} \subseteq Ahead'
        /\ Ahead' \subseteq (Ahead \ {h}) \cup {"why"}
    <3>1. CallsFor("memory", "why")
      BY Calling
    <3>2. Then(<<>>) \/ Then(<<"why">>)
      BY <1>6 DEF ReadMemory
    <3>3. Ahead' = Ahead \ {h} \/ Ahead' = (Ahead \ {h}) \cup {"why"}
      BY <1>2, <1>6, <3>1, <3>2
    <3> QED
      BY <1>6, <3>3 DEF ReadMemory
  <2>2. \/ Limiting = {} /\ UNCHANGED report
        \/ \E l \in Limiting : report' = [report EXCEPT !.memory_limit_level = l]
    BY <1>3, <1>6 DEF ReadMemory
  <2>3. MemoryKnown'
    BY <1>0, <1>2, <1>3, <1>6, <2>1, <2>2 DEF MemoryKnown
  <2> QED
    BY <1>0, <1>3, <1>6, <2>1, <2>2, <2>3, Keeps DEF Known
<1>7. CASE h \in {"why", "cpu why"} /\ Explain(H)
  <2>1. /\ UNCHANGED restriction /\ Ahead' = Ahead \ {h}
        /\ report' = [report EXCEPT !.unavailable = @ \/ FALSE]
    BY <1>1, <1>2, <1>7 DEF Explain
  <2>2. UNCHANGED <<report.unavailable, report.mechanism, report.memory_limit_level, report.cpu_limit_level,
                    report.cpu_rate_level, report.counter_level>>
    BY <1>0, <2>1
  <2> QED
    BY <1>3, <1>7, <2>1, <2>2, Keeps DEF Known
<1>8. CASE h = "quota" /\ ReadQuota(H)
  <2>1. UNCHANGED report /\ "quota" \notin Ahead' /\ Ahead \ {h} \subseteq Ahead'
        /\ Ahead' \subseteq (Ahead \ {h}) \cup {"quota scope"}
        /\ \/ Limiting = {} /\ UNCHANGED restriction
           \/ /\ \E l \in Limiting :
                   restriction' = [restriction EXCEPT !["quota"] = [level |-> l, usage_level |-> None]]
              /\ "quota scope" \in Ahead'
    <3>1. CallsFor("quota", "quota scope")
      BY Calling
    <3>2. UNCHANGED report
      BY <1>8 DEF ReadQuota, Find
    <3>3. \/ Limiting = {} /\ UNCHANGED restriction /\ Then(<<>>)
          \/ /\ \E l \in Limiting :
                  restriction' = [restriction EXCEPT !["quota"] = [level |-> l, usage_level |-> None]]
             /\ Then(<<"quota scope">>)
      BY <1>3, <1>8 DEF ReadQuota, Find
    <3>4. CASE Limiting = {} /\ UNCHANGED restriction /\ Then(<<>>)
      BY <1>2, <1>8, <3>2, <3>4
    <3>5. CASE Then(<<"quota scope">>)
      <4>1. Ahead' = (Ahead \ {h}) \cup {"quota scope"}
        BY <1>2, <1>8, <3>1, <3>5
      <4> QED
        BY <1>8, <3>2, <3>3, <4>1
    <3> QED
      BY <3>3, <3>4, <3>5
  <2>2. QuotaKnown'
    <3>1. CASE Limiting = {} /\ UNCHANGED restriction
      BY <1>2, <1>3, <1>8, <2>1, <3>1 DEF QuotaKnown
    <3>2. CASE "quota scope" \in Ahead' /\ ~(Limiting = {} /\ UNCHANGED restriction)
      <4>1. PICK l \in Limiting :
              restriction' = [restriction EXCEPT !["quota"] = [level |-> l, usage_level |-> None]]
        BY <2>1, <3>2
      <4>2. restriction'["quota"].level = l
        BY <1>0, <4>1
      <4> QED
        BY <1>3, <2>1, <3>2, <4>1, <4>2 DEF QuotaKnown
    <3> QED
      BY <2>1, <3>1, <3>2
  <2>3. UNCHANGED restriction["set"]
    BY <1>0, <2>1
  <2> QED
    BY <1>3, <1>8, <2>1, <2>2, <2>3, Keeps DEF Known
<1>9. CASE h = "quota scope" /\ Pair("quota", H)
  <2>1. /\ UNCHANGED report /\ Ahead' = Ahead \ {h}
        /\ restriction' = [restriction EXCEPT !["quota"].usage_level = UsageLevel(restriction["quota"].level, H)]
    BY <1>2, <1>9 DEF Pair
  <2>2. "quota" \notin Ahead
    BY <1>2, <1>9, Passed, Zenon
  <2>3. QuotaKnown'
    <3> DEFINE l == restriction["quota"].level
    <3>1. restriction["quota"] \in [level : Levels \cup {None}, usage_level : Times \cup {None}]
      BY <1>0
    <3>2. restriction'["quota"] = [level |-> l, usage_level |-> UsageLevel(l, H)]
      BY <1>0, <2>1, <3>1
    <3> HIDE DEF l
    <3>3. ASSUME call \in CpuCalls, Limiting = {}
          PROVE  restriction'["quota"] = NoLevels
      <4>1. restriction["quota"] = NoLevels
        BY <1>3, <3>3 DEF QuotaKnown
      <4>2. l = None
        BY <4>1 DEF NoLevels, l
      <4>3. UsageLevel(l, H) = None
        BY <1>1, <4>2
      <4> QED
        BY <3>2, <4>2, <4>3 DEF NoLevels
    <3>4. ASSUME call \in CpuCalls, Limiting # {}
          PROVE  restriction'["quota"].level \in Limiting
                 /\ restriction'["quota"].usage_level = Counterpart(restriction'["quota"].level)
      <4>1. l \in Limiting
        BY <1>3, <2>2, <3>4 DEF QuotaKnown, l
      <4>2. UsageLevel(l, H) = Counterpart(l)
        BY <1>1, <1>3, <4>1
      <4> QED
        BY <3>2, <4>1, <4>2
    <3>5. "quota" \notin Ahead'
      BY <2>1, <2>2
    <3> QED
      BY <1>1, <1>3, <3>3, <3>4, <3>5 DEF QuotaKnown, Counterpart
  <2>4. UNCHANGED restriction["set"]
    BY <1>0, <2>1
  <2> QED
    BY <1>3, <1>9, <2>1, <2>3, <2>4, Keeps DEF Known
<1>10. CASE h = "set" /\ ReadSet(H)
  <2>1. /\ UNCHANGED report /\ Then(<<"set scope">>)
        /\ restriction' = [restriction EXCEPT !["set"] = [level |-> H, usage_level |-> None]]
    BY <1>1, <1>10 DEF ReadSet, Find
  <2>2. Ahead' = (Ahead \ {h}) \cup {"set scope"}
    <3>1. CallsFor("set", "set scope")
      BY Calling
    <3> QED
      BY <1>2, <1>10, <2>1, <3>1
  <2>3. SetKnown'
    BY <1>0, <1>3, <2>1, <2>2 DEF SetKnown, H
  <2>4. UNCHANGED restriction["quota"]
    BY <1>0, <2>1
  <2> QED
    BY <1>3, <1>10, <2>1, <2>2, <2>3, <2>4, Keeps DEF Known
<1>11. CASE h = "set scope" /\ Pair("set", H)
  <2>1. /\ UNCHANGED report /\ Ahead' = Ahead \ {h}
        /\ restriction' = [restriction EXCEPT !["set"].usage_level = UsageLevel(restriction["set"].level, H)]
    BY <1>2, <1>11 DEF Pair
  <2>2. "set" \notin Ahead
    BY <1>2, <1>11, Passed, Zenon
  <2>3. SetKnown'
    <3> DEFINE l == restriction["set"].level
    <3>1. restriction["set"] \in [level : Levels \cup {None}, usage_level : Times \cup {None}]
      BY <1>0
    <3>2. restriction'["set"] = [level |-> l, usage_level |-> UsageLevel(l, H)]
      BY <1>0, <2>1, <3>1
    <3> HIDE DEF l
    <3>3. ASSUME call \in CpuCalls
          PROVE  restriction'["set"].level = H /\ restriction'["set"].usage_level = Counterpart(H)
      <4>1. l = H
        BY <1>3, <2>2, <3>3 DEF SetKnown, l, H
      <4>2. UsageLevel(l, H) = Counterpart(H)
        BY <1>1, <4>1
      <4> QED
        BY <3>2, <4>1, <4>2
    <3>4. H = home'[Own]
      BY DEF H
    <3> QED
      BY <1>1, <3>3, <3>4 DEF SetKnown, Counterpart
  <2>4. UNCHANGED restriction["quota"]
    BY <1>0, <2>1
  <2> QED
    BY <1>3, <1>11, <2>1, <2>3, <2>4, Keeps DEF Known
<1>12. CASE h = "usage" /\ Count(H)
  <2>1. /\ UNCHANGED restriction /\ Ahead' = Ahead \ {h}
        /\ report' = [report EXCEPT !.counter_level = H]
    BY <1>2, <1>12 DEF Count
  <2>2. call # "rate"
    BY <1>2, <1>12 DEF ScopeInv, PlanInv, RatePlan, Ahead
  <2>3. CounterKnown'
    BY <1>0, <2>1, <2>2 DEF CounterKnown, H
  <2> QED
    BY <1>0, <1>3, <1>12, <2>1, <2>3, Keeps DEF Known
<1>13. CASE h = "counter" /\ Count(CounterLevel(report.cpu_rate_level, H))
  <2>1. /\ UNCHANGED restriction /\ Ahead' = Ahead \ {h}
        /\ report' = [report EXCEPT !.counter_level = CounterLevel(report.cpu_rate_level, H)]
    BY <1>2, <1>13 DEF Count
  <2>2. call = "rate" /\ "judge" \notin Ahead
    <3>1. call = "rate"
      BY <1>2, <1>3, <1>13
    <3>2. "judge" \notin Ahead
      BY <1>2, <1>13, Passed, Zenon
    <3> QED
      BY <3>1, <3>2
  <2>3. /\ report.cpu_rate_level = Counterpart(report.cpu_limit_level)
        /\ report.cpu_limit_level \in {H, Top, None}
    BY <1>3, <2>2 DEF CpuKnown, CpuCalls, H
  <2>4. CounterKnown'
    BY <1>0, <1>1, <2>1, <2>2, <2>3 DEF CounterKnown, UsageCalls
  <2> QED
    BY <1>0, <1>3, <1>13, <2>1, <2>4, Keeps DEF Known
<1>14. CASE h = "notices" /\ ReadNotices
  <2>1. UNCHANGED <<report, restriction>> /\ Ahead' = Ahead \ {h}
    BY <1>2, <1>14 DEF ReadNotices
  <2> QED
    BY <1>3, <1>14, <2>1, Keeps DEF Known
<1>15. Closest(H) = H
  BY <1>1
<1> QED
  BY <1>4, <1>5, <1>6, <1>7, <1>8, <1>9, <1>10, <1>11, <1>12, <1>13, <1>14, <1>15 DEF Use

\* A plan of one lookup, and of none.
LEMMA SingleSeq ==
    ASSUME NEW S, NEW x \in S
    PROVE  <<x>> \in Seq(S)
OBVIOUS

LEMMA EmptyOrdered == Members(<<>>) = {} /\ Ordered(<<>>)
<1>1. DOMAIN <<>> = {}
  <2>1. <<>> \in Seq(Purposes) /\ Len(<<>>) = 0
    BY EmptySeq
  <2>2. DOMAIN <<>> = 1..Len(<<>>)
    BY <2>1, LenProperties
  <2> QED
    BY <2>1, <2>2
<1> QED
  BY <1>1 DEF Members, Ordered

\* What is ahead after the judgement.
LEMMA JudgeOrder ==
    ASSUME todo \in Seq(Purposes), Ordered(todo), Judge
    PROVE  /\ Ordered(todo') /\ ("counter" \in Ahead' => "counter" \in Ahead)
           /\ call # "rate" => /\ Ahead \ {"judge"} \subseteq Ahead'
                               /\ Ahead' \subseteq (Ahead \ {"judge"}) \cup {"cpu why"}
           /\ todo' = Tail(todo) => Ahead' = Ahead \ {"judge"}
           /\ todo' = <<>> => Ahead' = {}
<1>1. /\ todo # <<>> /\ Head(todo) = "judge"
      /\ \/ Then(<<>>) \/ Then(<<"cpu why">>)
         \/ call = "rate" /\ todo' \in {<<>>, <<"cpu why">>}
  <2> DEFINE found == {kind \in Kinds : restriction[kind].level # None}
             more == IF found = {} THEN <<"cpu why">> ELSE <<>>
             stays == IF call = "rate" THEN <<>> ELSE Tail(todo)
  <2>1. /\ todo # <<>> /\ Head(todo) = "judge"
        /\ \/ todo' = more \o stays
           \/ call = "rate" /\ todo' = <<>>
           \/ todo' = Tail(todo)
    BY DEF Judge
  <2>2. Tail(todo) = <<>> \o Tail(todo)
    BY <2>1, NextOrdered
  <2>3. more \o <<>> \in {<<>>, <<"cpu why">>}
    <3>1. <<>> \o <<>> = <<>> /\ <<"cpu why">> \o <<>> = <<"cpu why">>
      <4>1. "cpu why" \in Purposes
        BY DEF Purposes
      <4>2. <<"cpu why">> \in Seq(Purposes)
        BY <4>1, SingleSeq
      <4> QED
        BY <4>2, EmptyPlan, ConcatEmptySeq
    <3>2. more \in {<<>>, <<"cpu why">>}
      OBVIOUS
    <3> HIDE DEF more
    <3> QED
      BY <3>1, <3>2
  <2>4. CASE todo' = more \o stays /\ call = "rate"
    BY <2>1, <2>3, <2>4
  <2>5. CASE todo' = more \o stays /\ call # "rate"
    <3>1. more \in {<<>>, <<"cpu why">>} /\ todo' = more \o Tail(todo)
      BY <2>5
    <3> HIDE DEF more
    <3> QED
      BY <2>1, <3>1 DEF Then
  <2> HIDE DEF more, stays
  <2> QED
    BY <2>1, <2>2, <2>4, <2>5 DEF Then
<1>2. CallsFor(Head(todo), "cpu why")
  BY <1>1 DEF CallsFor
<1>3. Members(<<>>) = {} /\ Ordered(<<>>)
  BY EmptyOrdered
<1>4. Members(<<"cpu why">>) = {"cpu why"} /\ Ordered(<<"cpu why">>)
  <2>1. "cpu why" \in Purposes
    BY DEF Purposes
  <2>2. \A y \in Members(<<>>) : y \notin Followups /\ Place("cpu why") < Place(y)
    BY <1>3
  <2>3. Ordered(<<"cpu why">> \o <<>>) /\ Members(<<"cpu why">> \o <<>>) = Members(<<>>) \cup {"cpu why"}
    BY <1>3, <2>1, <2>2, EmptyPlan, PushOrdered
  <2>4. <<"cpu why">> \in Seq(Purposes)
    BY <2>1, SingleSeq
  <2>5. <<"cpu why">> \o <<>> = <<"cpu why">>
    BY <2>4, ConcatEmptySeq
  <2> QED
    BY <1>3, <2>3, <2>5
<1>5. /\ \A y : todo' = y => Ahead' = Members(y)
      /\ Ahead = Members(todo)
  BY AheadIsMembers
<1>6. CASE Then(<<>>)
  <2>1. Ordered(todo') /\ Ahead' = Ahead \ {"judge"}
    BY <1>1, <1>6, ThenAhead
  <2>2. todo' = <<>> => Ahead' = {}
    BY <1>3, <1>5
  <2> QED
    BY <2>1, <2>2
<1>7. CASE Then(<<"cpu why">>)
  <2>1. Ordered(todo') /\ Ahead' = (Ahead \ {"judge"}) \cup {"cpu why"}
    BY <1>1, <1>2, <1>7, ThenAhead
  <2>2. todo' = Tail(todo) => Ahead' = Ahead \ {"judge"}
    BY <1>1, <1>5, NextOrdered
  <2> QED
    BY <1>3, <1>5, <2>1, <2>2
<1>8. CASE call = "rate" /\ todo' \in {<<>>, <<"cpu why">>}
  <2>1. todo' = Tail(todo) => Ahead' = Ahead \ {"judge"}
    BY <1>1, <1>5, NextOrdered
  <2> QED
    <3>1. CASE todo' = <<>>
      BY <1>3, <1>5, <1>8, <2>1, <3>1
    <3>2. CASE todo' = <<"cpu why">>
      <4>1. Ordered(todo') /\ Ahead' = {"cpu why"}
        BY <1>4, <1>5, <3>2
      <4>2. todo' = <<>> => Ahead' = {}
        BY <1>3, <1>5
      <4> QED
        BY <1>8, <2>1, <4>1, <4>2
    <3> QED
      BY <1>8, <3>1, <3>2
<1> QED
  BY <1>1, <1>6, <1>7, <1>8

\* What the restrictions of a quiet call amount to.
LEMMA JudgeKnown ==
    ASSUME IInv, Own \in born, ScopeInv, OrderInv, Known, Judge
    PROVE  Known'
<1> DEFINE quota == restriction["quota"]
           set == restriction["set"]
           H == home[Own]
           found == {kind \in Kinds : restriction[kind].level # None}
           candidates == {kind \in found : kind = "quota" \/ setting.pinned}
<1>0. /\ todo \in Seq(Purposes) /\ Ordered(todo) /\ todo # <<>> /\ Head(todo) = "judge"
      /\ report \in [mechanism : BOOLEAN, unavailable : BOOLEAN,
                     memory_limit_level : Levels \cup {None}, cpu_limit_level : Levels \cup {None},
                     cpu_rate_level : Times \cup {None}, counter_level : Times \cup {None}]
      /\ UNCHANGED <<setting, call, restriction, home>> /\ Kinds = {"quota", "set"}
      /\ H # None /\ Top # None
  BY HomeStands DEF ScopeInv, ReportTypeOK, OrderInv, Kinds, Judge, vars, system
<1>1. /\ "counter" \in Ahead' => "counter" \in Ahead
      /\ call # "rate" => /\ Ahead \ {"judge"} \subseteq Ahead'
                          /\ Ahead' \subseteq (Ahead \ {"judge"}) \cup {"cpu why"}
      /\ todo' = Tail(todo) => Ahead' = Ahead \ {"judge"}
      /\ todo' = <<>> => Ahead' = {}
  BY <1>0, JudgeOrder
<1>2. /\ "judge" \in Ahead
      /\ "quota" \notin Ahead /\ "quota scope" \notin Ahead
      /\ "set" \notin Ahead /\ "set scope" \notin Ahead
  <2>1. "judge" \in Ahead /\ \A y \in Ahead : y = "judge" \/ Place("judge") < Place(y)
    BY <1>0, ThenAhead
  <2> QED
    BY <2>1, Passed, Zenon
<1>3. /\ SourceKnown /\ MemoryKnown /\ QuotaKnown /\ SetKnown /\ CpuKnown /\ CounterKnown
      /\ Limiting' = Limiting /\ Limiting \subseteq {H, Top}
  BY <1>0, HomeStands, Keeps DEF Known, Limiting
<1>4. CASE call \notin CpuCalls
  <2>1. call # "rate"
    BY <1>4 DEF CpuCalls
  <2>2. /\ UNCHANGED <<report.unavailable, report.mechanism, report.memory_limit_level, report.counter_level>>
    BY <1>0 DEF Judge
  <2>3. QuotaKnown' /\ SetKnown' /\ CpuKnown'
    BY <1>0, <1>4 DEF QuotaKnown, SetKnown, CpuKnown
  <2>4. CounterKnown'
    BY <1>0, <1>1, <1>3, <2>1, <2>2 DEF CounterKnown
  <2> QED
    BY <1>0, <1>1, <1>3, <2>1, <2>2, <2>3, <2>4, Keeps DEF Known
<1>5. CASE call \in CpuCalls
  <2>1. /\ IF Limiting = {} THEN quota.level = None
           ELSE quota.level \in Limiting /\ quota.usage_level = Counterpart(quota.level)
        /\ set.level = H /\ set.usage_level = Counterpart(H)
        /\ report.cpu_limit_level = None /\ report.cpu_rate_level = None
    <3>1. Limiting = {} => quota = NoLevels
      BY <1>3, <1>5 DEF QuotaKnown
    <3>2. Limiting # {} => quota.level \in Limiting /\ quota.usage_level = Counterpart(quota.level)
      BY <1>2, <1>3, <1>5 DEF QuotaKnown
    <3>3. set.level = H /\ set.usage_level = Counterpart(H)
      BY <1>2, <1>3, <1>5 DEF SetKnown
    <3>4. report.cpu_limit_level = None /\ report.cpu_rate_level = None
      BY <1>0, <1>2, <1>3, <1>5 DEF CpuKnown, Counterpart
    <3>5. NoLevels.level = None
      BY DEF NoLevels
    <3> QED
      BY <3>1, <3>2, <3>3, <3>4, <3>5
  <2>2. /\ "set" \in found /\ ("quota" \in found <=> Limiting # {})
        /\ candidates = {} <=> Limiting = {} /\ ~setting.pinned
    BY <1>0, <1>3, <2>1
  <2>3. call = "rate" => "counter" \in Ahead /\ report.counter_level = None
    BY <1>0, <1>2, <1>3 DEF CounterKnown, ScopeInv, PlanInv
  <2>4. ASSUME UNCHANGED report, candidates = {},
               todo' = IF call = "rate" THEN <<>> ELSE Tail(todo)
        PROVE  Known'
    <3>1. "judge" \notin Ahead'
      BY <1>1, <2>4
    <3>2. CpuKnown'
      BY <1>0, <1>3, <2>1, <2>2, <2>4, <3>1 DEF CpuKnown, Counterpart
    <3>3. QuotaKnown' /\ SetKnown'
      BY <1>0, <1>1, <1>2, <1>3, <2>4, Keeps
    <3>4. MemoryKnown' /\ SourceKnown'
      <4>1. CASE call = "rate"
        BY <1>0, <1>3, <2>4, <4>1 DEF MemoryKnown, SourceKnown, MemoryCalls
      <4>2. CASE call # "rate"
        BY <1>0, <1>1, <1>3, <2>4, <4>2, Keeps
      <4> QED
        BY <4>1, <4>2
    <3>5. CounterKnown'
      <4>1. CASE call = "rate"
        BY <1>0, <2>1, <2>3, <2>4, <3>1, <4>1 DEF CounterKnown, UsageCalls
      <4>2. CASE call # "rate"
        <5>1. call \in UsageCalls => "usage" \in Ahead' \/ report'.counter_level = home'[Own]
          BY <1>0, <1>1, <1>3, <2>4, <4>2 DEF CounterKnown
        <5> QED
          BY <1>0, <4>2, <5>1 DEF CounterKnown
      <4> QED
        BY <4>1, <4>2
    <3> QED
      BY <3>2, <3>3, <3>4, <3>5 DEF Known
  <2>5. ASSUME NEW kind \in candidates,
               report' = [report EXCEPT !.cpu_limit_level = restriction[kind].level,
                                        !.cpu_rate_level = restriction[kind].usage_level],
               todo' = IF call = "rate" /\ restriction[kind].usage_level = None THEN <<>> ELSE Tail(todo)
        PROVE  Known'
    <3>1. /\ restriction[kind].level \in Limiting \cup {H} /\ restriction[kind].level # None
          /\ restriction[kind].usage_level = Counterpart(restriction[kind].level)
      BY <1>0, <1>3, <2>1, <2>2
    <3>2. /\ report'.cpu_limit_level \in Limiting \cup {H} /\ report'.cpu_limit_level # None
          /\ report'.cpu_rate_level = Counterpart(report'.cpu_limit_level)
          /\ report'.cpu_rate_level = restriction[kind].usage_level
          /\ UNCHANGED <<report.unavailable, report.mechanism, report.memory_limit_level,
                         report.counter_level>>
      BY <1>0, <2>5, <3>1
    <3>3. ~(Limiting = {} /\ ~setting.pinned)
      BY <2>2, <2>5
    <3>4. /\ Ahead' \in {{}, Ahead \ {"judge"}}
          /\ call # "rate" \/ report'.cpu_rate_level # None => Ahead' = Ahead \ {"judge"}
      BY <1>1, <2>5, <3>2
    <3>5. CpuKnown'
      BY <1>0, <1>3, <3>2, <3>3, <3>4 DEF CpuKnown, Counterpart
    <3>6. CounterKnown'
      <4>1. CASE call = "rate"
        BY <1>0, <2>3, <3>2, <3>4, <4>1 DEF CounterKnown, UsageCalls
      <4>2. CASE call # "rate"
        BY <1>0, <1>3, <3>2, <3>4, <4>2 DEF CounterKnown
      <4> QED
        BY <4>1, <4>2
    <3>7. QuotaKnown' /\ SetKnown'
      BY <1>0, <1>2, <1>3, <3>4, Keeps
    <3>8. MemoryKnown' /\ SourceKnown'
      <4>1. CASE call = "rate"
        BY <1>0, <1>3, <3>2, <4>1 DEF MemoryKnown, SourceKnown, MemoryCalls
      <4>2. CASE call # "rate"
        BY <1>0, <1>3, <3>2, <3>4, <4>2, Keeps
      <4> QED
        BY <4>1, <4>2
    <3> QED
      BY <3>5, <3>6, <3>7, <3>8 DEF Known
  <2>6. \/ /\ candidates = {} /\ UNCHANGED report
           /\ todo' = (IF found = {} THEN <<"cpu why">> ELSE <<>>)
                        \o (IF call = "rate" THEN <<>> ELSE Tail(todo))
        \/ \E kind \in candidates :
             /\ report' = [report EXCEPT !.cpu_limit_level = restriction[kind].level,
                                         !.cpu_rate_level = restriction[kind].usage_level]
             /\ todo' = IF call = "rate" /\ restriction[kind].usage_level = None THEN <<>> ELSE Tail(todo)
    BY DEF Judge
  <2>7. found # {}
    BY <2>2
  <2>8. <<>> \o (IF call = "rate" THEN <<>> ELSE Tail(todo)) = IF call = "rate" THEN <<>> ELSE Tail(todo)
    <3>1. <<>> \in Seq(Purposes) /\ Tail(todo) \in Seq(Purposes)
      BY <1>0, EmptyPlan, TailKeeps
    <3> QED
      BY <3>1, ConcatEmptySeq
  <2> HIDE DEF found, candidates
  <2> QED
    BY <2>4, <2>5, <2>6, <2>7, <2>8
<1> QED
  BY <1>4, <1>5

\* A plan is in order: each lookup is before the next.
LEMMA PlanOrdered ==
    \A kind \in Calls : Ordered(Plan[kind]) /\ ("counter" \in Members(Plan[kind]) => kind = "rate")
<1>1. ASSUME NEW s, Len(s) = 1, DOMAIN s = 1..1, s[1] \in {"memory", "usage"}
      PROVE  Ordered(s) /\ "counter" \notin Members(s)
  BY <1>1 DEF Ordered, Members
<1>2. ASSUME NEW s, DOMAIN s = 1..3, s[1] = "quota", s[2] = "set", s[3] = "judge"
      PROVE  Ordered(s) /\ "counter" \notin Members(s)
  <2>1. Place(s[1]) = 4 /\ Place(s[2]) = 6 /\ Place(s[3]) = 8
    BY <1>2, Places, Zenon
  <2>2. \A i \in 1..3 : s[i] \notin Followups /\ s[i] # "counter"
    <3> SUFFICES ASSUME NEW i \in 1..3
                 PROVE  s[i] \notin Followups /\ s[i] # "counter"
      OBVIOUS
    <3>1. i = 1 \/ i = 2 \/ i = 3
      OBVIOUS
    <3> QED
      BY <1>2, <3>1, Zenon DEF Followups
  <2> QED
    BY <1>2, <2>1, <2>2 DEF Ordered, Members
<1>3. ASSUME NEW s, DOMAIN s = 1..4, s[1] = "quota", s[2] = "set", s[3] = "judge", s[4] = "counter"
      PROVE  Ordered(s)
  <2>1. Place(s[1]) = 4 /\ Place(s[2]) = 6 /\ Place(s[3]) = 8 /\ Place(s[4]) = 10
    BY <1>3, Places, Zenon
  <2>2. \A i \in 1..4 : s[i] \notin Followups
    <3> SUFFICES ASSUME NEW i \in 1..4
                 PROVE  s[i] \notin Followups
      OBVIOUS
    <3>1. i = 1 \/ i = 2 \/ i = 3 \/ i = 4
      OBVIOUS
    <3> QED
      BY <1>3, <3>1, Zenon DEF Followups
  <2> QED
    BY <1>3, <2>1, <2>2 DEF Ordered
<1>4. ASSUME NEW s, DOMAIN s = 1..5, s[1] = "memory", s[2] = "quota", s[3] = "set", s[4] = "judge",
             s[5] = "usage"
      PROVE  Ordered(s) /\ "counter" \notin Members(s)
  <2>1. Place(s[1]) = 2 /\ Place(s[2]) = 4 /\ Place(s[3]) = 6 /\ Place(s[4]) = 8 /\ Place(s[5]) = 10
    BY <1>4, Places, Zenon
  <2>2. \A i \in 1..5 : s[i] \notin Followups /\ s[i] # "counter"
    <3> SUFFICES ASSUME NEW i \in 1..5
                 PROVE  s[i] \notin Followups /\ s[i] # "counter"
      OBVIOUS
    <3>1. i = 1 \/ i = 2 \/ i = 3 \/ i = 4 \/ i = 5
      OBVIOUS
    <3> QED
      BY <1>4, <3>1, Zenon DEF Followups
  <2> QED
    BY <1>4, <2>1, <2>2 DEF Ordered, Members
<1>5. ASSUME NEW s, DOMAIN s = 1..7, s[1] = "sources", s[2] = "memory", s[3] = "quota", s[4] = "set",
             s[5] = "judge", s[6] = "usage", s[7] = "notices"
      PROVE  Ordered(s) /\ "counter" \notin Members(s)
  <2>1. /\ Place(s[1]) = 1 /\ Place(s[2]) = 2 /\ Place(s[3]) = 4 /\ Place(s[4]) = 6 /\ Place(s[5]) = 8
        /\ Place(s[6]) = 10 /\ Place(s[7]) = 11
    BY <1>5, Places, Zenon
  <2>2. \A i \in 1..7 : s[i] \notin Followups /\ s[i] # "counter"
    <3> SUFFICES ASSUME NEW i \in 1..7
                 PROVE  s[i] \notin Followups /\ s[i] # "counter"
      OBVIOUS
    <3>1. i = 1 \/ i = 2 \/ i = 3 \/ i = 4 \/ i = 5 \/ i = 6 \/ i = 7
      OBVIOUS
    <3> QED
      BY <1>5, <3>1, Zenon DEF Followups
  <2> QED
    BY <1>5, <2>1, <2>2 DEF Ordered, Members
<1>6. Ordered(Plan["budget"]) /\ "counter" \notin Members(Plan["budget"])
  BY <1>1 DEF Plan
<1>7. Ordered(Plan["usage"]) /\ "counter" \notin Members(Plan["usage"])
  BY <1>1 DEF Plan
<1>8. Ordered(Plan["limit"]) /\ "counter" \notin Members(Plan["limit"])
  BY <1>2 DEF Plan
<1>9. Ordered(Plan["rate"])
  BY <1>3 DEF Plan
<1>10. Ordered(Plan["snapshot"]) /\ "counter" \notin Members(Plan["snapshot"])
  BY <1>4 DEF Plan
<1>11. Ordered(Plan["describe"]) /\ "counter" \notin Members(Plan["describe"])
  BY <1>5 DEF Plan
<1> QED
  BY <1>6, <1>7, <1>8, <1>9, <1>10, <1>11 DEF Calls

\* Every step keeps the plan in order.
LEMMA OrderStep == ScopeInv /\ OrderInv /\ [ReportNext]_allVars => OrderInv'
<1> SUFFICES ASSUME ScopeInv, OrderInv, [ReportNext]_allVars
             PROVE  OrderInv'
  OBVIOUS
<1>0. todo \in Seq(Purposes) /\ Ordered(todo) /\ ("counter" \in Ahead => call = "rate")
  BY DEF ScopeInv, ReportTypeOK, OrderInv
<1>1. CASE Around \/ Lookup \/ UNCHANGED allVars
  <2>1. UNCHANGED <<todo, call>>
    BY <1>1 DEF Around, Lookup, reporting, allVars
  <2> QED
    BY <2>1 DEF OrderInv, Ordered, Ahead
<1>2. ASSUME NEW kind \in setting.calls, Begin(kind)
      PROVE  OrderInv'
  <2>1. kind \in Calls
    BY SettingAssumption DEF ScopeInv, ReportTypeOK, Setting
  <2>2. todo' = Plan[kind] /\ call' = kind
    BY <1>2 DEF Begin
  <2>3. Ordered(todo') /\ ("counter" \in Ahead' => call' = "rate")
    BY <2>1, <2>2, PlanOrdered, AheadIsMembers
  <2> QED
    BY <2>3 DEF OrderInv, Ordered, Ahead
<1>3. CASE Answered
  <2>1. todo # <<>> /\ call' = call /\ Use(Head(todo), entry[Reporter].group)
    BY <1>3 DEF Answered, Asks
  <2>2. Ordered(todo') /\ ("counter" \in Ahead' => "counter" \in Ahead)
    BY <1>0, <2>1, UseOrder
  <2> QED
    BY <1>0, <2>1, <2>2 DEF OrderInv, Ordered, Ahead
<1>4. CASE Judge
  <2>1. Ordered(todo') /\ ("counter" \in Ahead' => "counter" \in Ahead)
    BY <1>0, <1>4, JudgeOrder
  <2>2. call' = call
    BY <1>4 DEF Judge
  <2> QED
    BY <1>0, <2>1, <2>2 DEF OrderInv, Ordered, Ahead
<1>5. CASE Return
  <2>1. todo = <<>> /\ todo' = todo
    BY <1>5 DEF Return
  <2>2. Ahead' = {} /\ Ordered(todo')
    BY <2>1, EmptyOrdered, AheadIsMembers
  <2> QED
    BY <2>2 DEF OrderInv, Ordered, Ahead
<1> QED
  BY <1>1, <1>2, <1>3, <1>4, <1>5 DEF ReportNext

\* The other threads leave the discovery of the reporter alone.
LEMMA AroundLeaves ==
    IInv /\ Around /\ call # None => pc'[Reporter] = pc[Reporter] /\ began'[Reporter] = began[Reporter]
<1> SUFFICES ASSUME IInv, Around, call # None
             PROVE  pc'[Reporter] = pc[Reporter] /\ began'[Reporter] = began[Reporter]
  OBVIOUS
<1>1. DOMAIN pc = Threads /\ DOMAIN began = Threads /\ Reporter \in Threads
      /\ pc = [t \in Threads |-> pc[t]] /\ began = [t \in Threads |-> began[t]]
  BY OwnIsProcess DEF IInv, TypeOK
<1>2. CASE \/ \E p \in Processes, g \in Groups : Move(p, g)
           \/ \E g \in Groups : Remove(g)
           \/ \E p, c \in Processes : Fork(p, c)
           \/ \E t \in Threads : ClearCache(t)
  BY <1>2 DEF Move, Remove, Fork, ClearCache, lookup
<1>3. CASE \E t \in Threads \ {Reporter} : Discover(t) \/ Answer(t)
  BY <1>1, <1>3 DEF Discover, Ask, ReadOwnPath, PickMount, Probe, Store, Answer, Go
<1> QED
  BY <1>2, <1>3 DEF Around

\* The discoveries a call answers from began no earlier than it did.
LEMMA SinceStep == IInv /\ ScopeInv /\ SinceInv /\ [ReportNext]_allVars => SinceInv'
<1> SUFFICES ASSUME IInv, ScopeInv, SinceInv, [ReportNext]_allVars
             PROVE  SinceInv'
  OBVIOUS
<1>0. /\ clears \in [Processes -> Nat] /\ Own \in Processes /\ Reporter \in Threads
      /\ began \in [Threads -> Nat] /\ DOMAIN pc = Threads /\ pc = [t \in Threads |-> pc[t]]
      /\ Own = Of[Reporter]
  BY OwnIsProcess DEF IInv, TypeOK, Own
<1>1. CASE Around
  <2>1. UNCHANGED <<call, since>>
    BY <1>1 DEF Around, reporting
  <2>2. clears[Own] \in Nat /\ clears'[Own] \in Nat /\ clears[Own] <= clears'[Own]
    BY <1>1, AroundFacts
  <2>3. call # None => pc'[Reporter] = pc[Reporter] /\ began'[Reporter] = began[Reporter]
    BY <1>1, AroundLeaves
  <2> QED
    BY <2>1, <2>2, <2>3 DEF SinceInv
<1>2. CASE \E kind \in setting.calls : Begin(kind)
  BY <1>0, <1>2 DEF Begin, vars, lookup, SinceInv
<1>3. CASE Lookup
  <2>1. UNCHANGED <<call, since, clears>> /\ Discover(Reporter) /\ call # None
    BY <1>0, <1>3, DiscoverQuiet DEF Lookup, Asks, reporting
  <2>2. CASE Ask(Reporter)
    BY <1>0, <2>1, <2>2 DEF Ask, SinceInv
  <2>3. CASE ~Ask(Reporter)
    <3>1. began' = began /\ pc[Reporter] # "idle"
      BY <2>1, <2>3 DEF Discover, ReadOwnPath, PickMount, Probe, Store
    <3> QED
      BY <2>1, <3>1 DEF SinceInv
  <2> QED
    BY <2>2, <2>3
<1>4. CASE Answered
  <2>1. UNCHANGED <<call, since, clears>> /\ pc'[Reporter] = "idle"
    BY <1>0, <1>4 DEF Answered, Answer, Go
  <2> QED
    BY <2>1 DEF SinceInv
<1>5. CASE Judge
  BY <1>5 DEF Judge, vars, lookup, SinceInv
<1>6. CASE Return
  BY <1>6 DEF Return, SinceInv
<1>7. CASE UNCHANGED allVars
  BY <1>7 DEF allVars, vars, lookup, reporting, SinceInv
<1> QED
  BY <1>1, <1>2, <1>3, <1>4, <1>5, <1>6, <1>7 DEF ReportNext

\* What a call is to answer is ahead of it when it begins.
LEMMA PlanCovers ==
    \A kind \in Calls :
      /\ kind = "describe" => "sources" \in Members(Plan[kind])
      /\ kind \in MemoryCalls => "memory" \in Members(Plan[kind])
      /\ kind \in CpuCalls => {"quota", "set", "judge"} \subseteq Members(Plan[kind])
      /\ kind \in UsageCalls => "usage" \in Members(Plan[kind])
      /\ kind = "rate" => "counter" \in Members(Plan[kind])
<1>1. "memory" \in Members(Plan["budget"])
  <2>1. Plan["budget"][1] = "memory" /\ DOMAIN Plan["budget"] = 1..1
    BY DEF Plan
  <2> QED
    BY <2>1 DEF Members
<1>2. "usage" \in Members(Plan["usage"])
  <2>1. Plan["usage"][1] = "usage" /\ DOMAIN Plan["usage"] = 1..1
    BY DEF Plan
  <2> QED
    BY <2>1 DEF Members
<1>3. {"quota", "set", "judge"} \subseteq Members(Plan["limit"])
  <2> DEFINE s == Plan["limit"]
  <2>1. s[1] = "quota" /\ s[2] = "set" /\ s[3] = "judge" /\ DOMAIN s = 1..3
    BY DEF Plan
  <2> QED
    BY <2>1 DEF Members
<1>4. {"quota", "set", "judge", "counter"} \subseteq Members(Plan["rate"])
  <2> DEFINE s == Plan["rate"]
  <2>1. s[1] = "quota" /\ s[2] = "set" /\ s[3] = "judge" /\ s[4] = "counter" /\ DOMAIN s = 1..4
    BY DEF Plan
  <2> QED
    BY <2>1 DEF Members
<1>5. {"memory", "quota", "set", "judge", "usage"} \subseteq Members(Plan["snapshot"])
  <2> DEFINE s == Plan["snapshot"]
  <2>1. /\ s[1] = "memory" /\ s[2] = "quota" /\ s[3] = "set" /\ s[4] = "judge" /\ s[5] = "usage"
        /\ DOMAIN s = 1..5
    BY DEF Plan
  <2> QED
    BY <2>1 DEF Members
<1>6. {"sources", "memory", "quota", "set", "judge", "usage"} \subseteq Members(Plan["describe"])
  <2> DEFINE s == Plan["describe"]
  <2>1. /\ s[1] = "sources" /\ s[2] = "memory" /\ s[3] = "quota" /\ s[4] = "set" /\ s[5] = "judge"
        /\ s[6] = "usage" /\ DOMAIN s = 1..7
    BY DEF Plan
  <2> QED
    BY <2>1 DEF Members
<1> QED
  BY <1>1, <1>2, <1>3, <1>4, <1>5, <1>6 DEF Calls, MemoryCalls, CpuCalls, UsageCalls

\* A call that begins knows nothing, and has everything ahead.
LEMMA BeginKnown ==
    ASSUME ScopeInv, NEW kind \in setting.calls, Begin(kind)
    PROVE  Known'
<1>1. kind \in Calls
  BY SettingAssumption DEF ScopeInv, ReportTypeOK, Setting
<1>2. /\ call' = kind /\ Ahead' = Members(Plan[kind])
      /\ report' = Blank /\ restriction'["quota"] = NoLevels
  <2>1. report = Blank /\ restriction["quota"] = NoLevels
    BY DEF Begin, ScopeInv, IdleInv, Kinds
  <2>2. call' = kind /\ todo' = Plan[kind] /\ UNCHANGED <<report, restriction>>
    BY DEF Begin
  <2> QED
    BY <2>1, <2>2, AheadIsMembers
<1>3. /\ kind = "describe" => "sources" \in Ahead'
      /\ kind \in MemoryCalls => "memory" \in Ahead'
      /\ kind \in CpuCalls => "quota" \in Ahead' /\ "set" \in Ahead' /\ "judge" \in Ahead'
      /\ kind \in UsageCalls => "usage" \in Ahead'
      /\ kind = "rate" => "counter" \in Ahead'
  BY <1>1, <1>2, PlanCovers
<1>4. /\ Blank.unavailable = FALSE /\ Blank.memory_limit_level = None
      /\ Blank.cpu_limit_level = None /\ Blank.cpu_rate_level = None
  BY DEF Blank
<1>5. SourceKnown'
  BY <1>2, <1>3, <1>4 DEF SourceKnown
<1>6. MemoryKnown'
  BY <1>2, <1>3, <1>4 DEF MemoryKnown
<1>7. QuotaKnown'
  BY <1>2, <1>3 DEF QuotaKnown
<1>8. SetKnown'
  BY <1>2, <1>3 DEF SetKnown
<1>9. CpuKnown'
  BY <1>2, <1>3, <1>4, TopAssumption DEF CpuKnown, Counterpart
<1>10. CounterKnown'
  BY <1>2, <1>3 DEF CounterKnown
<1> QED
  BY <1>5, <1>6, <1>7, <1>8, <1>9, <1>10 DEF Known

\* What is known stays so while the call stands still.
LEMMA StaysKnown ==
    ASSUME UNCHANGED <<call, todo, restriction, report, setting>>, home'[Own] = home[Own], Known
    PROVE  Known'
<1>1. Ahead' = Ahead
  BY DEF Ahead
<1> QED
  BY <1>1, Keeps DEF Known

\* What KnownInv says of a quiet call, before and after a step.
LEMMA KnownIs == (KnownInv <=> (call # None /\ Quiet => Known)) /\ (KnownInv' <=> (call' # None /\ Quiet' => Known'))
BY DEF KnownInv, Known

\* A quiet call learns from each lookup, and forgets nothing.
LEMMA KnownStep ==
    IInv /\ ScopeInv /\ OrderInv /\ SinceInv /\ KnownInv /\ [ReportNext]_allVars => KnownInv'
<1> SUFFICES ASSUME IInv, ScopeInv, OrderInv, SinceInv, KnownInv, [ReportNext]_allVars,
                    call' # None, Quiet'
             PROVE  Known'
  BY KnownIs
<1>0. /\ call # None => Own \in born /\ since <= clears[Own]
      /\ since \in Nat /\ clears[Own] \in Nat
  BY OwnIsProcess DEF ScopeInv, IdleInv, SinceInv, IInv, TypeOK
<1>1. CASE Around
  <2>1. UNCHANGED <<setting, call, todo, restriction, report, since>>
    BY <1>1 DEF Around, reporting
  <2>2. clears'[Own] \in Nat /\ clears[Own] <= clears'[Own] /\ calm'[Own] /\ since' = clears'[Own]
    BY <1>1, AroundFacts DEF Quiet
  <2>3. clears'[Own] = clears[Own] /\ since = clears[Own]
    BY <1>0, <2>1, <2>2
  <2>4. calm[Own] /\ home'[Own] = home[Own]
    BY <1>0, <1>1, <2>1, <2>2, <2>3, AroundFacts
  <2>5. Known
    BY <2>1, <2>3, <2>4, KnownIs DEF Quiet
  <2> QED
    BY <2>1, <2>4, <2>5, StaysKnown
<1>2. CASE \E kind \in setting.calls : Begin(kind)
  BY <1>2, BeginKnown
<1>3. CASE Lookup \/ UNCHANGED allVars
  <2>1. UNCHANGED <<setting, call, todo, restriction, report, since, home, clears, calm>>
    BY <1>3, OwnIsProcess, DiscoverQuiet DEF Lookup, reporting, allVars, vars, system
  <2>2. Known
    BY <2>1, KnownIs DEF Quiet
  <2> QED
    BY <2>1, <2>2, StaysKnown
<1>4. CASE Answered
  <2>1. /\ UNCHANGED <<setting, call, since, home, clears, calm>> /\ todo # <<>>
        /\ began[Reporter] \in Nat /\ began[Reporter] <= clears[Own]
        /\ calm[Own] /\ began[Reporter] = clears[Own] => entry[Reporter].group = home[Own]
    BY <1>4, AnswerFacts
  <2>2. calm[Own] /\ since = clears[Own] /\ Known
    BY <2>1, KnownIs DEF Quiet
  <2>3. since <= began[Reporter] /\ Use(Head(todo), entry[Reporter].group)
    BY <1>4, <2>1 DEF Answered, Answer, SinceInv
  <2>4. entry[Reporter].group = home[Own]
    BY <1>0, <2>1, <2>2, <2>3
  <2>5. Use(Head(todo), home[Own])
    BY <2>3, <2>4
  <2> QED
    BY <1>0, <2>1, <2>2, <2>5, UseKnown
<1>5. CASE Judge
  <2>1. UNCHANGED <<call, since, home, clears, calm>>
    BY <1>5 DEF Judge, vars, system
  <2>2. Known
    BY <2>1, KnownIs DEF Quiet
  <2> QED
    BY <1>0, <1>5, <2>1, <2>2, JudgeKnown
<1>6. CASE Return
  BY <1>6 DEF Return
<1> QED
  BY <1>1, <1>2, <1>3, <1>4, <1>5, <1>6 DEF ReportNext

\* What a call rests on from its first lookup to its last: each level is paired
\* with its counterpart or none, the lookups come in the order of its plan, and a quiet one knows what the lookups
\* behind it were for.
THEOREM ReportsInductive == ReportSpec => []ReportInv
<1>1. ReportInit => OrderInv /\ SinceInv /\ KnownInv
  <2> SUFFICES ASSUME ReportInit
               PROVE  OrderInv /\ SinceInv /\ KnownInv
    OBVIOUS
  <2>1. call = None /\ todo = <<>> /\ since = 0
    BY DEF ReportInit
  <2>2. OrderInv
    BY <2>1, EmptyOrdered, AheadIsMembers DEF OrderInv
  <2> QED
    BY <2>1, <2>2 DEF SinceInv, KnownInv
<1>2. ReportSpec => []IInv
  BY ImplementsCache, Inductive, PTL
<1>3. ReportInv <=> ScopeInv /\ OrderInv /\ SinceInv /\ KnownInv
  BY DEF ReportInv
<1> QED
  BY <1>1, <1>2, <1>3, ScopesHold, OrderStep, SinceStep, KnownStep, PTL DEF ReportSpec

\* All lookups of a call agree where its process is not moved and no clear met a
\* discovery, whatever other threads discover meanwhile: it reports the limits
\* there are, at the levels they are at, with the time of their counterparts beside
\* them.
THEOREM QuietExact == ReportSpec => []QuietReportExact
<1>1. ReportInv => QuietReportExact
  <2> SUFFICES ASSUME ReportInv, Returning, Quiet
               PROVE  QuietReportExact
    BY DEF QuietReportExact
  <2>1. call # None /\ todo = <<>> /\ Own \in born
    BY DEF Returning, ReportInv, ScopeInv, IdleInv
  <2>2. SourceKnown /\ MemoryKnown /\ QuotaKnown /\ SetKnown /\ CpuKnown /\ CounterKnown
    BY <2>1 DEF ReportInv, KnownInv
  <2>3. Ahead = {}
    BY <2>1, EmptyOrdered, AheadIsMembers
  <2>4. Limiting = Chain(home[Own]) \cap setting.limited
    BY DEF Limiting
  <2>5. "rate" \in CpuCalls
    BY DEF CpuCalls
  <2>6. call \in MemoryCalls =>
          IF Limiting = {} THEN report.memory_limit_level = None ELSE report.memory_limit_level \in Limiting
    BY <2>2, <2>3 DEF MemoryKnown
  <2>7. call \in CpuCalls =>
          /\ report.cpu_limit_level = None <=> Limiting = {} /\ ~setting.pinned
          /\ report.cpu_limit_level \in Limiting \cup {home[Own], None}
          /\ report.cpu_rate_level = Counterpart(report.cpu_limit_level)
    BY <2>2, <2>3 DEF CpuKnown
  <2>8. /\ call \in UsageCalls => report.counter_level = home[Own]
        /\ call = "rate" => report.counter_level = report.cpu_rate_level
        /\ call = "describe" => report.mechanism
        /\ ~report.unavailable
    BY <2>2, <2>3 DEF CounterKnown, SourceKnown
  <2> QED
    BY <2>4, <2>6, <2>7, <2>8 DEF QuietReportExact
<1> QED
  BY <1>1, ReportsInductive, PTL

=============================================================================
