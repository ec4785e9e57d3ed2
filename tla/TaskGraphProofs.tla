---------------------------- MODULE TaskGraphProofs ----------------------------
(***************************************************************************)
(* Theorems about TaskGraph and CriticalPath, for every acyclic graph of   *)
(* any finite number of tasks.                                             *)
(***************************************************************************)
EXTENDS CriticalPath, FiniteSetTheorems, TLAPS
-----------------------------------------------------------------------------
(* Sets and numbers.  Induction is by the set of those for which a formula *)
(* does not hold, as the provers know no induction rule.                   *)

\* A family of subsets of a finite set has a member with no smaller one in it.
LEMMA SmallestSet ==
    ASSUME NEW S, IsFiniteSet(S), NEW F, F \subseteq SUBSET S, F # {}
    PROVE  \E A \in F : \A B \in F : ~(B \subseteq A /\ B # A)
<1>1. FiniteSubsetsOf(S) = SUBSET S
  BY FS_FiniteSubsetsOfFinite
<1>2. IsWellFoundedOn(StrictSubsetOrdering(S), SUBSET S)
  BY <1>1, FS_StrictSubsetOrderingWellFounded
<1>3. \E A \in F : \A B \in F : <<B, A>> \notin StrictSubsetOrdering(S)
  BY <1>2, WFMin
<1> QED
  BY <1>3 DEF StrictSubsetOrdering

\* A set of natural numbers has a smallest one: the family is that of the
\* initial segments up to its members.
LEMMA SmallestMember ==
    ASSUME NEW S \in SUBSET Nat, S # {}
    PROVE  \E n \in S : \A m \in S : n <= m
<1>1. PICK k \in S : TRUE
  OBVIOUS
<1> DEFINE F == {1 .. n : n \in {m \in S : m <= k}}
           K == 1 .. k
<1>2. IsFiniteSet(K)
  BY FS_Interval
<1>3. F \subseteq SUBSET K /\ F # {}
  <2>1. K \in F
    OBVIOUS
  <2> QED
    BY <2>1
<1>4. \E A \in F : \A B \in F : ~(B \subseteq A /\ B # A)
  <2> HIDE DEF F, K
  <2> QED
    BY <1>2, <1>3, SmallestSet
<1>5. PICK n \in S : n <= k /\ \A B \in F : ~(B \subseteq 1 .. n /\ B # 1 .. n)
  BY <1>4
<1>6. ASSUME NEW m \in S, m < n
      PROVE  FALSE
  <2>1. 1 .. m \in F
    BY <1>5, <1>6
  <2>2. 1 .. m \subseteq 1 .. n
    BY <1>6
  <2>3. n \in 1 .. n /\ n \notin 1 .. m
    BY <1>6
  <2> QED
    BY <2>1, <2>2, <2>3, <1>5
<1> QED
  BY <1>6

\* Induction on the natural numbers, for membership in a set.
LEMMA Induction ==
    ASSUME NEW S, 0 \in S, \A n \in Nat : n \in S => n + 1 \in S
    PROVE  \A n \in Nat : n \in S
<1> SUFFICES ASSUME NEW k \in Nat, k \notin S
             PROVE  FALSE
  OBVIOUS
<1> DEFINE Rest == {n \in Nat : n \notin S}
<1>1. PICK n \in Rest : \A m \in Rest : n <= m
  <2>1. Rest \in SUBSET Nat /\ Rest # {}
    OBVIOUS
  <2> HIDE DEF Rest
  <2> QED
    BY <2>1, SmallestMember
<1>2. n # 0
  OBVIOUS
<1>3. n - 1 \in Nat /\ ~(n <= n - 1) /\ (n - 1) + 1 = n
  BY <1>2
<1>4. n - 1 \in S
  BY <1>1, <1>3
<1> QED
  BY <1>3, <1>4

\* A finite set has a member of the highest cost.
LEMMA Highest ==
    ASSUME NEW S, IsFiniteSet(S), S # {}, NEW c, \A t \in S : c[t] \in Nat
    PROVE  \E t \in S : \A u \in S : c[u] <= c[t]
<1> DEFINE F == {A \in SUBSET S : A # {} /\ ~\E t \in A : \A u \in A : c[u] <= c[t]}
<1> SUFFICES ASSUME F # {}
             PROVE  FALSE
  OBVIOUS
<1>1. PICK A \in F : \A B \in F : ~(B \subseteq A /\ B # A)
  <2>1. F \subseteq SUBSET S
    OBVIOUS
  <2> HIDE DEF F
  <2> QED
    BY <2>1, SmallestSet
<1>2. PICK t \in A : TRUE
  OBVIOUS
<1>3. A \ {t} # {}
  BY <1>2
<1>4. A \ {t} \notin F
  BY <1>1, <1>2
<1>5. PICK u \in A \ {t} : \A v \in A \ {t} : c[v] <= c[u]
  BY <1>3, <1>4
<1>6. c[t] \in Nat /\ c[u] \in Nat /\ \A v \in A : c[v] \in Nat
  OBVIOUS
<1>7. CASE c[t] <= c[u]
  BY <1>5, <1>7
<1>8. CASE c[u] <= c[t]
  <2>1. \A v \in A : c[v] <= c[t]
    BY <1>5, <1>6, <1>8
  <2> QED
    BY <2>1
<1> QED
  BY <1>6, <1>7, <1>8

\* A graph turned around has no cycle if the graph has none.
LEMMA AcyclicConverse ==
    ASSUME NEW S, IsFiniteSet(S), NEW g, NEW h, Acyclic(g, S),
           \A t, u \in S : u \in h[t] <=> t \in g[u]
    PROVE  Acyclic(h, S)
<1> DEFINE F == {T \in SUBSET S : T # {} /\ \A t \in T : h[t] \cap T # {}}
<1> SUFFICES ASSUME F # {}
             PROVE  FALSE
  BY DEF Acyclic
<1>1. PICK A \in F : \A B \in F : ~(B \subseteq A /\ B # A)
  <2>1. F \subseteq SUBSET S
    OBVIOUS
  <2> HIDE DEF F
  <2> QED
    BY <2>1, SmallestSet
<1>2. PICK t \in A : g[t] \cap A = {}
  BY DEF Acyclic
<1>3. PICK u \in A : t \in g[u]
  BY <1>2
<1>4. u # t
  BY <1>2, <1>3
<1>5. A \ {t} \notin F
  BY <1>1, <1>2
<1>6. PICK v \in A \ {t} : h[v] \cap (A \ {t}) = {}
  BY <1>3, <1>4, <1>5
<1>7. t \in h[v]
  BY <1>6
<1> QED
  BY <1>2, <1>6, <1>7

\* What a list has after an Append.
LEMMA Appended ==
    ASSUME NEW S, NEW s \in Seq(S), NEW t \in S
    PROVE  /\ Append(s, t) \in Seq(S)
           /\ Range(Append(s, t)) = Range(s) \cup {t}
           /\ IsInjective(s) /\ t \notin Range(s) => IsInjective(Append(s, t))
<1> DEFINE n == Len(s)
           r == Append(s, t)
<1>1. n \in Nat /\ DOMAIN s = 1 .. n /\ DOMAIN r = 1 .. n + 1
  OBVIOUS
<1>2. r[n + 1] = t /\ \A i \in 1 .. n : r[i] = s[i]
  OBVIOUS
<1>3. 1 .. n + 1 = (1 .. n) \cup {n + 1}
  BY <1>1
<1>4. r \in Seq(S)
  OBVIOUS
<1> HIDE DEF r, n
<1>5. Range(r) = Range(s) \cup {t}
  BY <1>1, <1>2, <1>3 DEF Range
<1>6. ASSUME IsInjective(s), t \notin Range(s)
      PROVE  IsInjective(r)
  BY <1>1, <1>2, <1>3, <1>6 DEF IsInjective, Range
<1> QED
  BY <1>4, <1>5, <1>6 DEF r
-----------------------------------------------------------------------------
(* The tasks that a runner needs.                                         *)

MakeTypeOK ==
    /\ graph \in [Tasks -> SUBSET Tasks]
    /\ Acyclic(graph, Tasks)
    /\ roots \in SUBSET Tasks
    /\ reversed \in BOOLEAN
    /\ at \in {"collect", "unique", "made"}
    /\ queue \in SUBSET Tasks
    /\ allTasks \in Seq(Tasks)
    /\ reversedDeps \in [Tasks -> SUBSET Tasks]
    /\ list \in Seq(Tasks)

\* What is needed has the roots and is closed, and is the least such set.
LEMMA NeededIsLeast ==
    ASSUME MakeTypeOK
    PROVE  /\ Needed \subseteq Tasks
           /\ roots \subseteq Needed
           /\ \A t \in Needed : graph[t] \subseteq Needed
           /\ \A S \in SUBSET Tasks : roots \subseteq S /\ Closed(S) => Needed \subseteq S
<1>1. Needed \subseteq Tasks
  BY DEF Needed
<1>2. roots \subseteq Needed
  BY DEF Needed, MakeTypeOK
<1>3. \A S \in SUBSET Tasks : roots \subseteq S /\ Closed(S) => Needed \subseteq S
  BY DEF Needed
<1>4. ASSUME NEW t \in Needed, NEW u \in graph[t]
      PROVE  u \in Needed
  <2>1. t \in Tasks /\ u \in Tasks
    BY <1>1, <1>4 DEF MakeTypeOK
  <2>2. ASSUME NEW S \in SUBSET Tasks, roots \subseteq S, Closed(S)
        PROVE  u \in S
    BY <1>3, <1>4, <2>2 DEF Closed
  <2> QED
    BY <2>1, <2>2 DEF Needed
<1> QED
  BY <1>1, <1>2, <1>3, <1>4

\* How far NewReversedRunner has come: what was found of the users of a task,
\* and that the queue has what is still to be found.
Collecting ==
    /\ \A d \in Tasks : reversedDeps[d] = {t \in Range(allTasks) : d \in graph[t]}
    /\ Range(allTasks) \subseteq Needed
    /\ at = "collect" =>
        /\ reversed
        /\ list = <<>>
        /\ roots \subseteq Range(allTasks) \cup queue
        /\ queue \subseteq Needed
        /\ \A t \in Range(allTasks) : graph[t] \subseteq Range(allTasks) \cup queue
    /\ at # "collect" /\ reversed => Range(allTasks) = Needed

\* How far uniqueDeps has come.
Listing ==
    /\ IsInjective(list)
    /\ Range(list) \subseteq Needed
    /\ at # "collect" =>
        /\ (IF reversed THEN Needed ELSE roots) \subseteq Range(list) \cup queue
        /\ queue \subseteq Needed
        /\ \A t \in Range(list) : Dependents[t] \subseteq Range(list) \cup queue
    /\ at = "made" => queue = {}

MakeInv == MakeTypeOK /\ Collecting /\ Listing

\* Nothing is listed yet.
LEMMA EmptyList == Range(<<>>) = {} /\ IsInjective(<<>>)
BY DEF Range, IsInjective

\* Whatever a task is said to depend on, the runner has it.
LEMMA DependentsNeeded ==
    ASSUME MakeInv
    PROVE  \A t \in Needed : Dependents[t] \subseteq Needed
<1>1. Needed \subseteq Tasks /\ \A t \in Needed : graph[t] \subseteq Needed
  BY NeededIsLeast DEF MakeInv
<1>2. \A t \in Tasks : reversedDeps[t] \subseteq Needed
  BY DEF MakeInv, Collecting
<1> QED
  BY <1>1, <1>2 DEF Dependents

LEMMA MakeInitInv == MakeInit => MakeInv
<1> SUFFICES ASSUME MakeInit
             PROVE  MakeInv
  OBVIOUS
<1>1. MakeTypeOK
  BY DEF MakeInit, MakeTypeOK
<1>2. roots \subseteq Needed /\ queue = roots /\ Range(allTasks) = {} /\ Range(list) = {}
  BY <1>1, EmptyList, NeededIsLeast DEF MakeInit
<1>3. Collecting
  BY <1>2 DEF MakeInit, Collecting
<1>4. Listing
  BY <1>2, EmptyList DEF MakeInit, Listing
<1> QED
  BY <1>1, <1>3, <1>4 DEF MakeInv

\* No step changes what is needed.
LEMMA NeededStays ==
    ASSUME UNCHANGED <<graph, roots>>
    PROVE  Needed' = Needed
BY DEF Needed, Closed

LEMMA SkipTwinInv == ASSUME MakeInv, NEW t \in Tasks, SkipTwin(t) PROVE MakeInv'
<1> USE DEF MakeInv, SkipTwin
<1>1. MakeTypeOK'
  BY DEF MakeTypeOK
<1>2. Needed' = Needed
  BY NeededStays
<1>3. Collecting'
  BY <1>2 DEF Collecting
<1>4. Listing'
  BY <1>2 DEF Listing, Dependents
<1> QED
  BY <1>1, <1>3, <1>4

LEMMA CollectInv == ASSUME MakeInv, NEW t \in Tasks, Collect(t) PROVE MakeInv'
<1> USE DEF MakeInv
<1>1. allTasks' \in Seq(Tasks) /\ Range(allTasks') = Range(allTasks) \cup {t}
  BY Appended DEF Collect, MakeTypeOK
<1>2. MakeTypeOK'
  BY <1>1 DEF Collect, MakeTypeOK, Users
<1>3. Needed' = Needed
  BY NeededStays DEF Collect
<1>4. t \in Needed /\ graph[t] \subseteq Needed
  BY NeededIsLeast DEF Collect, Collecting
<1>5. Collecting'
  <2>1. ASSUME NEW d \in Tasks
        PROVE  reversedDeps'[d] = {u \in Range(allTasks') : d \in graph[u]}
    BY <1>1 DEF Collect, Collecting, Users
  <2>2. /\ roots \subseteq Range(allTasks') \cup queue'
        /\ \A u \in Range(allTasks') : graph[u] \subseteq Range(allTasks') \cup queue'
        /\ queue' \subseteq Needed /\ Range(allTasks') \subseteq Needed
    BY <1>1, <1>4 DEF Collect, Collecting
  <2> QED
    BY <1>3, <2>1, <2>2 DEF Collect, Collecting
<1>6. Listing'
  BY <1>3 DEF Collect, Listing
<1> QED
  BY <1>2, <1>5, <1>6

LEMMA TurnAroundInv == ASSUME MakeInv, TurnAround PROVE MakeInv'
<1> USE DEF MakeInv
<1>1. Needed' = Needed
  BY NeededStays DEF TurnAround
<1>2. Range(allTasks) = Needed
  <2>1. Closed(Range(allTasks)) /\ roots \subseteq Range(allTasks)
    BY DEF TurnAround, Collecting, Closed
  <2>2. Needed \subseteq Range(allTasks)
    BY <2>1, NeededIsLeast DEF Collecting
  <2> QED
    BY <2>2 DEF Collecting
<1>3. MakeTypeOK'
  BY <1>2, NeededIsLeast DEF TurnAround, MakeTypeOK
<1>4. Collecting'
  BY <1>1, <1>2 DEF TurnAround, Collecting
<1>5. Listing'
  BY <1>1, <1>2, EmptyList DEF TurnAround, Collecting, Listing, Dependents
<1> QED
  BY <1>3, <1>4, <1>5

LEMMA UniqueInv == ASSUME MakeInv, NEW t \in Tasks, Unique(t) PROVE MakeInv'
<1> USE DEF MakeInv
<1>1. /\ list' \in Seq(Tasks)
      /\ Range(list') = Range(list) \cup {t}
      /\ IsInjective(list')
  BY Appended DEF Unique, MakeTypeOK, Listing
<1>2. t \in Needed /\ Dependents[t] \subseteq Needed /\ Needed \subseteq Tasks
  BY DependentsNeeded, NeededIsLeast DEF Unique, Listing
<1>3. MakeTypeOK'
  BY <1>1, <1>2 DEF Unique, MakeTypeOK
<1>4. Needed' = Needed /\ Dependents' = Dependents
  BY NeededStays DEF Unique, Dependents
<1>5. Collecting'
  BY <1>4 DEF Unique, Collecting
<1>6. Listing'
  BY <1>1, <1>2, <1>4 DEF Unique, Listing
<1> QED
  BY <1>3, <1>5, <1>6

LEMMA ReturnInv == ASSUME MakeInv, Return PROVE MakeInv'
<1> USE DEF MakeInv, Return
<1>1. MakeTypeOK'
  BY DEF MakeTypeOK
<1>2. Needed' = Needed /\ Dependents' = Dependents
  BY NeededStays DEF Dependents
<1>3. Collecting' /\ Listing'
  BY <1>2 DEF Collecting, Listing
<1> QED
  BY <1>1, <1>3

LEMMA MakeNextInv == ASSUME MakeInv, [MakeNext]_makeVars PROVE MakeInv'
<1>1. CASE UNCHANGED makeVars
  <2>1. MakeTypeOK'
    BY <1>1 DEF makeVars, MakeInv, MakeTypeOK
  <2>2. Needed' = Needed /\ Dependents' = Dependents
    BY <1>1, NeededStays DEF makeVars, Dependents
  <2> QED
    BY <1>1, <2>1, <2>2 DEF makeVars, MakeInv, Collecting, Listing
<1>2. CASE TurnAround
  BY <1>2, TurnAroundInv
<1>3. CASE Return
  BY <1>3, ReturnInv
<1>4. ASSUME NEW t \in Tasks, SkipTwin(t) \/ Collect(t) \/ Unique(t)
      PROVE  MakeInv'
  BY <1>4, SkipTwinInv, CollectInv, UniqueInv
<1> QED
  BY <1>1, <1>2, <1>3, <1>4 DEF MakeNext

\* What is known of the lists in every state of the two loops: the inductive
\* invariant (NewReversedRunner and uniqueDeps).
THEOREM MakeInductive == MakeSpec => []MakeInv
<1>1. MakeInv /\ [MakeNext]_makeVars => MakeInv'
  BY MakeNextInv
<1> QED
  BY <1>1, MakeInitInv, PTL DEF MakeSpec

\* When uniqueDeps is through, it has listed what is needed.
LEMMA ListedAll ==
    ASSUME MakeInv, at = "made"
    PROVE  Range(list) = Needed
<1> USE DEF MakeInv, Listing
<1>1. CASE reversed
  BY <1>1
<1>2. CASE ~reversed
  <2>1. roots \subseteq Range(list) /\ Closed(Range(list))
    BY <1>2 DEF Closed, Dependents
  <2>2. Needed \subseteq Range(list)
    BY <2>1, NeededIsLeast
  <2> QED
    BY <2>2
<1> QED
  BY <1>1, <1>2

\* The runner of a stop has the graph of the runner of a start, turned around.
LEMMA TurnedAround ==
    ASSUME MakeInv, at = "made", reversed
    PROVE  \A t, u \in Needed : u \in Dependents[t] <=> t \in graph[u]
BY NeededIsLeast DEF MakeInv, Collecting, Dependents

\* The tasks of a runner can be worked off.
LEMMA NoCycle ==
    ASSUME MakeInv, at = "made"
    PROVE  Acyclic(Dependents, Needed)
<1>1. Needed \subseteq Tasks
  BY NeededIsLeast DEF MakeInv
<1>2. Acyclic(graph, Needed)
  BY <1>1 DEF MakeInv, MakeTypeOK, Acyclic
<1>3. CASE reversed
  <2>1. IsFiniteSet(Needed)
    BY <1>1, TasksAssumption, FS_Subset
  <2>2. \A t, u \in Needed : u \in Dependents[t] <=> t \in graph[u]
    BY <1>3, TurnedAround
  <2> QED
    BY <1>2, <2>1, <2>2, AcyclicConverse
<1>4. CASE ~reversed
  BY <1>2, <1>4 DEF Dependents
<1> QED
  BY <1>3, <1>4

\* A runner has the tasks it needs, each once, with the graph of a start or its
\* converse, and no cycle: for every acyclic graph, all roots and any order in
\* which the loops go through the queue (NewRunner, NewReversedRunner).
THEOREM RunnersAreComplete == MakeSpec => []RunnersGetTheGraph
<1>1. MakeInv => RunnersGetTheGraph
  <2> SUFFICES ASSUME MakeInv, at = "made"
               PROVE  /\ Range(list) = Needed
                      /\ IsInjective(list)
                      /\ \A t \in Needed : Dependents[t] \subseteq Needed
                      /\ reversed => \A t, u \in Needed : u \in Dependents[t] <=> t \in graph[u]
                      /\ Acyclic(Dependents, Needed)
    BY DEF RunnersGetTheGraph
  <2>1. IsInjective(list)
    BY DEF MakeInv, Listing
  <2> QED
    BY <2>1, ListedAll, DependentsNeeded, TurnedAround, NoCycle
<1> QED
  BY <1>1, MakeInductive, PTL
-----------------------------------------------------------------------------
(* Sums of durations.                                                     *)

\* The running sums exist: what recursion defines is a function.
LEMMA SumsExist ==
    ASSUME NEW N \in Nat, NEW d \in [1 .. N -> Nat]
    PROVE  \E s \in [0 .. N -> Nat] :
                s = [i \in 0 .. N |-> IF i = 0 THEN 0 ELSE s[i - 1] + d[i]]
<1> DEFINE
        IsSum(s, n) == /\ s[0] = 0
                       /\ \A i \in 1 .. n : s[i] = s[i - 1] + d[i]
        S == {n \in Nat : n <= N => \E s \in [0 .. n -> Nat] : IsSum(s, n)}
<1>1. 0 \in S
  <2>1. [i \in 0 .. 0 |-> 0] \in [0 .. 0 -> Nat] /\ IsSum([i \in 0 .. 0 |-> 0], 0)
    OBVIOUS
  <2> QED
    BY <2>1
<1>2. ASSUME NEW n \in Nat, n \in S, n + 1 <= N
      PROVE  \E s \in [0 .. n + 1 -> Nat] : IsSum(s, n + 1)
  <2>1. PICK s \in [0 .. n -> Nat] : IsSum(s, n)
    BY <1>2
  <2> DEFINE r == [i \in 0 .. n + 1 |-> IF i = n + 1 THEN s[n] + d[n + 1] ELSE s[i]]
  <2>2. d[n + 1] \in Nat /\ s[n] \in Nat
    BY <1>2
  <2>3. r \in [0 .. n + 1 -> Nat]
    BY <2>2
  <2>4. r[0] = 0
    BY <2>1
  <2>5. ASSUME NEW i \in 1 .. n + 1
        PROVE  r[i] = r[i - 1] + d[i]
    <3>1. CASE i = n + 1
      BY <3>1
    <3>2. CASE i # n + 1
      BY <2>1, <3>2
    <3> QED
      BY <3>1, <3>2
  <2> QED
    BY <2>3, <2>4, <2>5
<1>3. N \in S
  <2>1. ASSUME NEW n \in Nat, n \in S
        PROVE  n + 1 \in S
    <3>1. n + 1 \in Nat
      OBVIOUS
    <3>2. n + 1 <= N => \E s \in [0 .. n + 1 -> Nat] : IsSum(s, n + 1)
      BY <1>2, <2>1
    <3> HIDE DEF IsSum
    <3> QED
      BY <3>1, <3>2
  <2> HIDE DEF S
  <2> QED
    BY <1>1, <2>1, Induction
<1>4. PICK s \in [0 .. N -> Nat] : IsSum(s, N)
  <2> HIDE DEF IsSum
  <2> QED
    BY <1>3
<1>5. ASSUME NEW i \in 0 .. N
      PROVE  s[i] = IF i = 0 THEN 0 ELSE s[i - 1] + d[i]
  BY <1>4
<1> QED
  BY <1>5

\* What Sums is, for a sequence of tasks.
LEMMA SumsOf ==
    ASSUME duration \in [Tasks -> Nat], NEW p \in Seq(Tasks)
    PROVE  /\ Sums(p) \in [0 .. Len(p) -> Nat]
           /\ Sums(p)[0] = 0
           /\ \A i \in 1 .. Len(p) : Sums(p)[i] = Sums(p)[i - 1] + duration[p[i]]
<1> DEFINE N == Len(p)
           d == [i \in 1 .. N |-> duration[p[i]]]
           Next(s) == [i \in 0 .. N |-> IF i = 0 THEN 0 ELSE s[i - 1] + duration[p[i]]]
<1>1. N \in Nat /\ d \in [1 .. N -> Nat]
  OBVIOUS
<1>2. PICK s \in [0 .. N -> Nat] : s = [i \in 0 .. N |-> IF i = 0 THEN 0 ELSE s[i - 1] + d[i]]
  <2> HIDE DEF d, N
  <2> QED
    BY <1>1, SumsExist
<1>3. s = Next(s)
  <2>1. \A i \in 0 .. N : i # 0 => d[i] = duration[p[i]]
    BY <1>1
  <2>2. \A i \in 0 .. N :
            (IF i = 0 THEN 0 ELSE s[i - 1] + d[i]) = IF i = 0 THEN 0 ELSE s[i - 1] + duration[p[i]]
    BY <2>1
  <2> QED
    BY <1>2, <2>2
<1>4. Sums(p) = Next(Sums(p))
  BY <1>3 DEF Sums
<1> DEFINE sum == Sums(p)
           S == {n \in Nat : n <= N => sum[n] \in Nat}
<1>5. sum[0] = 0 /\ \A i \in 1 .. N : sum[i] = sum[i - 1] + duration[p[i]]
  BY <1>1, <1>4
<1>6. \A n \in Nat : n \in S
  <2> HIDE DEF sum
  <2>1. 0 \in S
    BY <1>5
  <2>2. ASSUME NEW n \in Nat, n \in S
        PROVE  n + 1 \in S
    BY <1>1, <1>5, <2>2
  <2> HIDE DEF S
  <2> QED
    BY <2>1, <2>2, Induction
<1>7. sum \in [0 .. N -> Nat]
  <2>1. DOMAIN sum = 0 .. N /\ sum = [i \in 0 .. N |-> sum[i]]
    BY <1>4
  <2> HIDE DEF sum
  <2> QED
    BY <1>1, <1>6, <2>1
<1> QED
  BY <1>5, <1>7

\* No task takes no time.
LEMMA CostType ==
    ASSUME duration \in [Tasks -> Nat], NEW p \in Seq(Tasks)
    PROVE  Cost(p) \in Nat /\ (p = <<>> => Cost(p) = 0)
<1>1. Sums(p) \in [0 .. Len(p) -> Nat] /\ Sums(p)[0] = 0
  BY SumsOf
<1>2. Len(p) \in Nat /\ Len(p) \in 0 .. Len(p) /\ (p = <<>> => Len(p) = 0)
  OBVIOUS
<1> QED
  BY <1>1, <1>2 DEF Cost

\* A task more adds its duration.
LEMMA CostOfAppend ==
    ASSUME duration \in [Tasks -> Nat], NEW p \in Seq(Tasks), NEW t \in Tasks
    PROVE  Cost(p) \in Nat /\ Cost(Append(p, t)) = Cost(p) + duration[t]
<1> DEFINE N == Len(p)
           q == Append(p, t)
           before == Sums(p)
           after == Sums(q)
           S == {n \in Nat : n <= N => after[n] = before[n]}
<1>1. N \in Nat /\ q \in Seq(Tasks) /\ Len(q) = N + 1
  OBVIOUS
<1>2. q[N + 1] = t /\ \A i \in 1 .. N : q[i] = p[i]
  OBVIOUS
<1>3. /\ before \in [0 .. N -> Nat]
      /\ before[0] = 0
      /\ \A i \in 1 .. N : before[i] = before[i - 1] + duration[p[i]]
  BY SumsOf
<1>4. /\ after[0] = 0
      /\ \A i \in 1 .. N + 1 : after[i] = after[i - 1] + duration[q[i]]
  <2> HIDE DEF q
  <2> QED
    BY <1>1, SumsOf
<1> HIDE DEF before, after, q, N
<1>5. \A n \in Nat : n \in S
  <2>1. 0 \in S
    BY <1>3, <1>4
  <2>2. ASSUME NEW n \in Nat, n \in S
        PROVE  n + 1 \in S
    <3>1. ASSUME n + 1 <= N
          PROVE  after[n + 1] = before[n + 1]
      <4>1. n + 1 \in 1 .. N /\ n + 1 \in 1 .. N + 1 /\ (n + 1) - 1 = n
        BY <1>1, <3>1
      <4>2. after[n] = before[n]
        BY <1>1, <2>2, <3>1
      <4> QED
        BY <1>2, <1>3, <1>4, <4>1, <4>2
    <3> QED
      BY <3>1
  <2> HIDE DEF S
  <2> QED
    BY <2>1, <2>2, Induction
<1>6. after[N + 1] = before[N] + duration[t] /\ before[N] \in Nat
  <2>1. after[N] = before[N]
    BY <1>1, <1>5
  <2>2. N + 1 \in 1 .. N + 1 /\ (N + 1) - 1 = N /\ N \in 0 .. N
    BY <1>1
  <2> QED
    BY <1>2, <1>3, <1>4, <2>1, <2>2
<1> QED
  BY <1>1, <1>6 DEF Cost, before, after, q, N
-----------------------------------------------------------------------------
(* The critical path.                                                     *)

\* The tasks that this runner started itself.
Own == completed \ old

PathTypeOK ==
    /\ graph \in [Tasks -> SUBSET Tasks]
    /\ duration \in [Tasks -> Nat]
    /\ old \in SUBSET Tasks
    /\ completed \in SUBSET Tasks
    /\ Closed(completed)
    /\ stage \in {"costs", "path", "done"}
    /\ DOMAIN costs \subseteq Own
    /\ \A t \in DOMAIN costs : costs[t] \in Nat
    /\ stack \in Seq(Own)
    /\ path \in Seq(Own)

\* Each cost that is kept is the right one, and was made of costs that are kept.
Memoised ==
    /\ \A t \in DOMAIN costs :
        /\ graph[t] \subseteq old \cup DOMAIN costs
        /\ costs[t] = duration[t] + CostOfHighest(graph[t])
    /\ stage # "costs" => Own \subseteq DOMAIN costs

\* The path and the highest cost of a way to go on with it make up the highest
\* cost there is.
Following ==
    /\ IsChain(path)
    /\ stage = "costs" => path = <<>>
    /\ stage = "path" => Cost(path) + CostOfHighest(Candidates) = CostOfHighest(completed)
    /\ stage = "done" => Cost(path) = CostOfHighest(completed)

PathInv == PathTypeOK /\ Memoised /\ Following

\* What highestCost returns, once all costs it compares are known.
LEMMA HighestIsBound ==
    ASSUME PathTypeOK, NEW S \in SUBSET Tasks, S \subseteq old \cup DOMAIN costs
    PROVE  /\ CostOfHighest(S) \in Nat
           /\ \A t \in S \ old : costs[t] <= CostOfHighest(S)
           /\ \A t \in HighestCost(S) : costs[t] = CostOfHighest(S)
           /\ HighestCost(S) = {} => CostOfHighest(S) = 0
<1>1. \A t \in S \ old : costs[t] \in Nat
  BY DEF PathTypeOK
<1>2. CASE HighestCost(S) = {}
  <2>1. CostOfHighest(S) = 0
    BY <1>2 DEF CostOfHighest
  <2>2. ASSUME NEW t \in S \ old
        PROVE  costs[t] = 0
    <3>1. IsFiniteSet(S \ old)
      BY TasksAssumption, FS_Subset
    <3>2. PICK u \in S \ old : \A v \in S \ old : costs[v] <= costs[u]
      BY <1>1, <2>2, <3>1, Highest
    <3>3. costs[u] = 0
      BY <1>1, <1>2, <3>2 DEF HighestCost
    <3> QED
      BY <1>1, <2>2, <3>2, <3>3
  <2> QED
    BY <1>2, <2>1, <2>2
<1>3. CASE HighestCost(S) # {}
  <2>1. PICK u \in HighestCost(S) : CostOfHighest(S) = costs[u]
    BY <1>3 DEF CostOfHighest
  <2>2. u \in S \ old /\ \A t \in S \ old : costs[t] <= costs[u]
    BY <2>1 DEF HighestCost
  <2>3. ASSUME NEW t \in HighestCost(S)
        PROVE  costs[t] = costs[u]
    <3>1. t \in S \ old /\ costs[u] <= costs[t] /\ costs[t] <= costs[u]
      BY <2>2, <2>3 DEF HighestCost
    <3> QED
      BY <1>1, <2>2, <3>1
  <2> QED
    BY <1>1, <1>3, <2>1, <2>2, <2>3
<1> QED
  BY <1>2, <1>3

\* What a kept cost is made of stays as it is.
LEMMA CostsStay ==
    ASSUME NEW S, S \subseteq old \cup DOMAIN costs, UNCHANGED old,
           \A t \in DOMAIN costs : costs'[t] = costs[t]
    PROVE  CostOfHighest(S)' = CostOfHighest(S)
<1>1. HighestCost(S)' = HighestCost(S)
  BY DEF HighestCost
<1>2. \A t \in HighestCost(S) : costs'[t] = costs[t]
  BY DEF HighestCost
<1>3. CASE HighestCost(S) = {}
  BY <1>1, <1>3 DEF CostOfHighest
<1>4. CASE HighestCost(S) # {}
  <2> DEFINE highest == CHOOSE t \in HighestCost(S) : TRUE
  <2>1. highest \in HighestCost(S)
    BY <1>4
  <2>2. costs'[highest] = costs[highest]
    BY <1>2, <2>1
  <2> QED
    BY <1>1, <1>4, <2>2 DEF CostOfHighest
<1> QED
  BY <1>3, <1>4

\* What an own task depends on and is not old is an own task.
LEMMA OwnClosed ==
    ASSUME PathTypeOK, NEW t \in Own
    PROVE  graph[t] \in SUBSET Tasks /\ graph[t] \ old \subseteq Own
BY DEF PathTypeOK, Own, Closed

\* Sequences of tasks cost what they cost.
LEMMA CostStays ==
    ASSUME UNCHANGED duration, NEW p
    PROVE  Cost(p)' = Cost(p)
BY DEF Cost, Sums

\* No chain costs more than the highest cost of a task.
LEMMA ChainBound ==
    ASSUME PathTypeOK, Memoised, Own \subseteq DOMAIN costs, NEW p \in Seq(Own), IsChain(p)
    PROVE  Cost(p) <= CostOfHighest(completed)
<1> DEFINE N == Len(p)
           sum == Sums(p)
           S == {n \in Nat : n + 1 <= N => sum[n] + costs[p[n + 1]] <= CostOfHighest(completed)}
<1>1. N \in Nat /\ p \in Seq(Tasks) /\ \A i \in 1 .. N : p[i] \in Own
  BY DEF PathTypeOK, Own
<1>2. /\ sum \in [0 .. N -> Nat]
      /\ sum[0] = 0
      /\ \A i \in 1 .. N : sum[i] = sum[i - 1] + duration[p[i]]
  BY <1>1, SumsOf DEF PathTypeOK
<1>3. /\ CostOfHighest(completed) \in Nat
      /\ \A t \in Own : costs[t] \in Nat /\ costs[t] <= CostOfHighest(completed)
  BY HighestIsBound DEF PathTypeOK, Own
<1>4. ASSUME NEW t \in Own
      PROVE  /\ duration[t] \in Nat
             /\ duration[t] <= costs[t]
             /\ \A u \in graph[t] \ old : duration[t] + costs[u] <= costs[t]
  <2>1. graph[t] \in SUBSET Tasks /\ graph[t] \subseteq old \cup DOMAIN costs
    BY OwnClosed DEF Memoised
  <2>2. /\ CostOfHighest(graph[t]) \in Nat
        /\ \A u \in graph[t] \ old : costs[u] <= CostOfHighest(graph[t])
    BY <2>1, HighestIsBound
  <2>3. costs[t] = duration[t] + CostOfHighest(graph[t])
    BY DEF Memoised
  <2>4. duration[t] \in Nat /\ \A u \in graph[t] \ old : costs[u] \in Nat
    BY <2>1 DEF PathTypeOK, Own
  <2> QED
    BY <2>2, <2>3, <2>4
<1> HIDE DEF sum
<1>5. \A n \in Nat : n \in S
  <2>1. 0 \in S
    BY <1>1, <1>2, <1>3
  <2>2. ASSUME NEW n \in Nat, n \in S
        PROVE  n + 1 \in S
    <3>1. ASSUME (n + 1) + 1 <= N
          PROVE  sum[n + 1] + costs[p[(n + 1) + 1]] <= CostOfHighest(completed)
      <4> DEFINE t == p[n + 1]
                 u == p[(n + 1) + 1]
      <4>1. t \in Own /\ u \in Own
        BY <1>1, <3>1
      <4>2. u \in graph[t] \ old
        BY <1>1, <3>1, <4>1 DEF IsChain, Own
      <4>3. duration[t] + costs[u] <= costs[t] /\ duration[t] \in Nat
        BY <1>4, <4>1, <4>2
      <4>4. sum[n + 1] = sum[n] + duration[t] /\ sum[n] \in Nat
        BY <1>1, <1>2, <3>1
      <4>5. sum[n] + costs[t] <= CostOfHighest(completed)
        BY <1>1, <2>2, <3>1
      <4> QED
        BY <1>3, <4>1, <4>3, <4>4, <4>5
    <3> QED
      BY <3>1
  <2> HIDE DEF S
  <2> QED
    BY <2>1, <2>2, Induction
<1>6. CASE N = 0
  BY <1>2, <1>3, <1>6 DEF Cost, sum
<1>7. CASE N # 0
  <2>1. N - 1 \in Nat /\ (N - 1) + 1 = N /\ N \in 1 .. N
    BY <1>1, <1>7
  <2>2. sum[N - 1] + costs[p[N]] <= CostOfHighest(completed)
    BY <1>5, <2>1
  <2>3. sum[N] = sum[N - 1] + duration[p[N]] /\ sum[N - 1] \in Nat
    BY <1>2, <2>1
  <2>4. duration[p[N]] <= costs[p[N]] /\ duration[p[N]] \in Nat /\ costs[p[N]] \in Nat
    BY <1>1, <1>3, <1>4, <2>1
  <2>5. sum[N] <= CostOfHighest(completed)
    BY <1>3, <2>2, <2>3, <2>4
  <2> QED
    BY <2>5 DEF Cost, sum
<1> QED
  BY <1>6, <1>7

LEMMA PathInitInv == PathInit => PathInv
<1> SUFFICES ASSUME PathInit
             PROVE  PathInv
  OBVIOUS
<1>1. PathTypeOK
  BY DEF PathInit, PathTypeOK
<1>2. Memoised
  BY DEF PathInit, Memoised
<1>3. Following
  BY DEF PathInit, Following, IsChain
<1> QED
  BY <1>1, <1>2, <1>3 DEF PathInv

\* Those on the stack are own tasks.
LEMMA InnermostOwn ==
    ASSUME PathTypeOK, stack # <<>>
    PROVE  Innermost \in Own
BY DEF PathTypeOK, Innermost

LEMMA CallTaskCostInv == ASSUME PathInv, NEW t \in Tasks, CallTaskCost(t) PROVE PathInv'
<1> USE DEF PathInv
<1>1. t \in Own
  <2>1. CASE stack = <<>>
    BY <2>1 DEF CallTaskCost, Compared, Own
  <2>2. CASE stack # <<>>
    BY <2>2, InnermostOwn, OwnClosed DEF CallTaskCost, Compared
  <2> QED
    BY <2>1, <2>2
<1>2. Own' = Own
  BY DEF CallTaskCost, Own
<1>3. PathTypeOK'
  BY <1>1, <1>2 DEF CallTaskCost, PathTypeOK, Closed
<1>4. Memoised'
  <2>1. ASSUME NEW u \in DOMAIN costs
        PROVE  CostOfHighest(graph[u])' = CostOfHighest(graph[u])
    BY DEF CallTaskCost, CostOfHighest, HighestCost
  <2> QED
    BY <1>2, <2>1 DEF CallTaskCost, Memoised
<1>5. Following'
  BY DEF CallTaskCost, Following, IsChain
<1> QED
  BY <1>3, <1>4, <1>5

LEMMA ReturnTaskCostInv == ASSUME PathInv, ReturnTaskCost PROVE PathInv'
<1> USE DEF PathInv
<1> DEFINE t == Innermost
           cost == duration[t] + CostOfHighest(graph[t])
<1>1. Own' = Own /\ UNCHANGED <<graph, duration, old>>
  BY DEF ReturnTaskCost, Own
<1>2. t \in Own /\ graph[t] \in SUBSET Tasks /\ graph[t] \subseteq old \cup DOMAIN costs
  BY InnermostOwn, OwnClosed DEF ReturnTaskCost, Compared
<1>3. cost \in Nat
  <2>1. CostOfHighest(graph[t]) \in Nat
    BY <1>2, HighestIsBound
  <2>2. duration[t] \in Nat
    BY <1>2 DEF PathTypeOK, Own
  <2> QED
    BY <2>1, <2>2
<1>4. DOMAIN costs' = DOMAIN costs \cup {t}
  BY DEF ReturnTaskCost
<1>5. costs'[t] = cost
  BY DEF ReturnTaskCost
<1>6. \A u \in DOMAIN costs : costs'[u] = costs[u]
  <2>1. ASSUME t \in DOMAIN costs
        PROVE  costs[t] = cost
    BY <2>1 DEF Memoised
  <2>2. \A u \in DOMAIN costs : u # t => costs'[u] = costs[u]
    BY DEF ReturnTaskCost
  <2> QED
    BY <1>5, <2>1, <2>2
<1> HIDE DEF t, cost
<1>7. PathTypeOK'
  <2>1. stack' \in Seq(Own)
    BY DEF ReturnTaskCost, PathTypeOK
  <2>2. \A u \in DOMAIN costs' : costs'[u] \in Nat
    BY <1>3, <1>4, <1>5, <1>6 DEF PathTypeOK
  <2>3. UNCHANGED <<graph, duration, old, completed, stage, path>>
    BY DEF ReturnTaskCost
  <2> QED
    BY <1>1, <1>2, <1>4, <2>1, <2>2, <2>3 DEF PathTypeOK, Closed
<1>8. ASSUME NEW u \in DOMAIN costs'
      PROVE  /\ graph[u] \subseteq old \cup DOMAIN costs
             /\ costs'[u] = duration[u] + CostOfHighest(graph[u])
  BY <1>2, <1>4, <1>5, <1>6, <1>8 DEF Memoised, cost
<1>9. Memoised'
  <2>1. ASSUME NEW u \in DOMAIN costs'
        PROVE  CostOfHighest(graph[u])' = CostOfHighest(graph[u])
    <3>1. PICK S : S = graph[u]
      OBVIOUS
    <3>2. CostOfHighest(S)' = CostOfHighest(S)
      BY <1>1, <1>6, <1>8, <3>1, CostsStay
    <3>3. graph'[u] = S
      BY <1>1, <3>1
    <3> QED
      BY <3>1, <3>2, <3>3
  <2>2. stage' = "costs"
    BY DEF ReturnTaskCost
  <2> QED
    BY <1>1, <1>4, <1>8, <2>1, <2>2 DEF Memoised
<1>10. Following'
  BY DEF ReturnTaskCost, Following, IsChain
<1> QED
  BY <1>7, <1>9, <1>10

\* Later steps leave the costs alone.
LEMMA MemoisedStays ==
    ASSUME PathInv, UNCHANGED <<graph, duration, old, completed, costs>>, stage # "costs"
    PROVE  Memoised' /\ Own' = Own
<1>1. Own' = Own
  BY DEF Own
<1>2. ASSUME NEW u \in DOMAIN costs
      PROVE  CostOfHighest(graph[u])' = CostOfHighest(graph[u])
  BY DEF CostOfHighest, HighestCost
<1> QED
  BY <1>1, <1>2 DEF PathInv, Memoised

LEMMA CostsKnownInv == ASSUME PathInv, CostsKnown PROVE PathInv'
<1> USE DEF PathInv
<1>1. Own' = Own /\ Own \subseteq DOMAIN costs
  BY DEF CostsKnown, Own, Compared
<1>2. PathTypeOK'
  BY <1>1 DEF CostsKnown, PathTypeOK, Closed
<1>3. Memoised'
  <2>1. ASSUME NEW u \in DOMAIN costs
        PROVE  CostOfHighest(graph[u])' = CostOfHighest(graph[u])
    BY DEF CostsKnown, CostOfHighest, HighestCost
  <2> QED
    BY <1>1, <2>1 DEF CostsKnown, Memoised
<1>4. Following'
  <2>1. path = <<>> /\ path' = <<>>
    BY DEF CostsKnown, Following
  <2>2. Cost(path)' = 0
    <3>0. path \in Seq(Tasks)
      BY <2>1
    <3>1. Cost(path) = 0
      BY <2>1, <3>0, CostType DEF PathTypeOK
    <3>2. Cost(path)' = Cost(path)
      BY <2>1, CostStays DEF CostsKnown
    <3> QED
      BY <2>1, <3>1, <3>2
  <2>3. CostOfHighest(completed)' = CostOfHighest(completed)
    BY DEF CostsKnown, CostOfHighest, HighestCost
  <2>4. CostOfHighest(completed) \in Nat
    BY <1>1, HighestIsBound DEF PathTypeOK, Own
  <2>5. CostOfHighest(Candidates)' = CostOfHighest(completed)'
    BY <2>1 DEF Candidates, CostsKnown
  <2>6. IsChain(path)'
    BY DEF CostsKnown, Following, IsChain
  <2>7. stage' = "path"
    BY DEF CostsKnown
  <2> QED
    BY <2>2, <2>3, <2>4, <2>5, <2>6, <2>7 DEF Following
<1> QED
  BY <1>2, <1>3, <1>4

\* What may follow on the path is known.
LEMMA CandidatesKnown ==
    ASSUME PathInv, stage # "costs"
    PROVE  /\ Candidates \in SUBSET Tasks
           /\ Candidates \subseteq old \cup DOMAIN costs
           /\ Candidates \ old \subseteq Own
<1> USE DEF PathInv
<1>1. CASE path = <<>>
  BY <1>1 DEF Candidates, PathTypeOK, Memoised, Own
<1>2. CASE path # <<>>
  <2>1. path[Len(path)] \in Own
    BY <1>2 DEF PathTypeOK
  <2> QED
    BY <1>2, <2>1, OwnClosed DEF Candidates, Memoised
<1> QED
  BY <1>1, <1>2

LEMMA ExtendPathInv == ASSUME PathInv, NEW t \in Tasks, ExtendPath(t) PROVE PathInv'
<1> USE DEF PathInv
<1>1. Memoised' /\ Own' = Own
  BY MemoisedStays DEF ExtendPath
<1>2. t \in Own /\ t \in Candidates
  BY CandidatesKnown DEF ExtendPath, HighestCost
<1>3. /\ path' \in Seq(Own)
      /\ path' # <<>>
      /\ Len(path') = Len(path) + 1
      /\ path'[Len(path')] = t
      /\ \A i \in 1 .. Len(path) : path'[i] = path[i]
  BY <1>2 DEF ExtendPath, PathTypeOK
<1>4. PathTypeOK'
  BY <1>1, <1>3 DEF ExtendPath, PathTypeOK, Closed
<1>5. IsChain(path')
  <2> SUFFICES ASSUME NEW i \in 1 .. Len(path') - 1
               PROVE  path'[i + 1] \in graph[path'[i]]
    BY DEF IsChain
  <2>1. Len(path) \in Nat
    BY DEF PathTypeOK
  <2>2. CASE i = Len(path)
    <3>1. path # <<>>
      BY <2>1, <2>2
    <3>2. t \in graph[path[Len(path)]]
      BY <1>2, <3>1 DEF Candidates
    <3> QED
      BY <1>3, <2>1, <2>2, <3>2
  <2>3. CASE i # Len(path)
    <3>1. i \in 1 .. Len(path) - 1 /\ i \in 1 .. Len(path) /\ i + 1 \in 1 .. Len(path)
      BY <1>3, <2>1, <2>3
    <3>2. path[i + 1] \in graph[path[i]]
      BY <3>1 DEF Following, IsChain
    <3> QED
      BY <1>3, <3>1, <3>2
  <2> QED
    BY <2>2, <2>3
<1>6. Cost(path') + CostOfHighest(graph[t]) = CostOfHighest(completed)
  <2>1. Own \subseteq Tasks /\ path \in Seq(Tasks)
    BY DEF PathTypeOK, Own
  <2>2. Cost(path) \in Nat /\ Cost(path') = Cost(path) + duration[t]
    BY <2>1, CostOfAppend DEF ExtendPath, PathTypeOK
  <2>3. costs[t] = CostOfHighest(Candidates)
    BY CandidatesKnown, HighestIsBound DEF ExtendPath
  <2>4. t \in DOMAIN costs
    BY <1>2 DEF Memoised, ExtendPath
  <2>5. costs[t] = duration[t] + CostOfHighest(graph[t])
    BY <2>4 DEF Memoised
  <2>6. CostOfHighest(graph[t]) \in Nat /\ duration[t] \in Nat
    BY <2>4, <1>2, OwnClosed, HighestIsBound DEF Memoised, PathTypeOK
  <2>7. Cost(path) + CostOfHighest(Candidates) = CostOfHighest(completed)
    BY DEF Following, ExtendPath
  <2> QED
    BY <2>2, <2>3, <2>5, <2>6, <2>7
<1>7. Following'
  <2>1. IsChain(path)'
    BY <1>5 DEF ExtendPath, IsChain
  <2>2. stage' = "path"
    BY DEF ExtendPath
  <2>3. Candidates' = graph[t]
    BY <1>3 DEF Candidates, ExtendPath
  <2>4. CostOfHighest(Candidates)' = CostOfHighest(graph[t])
    BY <2>3 DEF ExtendPath, CostOfHighest, HighestCost
  <2>5. CostOfHighest(completed)' = CostOfHighest(completed)
    BY DEF ExtendPath, CostOfHighest, HighestCost
  <2>6. Cost(path)' = Cost(path')
    <3>1. PICK p : p = path'
      OBVIOUS
    <3>2. Cost(p)' = Cost(p)
      BY CostStays DEF ExtendPath
    <3> QED
      BY <3>1, <3>2
  <2> QED
    BY <1>6, <2>1, <2>2, <2>4, <2>5, <2>6 DEF Following
<1> QED
  BY <1>1, <1>4, <1>7

LEMMA EndPathInv == ASSUME PathInv, EndPath PROVE PathInv'
<1> USE DEF PathInv
<1>1. Memoised' /\ Own' = Own
  BY MemoisedStays DEF EndPath
<1>2. PathTypeOK'
  BY <1>1 DEF EndPath, PathTypeOK, Closed
<1>3. Cost(path) = CostOfHighest(completed)
  <2>1. CostOfHighest(Candidates) = 0
    BY CandidatesKnown, HighestIsBound DEF EndPath
  <2>2. Cost(path) \in Nat
    <3>1. path \in Seq(Tasks)
      BY DEF PathTypeOK, Own
    <3> QED
      BY <3>1, CostType DEF PathTypeOK
  <2> QED
    BY <2>1, <2>2 DEF EndPath, Following
<1>4. Following'
  <2>1. Cost(path)' = Cost(path)
    BY DEF EndPath, Cost, Sums
  <2>2. CostOfHighest(completed)' = CostOfHighest(completed)
    BY DEF EndPath, CostOfHighest, HighestCost
  <2>3. IsChain(path)'
    BY DEF EndPath, Following, IsChain
  <2> QED
    BY <1>3, <2>1, <2>2, <2>3 DEF EndPath, Following
<1> QED
  BY <1>1, <1>2, <1>4

LEMMA PathNextInv == ASSUME PathInv, [PathNext]_pathVars PROVE PathInv'
<1>1. CASE UNCHANGED pathVars
  <2> USE <1>1 DEF pathVars
  <2>1. PathTypeOK'
    BY DEF PathInv, PathTypeOK, Closed, Own
  <2>2. Memoised'
    BY DEF PathInv, Memoised, CostOfHighest, HighestCost, Own
  <2>3. Cost(path)' = Cost(path) /\ IsChain(path)' = IsChain(path)
    BY DEF Cost, Sums, IsChain
  <2>4. Candidates' = Candidates
    BY DEF Candidates
  <2>5. CostOfHighest(Candidates)' = CostOfHighest(Candidates)
    BY <2>4 DEF CostOfHighest, HighestCost
  <2>6. CostOfHighest(completed)' = CostOfHighest(completed)
    BY DEF CostOfHighest, HighestCost
  <2>7. Following'
    BY <2>3, <2>5, <2>6 DEF PathInv, Following
  <2> QED
    BY <2>1, <2>2, <2>7 DEF PathInv
<1>2. CASE ReturnTaskCost
  BY <1>2, ReturnTaskCostInv
<1>3. CASE CostsKnown
  BY <1>3, CostsKnownInv
<1>4. CASE EndPath
  BY <1>4, EndPathInv
<1>5. ASSUME NEW t \in Tasks, CallTaskCost(t) \/ ExtendPath(t)
      PROVE  PathInv'
  BY <1>5, CallTaskCostInv, ExtendPathInv
<1> QED
  BY <1>1, <1>2, <1>3, <1>4, <1>5 DEF PathNext

\* What is known of the costs and of the path in every state: the inductive
\* invariant (taskCost, highestCost and CriticalPath).
THEOREM PathInductive == PathSpec => []PathInv
<1>1. PathInv /\ [PathNext]_pathVars => PathInv'
  BY PathNextInv
<1> QED
  BY <1>1, PathInitInv, PTL DEF PathSpec

\* The critical path is a chain of tasks that the runner started itself, and
\* no chain of them took longer, whatever the graph and the durations
\* (CriticalPath).
THEOREM NoChainIsSlower == PathSpec => []CriticalPathIsSlowest
<1>1. PathInv => CriticalPathIsSlowest
  <2> SUFFICES ASSUME PathInv, stage = "done"
               PROVE  /\ path \in Seq(Own)
                      /\ IsChain(path)
                      /\ \A n \in 0 .. Cardinality(Own) : \A p \in [1 .. n -> Own] :
                            IsChain(p) => Cost(p) <= Cost(path)
    BY DEF CriticalPathIsSlowest, Own
  <2>1. path \in Seq(Own) /\ IsChain(path) /\ Cost(path) = CostOfHighest(completed)
    BY DEF PathInv, PathTypeOK, Following
  <2>2. Cardinality(Own) \in Nat
    BY TasksAssumption, FS_Subset, FS_CardinalityType DEF PathInv, PathTypeOK, Own
  <2>3. ASSUME NEW n \in 0 .. Cardinality(Own), NEW p \in [1 .. n -> Own], IsChain(p)
        PROVE  Cost(p) <= Cost(path)
    <3>1. p \in Seq(Own)
      BY <2>2
    <3>2. Own \subseteq DOMAIN costs
      BY DEF PathInv, Memoised
    <3> QED
      BY <2>1, <2>3, <3>1, <3>2, ChainBound DEF PathInv
  <2> QED
    BY <2>1, <2>3
<1> QED
  BY <1>1, PathInductive, PTL
=============================================================================
