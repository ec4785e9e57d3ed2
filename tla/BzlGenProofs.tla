------------------------------ MODULE BzlGenProofs ------------------------------
(***************************************************************************)
(* Theorems about bzl gen.  BzlGen, for every workspace: the walk of       *)
(* gen-build-go over imports that may have cycles, and the rounds of the   *)
(* generators.  BuildMerge, for all files: the merges of a directory.      *)
(***************************************************************************)
EXTENDS BzlGen, BuildMerge, SequenceTheorems, TLAPS

\* What the walk has still to do for the packages on the stack, and has done
\* for those it was called with.
Walk ==
    /\ pc # "go" => visitStack = <<>> /\ unprocessed = {}
    /\ pc = "go" => generator = 1 /\ packages = targets \ goVisited
    /\ unprocessed \subseteq packages
    /\ processed \cup OnStack \subseteq ws.go
    /\ lastErr \/ \A d \in OnStack :
        ToVisit(d) \cap ws.go \subseteq processed \cup OnStack \cup toVisit[d]
    /\ pc = "go" /\ ~lastErr =>
        (packages \ unprocessed) \cap ws.go \subseteq processed \cup OnStack

\* The same of the generator for Python.
PyWalk ==
    /\ pc = "py" => generator = 2 /\ targets \subseteq pyVisited \cup pyTargets
    /\ pc \notin {"py", "failed"} => pyTargets = {}
    /\ ws.deps_generation =>
        \A d \in pyVisited : d \in ws.py \/ d \notin ws.annotated =>
            ws.deps[d] \subseteq pyVisited \cup pyTargets

\* Where generator g has left a file.
GeneratedBy(g) == {d \in Dirs : g \in generated[d]}

\* A generator knows where it has been: it has left its files there.
FilesLeft ==
    /\ goVisited = GeneratedBy("go")
    /\ goVisited \subseteq ws.go
    /\ GeneratedBy("py") = pyVisited \cap ws.py
    /\ GeneratedBy("copy") \subseteq ws.annotated

\* What has been given to generator n, and it has returned.
Past(n) ==
    ((ws.requested \cup prev) \ targets) \cup (IF generator > n THEN targets ELSE {})

\* Each generator has done its part for what it was given.
Rounds ==
    /\ targets \subseteq ws.requested \cup prev
    /\ prev \subseteq Keys
    /\ Past(1) \cap ws.go \subseteq goVisited
    /\ Past(2) \subseteq pyVisited
    /\ Past(3) \cap ws.annotated \subseteq Keys
    /\ ws.deps_generation =>
        \A d \in goVisited : ws.imports[d] \cap ws.go \subseteq goVisited
    /\ pc = "done" => generator = 4 /\ Keys \subseteq prev

\* Within A and V: the state of bzl gen goes nowhere else.
Within(A, V) ==
    /\ targets \cup Keys \subseteq A
    /\ packages \subseteq A
    /\ processed \cup OnStack \subseteq A
    /\ \A d \in OnStack : toVisit[d] \cap ws.go \subseteq A
    /\ pyVisited \cup pyTargets \subseteq V

\* Nothing is found that does not follow from what was asked for.
OnlyNeeded == \A A, V \in SUBSET Dirs : NothingFollows(A, V) => Within(A, V)

IInv == GenTypeOK /\ DependenciesFirst /\ Walk /\ PyWalk /\ FilesLeft /\ Rounds /\ OnlyNeeded
-----------------------------------------------------------------------------
(* The stack of the walk.                                                 *)

\* A package that is pushed joins those on the stack.
LEMMA OnStackPush ==
    ASSUME visitStack \in Seq(Dirs), NEW d \in Dirs, visitStack' = Append(visitStack, d)
    PROVE  OnStack' = OnStack \cup {d}
<1>1. Len(visitStack') = Len(visitStack) + 1 /\ Len(visitStack) \in Nat
  OBVIOUS
<1>2. \A i \in 1 .. Len(visitStack) : visitStack'[i] = visitStack[i]
  OBVIOUS
<1>3. visitStack'[Len(visitStack) + 1] = d
  OBVIOUS
<1>4. DOMAIN visitStack' = DOMAIN visitStack \cup {Len(visitStack) + 1}
  BY <1>1
<1>5. DOMAIN visitStack = 1 .. Len(visitStack)
  OBVIOUS
<1> QED
  BY <1>2, <1>3, <1>4, <1>5 DEF OnStack

\* Only the top one leaves it, which may be on it twice for all a pop says.
LEMMA OnStackPop ==
    ASSUME visitStack \in Seq(Dirs), visitStack # <<>>, visitStack' = Pop
    PROVE  /\ Top \in OnStack
           /\ visitStack' \in Seq(Dirs)
           /\ OnStack' \subseteq OnStack
           /\ OnStack \subseteq OnStack' \cup {Top}
<1> DEFINE n == Len(visitStack)
<1>1. n \in Nat /\ n # 0 /\ DOMAIN visitStack = 1 .. n
  OBVIOUS
<1>2. /\ visitStack' \in Seq(Dirs)
      /\ Len(visitStack') = n - 1
      /\ \A i \in 1 .. n - 1 : visitStack'[i] = visitStack[i]
  BY <1>1 DEF Pop
<1>3. DOMAIN visitStack' = 1 .. n - 1
  BY <1>2
<1>4. 1 .. n = (1 .. n - 1) \cup {n}
  BY <1>1
<1> QED
  BY <1>1, <1>2, <1>3, <1>4 DEF OnStack, Top

LEMMA OnStackEmpty ==
    ASSUME visitStack = <<>>
    PROVE  OnStack = {}
BY DEF OnStack

\* Those on the stack are directories.
LEMMA OnStackDirs ==
    ASSUME visitStack \in Seq(Dirs)
    PROVE  OnStack \subseteq Dirs
BY DEF OnStack

\* Whatever is visited, the stack only grows, by the package if it has sources.
LEMMA Visited ==
    ASSUME GenTypeOK, NEW d \in Dirs, NEW visit \in [Dirs -> SUBSET Dirs], Visit(d, visit)
    PROVE  /\ visitStack' \in Seq(Dirs)
           /\ toVisit' \in [Dirs -> SUBSET Dirs]
           /\ OnStack \subseteq OnStack' /\ OnStack' \subseteq OnStack \cup {d}
           /\ d \in OnStack' \/ Skipped(d)
           /\ \/ toVisit' = visit /\ OnStack' = OnStack /\ Skipped(d)
              \/ /\ toVisit' = [visit EXCEPT ![d] = ToVisit(d)]
                 /\ OnStack' = OnStack \cup {d}
                 /\ ~Skipped(d)
<1>1. ToVisit(d) \subseteq Dirs
  BY DEF ToVisit, GenTypeOK, Workspaces
<1>2. CASE Skipped(d)
  BY <1>2 DEF Visit, GenTypeOK, OnStack
<1>3. CASE ~Skipped(d)
  <2>1. visitStack' = Append(visitStack, d) /\ toVisit' = [visit EXCEPT ![d] = ToVisit(d)]
    BY <1>3 DEF Visit
  <2>2. OnStack' = OnStack \cup {d}
    BY <2>1, OnStackPush DEF GenTypeOK
  <2>3. visitStack' \in Seq(Dirs)
    BY <2>1 DEF GenTypeOK
  <2> QED
    BY <1>1, <1>3, <2>1, <2>2, <2>3
<1> QED
  BY <1>2, <1>3
-----------------------------------------------------------------------------
(* The files.                                                             *)

\* Only those directories get a file, and only of that generator.
LEMMA FilesOf ==
    ASSUME GenTypeOK, NEW g \in Generators, NEW ds \in SUBSET Dirs, Generates(g, ds)
    PROVE  /\ generated' \in [Dirs -> SUBSET Generators]
           /\ Keys' = Keys \cup ds
           /\ GeneratedBy(g)' = GeneratedBy(g) \cup ds
           /\ \A h \in Generators \ {g} : GeneratedBy(h)' = GeneratedBy(h)
<1>1. generated \in [Dirs -> SUBSET Generators]
  BY DEF GenTypeOK
<1>2. generated' = [d \in Dirs |-> IF d \in ds THEN generated[d] \cup {g} ELSE generated[d]]
  BY DEF Generates
<1>3. generated' \in [Dirs -> SUBSET Generators]
  BY <1>1, <1>2
<1>4. \A d \in Dirs : generated'[d] = IF d \in ds THEN generated[d] \cup {g} ELSE generated[d]
  BY <1>2
<1> QED
  BY <1>3, <1>4 DEF Keys, GeneratedBy

\* Other steps leave them as they are.
LEMMA SameFilesLeft ==
    ASSUME UNCHANGED generated
    PROVE  Keys' = Keys /\ \A h : GeneratedBy(h)' = GeneratedBy(h)
BY DEF Keys, GeneratedBy

\* The files of a directory are somebody's.
LEMMA KeysAre ==
    ASSUME GenTypeOK
    PROVE  Keys = GeneratedBy("go") \cup GeneratedBy("py") \cup GeneratedBy("copy")
<1>1. generated \in [Dirs -> SUBSET {"go", "py", "copy"}]
  BY DEF GenTypeOK, Generators
<1> QED
  BY <1>1 DEF Keys, GeneratedBy
-----------------------------------------------------------------------------
(* The types.                                                             *)

LEMMA NextTypeOK ==
    ASSUME GenTypeOK, Walk, PyWalk, [GenNext]_genVars
    PROVE  GenTypeOK'
<1> USE DEF GenTypeOK
<1>1. CASE CallGo
  <2>1. packages' \in SUBSET Dirs
    BY <1>1 DEF CallGo
  <2>2. CASE packages' = {}
    BY <1>1, <2>1, <2>2 DEF CallGo, IsNext, Returns, pyVars
  <2>3. CASE packages' # {}
    BY <1>1, <2>1, <2>3 DEF CallGo, pyVars
  <2> QED
    BY <2>2, <2>3
<1>2. ASSUME NEW d \in Dirs, VisitRoot(d)
      PROVE  GenTypeOK'
  <2>1. visitStack' \in Seq(Dirs) /\ toVisit' \in [Dirs -> SUBSET Dirs]
    BY <1>2, Visited DEF VisitRoot
  <2> QED
    BY <1>2, <2>1 DEF VisitRoot, roundVars, pyVars
<1>3. ASSUME NEW d \in Dirs, VisitImport(d)
      PROVE  GenTypeOK'
  <2>1. [toVisit EXCEPT ![Top] = @ \ {d}] \in [Dirs -> SUBSET Dirs]
    BY DEF Top
  <2>2. visitStack' \in Seq(Dirs) /\ toVisit' \in [Dirs -> SUBSET Dirs]
    BY <1>3, <2>1, Visited DEF VisitImport
  <2> QED
    BY <1>3, <2>2 DEF VisitImport, roundVars, pyVars
<1>4. CASE WriteConfig
  <2>1. visitStack' \in Seq(Dirs) /\ Top \in Dirs
    BY <1>4, OnStackPop, OnStackDirs DEF WriteConfig
  <2> QED
    BY <1>4, <2>1 DEF WriteConfig, roundVars, pyVars
<1>5. CASE ProcessFails
  BY <1>5 DEF ProcessFails, roundVars, pyVars
<1>6. CASE GoExits
  <2>1. CASE Aborts
    BY <1>6, <2>1 DEF GoExits, Aborts, Returns, goVars, pyVars
  <2>2. CASE Returns
    <3>1. generator = 1
      BY <1>6 DEF GoExits, Walk
    <3>2. CASE Generates("go", processed)
      <4>1. generated' \in [Dirs -> SUBSET Generators]
        BY <3>2, FilesOf DEF Generators
      <4> QED
        BY <1>6, <2>2, <3>1, <4>1 DEF GoExits, Aborts, Returns, goVars, pyVars
    <3> QED
      BY <1>6, <2>2, <3>1, <3>2 DEF GoExits, Aborts, Returns, goVars, pyVars
  <2> QED
    BY <1>6, <2>1, <2>2 DEF GoExits
<1>7. CASE CallPy
  BY <1>7 DEF CallPy, roundVars, goVars
<1>8. ASSUME NEW d \in Dirs, VisitPy(d)
      PROVE  GenTypeOK'
  <2>1. generated' \in [Dirs -> SUBSET Generators]
    BY <1>8, FilesOf DEF VisitPy, Generators
  <2> QED
    BY <1>8, <2>1 DEF VisitPy, ToTraverse, Workspaces, roundVars, goVars
<1>9. CASE VisitPyFails
  BY <1>9 DEF VisitPyFails, Aborts, goVars, pyVars
<1>10. CASE PyReturns
  <2>1. generator = 2
    BY <1>10 DEF PyReturns, PyWalk
  <2> QED
    BY <1>10, <2>1 DEF PyReturns, Returns, goVars, pyVars
<1>11. CASE CallCopy
  <2>1. generated' \in [Dirs -> SUBSET Generators]
    BY <1>11, FilesOf DEF CallCopy, Generators
  <2> QED
    BY <1>11, <2>1 DEF CallCopy, IsNext, Returns, goVars, pyVars
<1>12. CASE NextRound
  <2>1. Keys \subseteq Dirs
    BY DEF Keys
  <2> QED
    BY <1>12, <2>1 DEF NextRound, NewlyVisited, roundVars, goVars, pyVars
<1>13. CASE UNCHANGED genVars
  BY <1>13 DEF genVars, roundVars, goVars, pyVars
<1> QED
  BY <1>1, <1>2, <1>3, <1>4, <1>5, <1>6, <1>7, <1>8, <1>9, <1>10, <1>11, <1>12, <1>13 DEF GenNext
-----------------------------------------------------------------------------
(* The walk.                                                              *)

\* Only five actions are steps of gen-build-go.
LEMMA Elsewhere ==
    ASSUME [GenNext]_genVars, ~CallGo, ~WriteConfig, ~ProcessFails,
           \A d \in Dirs : ~VisitRoot(d) /\ ~VisitImport(d)
    PROVE  /\ UNCHANGED <<ws, goVars>>
           /\ pc = "go" \/ pc' # "go"
           /\ pc' = "go" => UNCHANGED genVars
<1>1. CASE GoExits
  BY <1>1 DEF GoExits, Returns, Aborts
<1>2. CASE CallPy \/ VisitPyFails \/ PyReturns \/ CallCopy
  BY <1>2 DEF CallPy, VisitPyFails, PyReturns, CallCopy, IsNext, Returns, Aborts
<1>3. ASSUME NEW d \in Dirs, VisitPy(d)
      PROVE  UNCHANGED <<ws, goVars>> /\ pc' # "go"
  BY <1>3 DEF VisitPy
<1>4. CASE NextRound
  BY <1>4 DEF NextRound, IsNext
<1>5. CASE UNCHANGED genVars
  BY <1>5 DEF genVars
<1> QED
  BY <1>1, <1>2, <1>3, <1>4, <1>5 DEF GenNext

\* What is to be visited does not depend on the state of the walk.
LEMMA SameToVisit ==
    ASSUME UNCHANGED <<ws, packages>>, NEW d
    PROVE  ToVisit(d)' = ToVisit(d)
BY DEF ToVisit

\* A package leaves the stack when there is nothing left to be visited for it.
LEMMA NextDependenciesFirst ==
    ASSUME GenTypeOK, Walk, DependenciesFirst, [GenNext]_genVars
    PROVE  DependenciesFirst'
<1>1. CASE CallGo
  <2>1. CASE packages' # {}
    BY <1>1, <2>1 DEF CallGo, DependenciesFirst
  <2>2. CASE packages' = {}
    <3>1. \A d : ToVisit(d)' \subseteq ToVisit(d)
      BY <1>1, <2>2 DEF CallGo, ToVisit
    <3>2. UNCHANGED <<ws, processed, lastErr, visitStack>>
      BY <1>1, <2>2 DEF CallGo
    <3>3. OnStack' = OnStack
      BY <3>2 DEF OnStack
    <3> QED
      BY <3>1, <3>2, <3>3 DEF DependenciesFirst
  <2> QED
    BY <2>1, <2>2
<1>2. ASSUME NEW d \in Dirs, VisitRoot(d)
      PROVE  DependenciesFirst'
  <2>1. OnStack \subseteq OnStack'
    BY <1>2, Visited DEF VisitRoot, GenTypeOK
  <2>2. UNCHANGED <<ws, packages, processed, lastErr>>
    BY <1>2 DEF VisitRoot
  <2> QED
    BY <2>1, <2>2, SameToVisit DEF DependenciesFirst
<1>3. ASSUME NEW d \in Dirs, VisitImport(d)
      PROVE  DependenciesFirst'
  <2>1. [toVisit EXCEPT ![Top] = @ \ {d}] \in [Dirs -> SUBSET Dirs]
    BY DEF Top, GenTypeOK
  <2>2. OnStack \subseteq OnStack'
    BY <1>3, <2>1, Visited DEF VisitImport
  <2>3. UNCHANGED <<ws, packages, processed, lastErr>>
    BY <1>3 DEF VisitImport
  <2> QED
    BY <2>2, <2>3, SameToVisit DEF DependenciesFirst
<1>4. CASE WriteConfig
  <2>1. UNCHANGED <<ws, packages, lastErr>> /\ processed' = processed \cup {Top} /\ toVisit[Top] = {}
    BY <1>4 DEF WriteConfig
  <2>2. Top \in OnStack /\ OnStack \subseteq OnStack' \cup {Top}
    BY <1>4, OnStackPop DEF WriteConfig, GenTypeOK
  <2>3. processed \cup OnStack \subseteq processed' \cup OnStack'
    BY <2>1, <2>2
  <2>4. lastErr \/ ToVisit(Top) \cap ws.go \subseteq processed \cup OnStack
    BY <2>1, <2>2 DEF Walk
  <2> QED
    BY <2>1, <2>3, <2>4, SameToVisit DEF DependenciesFirst
<1>5. CASE ProcessFails
  BY <1>5 DEF ProcessFails, DependenciesFirst
<1>6. ASSUME ~CallGo, ~WriteConfig, ~ProcessFails,
             \A d \in Dirs : ~VisitRoot(d) /\ ~VisitImport(d)
      PROVE  DependenciesFirst'
  <2>1. UNCHANGED <<ws, goVars>>
    BY <1>6, Elsewhere
  <2>2. OnStack' = OnStack
    BY <2>1 DEF goVars, OnStack
  <2> QED
    BY <2>1, <2>2, SameToVisit DEF goVars, DependenciesFirst
<1> QED
  BY <1>1, <1>2, <1>3, <1>4, <1>5, <1>6

\* No package that was to be visited is lost on the way: it is on the stack,
\* done, or still in a list.
LEMMA NextWalk ==
    ASSUME GenTypeOK, Walk, [GenNext]_genVars
    PROVE  Walk'
<1>1. CASE CallGo
  <2>1. UNCHANGED <<ws, targets, goVisited, visitStack>> /\ visitStack = <<>> /\ unprocessed = {}
    BY <1>1 DEF CallGo, IsNext, Walk
  <2>2. OnStack' = {} /\ OnStack = {}
    BY <2>1, OnStackEmpty DEF OnStack
  <2>3. CASE packages' = {}
    <3>1. pc' = "round" /\ UNCHANGED <<unprocessed, processed, lastErr>>
      BY <1>1, <2>3 DEF CallGo, Returns
    <3> QED
      BY <2>1, <2>2, <3>1 DEF Walk
  <2>4. CASE packages' # {}
    <3>1. /\ pc' = "go" /\ generator' = 1 /\ unprocessed' = packages' /\ processed' = {}
          /\ packages' = targets' \ goVisited'
      BY <1>1, <2>4 DEF CallGo, IsNext
    <3> QED
      BY <2>2, <3>1 DEF Walk
  <2> QED
    BY <2>3, <2>4
<1>2. ASSUME NEW d \in Dirs, VisitRoot(d)
      PROVE  Walk'
  <2>1. /\ pc = "go" /\ OnStack = {}
        /\ UNCHANGED <<ws, pc, roundVars, goVisited, packages, processed, lastErr>>
        /\ unprocessed' = unprocessed \ {d}
    BY <1>2, OnStackEmpty DEF VisitRoot
  <2>2. /\ OnStack' \subseteq OnStack \cup {d}
        /\ d \in OnStack' \/ Skipped(d)
        /\ \/ toVisit' = toVisit /\ OnStack' = OnStack
           \/ toVisit' = [toVisit EXCEPT ![d] = ToVisit(d)] /\ OnStack' = {d} /\ ~Skipped(d)
    BY <1>2, <2>1, Visited DEF VisitRoot, GenTypeOK
  <2>3. processed' \cup OnStack' \subseteq ws'.go
    BY <2>1, <2>2 DEF Walk, Skipped
  <2>4. \A e \in OnStack' : ToVisit(e)' \subseteq toVisit'[e]
    BY <2>1, <2>2, SameToVisit DEF GenTypeOK
  <2>5. d \in ws.go => d \in processed \cup OnStack'
    BY <2>1, <2>2 DEF Skipped
  <2>6. ~lastErr => (packages' \ unprocessed') \cap ws'.go \subseteq processed' \cup OnStack'
    BY <2>1, <2>5 DEF Walk
  <2> QED
    BY <2>1, <2>3, <2>4, <2>6 DEF Walk, roundVars
<1>3. ASSUME NEW d \in Dirs, VisitImport(d)
      PROVE  Walk'
  <2> DEFINE visit == [toVisit EXCEPT ![Top] = @ \ {d}]
  <2>1. /\ pc = "go" /\ d \in toVisit[Top]
        /\ UNCHANGED <<ws, pc, roundVars, goVisited, packages, unprocessed, processed, lastErr>>
    BY <1>3 DEF VisitImport
  <2>2. /\ visit \in [Dirs -> SUBSET Dirs]
        /\ Visit(d, visit)
        /\ \A e \in Dirs : toVisit[e] \subseteq visit[e] \cup {d}
    BY <1>3 DEF VisitImport, Top, GenTypeOK
  <2> HIDE DEF visit
  <2>3. /\ OnStack \subseteq OnStack'
        /\ OnStack' \subseteq OnStack \cup {d}
        /\ d \in OnStack' \/ Skipped(d)
        /\ \/ toVisit' = visit /\ OnStack' = OnStack
           \/ toVisit' = [visit EXCEPT ![d] = ToVisit(d)] /\ OnStack' = OnStack \cup {d} /\ ~Skipped(d)
    BY <2>2, Visited
  <2>4. d \in ws.go => d \in processed \cup OnStack'
    BY <2>3 DEF Skipped
  <2>5. processed' \cup OnStack' \subseteq ws'.go
    BY <2>1, <2>3 DEF Walk, Skipped
  <2>6. ASSUME ~lastErr, NEW e \in OnStack'
        PROVE  ToVisit(e)' \cap ws'.go \subseteq processed' \cup OnStack' \cup toVisit'[e]
    <3>1. CASE e = d /\ toVisit'[d] = ToVisit(d)
      BY <2>1, <3>1, SameToVisit
    <3>2. CASE e \in OnStack /\ toVisit'[e] = visit[e]
      <4>1. toVisit[e] \subseteq visit[e] \cup {d}
        BY <2>2, <3>2, OnStackDirs DEF GenTypeOK
      <4>2. ToVisit(e) \cap ws.go \subseteq processed \cup OnStack \cup toVisit[e]
        BY <2>6, <3>2 DEF Walk
      <4> QED
        BY <2>1, <2>3, <2>4, <3>2, <4>1, <4>2, SameToVisit
    <3>3. OnStack \subseteq Dirs
      BY OnStackDirs DEF GenTypeOK
    <3> QED
      BY <2>2, <2>3, <3>1, <3>2, <3>3
  <2>7. ~lastErr => (packages' \ unprocessed') \cap ws'.go \subseteq processed' \cup OnStack'
    BY <2>1, <2>3 DEF Walk
  <2> QED
    BY <2>1, <2>5, <2>6, <2>7 DEF Walk, roundVars
<1>4. CASE WriteConfig
  <2>1. /\ pc = "go"
        /\ UNCHANGED <<ws, pc, roundVars, goVisited, packages, unprocessed, toVisit, lastErr>>
        /\ processed' = processed \cup {Top}
    BY <1>4 DEF WriteConfig
  <2>2. Top \in OnStack /\ OnStack' \subseteq OnStack /\ OnStack \subseteq OnStack' \cup {Top}
    BY <1>4, OnStackPop DEF WriteConfig, GenTypeOK
  <2>3. processed' \cup OnStack' = processed \cup OnStack
    BY <2>1, <2>2
  <2>4. ~lastErr => \A e \in OnStack' :
            ToVisit(e)' \cap ws'.go \subseteq processed' \cup OnStack' \cup toVisit'[e]
    BY <2>1, <2>2, <2>3, SameToVisit DEF Walk
  <2> QED
    BY <2>1, <2>3, <2>4 DEF Walk, roundVars
<1>5. CASE ProcessFails
  <2>1. /\ pc = "go" /\ lastErr' /\ visitStack' = <<>>
        /\ UNCHANGED <<ws, pc, roundVars, goVisited, packages, unprocessed, processed>>
    BY <1>5 DEF ProcessFails
  <2>2. OnStack' = {}
    BY <2>1 DEF OnStack
  <2> QED
    BY <2>1, <2>2 DEF Walk, roundVars
<1>6. CASE GoExits
  <2>1. /\ visitStack = <<>> /\ unprocessed = {} /\ pc' # "go"
        /\ UNCHANGED <<ws, goVars>>
    BY <1>6 DEF GoExits, Returns, Aborts
  <2>2. OnStack' = OnStack /\ OnStack = {}
    BY <2>1, OnStackEmpty DEF goVars, OnStack
  <2> QED
    BY <2>1, <2>2 DEF Walk, goVars
<1>7. ASSUME ~CallGo, ~WriteConfig, ~ProcessFails, ~GoExits,
             \A d \in Dirs : ~VisitRoot(d) /\ ~VisitImport(d)
      PROVE  Walk'
  <2>1. UNCHANGED <<ws, goVars>> /\ (pc' = "go" => UNCHANGED genVars)
    BY <1>7, Elsewhere
  <2>2. pc = "go" => pc' = "go"
    BY <1>7 DEF GenNext, CallPy, VisitPy, VisitPyFails, PyReturns, CallCopy, NextRound, IsNext,
                genVars
  <2>3. OnStack' = OnStack
    BY <2>1 DEF goVars, OnStack
  <2> QED
    BY <2>1, <2>2, <2>3, SameToVisit DEF Walk, goVars, roundVars, genVars
<1> QED
  BY <1>1, <1>2, <1>3, <1>4, <1>5, <1>6, <1>7

-----------------------------------------------------------------------------
(* The generator for Python, and the rounds of all three.                 *)

\* It follows the deps of each directory the first time it comes to it.
LEMMA NextPyWalk ==
    ASSUME GenTypeOK, Walk, PyWalk, [GenNext]_genVars
    PROVE  PyWalk'
<1>1. CASE CallPy
  <2>1. /\ pc' = "py" /\ generator' = 2 /\ pyTargets' = targets /\ pyTargets = {}
        /\ UNCHANGED <<ws, targets, pyVisited>>
    BY <1>1 DEF CallPy, IsNext, PyWalk, roundVars
  <2> QED
    BY <2>1 DEF PyWalk
<1>2. ASSUME NEW d \in Dirs, VisitPy(d)
      PROVE  PyWalk'
  <2>1. /\ pc = "py" /\ d \in pyTargets /\ UNCHANGED <<ws, pc, generator, targets>>
        /\ pyVisited' = pyVisited \cup {d}
        /\ pyTargets \subseteq pyTargets' \cup {d}
    BY <1>2 DEF VisitPy, roundVars
  <2>2. ws.deps_generation /\ (d \in ws.py \/ d \notin ws.annotated) =>
            ws.deps[d] \subseteq pyVisited' \cup pyTargets'
    <3>1. CASE d \in pyVisited
      BY <2>1, <3>1 DEF PyWalk
    <3>2. CASE d \notin pyVisited
      BY <1>2, <3>2 DEF VisitPy, ToTraverse
    <3> QED
      BY <3>1, <3>2
  <2> QED
    BY <2>1, <2>2 DEF PyWalk
<1>3. CASE VisitPyFails \/ PyReturns
  <2>1. /\ pc' = "failed" \/ (pc' = "round" /\ pyTargets = {})
        /\ UNCHANGED <<ws, pyVisited, pyTargets>>
    BY <1>3 DEF VisitPyFails, PyReturns, Returns, Aborts, pyVars
  <2> QED
    BY <2>1 DEF PyWalk
<1>4. CASE CallGo \/ GoExits \/ CallCopy \/ NextRound
  <2>1. /\ pc \notin {"py", "failed"} /\ pc' # "py"
        /\ UNCHANGED <<ws, pyVisited, pyTargets>>
    BY <1>4 DEF CallGo, GoExits, CallCopy, NextRound, IsNext, Returns, Aborts, pyVars
  <2> QED
    BY <2>1 DEF PyWalk
<1>5. ASSUME \/ WriteConfig \/ ProcessFails
             \/ \E d \in Dirs : VisitRoot(d) \/ VisitImport(d)
      PROVE  PyWalk'
  <2>1. pc = "go" /\ UNCHANGED <<ws, pc, pyVisited, pyTargets>>
    BY <1>5 DEF WriteConfig, ProcessFails, VisitRoot, VisitImport, pyVars
  <2> QED
    BY <2>1 DEF PyWalk
<1>6. CASE UNCHANGED genVars
  BY <1>6 DEF PyWalk, genVars, roundVars, pyVars
<1> QED
  BY <1>1, <1>2, <1>3, <1>4, <1>5, <1>6 DEF GenNext

\* Three actions leave files; all others leave them as they are.
LEMMA NoFilesLeft ==
    ASSUME [GenNext]_genVars, ~GoExits, ~CallCopy, \A d \in Dirs : ~VisitPy(d)
    PROVE  UNCHANGED <<ws, generated, goVisited, pyVisited>>
<1>1. CASE CallGo \/ WriteConfig \/ ProcessFails \/ CallPy \/ VisitPyFails \/ PyReturns \/ NextRound
  BY <1>1 DEF CallGo, WriteConfig, ProcessFails, CallPy, VisitPyFails, PyReturns, NextRound, pyVars
<1>2. ASSUME NEW d \in Dirs, VisitRoot(d) \/ VisitImport(d)
      PROVE  UNCHANGED <<ws, generated, goVisited, pyVisited>>
  BY <1>2 DEF VisitRoot, VisitImport, pyVars
<1>3. CASE UNCHANGED genVars
  BY <1>3 DEF genVars, pyVars
<1> QED
  BY <1>1, <1>2, <1>3 DEF GenNext

\* A generator leaves its files where it says that it has been, and no other
\* does; CopyGenerator is no exception.
LEMMA NextFiles ==
    ASSUME GenTypeOK, Walk, FilesLeft, [GenNext]_genVars
    PROVE  FilesLeft'
<1> USE DEF FilesLeft
<1>1. CASE GoExits
  <2>1. UNCHANGED <<ws, pyVisited>> /\ processed \subseteq ws.go /\ processed \subseteq Dirs
    BY <1>1 DEF GoExits, Walk, GenTypeOK, pyVars
  <2>2. CASE UNCHANGED <<generated, goVisited>>
    BY <2>1, <2>2, SameFilesLeft
  <2>3. CASE Generates("go", processed) /\ goVisited' = goVisited \cup processed
    <3>1. /\ GeneratedBy("go")' = GeneratedBy("go") \cup processed
          /\ GeneratedBy("py")' = GeneratedBy("py")
          /\ GeneratedBy("copy")' = GeneratedBy("copy")
      BY <2>1, <2>3, FilesOf DEF Generators
    <3> QED
      BY <2>1, <2>3, <3>1
  <2> QED
    BY <1>1, <2>2, <2>3 DEF GoExits
<1>2. ASSUME NEW d \in Dirs, VisitPy(d)
      PROVE  FilesLeft'
  <2>1. UNCHANGED <<ws, goVisited>> /\ pyVisited' = pyVisited \cup {d}
    BY <1>2 DEF VisitPy
  <2>2. /\ GeneratedBy("go")' = GeneratedBy("go")
        /\ GeneratedBy("py")' = GeneratedBy("py") \cup (({d} \cap ws.py) \ pyVisited)
        /\ GeneratedBy("copy")' = GeneratedBy("copy")
    BY <1>2, FilesOf DEF VisitPy, Generators
  <2> QED
    BY <2>1, <2>2
<1>3. CASE CallCopy
  <2>1. UNCHANGED <<ws, goVisited, pyVisited>> /\ targets \subseteq Dirs
    BY <1>3 DEF CallCopy, GenTypeOK, pyVars
  <2>2. /\ GeneratedBy("go")' = GeneratedBy("go")
        /\ GeneratedBy("py")' = GeneratedBy("py")
        /\ GeneratedBy("copy")' = GeneratedBy("copy") \cup ((targets \cap ws.annotated) \ Keys)
    BY <1>3, <2>1, FilesOf DEF CallCopy, Generators
  <2> QED
    BY <2>1, <2>2
<1>4. CASE UNCHANGED <<ws, generated, goVisited, pyVisited>>
  BY <1>4, SameFilesLeft
<1> QED
  BY <1>1, <1>2, <1>3, <1>4, NoFilesLeft

\* What a generator has done for a round is not undone by the others.
LEMMA NextRounds ==
    ASSUME GenTypeOK, DependenciesFirst, Walk, PyWalk, Rounds, [GenNext]_genVars
    PROVE  Rounds'
<1>1. CASE CallGo
  <2>1. /\ generator = 1 /\ pc' # "done"
        /\ UNCHANGED <<ws, targets, prev, generated, goVisited, pyVisited>>
        /\ generator' = 1 \/ (generator' = 2 /\ targets \subseteq goVisited)
    BY <1>1 DEF CallGo, IsNext, Returns, pyVars
  <2>2. /\ Past(1)' \subseteq Past(1) \cup goVisited
        /\ Past(2)' = Past(2) /\ Past(3)' = Past(3)
    BY <2>1 DEF Past
  <2> QED
    BY <2>1, <2>2, SameFilesLeft DEF Rounds
<1>2. ASSUME \/ WriteConfig \/ ProcessFails
             \/ \E d \in Dirs : VisitRoot(d) \/ VisitImport(d)
      PROVE  Rounds'
  <2>1. UNCHANGED <<ws, pc, generator, targets, prev, generated, goVisited, pyVisited>>
    BY <1>2 DEF WriteConfig, ProcessFails, VisitRoot, VisitImport, roundVars, pyVars
  <2> QED
    BY <2>1, SameFilesLeft DEF Rounds, Past
<1>3. CASE GoExits
  <2>1. /\ pc = "go" /\ pc' # "done" /\ visitStack = <<>> /\ unprocessed = {}
        /\ UNCHANGED <<ws, targets, prev, pyVisited>>
        /\ \/ /\ ~lastErr /\ generator' = generator + 1
              /\ Generates("go", processed) /\ goVisited' = goVisited \cup processed
           \/ UNCHANGED <<generator, generated, goVisited>>
    BY <1>3 DEF GoExits, Returns, Aborts, pyVars
  <2>2. CASE UNCHANGED <<generator, generated, goVisited>>
    BY <2>1, <2>2, SameFilesLeft DEF Rounds, Past
  <2>3. CASE /\ ~lastErr /\ generator' = generator + 1
             /\ Generates("go", processed) /\ goVisited' = goVisited \cup processed
    <3>1. OnStack = {} /\ generator = 1 /\ packages = targets \ goVisited
      BY <2>1, OnStackEmpty DEF Walk
    <3>2. targets \cap ws.go \subseteq goVisited'
      BY <2>1, <2>3, <3>1 DEF Walk
    <3>3. /\ Past(1)' \subseteq Past(1) \cup targets
          /\ Past(2)' = Past(2) /\ Past(3)' = Past(3)
      BY <2>1, <2>3, <3>1 DEF Past
    <3>4. Past(1)' \cap ws.go \subseteq goVisited'
      BY <2>3, <3>2, <3>3 DEF Rounds
    <3>5. ASSUME ws.deps_generation, NEW d \in goVisited'
          PROVE  ws.imports[d] \cap ws.go \subseteq goVisited'
      <4>1. CASE d \in goVisited
        BY <2>3, <3>5, <4>1 DEF Rounds
      <4>2. CASE d \in processed
        BY <2>3, <3>1, <3>5, <4>2 DEF DependenciesFirst, ToVisit
      <4> QED
        BY <2>3, <4>1, <4>2
    <3>6. Keys \subseteq Keys'
      BY <2>3, FilesOf DEF Generators, GenTypeOK
    <3> QED
      BY <2>1, <2>3, <3>3, <3>4, <3>5, <3>6 DEF Rounds
  <2> QED
    BY <2>1, <2>2, <2>3
<1>4. CASE CallPy \/ VisitPyFails
  <2>1. pc' # "done" /\ UNCHANGED <<ws, generator, targets, prev, generated, goVisited, pyVisited>>
    BY <1>4 DEF CallPy, VisitPyFails, Aborts, roundVars, pyVars
  <2> QED
    BY <2>1, SameFilesLeft DEF Rounds, Past
<1>5. ASSUME NEW d \in Dirs, VisitPy(d)
      PROVE  Rounds'
  <2>1. /\ pc = "py" /\ pc' = "py"
        /\ UNCHANGED <<ws, generator, targets, prev, goVisited>>
        /\ pyVisited \subseteq pyVisited'
    BY <1>5 DEF VisitPy, roundVars
  <2>2. \A n : Past(n)' = Past(n)
    BY <2>1 DEF Past
  <2>3. Keys \subseteq Keys'
    BY <1>5, FilesOf DEF VisitPy, Generators
  <2> QED
    BY <2>1, <2>2, <2>3 DEF Rounds
<1>6. CASE PyReturns
  <2>1. /\ generator = 2 /\ generator' = 3 /\ pc' # "done" /\ targets \subseteq pyVisited
        /\ UNCHANGED <<ws, targets, prev, generated, goVisited, pyVisited>>
    BY <1>6 DEF PyReturns, Returns, PyWalk, pyVars
  <2>2. Past(1)' = Past(1) /\ Past(2)' \subseteq Past(2) \cup targets /\ Past(3)' = Past(3)
    BY <2>1 DEF Past
  <2> QED
    BY <2>1, <2>2, SameFilesLeft DEF Rounds
<1>7. CASE CallCopy
  <2>1. /\ generator = 3 /\ generator' = 4 /\ pc' # "done"
        /\ UNCHANGED <<ws, targets, prev, goVisited, pyVisited>>
    BY <1>7 DEF CallCopy, IsNext, Returns, pyVars
  <2>2. Keys' = Keys \cup ((targets \cap ws.annotated) \ Keys)
    BY <1>7, FilesOf DEF CallCopy, Generators, GenTypeOK
  <2>3. Past(1)' = Past(1) /\ Past(2)' = Past(2) /\ Past(3)' \subseteq Past(3) \cup targets
    BY <2>1 DEF Past
  <2> QED
    BY <2>1, <2>2, <2>3 DEF Rounds
<1>8. CASE NextRound
  <2>1. generator = 4 /\ UNCHANGED <<ws, generated, goVisited, pyVisited>> /\ Keys' = Keys
    BY <1>8, SameFilesLeft DEF NextRound, IsNext, pyVars
  <2>2. CASE NewlyVisited = {}
    <3>1. UNCHANGED <<generator, targets, prev>> /\ Keys \subseteq prev
      BY <1>8, <2>2 DEF NextRound, NewlyVisited, roundVars
    <3> QED
      BY <2>1, <3>1 DEF Rounds, Past
  <2>3. CASE NewlyVisited # {}
    <3>1. pc' = "round" /\ generator' = 1 /\ prev' = Keys /\ targets' = Keys \ prev
      BY <1>8, <2>3 DEF NextRound, NewlyVisited, IsNext
    <3>2. \A n \in 1 .. 3 : Past(n)' \subseteq Past(n)
      BY <2>1, <3>1 DEF Past
    <3>3. targets' \subseteq ws'.requested \cup prev' /\ prev' \subseteq Keys'
      BY <2>1, <3>1 DEF Rounds
    <3> QED
      BY <2>1, <3>1, <3>2, <3>3 DEF Rounds
  <2> QED
    BY <2>2, <2>3
<1>9. CASE UNCHANGED genVars
  BY <1>9, SameFilesLeft DEF Rounds, Past, genVars, roundVars, pyVars
<1> QED
  BY <1>1, <1>2, <1>3, <1>4, <1>5, <1>6, <1>7, <1>8, <1>9 DEF GenNext

\* An import that is visited belongs to whatever is closed and has the package.
LEMMA ImportsWithin ==
    ASSUME NEW A, NEW V, NothingFollows(A, V), packages \subseteq A, NEW d, d \in A \cap ws.go
    PROVE  ToVisit(d) \cap ws.go \subseteq A
BY DEF NothingFollows, ToVisit

\* No step finds a directory that does not follow from what was asked for.
LEMMA NextOnlyNeeded ==
    ASSUME GenTypeOK, Walk, PyWalk, OnlyNeeded, [GenNext]_genVars
    PROVE  OnlyNeeded'
<1>0. ws' = ws
  BY DEF GenNext, CallGo, WriteConfig, ProcessFails, GoExits, CallPy, VisitPyFails, PyReturns,
         CallCopy, NextRound, VisitRoot, VisitImport, VisitPy, genVars
<1> SUFFICES ASSUME NEW A \in SUBSET Dirs, NEW V \in SUBSET Dirs, NothingFollows(A, V), Within(A, V)
             PROVE  Within(A, V)'
  BY <1>0 DEF OnlyNeeded, NothingFollows
<1> USE DEF Within
<1>1. CASE CallGo
  <2>1. /\ packages' \subseteq targets /\ UNCHANGED <<targets, generated, pyVisited, pyTargets>>
        /\ visitStack' = <<>> /\ processed' \subseteq processed
    BY <1>1 DEF CallGo, IsNext, Walk, pyVars
  <2>2. OnStack' = {}
    BY <2>1 DEF OnStack
  <2> QED
    BY <2>1, <2>2, SameFilesLeft
<1>2. ASSUME NEW d \in Dirs, VisitRoot(d)
      PROVE  Within(A, V)'
  <2>1. /\ d \in packages
        /\ UNCHANGED <<targets, generated, packages, processed, pyVisited, pyTargets>>
    BY <1>2 DEF VisitRoot, Walk, roundVars, pyVars
  <2>2. /\ toVisit' \in [Dirs -> SUBSET Dirs]
        /\ OnStack' \subseteq OnStack \cup {d}
        /\ \/ toVisit' = toVisit /\ OnStack' = OnStack
           \/ toVisit' = [toVisit EXCEPT ![d] = ToVisit(d)] /\ ~Skipped(d)
    BY <1>2, Visited DEF VisitRoot, GenTypeOK
  <2>3. ~Skipped(d) => ToVisit(d) \cap ws.go \subseteq A
    BY <2>1, ImportsWithin DEF Skipped
  <2>4. \A e \in OnStack' : toVisit'[e] \cap ws.go \subseteq A
    BY <2>2, <2>3 DEF GenTypeOK
  <2> QED
    BY <1>0, <2>1, <2>2, <2>4, SameFilesLeft
<1>3. ASSUME NEW d \in Dirs, VisitImport(d)
      PROVE  Within(A, V)'
  <2> DEFINE visit == [toVisit EXCEPT ![Top] = @ \ {d}]
  <2>1. /\ d \in toVisit[Top]
        /\ UNCHANGED <<targets, generated, packages, processed, pyVisited, pyTargets>>
    BY <1>3 DEF VisitImport, roundVars, pyVars
  <2>2. Top \in OnStack
    BY <1>3 DEF VisitImport, GenTypeOK, Top, OnStack
  <2>3. /\ visit \in [Dirs -> SUBSET Dirs]
        /\ Visit(d, visit)
        /\ \A e \in Dirs : visit[e] \subseteq toVisit[e]
    BY <1>3 DEF VisitImport, Top, GenTypeOK
  <2> HIDE DEF visit
  <2>4. /\ OnStack' \subseteq OnStack \cup {d}
        /\ \/ toVisit' = visit /\ OnStack' = OnStack
           \/ toVisit' = [visit EXCEPT ![d] = ToVisit(d)] /\ ~Skipped(d)
    BY <2>3, Visited
  <2>5. ~Skipped(d) => d \in A /\ ToVisit(d) \cap ws.go \subseteq A
    BY <2>1, <2>2, ImportsWithin DEF Skipped
  <2>6. OnStack \subseteq Dirs
    BY OnStackDirs DEF GenTypeOK
  <2>7. \A e \in OnStack' : toVisit'[e] \cap ws.go \subseteq A
    BY <2>3, <2>4, <2>5, <2>6
  <2>8. OnStack' \subseteq A
    <3>1. CASE Skipped(d)
      BY <2>3, <2>4, <3>1
    <3>2. CASE ~Skipped(d)
      BY <2>4, <2>5, <3>2
    <3> QED
      BY <3>1, <3>2
  <2> QED
    BY <1>0, <2>1, <2>7, <2>8, SameFilesLeft
<1>4. CASE WriteConfig
  <2>1. /\ processed' = processed \cup {Top}
        /\ UNCHANGED <<targets, generated, packages, toVisit, pyVisited, pyTargets>>
    BY <1>4 DEF WriteConfig, roundVars, pyVars
  <2>2. Top \in OnStack /\ OnStack' \subseteq OnStack
    BY <1>4, OnStackPop DEF WriteConfig, GenTypeOK
  <2> QED
    BY <1>0, <2>1, <2>2, SameFilesLeft
<1>5. CASE ProcessFails
  <2>1. /\ visitStack' = <<>>
        /\ UNCHANGED <<targets, generated, packages, processed, pyVisited, pyTargets>>
    BY <1>5 DEF ProcessFails, roundVars, pyVars
  <2>2. OnStack' = {}
    BY <2>1 DEF OnStack
  <2> QED
    BY <2>1, <2>2, SameFilesLeft
<1>6. ASSUME UNCHANGED goVars, targets' \subseteq A, Keys' \subseteq A,
             pyVisited' \cup pyTargets' \subseteq V
      PROVE  Within(A, V)'
  BY <1>0, <1>6 DEF goVars, OnStack
<1>7. CASE GoExits
  <2>1. UNCHANGED <<goVars, targets, pyVisited, pyTargets>>
    BY <1>7 DEF GoExits, pyVars
  <2>2. CASE UNCHANGED generated
    BY <1>6, <2>1, <2>2, SameFilesLeft
  <2>3. CASE Generates("go", processed)
    <3>1. Keys' = Keys \cup processed
      BY <2>3, FilesOf DEF Generators, GenTypeOK
    <3> QED
      BY <1>6, <2>1, <3>1
  <2> QED
    BY <1>7, <2>2, <2>3 DEF GoExits
<1>8. CASE CallPy \/ VisitPyFails \/ PyReturns
  <2>1. /\ UNCHANGED <<goVars, targets, generated, pyVisited>>
        /\ pyTargets' \subseteq pyTargets \cup targets
    BY <1>8 DEF CallPy, VisitPyFails, PyReturns, roundVars, pyVars
  <2>2. A \subseteq V
    BY DEF NothingFollows
  <2> QED
    BY <1>6, <2>1, <2>2, SameFilesLeft
<1>9. ASSUME NEW d \in Dirs, VisitPy(d)
      PROVE  Within(A, V)'
  <2>1. /\ d \in V /\ UNCHANGED <<goVars, targets>>
        /\ pyVisited' = pyVisited \cup {d}
        /\ pyTargets' \subseteq pyTargets \cup ToTraverse(d)
    BY <1>9 DEF VisitPy, roundVars
  <2>2. ToTraverse(d) \subseteq V
    BY <2>1 DEF ToTraverse, NothingFollows
  <2>3. Keys' = Keys \cup (({d} \cap ws.py) \ pyVisited)
    BY <1>9, FilesOf DEF VisitPy, Generators
  <2>4. {d} \cap ws.py \subseteq A
    BY <2>1 DEF NothingFollows
  <2> QED
    BY <1>6, <2>1, <2>2, <2>3, <2>4
<1>10. CASE CallCopy
  <2>1. UNCHANGED <<goVars, targets, pyVisited, pyTargets>>
    BY <1>10 DEF CallCopy, pyVars
  <2>2. Keys' = Keys \cup ((targets \cap ws.annotated) \ Keys)
    BY <1>10, FilesOf DEF CallCopy, Generators, GenTypeOK
  <2> QED
    BY <1>6, <2>1, <2>2
<1>11. CASE NextRound
  <2>1. UNCHANGED <<goVars, generated, pyVisited, pyTargets>> /\ targets' \subseteq targets \cup Keys
    BY <1>11 DEF NextRound, NewlyVisited, roundVars, pyVars
  <2> QED
    BY <1>6, <2>1, SameFilesLeft
<1>12. CASE UNCHANGED genVars
  BY <1>6, <1>12, SameFilesLeft DEF genVars, roundVars, pyVars
<1> QED
  BY <1>1, <1>2, <1>3, <1>4, <1>5, <1>7, <1>8, <1>9, <1>10, <1>11, <1>12 DEF GenNext
-----------------------------------------------------------------------------
(* The theorems.                                                          *)

LEMMA InitIInv ==
    ASSUME GenInit
    PROVE  IInv
<1>1. GenTypeOK
  <2>1. visitStack \in Seq(Dirs) /\ toVisit \in [Dirs -> SUBSET Dirs]
    BY DEF GenInit, Idle
  <2>2. targets \in SUBSET Dirs
    BY DEF GenInit, Idle, Workspaces
  <2>3. /\ ws \in Workspaces /\ ws.py \subseteq ws.annotated
        /\ pc = "round"
        /\ lastErr \in BOOLEAN
    BY Zenon DEF GenInit, Idle
  <2>4. /\ generator \in 1 .. 4
        /\ generated \in [Dirs -> SUBSET Generators]
        /\ {prev, goVisited, packages} \subseteq SUBSET Dirs
        /\ {unprocessed, processed, pyVisited, pyTargets} \subseteq SUBSET Dirs
    BY DEF GenInit, Idle
  <2> QED
    BY <2>1, <2>2, <2>3, <2>4 DEF GenTypeOK
<1>2. OnStack = {}
  BY DEF GenInit, Idle, OnStack
<1>3. Past(1) = {} /\ Past(2) = {} /\ Past(3) = {}
  BY DEF GenInit, Idle, Past
<1>4. Keys = {} /\ \A h : GeneratedBy(h) = {}
  <2>1. generated = [d \in Dirs |-> {}]
    BY DEF GenInit, Idle
  <2> QED
    BY <2>1 DEF Keys, GeneratedBy
<1>5. DependenciesFirst /\ Walk
  BY <1>2 DEF GenInit, Idle, DependenciesFirst, Walk
<1>6. PyWalk /\ FilesLeft /\ Rounds
  BY <1>3, <1>4 DEF GenInit, Idle, PyWalk, FilesLeft, Rounds
<1>7. OnlyNeeded
  BY <1>2, <1>4 DEF GenInit, Idle, OnlyNeeded, Within, NothingFollows
<1> QED
  BY <1>1, <1>5, <1>6, <1>7 DEF IInv

LEMMA NextIInv ==
    ASSUME IInv, [GenNext]_genVars
    PROVE  IInv'
BY NextTypeOK, NextDependenciesFirst, NextWalk, NextPyWalk, NextFiles, NextRounds, NextOnlyNeeded
   DEF IInv

\* The invariant of a whole run of bzl gen.
THEOREM Inductive == GenSpec => []IInv
<1>1. GenInit => IInv
  BY InitIInv
<1>2. IInv /\ [GenNext]_genVars => IInv'
  BY NextIInv
<1> QED
  BY <1>1, <1>2, PTL DEF GenSpec

\* Every variable keeps its type, so generator never leaves the list of three.
THEOREM Typing == GenSpec => []GenTypeOK
<1>1. IInv => GenTypeOK
  BY DEF IInv
<1> QED
  BY <1>1, Inductive, PTL

\* A package comes after those it imports, cycles apart (process and
\* processWithDeps of gen-build-go).
THEOREM DependenciesBefore == GenSpec => []DependenciesFirst
<1>1. IInv => DependenciesFirst
  BY DEF IInv
<1> QED
  BY <1>1, Inductive, PTL

\* When every generator has done its part for what it was given, and nothing
\* new was found in the last round, the directories with files and those where
\* the generator for Python has been are closed: nothing more follows.
LEMMA Converged ==
    ASSUME IInv, pc = "done"
    PROVE  /\ NothingFollows(ws.requested \cup Keys, pyVisited)
           /\ (ws.requested \cup Keys) \cap ws.go \subseteq goVisited
           /\ ws.requested \cup Keys \subseteq pyVisited
           /\ (ws.requested \cup Keys) \cap ws.annotated \subseteq Keys
<1> USE DEF IInv
<1>1. generator = 4 /\ Keys \subseteq prev /\ pyTargets = {}
  BY DEF Rounds, PyWalk
<1>2. \A n \in 1 .. 3 : ws.requested \cup Keys \subseteq Past(n)
  BY <1>1 DEF Past
<1>3. /\ (ws.requested \cup Keys) \cap ws.go \subseteq goVisited
      /\ ws.requested \cup Keys \subseteq pyVisited
      /\ (ws.requested \cup Keys) \cap ws.annotated \subseteq Keys
  BY <1>2 DEF Rounds
<1>4. goVisited \cup (pyVisited \cap ws.py) \subseteq Keys
  BY KeysAre DEF FilesLeft
<1>5. ws.deps_generation => \A d \in (ws.requested \cup Keys) \cap ws.go :
        ws.imports[d] \cap ws.go \subseteq ws.requested \cup Keys
  BY <1>3, <1>4 DEF Rounds
<1>6. ws.deps_generation => \A d \in pyVisited : d \in ws.py \/ d \notin ws.annotated =>
        ws.deps[d] \subseteq pyVisited
  BY <1>1 DEF PyWalk
<1> QED
  BY <1>3, <1>4, <1>5, <1>6 DEF NothingFollows

LEMMA NothingMissedInv ==
    ASSUME IInv
    PROVE  NothingMissed
<1> SUFFICES ASSUME pc = "done", NEW d \in Dirs
             PROVE  /\ "go" \in generated[d] <=> d \in Wanted \cap ws.go
                    /\ "py" \in generated[d] <=> d \in Wanted \cap ws.py
                    /\ generated[d] # {} <=> d \in Wanted \cap (ws.go \cup ws.annotated)
  BY DEF NothingMissed
<1>1. /\ "go" \in generated[d] <=> d \in goVisited
      /\ "py" \in generated[d] <=> d \in pyVisited \cap ws.py
      /\ generated[d] # {} <=> d \in Keys
      /\ goVisited \subseteq ws.go
  BY DEF IInv, FilesLeft, GeneratedBy, Keys
<1>2. Wanted \subseteq ws.requested \cup Keys
  <2>1. ws.requested \cup Keys \in SUBSET Dirs /\ pyVisited \in SUBSET Dirs
    BY DEF IInv, GenTypeOK, Workspaces, Keys
  <2> QED
    BY <2>1, Converged DEF Wanted
<1>3. Keys \subseteq Wanted
  BY DEF Wanted, IInv, OnlyNeeded, Within, Keys
<1>4. goVisited \cup (pyVisited \cap ws.py) \subseteq Keys
  BY KeysAre DEF IInv, FilesLeft
<1>5. Keys \subseteq ws.go \cup ws.annotated
  BY KeysAre DEF IInv, FilesLeft, GenTypeOK
<1> QED
  BY <1>1, <1>2, <1>3, <1>4, <1>5, Converged

\* A converged bzl gen has made, with every generator, the files of exactly the
\* directories that what was asked for leads to (regenerate_build_files).
THEOREM MissesNothing == GenSpec => []NothingMissed
<1>1. IInv => NothingMissed
  BY NothingMissedInv
<1> QED
  BY <1>1, Inductive, PTL
-----------------------------------------------------------------------------
\* The targets of the first files that were merged, once each, and each with
\* the kind of the first file that has it.
RulesSoFar ==
    /\ \A name : name \in Calls(build) <=> \E i \in 1 .. merged : name \in Calls(Files[i])
    /\ \A r, s \in build.rules : r.name = s.name => r = s
    /\ \A r \in build.rules : \E i \in 1 .. merged :
        /\ \E s \in Files[i].rules : s.name = r.name /\ s.kind = r.kind
        /\ \A j \in 1 .. i - 1 : r.name \notin Calls(Files[j])

\* Their licenses.
LicensesSoFar ==
    /\ \A i \in 1 .. merged : Files[i].licenses \in {"none", build.licenses}
    /\ build.licenses = "none" \/ \E i \in 1 .. merged : Files[i].licenses = build.licenses

\* The symbols they load for their rules.  A rule needs each of the symbols, by
\* the name it was given first, and so no later merge drops it.
LoadsSoFar ==
    /\ \A m \in build.loads : \E r \in build.rules : r.kind = m.as
    /\ \A i \in 1 .. merged : \A r \in Files[i].rules : \A l \in Files[i].loads :
        r.kind = l.as /\ (\E s \in build.rules : s.name = r.name /\ s.kind = r.kind)
            => \E m \in build.loads : m.module = l.module /\ m.symbol = l.symbol

\* As long as only files of generators were merged, a rule has the values that
\* the last of them gave, and nothing to be added to them.
ValuesSoFar ==
    merged <= Len(gens) =>
        \A r \in build.rules :
            /\ DOMAIN r.additional = {}
            /\ DOMAIN r.own = Given(merged, r.name)
            /\ \A x \in DOMAIN r.own : LastWord(merged, r.name, x) = {r.own[x]}

\* What the merge of BUILD.in made of it.
WrittenMerged ==
    merged = Len(Files) =>
        \A r \in written.rules :
            /\ \A x \in DOMAIN r.additional : ~Misplaced(r, x)
            /\ \E result \in build.rules :
                /\ result.name = r.name
                /\ IF IsGenerated(r.name) THEN Corrected(result, r) ELSE result = r

\* What makes a merge fail.
Conflict ==
    \/ \E l, m \in Licenses : l # m
    \/ \E r \in written.rules : \E x \in DOMAIN r.additional : Misplaced(r, x)

MergeTypeOK ==
    /\ gens \in Seq(Generated)
    /\ written \in Written
    /\ merged \in 0 .. Len(Files)
    /\ failed \in BOOLEAN

MergeInv ==
    /\ MergeTypeOK
    /\ RulesSoFar /\ LicensesSoFar /\ LoadsSoFar /\ ValuesSoFar /\ WrittenMerged
    /\ failed => Conflict

\* All files that are merged are files.
LEMMA TheFiles ==
    ASSUME MergeTypeOK
    PROVE  /\ Len(gens) \in Nat /\ Len(Files) = Len(gens) + 1
           /\ \A i \in 1 .. Len(gens) : Files[i] = gens[i] /\ gens[i] \in Generated
           /\ Files[Len(gens) + 1] = written
           /\ \A i \in 1 .. Len(Files) : IsFile(Files[i])
<1> USE DEF MergeTypeOK
<1>1. Len(gens) \in Nat /\ Len(Files) = Len(gens) + 1
  BY DEF Files
<1>2. \A i \in 1 .. Len(gens) : Files[i] = gens[i] /\ gens[i] \in Generated
  BY DEF Files
<1>3. Files[Len(gens) + 1] = written
  BY DEF Files
<1>4. \A i \in 1 .. Len(Files) : i \in 1 .. Len(gens) \/ i = Len(gens) + 1
  BY <1>1
<1> QED
  BY <1>1, <1>2, <1>3, <1>4, FilesAssumption

\* What a file says of a target, whose rule in it is r.
LEMMA SaysOf ==
    ASSUME NEW i, IsFile(Files[i]), NEW r \in Files[i].rules, NEW x
    PROVE  Says(i, r.name, x) = IF x \in DOMAIN r.own THEN {r.own[x]} ELSE {}
<1>1. \A s \in Files[i].rules : s.name = r.name <=> s = r
  BY DEF IsFile
<1>2. {s \in Files[i].rules : s.name = r.name /\ x \in DOMAIN s.own}
        = IF x \in DOMAIN r.own THEN {r} ELSE {}
  BY <1>1
<1> QED
  BY <1>2 DEF Says

LEMMA SaysNothing ==
    ASSUME NEW i, NEW name, name \notin Calls(Files[i]), NEW x
    PROVE  Says(i, name, x) = {}
BY DEF Says, Calls

\* Another file has the last word, if it says so.
LEMMA NextLastWord ==
    ASSUME NEW n \in Nat, NEW name, NEW x
    PROVE  LastWord(n + 1, name, x) =
            IF Says(n + 1, name, x) = {} THEN LastWord(n, name, x) ELSE Says(n + 1, name, x)
<1> DEFINE Silent(m, j) == \A k \in j + 1 .. m : Says(k, name, x) = {}
<1>1. Silent(n + 1, n + 1)
  OBVIOUS
<1>2. \A j \in 1 .. n : Silent(n + 1, j) <=> Silent(n, j) /\ Says(n + 1, name, x) = {}
  <2>1. \A j \in 1 .. n : j + 1 .. n + 1 = (j + 1 .. n) \cup {n + 1}
    OBVIOUS
  <2> QED
    BY <2>1
<1>3. 1 .. n + 1 = (1 .. n) \cup {n + 1}
  OBVIOUS
<1>4. {j \in 1 .. n + 1 : Silent(n + 1, j)}
        = {n + 1} \cup IF Says(n + 1, name, x) = {} THEN {j \in 1 .. n : Silent(n, j)} ELSE {}
  <2> HIDE DEF Silent
  <2> QED
    BY <1>1, <1>2, <1>3
<1>5. LastWord(n + 1, name, x) = UNION {Says(i, name, x) : i \in {j \in 1 .. n + 1 : Silent(n + 1, j)}}
  BY DEF LastWord
<1>6. LastWord(n, name, x) = UNION {Says(i, name, x) : i \in {j \in 1 .. n : Silent(n, j)}}
  BY DEF LastWord
<1> HIDE DEF Silent
<1>7. CASE Says(n + 1, name, x) = {}
  <2>1. \A v : v \in LastWord(n + 1, name, x) <=> v \in LastWord(n, name, x)
    BY <1>4, <1>5, <1>6, <1>7
  <2> QED
    BY <1>7, <2>1 DEF LastWord
<1>8. CASE Says(n + 1, name, x) # {}
  <2>1. {j \in 1 .. n + 1 : Silent(n + 1, j)} = {n + 1}
    BY <1>4, <1>8
  <2> QED
    BY <1>5, <1>8, <2>1
<1> QED
  BY <1>7, <1>8

\* An argument that no file gives has no value.
LEMMA NoValue ==
    ASSUME NEW n, NEW name, NEW x, x \notin Given(n, name)
    PROVE  LastWord(n, name, x) = {}
BY DEF Given, LastWord, Says

LEMMA NextGiven ==
    ASSUME NEW n \in Nat, NEW name
    PROVE  Given(n + 1, name) =
            Given(n, name) \cup UNION {DOMAIN r.own : r \in {s \in Files[n + 1].rules : s.name = name}}
<1>1. 1 .. n + 1 = (1 .. n) \cup {n + 1}
  OBVIOUS
<1> QED
  BY <1>1 DEF Given

\* The same for a target of the next file, and for one that it does not have.
LEMMA GivenOf ==
    ASSUME NEW n \in Nat, IsFile(Files[n + 1]), NEW r \in Files[n + 1].rules
    PROVE  Given(n + 1, r.name) = Given(n, r.name) \cup DOMAIN r.own
<1>1. {s \in Files[n + 1].rules : s.name = r.name} = {r}
  BY DEF IsFile
<1>2. UNION {DOMAIN q.own : q \in {r}} = DOMAIN r.own
  OBVIOUS
<1> QED
  BY <1>1, <1>2, NextGiven

LEMMA GivenElsewhere ==
    ASSUME NEW n \in Nat, NEW name, name \notin Calls(Files[n + 1])
    PROVE  Given(n + 1, name) = Given(n, name)
<1>1. UNION {DOMAIN r.own : r \in {s \in Files[n + 1].rules : s.name = name}} = {}
  BY DEF Calls
<1>2. Given(n + 1, name) =
        Given(n, name) \cup UNION {DOMAIN r.own : r \in {s \in Files[n + 1].rules : s.name = name}}
  BY NextGiven
<1>3. \A x : x \in Given(n + 1, name) <=> x \in Given(n, name)
  BY <1>1, <1>2
<1> QED
  BY <1>3 DEF Given

LEMMA NothingGiven ==
    ASSUME NEW n, NEW name, \A i \in 1 .. n : name \notin Calls(Files[i])
    PROVE  Given(n, name) = {}
BY DEF Given, Calls

-----------------------------------------------------------------------------
\* The rules of a merge: those only one of the files has, and the merged ones.
LEMMA RulesOfMerge ==
    ASSUME NEW file1, NEW file2
    PROVE  /\ \A r \in Merge(file1, file2).rules :
                \/ r \in file1.rules /\ r.name \notin Calls(file2)
                \/ \E a \in file1.rules, b \in file2.rules : a.name = b.name /\ r = MergeCallExpr(a, b)
                \/ r \in file2.rules /\ r.name \notin Calls(file1)
           /\ \A a \in file1.rules : a.name \notin Calls(file2) => a \in Merge(file1, file2).rules
           /\ \A b \in file2.rules : b.name \notin Calls(file1) => b \in Merge(file1, file2).rules
           /\ \A a \in file1.rules, b \in file2.rules :
                a.name = b.name => MergeCallExpr(a, b) \in Merge(file1, file2).rules
<1>1. Merge(file1, file2).rules =
        Rest(file2, file1) \cup {MergeCallExpr(p[1], p[2]) : p \in SameTarget(file1, file2)}
            \cup Rest(file1, file2)
  BY DEF Merge
<1>2. \A a \in file1.rules, b \in file2.rules : a.name = b.name =>
        MergeCallExpr(a, b) \in {MergeCallExpr(p[1], p[2]) : p \in SameTarget(file1, file2)}
  <2> SUFFICES ASSUME NEW a \in file1.rules, NEW b \in file2.rules, a.name = b.name
               PROVE  \E p \in SameTarget(file1, file2) : MergeCallExpr(a, b) = MergeCallExpr(p[1], p[2])
    OBVIOUS
  <2>1. <<a, b>>[1] = a /\ <<a, b>>[2] = b
    OBVIOUS
  <2>2. <<a, b>> \in SameTarget(file1, file2)
    BY <2>1 DEF SameTarget
  <2> QED
    BY <2>1, <2>2
<1>3. \A r \in {MergeCallExpr(p[1], p[2]) : p \in SameTarget(file1, file2)} :
        \E a \in file1.rules, b \in file2.rules : a.name = b.name /\ r = MergeCallExpr(a, b)
  BY DEF SameTarget
<1> QED
  BY <1>1, <1>2, <1>3 DEF Rest

\* What a merged rule keeps of the first one.
LEMMA MergedCall ==
    ASSUME NEW a, NEW b
    PROVE  LET c == MergeCallExpr(a, b)
           IN  /\ c.name = a.name /\ c.kind = a.kind /\ c.additional = a.additional
               /\ DOMAIN c.own = Own(a, b) \cup DOMAIN b.additional
               /\ \A x \in DOMAIN c.own : c.own[x] = MergedValue(a, b, x)
BY DEF MergeCallExpr

\* A step of the merge, in the terms that the parts of the invariant use.
LEMMA BuildNext ==
    ASSUME MergeTypeOK, MergeFile
    PROVE  /\ Files' = Files /\ gens' = gens /\ written' = written
           /\ merged \in 0 .. Len(gens) /\ merged' = merged + 1
           /\ 1 .. merged' = (1 .. merged) \cup {merged + 1}
           /\ build'.rules = Merge(build, Files[merged + 1]).rules
           /\ build'.licenses = Merge(build, Files[merged + 1]).licenses
           /\ build'.loads = {l \in MergeLoads(build.loads, Files[merged + 1].loads) :
                                \E r \in build'.rules : r.kind = l.as}
           /\ IsFile(Files[merged + 1])
<1>1. /\ Files' = Files /\ gens' = gens /\ written' = written /\ merged' = merged + 1
      /\ merged < Len(Files) /\ build' = FixWarnings(Merge(build, Files[merged + 1]))
  BY DEF MergeFile, Files
<1>2. merged \in 0 .. Len(gens) /\ IsFile(Files[merged + 1])
  BY <1>1, TheFiles DEF MergeTypeOK
<1>3. 1 .. merged' = (1 .. merged) \cup {merged + 1}
  BY <1>1, <1>2
<1>4. /\ build'.rules = Merge(build, Files[merged + 1]).rules
      /\ build'.licenses = Merge(build, Files[merged + 1]).licenses
      /\ build'.loads = {l \in Merge(build, Files[merged + 1]).loads :
                            \E r \in Merge(build, Files[merged + 1]).rules : r.kind = l.as}
  BY <1>1 DEF FixWarnings, Merge
<1>5. Merge(build, Files[merged + 1]).loads = MergeLoads(build.loads, Files[merged + 1].loads)
  BY DEF Merge
<1> QED
  BY <1>1, <1>2, <1>3, <1>4, <1>5

\* A rule that comes of a merge, and the one of that name before the merge.
LEMMA Before ==
    ASSUME MergeTypeOK, RulesSoFar, MergeFile
    PROVE  /\ \A r \in build'.rules : r.name \in Calls(build) \/ r.name \in Calls(Files[merged + 1])
           /\ \A r \in build'.rules, a \in build.rules : r.name = a.name =>
                /\ r.kind = a.kind
                /\ \/ r = a /\ r.name \notin Calls(Files[merged + 1])
                   \/ \E b \in Files[merged + 1].rules : b.name = r.name /\ r = MergeCallExpr(a, b)
           /\ \A r \in build'.rules : r.name \notin Calls(build) => r \in Files[merged + 1].rules
           /\ \A a \in build.rules : \E r \in build'.rules : r.name = a.name /\ r.kind = a.kind
           /\ \A b \in Files[merged + 1].rules :
                b.name \notin Calls(build) => b \in build'.rules
<1> DEFINE file == Files[merged + 1]
<1>1. build'.rules = Merge(build, file).rules /\ IsFile(file)
  BY BuildNext
<1>2. \A a, b : MergeCallExpr(a, b).name = a.name /\ MergeCallExpr(a, b).kind = a.kind
  BY MergedCall
<1> HIDE DEF file
<1>3. \A r \in build'.rules :
        \/ r \in build.rules /\ r.name \notin Calls(file)
        \/ \E a \in build.rules, b \in file.rules : a.name = b.name /\ r = MergeCallExpr(a, b)
        \/ r \in file.rules /\ r.name \notin Calls(build)
  BY <1>1, RulesOfMerge
<1>4. \A r \in build'.rules : r.name \in Calls(build) \/ r.name \in Calls(file)
  BY <1>2, <1>3 DEF Calls
<1>5. ASSUME NEW r \in build'.rules, NEW a \in build.rules, r.name = a.name
      PROVE  /\ r.kind = a.kind
             /\ \/ r = a /\ r.name \notin Calls(file)
                \/ \E b \in file.rules : b.name = r.name /\ r = MergeCallExpr(a, b)
  <2>1. CASE r \in build.rules /\ r.name \notin Calls(file)
    BY <1>5, <2>1 DEF RulesSoFar
  <2>2. CASE \E c \in build.rules, b \in file.rules : c.name = b.name /\ r = MergeCallExpr(c, b)
    <3>1. PICK c \in build.rules, b \in file.rules : c.name = b.name /\ r = MergeCallExpr(c, b)
      BY <2>2
    <3>2. c = a
      BY <1>2, <1>5, <3>1 DEF RulesSoFar
    <3> QED
      BY <1>2, <3>1, <3>2
  <2>3. CASE r \in file.rules /\ r.name \notin Calls(build)
    BY <1>5, <2>3 DEF Calls
  <2> QED
    BY <1>3, <2>1, <2>2, <2>3
<1>6. \A r \in build'.rules : r.name \notin Calls(build) => r \in file.rules
  BY <1>2, <1>3 DEF Calls
<1>7. ASSUME NEW a \in build.rules
      PROVE  \E r \in build'.rules : r.name = a.name /\ r.kind = a.kind
  <2>1. CASE a.name \notin Calls(file)
    BY <1>1, <2>1, RulesOfMerge
  <2>2. CASE a.name \in Calls(file)
    <3>1. PICK b \in file.rules : b.name = a.name
      BY <2>2 DEF Calls
    <3>2. MergeCallExpr(a, b) \in build'.rules
      BY <1>1, <3>1, RulesOfMerge
    <3> QED
      BY <1>2, <3>2
  <2> QED
    BY <2>1, <2>2
<1>8. \A b \in file.rules : b.name \notin Calls(build) => b \in build'.rules
  BY <1>1, RulesOfMerge
<1> QED
  BY <1>4, <1>5, <1>6, <1>7, <1>8 DEF file

LEMMA NextRules ==
    ASSUME MergeTypeOK, RulesSoFar, MergeFile
    PROVE  RulesSoFar'
<1> DEFINE file == Files[merged + 1]
<1>1. /\ Files' = Files /\ merged' = merged + 1 /\ merged \in Nat
      /\ 1 .. merged' = (1 .. merged) \cup {merged + 1} /\ IsFile(file)
  BY BuildNext, TheFiles
<1>2. Calls(build)' = Calls(build) \cup Calls(file)
  <2>1. Calls(build)' \subseteq Calls(build) \cup Calls(file)
    BY Before DEF Calls
  <2>2. Calls(build) \subseteq Calls(build)'
    BY Before DEF Calls
  <2>3. Calls(file) \subseteq Calls(build) \cup Calls(build)'
    BY Before DEF Calls
  <2> HIDE DEF file
  <2> QED
    BY <2>1, <2>2, <2>3
<1>3. \A name : name \in Calls(build)' <=> \E i \in 1 .. merged' : name \in Calls(Files[i])
  BY <1>1, <1>2 DEF RulesSoFar
<1>4. ASSUME NEW r \in build'.rules, NEW s \in build'.rules, r.name = s.name
      PROVE  r = s
  <2>1. CASE r.name \in Calls(build)
    <3>1. PICK a \in build.rules : a.name = r.name
      BY <2>1 DEF Calls
    <3>2. \/ r = a /\ r.name \notin Calls(file)
          \/ \E b \in file.rules : b.name = r.name /\ r = MergeCallExpr(a, b)
      BY <3>1, Before
    <3>3. \/ s = a /\ s.name \notin Calls(file)
          \/ \E b \in file.rules : b.name = s.name /\ s = MergeCallExpr(a, b)
      BY <1>4, <3>1, Before
    <3> QED
      BY <1>1, <1>4, <3>2, <3>3 DEF IsFile, Calls
  <2>2. CASE r.name \notin Calls(build)
    BY <1>1, <1>4, <2>2, Before DEF IsFile
  <2> QED
    BY <2>1, <2>2
<1>5. ASSUME NEW r \in build'.rules
      PROVE  \E i \in 1 .. merged' :
                /\ \E s \in Files[i].rules : s.name = r.name /\ s.kind = r.kind
                /\ \A j \in 1 .. i - 1 : r.name \notin Calls(Files[j])
  <2>1. CASE r.name \in Calls(build)
    <3>1. PICK a \in build.rules : a.name = r.name
      BY <2>1 DEF Calls
    <3>2. r.kind = a.kind
      BY <3>1, Before
    <3> QED
      BY <1>1, <3>1, <3>2 DEF RulesSoFar
  <2>2. CASE r.name \notin Calls(build)
    <3>1. r \in file.rules
      BY <2>2, Before
    <3>2. \A j \in 1 .. merged : r.name \notin Calls(Files[j])
      BY <2>2 DEF RulesSoFar
    <3>3. \A j \in 1 .. (merged + 1) - 1 : r.name \notin Calls(Files[j])
      BY <1>1, <3>2
    <3> QED
      BY <1>1, <3>1, <3>3
  <2> QED
    BY <2>1, <2>2
<1>6. \A r \in build'.rules : \E i \in 1 .. merged' :
        /\ \E s \in Files'[i].rules : s.name = r.name /\ s.kind = r.kind
        /\ \A j \in 1 .. i - 1 : r.name \notin Calls(Files'[j])
  BY <1>1, <1>5
<1>7. \A i : Calls(Files[i])' = Calls(Files[i])
  BY <1>1 DEF Calls
<1> QED
  BY <1>3, <1>4, <1>6, <1>7 DEF RulesSoFar, Calls

LEMMA NextLicenses ==
    ASSUME MergeTypeOK, LicensesSoFar, MergeFile
    PROVE  LicensesSoFar'
<1> DEFINE file == Files[merged + 1]
<1>1. /\ Files' = Files /\ merged' = merged + 1 /\ merged \in Nat
      /\ 1 .. merged' = (1 .. merged) \cup {merged + 1}
  BY BuildNext, TheFiles
<1>2. build'.licenses = IF build.licenses = "none" THEN file.licenses ELSE build.licenses
  BY BuildNext DEF Merge
<1>3. ~LicensesConflict(build, file)
  BY DEF MergeFile, MergeFails
<1>4. merged + 1 \in 1 .. merged' /\ 1 .. merged \subseteq 1 .. merged'
  BY <1>1
<1> QED
  BY <1>1, <1>2, <1>3, <1>4 DEF LicensesSoFar, LicensesConflict

LEMMA NextLoads ==
    ASSUME MergeTypeOK, RulesSoFar, LoadsSoFar, MergeFile
    PROVE  LoadsSoFar'
<1> DEFINE file == Files[merged + 1]
<1>1. /\ Files' = Files /\ merged' = merged + 1 /\ merged \in Nat
      /\ 1 .. merged' = (1 .. merged) \cup {merged + 1}
      /\ build'.loads = {l \in MergeLoads(build.loads, file.loads) :
                            \E r \in build'.rules : r.kind = l.as}
  BY BuildNext, TheFiles
<1>2. build.loads \subseteq build'.loads
  <2>1. \A m \in build.loads : \E r \in build'.rules : r.kind = m.as
    BY Before DEF LoadsSoFar
  <2> QED
    BY <1>1, <2>1 DEF MergeLoads
<1>3. ASSUME NEW i \in 1 .. merged', NEW r \in Files[i].rules, NEW l \in Files[i].loads,
             r.kind = l.as, NEW s \in build'.rules, s.name = r.name, s.kind = r.kind
      PROVE  \E m \in build'.loads : m.module = l.module /\ m.symbol = l.symbol
  <2>1. CASE i \in 1 .. merged
    <3>1. PICK a \in build.rules : a.name = r.name
      BY <2>1 DEF RulesSoFar, Calls
    <3>2. a.kind = r.kind
      BY <1>3, <3>1, Before
    <3> QED
      BY <1>2, <1>3, <2>1, <3>1, <3>2 DEF LoadsSoFar
  <2>2. CASE i = merged + 1
    <3>1. CASE \E m \in build.loads : m.module = l.module /\ m.symbol = l.symbol
      BY <1>2, <3>1
    <3>2. CASE ~\E m \in build.loads : m.module = l.module /\ m.symbol = l.symbol
      <4>1. l \in MergeLoads(build.loads, file.loads)
        BY <2>2, <3>2 DEF MergeLoads
      <4> QED
        BY <1>1, <1>3, <4>1
    <3> QED
      BY <3>1, <3>2
  <2> QED
    BY <1>1, <2>1, <2>2
<1>4. \A m \in build'.loads : \E r \in build'.rules : r.kind = m.as
  BY <1>1
<1> QED
  BY <1>1, <1>3, <1>4 DEF LoadsSoFar

\* What the target has after a merge: the later of the values of the two calls.
LEMMA ValueOf ==
    ASSUME NEW a, NEW b, NEW x \in Own(a, b)
    PROVE  MergedValue(a, b, x) =
            IF x \in DOMAIN b.additional
            THEN MaybeMergeExpr(Chosen(a, b, x), b.additional[x]) ELSE Chosen(a, b, x)
BY DEF MergedValue

\* The last word on a target that both have, before something is added to it.
LEMMA LastWordOf ==
    ASSUME MergeTypeOK, ValuesSoFar, merged <= Len(gens),
           NEW a \in build.rules, NEW b \in Files[merged + 1].rules, a.name = b.name, NEW x
    PROVE  LastWord(merged + 1, b.name, x) = IF x \in Own(a, b) THEN {Chosen(a, b, x)} ELSE {}
<1>1. merged \in Nat /\ IsFile(Files[merged + 1])
  BY TheFiles DEF MergeTypeOK
<1>2. /\ DOMAIN a.own = Given(merged, b.name)
      /\ x \in DOMAIN a.own => LastWord(merged, b.name, x) = {a.own[x]}
  BY DEF ValuesSoFar
<1>3. x \notin DOMAIN a.own => LastWord(merged, b.name, x) = {}
  BY <1>2, NoValue
<1>4. Says(merged + 1, b.name, x) = IF x \in DOMAIN b.own THEN {b.own[x]} ELSE {}
  BY <1>1, SaysOf
<1>5. LastWord(merged + 1, b.name, x) =
        IF Says(merged + 1, b.name, x) = {} THEN LastWord(merged, b.name, x)
        ELSE Says(merged + 1, b.name, x)
  BY <1>1, NextLastWord
<1>6. CASE x \in DOMAIN b.own
  BY <1>4, <1>5, <1>6 DEF Own, Chosen
<1>7. CASE x \notin DOMAIN b.own
  BY <1>2, <1>3, <1>4, <1>5, <1>7 DEF Own, Chosen
<1> QED
  BY <1>6, <1>7

\* Files of generators have nothing that is to be added to a value.
LEMMA GeneratedRules ==
    ASSUME MergeTypeOK, merged < Len(gens)
    PROVE  \A r \in Files[merged + 1].rules : DOMAIN r.additional = {}
<1>1. merged + 1 \in 1 .. Len(gens)
  BY TheFiles DEF MergeTypeOK
<1> QED
  BY <1>1, TheFiles, FilesAssumption

LEMMA NextValues ==
    ASSUME MergeTypeOK, RulesSoFar, ValuesSoFar, MergeFile
    PROVE  ValuesSoFar'
<1> DEFINE file == Files[merged + 1]
<1> SUFFICES ASSUME merged' <= Len(gens)', NEW r \in build'.rules
             PROVE  /\ DOMAIN r.additional = {}
                    /\ DOMAIN r.own = Given(merged, r.name)'
                    /\ \A x \in DOMAIN r.own : LastWord(merged, r.name, x)' = {r.own[x]}
  BY DEF ValuesSoFar
<1>1. /\ Files' = Files /\ gens' = gens /\ merged' = merged + 1 /\ merged \in Nat
      /\ Len(gens) \in Nat /\ IsFile(file)
  BY BuildNext, TheFiles
<1>2. merged < Len(gens) /\ merged <= Len(gens)
  BY <1>1
<1>3. /\ Given(merged, r.name)' = Given(merged + 1, r.name)
      /\ \A x : LastWord(merged, r.name, x)' = LastWord(merged + 1, r.name, x)
  BY <1>1 DEF Given, LastWord, Says
<1>4. \A a \in build.rules :
        /\ DOMAIN a.additional = {}
        /\ DOMAIN a.own = Given(merged, a.name)
        /\ \A x \in DOMAIN a.own : LastWord(merged, a.name, x) = {a.own[x]}
  BY <1>1, <1>2 DEF ValuesSoFar
<1> DEFINE Valued ==
        /\ DOMAIN r.additional = {}
        /\ DOMAIN r.own = Given(merged + 1, r.name)
        /\ \A x \in DOMAIN r.own : LastWord(merged + 1, r.name, x) = {r.own[x]}
<1>5. Valued
  <2>1. ASSUME NEW a \in build.rules, r = a, r.name \notin Calls(file)
        PROVE  Valued
    <3>1. Given(merged + 1, r.name) = Given(merged, r.name)
      BY <1>1, <2>1, GivenElsewhere
    <3>2. \A x : LastWord(merged + 1, r.name, x) = LastWord(merged, r.name, x)
      BY <1>1, <2>1, SaysNothing, NextLastWord
    <3> QED
      BY <1>4, <2>1, <3>1, <3>2
  <2>2. ASSUME NEW a \in build.rules, NEW b \in file.rules, r.name = a.name, b.name = r.name,
               r = MergeCallExpr(a, b)
        PROVE  Valued
    <3>1. DOMAIN b.additional = {} /\ DOMAIN a.additional = {}
      BY <1>2, <1>4, GeneratedRules
    <3>2. /\ r.additional = a.additional
          /\ DOMAIN r.own = Own(a, b)
          /\ \A x \in DOMAIN r.own : r.own[x] = MergedValue(a, b, x)
      <4>1. /\ r.additional = a.additional
            /\ DOMAIN r.own = Own(a, b) \cup DOMAIN b.additional
            /\ \A x \in DOMAIN r.own : r.own[x] = MergedValue(a, b, x)
        BY <2>2, MergedCall
      <4> QED
        BY <3>1, <4>1
    <3>3. \A x \in DOMAIN r.own : r.own[x] = Chosen(a, b, x)
      BY <3>1, <3>2, ValueOf
    <3>4. Given(merged + 1, r.name) = Given(merged, r.name) \cup DOMAIN b.own
      BY <1>1, <2>2, GivenOf
    <3>5. DOMAIN r.own = Given(merged + 1, r.name)
      BY <1>4, <2>2, <3>2, <3>4 DEF Own
    <3>6. \A x \in DOMAIN r.own : LastWord(merged + 1, r.name, x) = {Chosen(a, b, x)}
      BY <1>1, <1>2, <2>2, <3>2, LastWordOf
    <3> QED
      BY <3>1, <3>2, <3>3, <3>5, <3>6
  <2>3. ASSUME r \in file.rules, r.name \notin Calls(build)
        PROVE  Valued
    <3>1. DOMAIN r.additional = {}
      BY <1>2, <2>3, GeneratedRules
    <3>2. Given(merged, r.name) = {}
      BY <2>3, NothingGiven DEF RulesSoFar
    <3>3. Given(merged + 1, r.name) = DOMAIN r.own
      BY <1>1, <2>3, <3>2, GivenOf
    <3>4. \A x \in DOMAIN r.own : Says(merged + 1, r.name, x) = {r.own[x]}
      BY <1>1, <2>3, SaysOf
    <3>5. \A x \in DOMAIN r.own : LastWord(merged + 1, r.name, x) = {r.own[x]}
      BY <1>1, <3>4, NextLastWord
    <3> QED
      BY <3>1, <3>3, <3>5
  <2> QED
    <3>1. CASE r.name \in Calls(build)
      <4>1. PICK a \in build.rules : a.name = r.name
        BY <3>1 DEF Calls
      <4>2. \/ r = a /\ r.name \notin Calls(file)
            \/ \E b \in file.rules : b.name = r.name /\ r = MergeCallExpr(a, b)
        BY <4>1, Before
      <4> QED
        BY <2>1, <2>2, <4>1, <4>2
    <3>2. CASE r.name \notin Calls(build)
      BY <2>3, <3>2, Before
    <3> QED
      BY <3>1, <3>2
<1> QED
  BY <1>3, <1>5

\* At BUILD.in, the targets of generators are those the output has.
LEMMA GeneratedTargets ==
    ASSUME MergeTypeOK, RulesSoFar, merged = Len(gens), NEW name
    PROVE  IsGenerated(name) <=> name \in Calls(build)
<1>1. \A i \in 1 .. Len(gens) : Files[i] = gens[i]
  BY TheFiles
<1>2. DOMAIN gens = 1 .. Len(gens)
  BY DEF MergeTypeOK
<1> QED
  BY <1>1, <1>2 DEF IsGenerated, RulesSoFar

\* BUILD.in adds to a value where it can, and only there: see Misplaced.
LEMMA FailsIfMisplaced ==
    ASSUME MergeTypeOK, RulesSoFar, ValuesSoFar, merged = Len(gens),
           NEW a \in build.rules, NEW b \in written.rules, a.name = b.name
    PROVE  MergeCallFails(a, b) <=> \E x \in DOMAIN b.additional : Misplaced(b, x)
<1>1. /\ Files[merged + 1] = written /\ Len(Files) = merged + 1 /\ merged <= Len(gens)
  BY TheFiles
<1>2. IsGenerated(b.name)
  BY GeneratedTargets DEF Calls
<1>3. \A x : LastWord(Len(Files), b.name, x) = IF x \in Own(a, b) THEN {Chosen(a, b, x)} ELSE {}
  BY <1>1, LastWordOf
<1>4. \A x \in DOMAIN b.additional :
        Misplaced(b, x) <=> x \in Own(a, b) /\ ~CanAdd(Chosen(a, b, x), b.additional[x])
  BY <1>2, <1>3 DEF Misplaced
<1> QED
  BY <1>4 DEF MergeCallFails

\* The merge of BUILD.in makes of a target of the generators what it should.
LEMMA MergeCorrects ==
    ASSUME MergeTypeOK, RulesSoFar, ValuesSoFar, merged = Len(gens),
           NEW a \in build.rules, NEW b \in written.rules, a.name = b.name
    PROVE  Corrected(MergeCallExpr(a, b), b)
<1> DEFINE result == MergeCallExpr(a, b)
<1>1. /\ Files[merged + 1] = written /\ Len(Files) = merged + 1 /\ merged <= Len(gens)
      /\ merged \in Nat /\ IsFile(Files[merged + 1])
  BY TheFiles DEF MergeTypeOK
<1>2. /\ DOMAIN result.own = Own(a, b) \cup DOMAIN b.additional
      /\ \A x \in DOMAIN result.own : result.own[x] = MergedValue(a, b, x)
  BY MergedCall
<1> HIDE DEF result
<1>3. DOMAIN result.own = Given(Len(Files), b.name) \cup DOMAIN b.additional
  <2>1. DOMAIN a.own = Given(merged, b.name)
    BY <1>1 DEF ValuesSoFar
  <2>2. Given(merged + 1, b.name) = Given(merged, b.name) \cup DOMAIN b.own
    BY <1>1, GivenOf
  <2> QED
    BY <1>1, <1>2, <2>1, <2>2 DEF Own
<1>4. ASSUME NEW x \in DOMAIN result.own, LastWord(Len(Files), b.name, x) = {}
      PROVE  result.own[x] = b.additional[x]
  <2>1. x \notin Own(a, b)
    BY <1>1, <1>4, LastWordOf
  <2> QED
    BY <1>2, <2>1 DEF MergedValue
<1>5. ASSUME NEW x \in DOMAIN result.own, LastWord(Len(Files), b.name, x) # {}
      PROVE  \E value \in LastWord(Len(Files), b.name, x) :
                IF x \notin DOMAIN b.additional THEN result.own[x] = value
                ELSE \/ Last(value).form = "dict"
                     \/ result.own[x] = value \o b.additional[x]
  <2>1. x \in Own(a, b) /\ Chosen(a, b, x) \in LastWord(Len(Files), b.name, x)
    BY <1>1, <1>5, LastWordOf
  <2>2. result.own[x] = IF x \in DOMAIN b.additional
                        THEN MaybeMergeExpr(Chosen(a, b, x), b.additional[x]) ELSE Chosen(a, b, x)
    BY <1>2, <2>1, ValueOf
  <2> QED
    BY <2>1, <2>2 DEF MaybeMergeExpr
<1> QED
  BY <1>3, <1>4, <1>5 DEF Corrected, result

\* What the files say is the same after a step.
LEMMA SameFiles ==
    ASSUME UNCHANGED <<gens, written>>
    PROVE  /\ Files' = Files /\ Licenses' = Licenses /\ Conflict' = Conflict
           /\ \A r, x : Misplaced(r, x)' = Misplaced(r, x)
           /\ \A r, s : Corrected(r, s)' = Corrected(r, s)
           /\ \A name : IsGenerated(name)' = IsGenerated(name)
<1>1. Files' = Files
  BY DEF Files
<1> QED
  BY <1>1 DEF Licenses, Conflict, Misplaced, IsGenerated, Calls, LastWord, Says, Corrected, Given

LEMMA NextWritten ==
    ASSUME MergeTypeOK, RulesSoFar, ValuesSoFar, MergeFile
    PROVE  WrittenMerged'
<1>1. /\ gens' = gens /\ written' = written /\ Files' = Files /\ merged' = merged + 1
      /\ Len(gens) \in Nat /\ merged \in Nat /\ Len(Files) = Len(gens) + 1
      /\ Files[Len(gens) + 1] = written
      /\ build'.rules = Merge(build, Files[merged + 1]).rules
      /\ ~MergeFails(build, Files[merged + 1])
  BY BuildNext, TheFiles DEF MergeFile
<1> SUFFICES ASSUME merged = Len(gens), NEW r \in written.rules
             PROVE  /\ \A x \in DOMAIN r.additional : ~Misplaced(r, x)
                    /\ \E result \in build'.rules :
                        /\ result.name = r.name
                        /\ IF IsGenerated(r.name) THEN Corrected(result, r) ELSE result = r
  BY <1>1, SameFiles DEF WrittenMerged
<1>2. CASE r.name \in Calls(build)
  <2>1. PICK a \in build.rules : a.name = r.name
    BY <1>2 DEF Calls
  <2>2. ~MergeCallFails(a, r)
    <3>1. <<a, r>> \in SameTarget(build, written) /\ <<a, r>>[1] = a /\ <<a, r>>[2] = r
      BY <2>1 DEF SameTarget
    <3> QED
      BY <1>1, <3>1 DEF MergeFails
  <2>3. \A x \in DOMAIN r.additional : ~Misplaced(r, x)
    BY <2>1, <2>2, FailsIfMisplaced
  <2>4. Corrected(MergeCallExpr(a, r), r)
    BY <2>1, MergeCorrects
  <2>5. MergeCallExpr(a, r) \in build'.rules /\ MergeCallExpr(a, r).name = r.name
    BY <1>1, <2>1, RulesOfMerge, MergedCall
  <2>6. IsGenerated(r.name)
    BY <1>2, GeneratedTargets
  <2> QED
    BY <2>3, <2>4, <2>5, <2>6
<1>3. CASE r.name \notin Calls(build)
  <2>1. ~IsGenerated(r.name)
    BY <1>3, GeneratedTargets
  <2>2. r \in build'.rules
    BY <1>1, <1>3, RulesOfMerge
  <2> QED
    BY <2>1, <2>2 DEF Misplaced
<1> QED
  BY <1>2, <1>3

\* A merge fails for a reason.
LEMMA FailsForAReason ==
    ASSUME MergeInv, MergeFileFails
    PROVE  Conflict
<1> USE DEF MergeInv
<1> DEFINE file == Files[merged + 1]
<1>1. /\ merged \in Nat /\ Len(gens) \in Nat /\ Len(Files) = Len(gens) + 1 /\ merged < Len(Files)
      /\ Files[Len(gens) + 1] = written /\ MergeFails(build, file)
  BY TheFiles DEF MergeTypeOK, MergeFileFails
<1>2. CASE LicensesConflict(build, file)
  <2>1. PICK i \in 1 .. merged : Files[i].licenses = build.licenses
    BY <1>2 DEF LicensesConflict, LicensesSoFar
  <2>2. i \in 1 .. Len(Files) /\ merged + 1 \in 1 .. Len(Files)
    BY <1>1
  <2>3. build.licenses \in Licenses /\ file.licenses \in Licenses
    BY <1>2, <2>1, <2>2 DEF Licenses, LicensesConflict
  <2> QED
    BY <1>2, <2>3 DEF LicensesConflict, Conflict
<1>3. CASE \E p \in SameTarget(build, file) : MergeCallFails(p[1], p[2])
  <2>1. PICK a \in build.rules, b \in file.rules : a.name = b.name /\ MergeCallFails(a, b)
    BY <1>3 DEF SameTarget
  <2>2. DOMAIN b.additional # {}
    BY <2>1 DEF MergeCallFails
  <2>3. merged = Len(gens) /\ file = written
    BY <1>1, <2>1, <2>2, GeneratedRules
  <2>4. \E x \in DOMAIN b.additional : Misplaced(b, x)
    BY <2>1, <2>3, FailsIfMisplaced
  <2> QED
    BY <2>1, <2>3, <2>4 DEF Conflict
<1> QED
  BY <1>1, <1>2, <1>3 DEF MergeFails

LEMMA InitMergeInv == MergeInit => MergeInv
<1> SUFFICES ASSUME MergeInit
             PROVE  MergeInv
  OBVIOUS
<1>1. /\ gens \in Seq(Generated) /\ merged = 0 /\ failed = FALSE
      /\ build.rules = {} /\ build.loads = {} /\ build.licenses = "none"
  BY DEF MergeInit, HeaderOnly
<1>2. Len(gens) \in Nat /\ Len(Files) = Len(gens) + 1
  BY <1>1 DEF Files
<1>3. MergeTypeOK
  <2>1. merged \in 0 .. Len(Files)
    BY <1>1, <1>2
  <2> QED
    BY <1>1, <2>1 DEF MergeInit, MergeTypeOK
<1>4. 1 .. merged = {}
  BY <1>1
<1>5. RulesSoFar /\ LicensesSoFar /\ LoadsSoFar /\ ValuesSoFar
  BY <1>1, <1>4 DEF RulesSoFar, Calls, LicensesSoFar, LoadsSoFar, ValuesSoFar
<1>6. WrittenMerged
  BY <1>1, <1>2 DEF WrittenMerged
<1> QED
  BY <1>1, <1>3, <1>5, <1>6 DEF MergeInv

LEMMA NextMergeInv == MergeInv /\ [MergeNext]_mergeVars => MergeInv'
<1> SUFFICES ASSUME MergeInv, [MergeNext]_mergeVars
             PROVE  MergeInv'
  OBVIOUS
<1> USE DEF MergeInv
<1>1. CASE MergeFile
  <2>1. MergeTypeOK'
    BY <1>1, BuildNext, TheFiles DEF MergeTypeOK, MergeFile
  <2>2. RulesSoFar' /\ LicensesSoFar' /\ LoadsSoFar' /\ ValuesSoFar' /\ WrittenMerged'
    BY <1>1, NextRules, NextLicenses, NextLoads, NextValues, NextWritten
  <2>3. ~failed'
    BY <1>1 DEF MergeFile
  <2> QED
    BY <2>1, <2>2, <2>3
<1>2. ASSUME UNCHANGED <<gens, written, merged, build>>
      PROVE  /\ Files' = Files /\ Conflict' = Conflict
             /\ RulesSoFar' /\ LicensesSoFar' /\ LoadsSoFar' /\ ValuesSoFar' /\ WrittenMerged'
  <2>1. Files' = Files /\ Conflict' = Conflict
    BY <1>2, SameFiles
  <2>2. RulesSoFar' /\ LicensesSoFar' /\ LoadsSoFar'
    BY <1>2, <2>1 DEF RulesSoFar, LicensesSoFar, LoadsSoFar, Calls
  <2>3. ValuesSoFar'
    <3> SUFFICES ASSUME merged <= Len(gens), NEW r \in build.rules
                 PROVE  /\ DOMAIN r.additional = {}
                        /\ DOMAIN r.own = Given(merged, r.name)'
                        /\ \A x \in DOMAIN r.own : LastWord(merged, r.name, x)' = {r.own[x]}
      BY <1>2 DEF ValuesSoFar
    <3>1. /\ Given(merged, r.name)' = Given(merged, r.name)
          /\ \A x : LastWord(merged, r.name, x)' = LastWord(merged, r.name, x)
      BY <1>2, <2>1 DEF Given, LastWord, Says
    <3> QED
      BY <3>1 DEF ValuesSoFar
  <2>4. WrittenMerged'
    BY <1>2, <2>1, SameFiles DEF WrittenMerged
  <2> QED
    BY <2>1, <2>2, <2>3, <2>4
<1>3. CASE MergeFileFails
  <2>1. UNCHANGED <<gens, written, merged, build>> /\ failed' = TRUE
    BY <1>3 DEF MergeFileFails
  <2>2. Conflict'
    BY <1>2, <1>3, <2>1, FailsForAReason
  <2>3. MergeTypeOK'
    BY <1>2, <2>1 DEF MergeTypeOK
  <2> QED
    BY <1>2, <2>1, <2>2, <2>3
<1>4. CASE UNCHANGED mergeVars
  <2>1. UNCHANGED <<gens, written, merged, build>> /\ failed' = failed
    BY <1>4 DEF mergeVars
  <2>2. MergeTypeOK'
    BY <1>2, <2>1 DEF MergeTypeOK
  <2> QED
    BY <1>2, <2>1, <2>2
<1> QED
  BY <1>1, <1>3, <1>4 DEF MergeNext

\* The invariant of the merges (merge, and the order of
\* merge_generated_build_files).
THEOREM MergeInductive == MergeSpec => []MergeInv
<1> QED
  BY InitMergeInv, NextMergeInv, PTL DEF MergeSpec

LEMMA HandWrittenWinsInv ==
    ASSUME MergeInv
    PROVE  HandWrittenWins
<1> USE DEF MergeInv
<1>1. ASSUME ~failed, merged = Len(Files)
      PROVE  ~Conflict
  <2>1. \A l \in Licenses : l = build.licenses
    BY <1>1 DEF Licenses, LicensesSoFar
  <2> QED
    BY <1>1, <2>1 DEF Conflict, WrittenMerged
<1>2. Finished => (failed <=> Conflict)
  BY <1>1 DEF Finished, MergeTypeOK
<1>3. Finished /\ ~failed =>
        \A r \in written.rules :
            \E result \in build.rules :
                /\ result.name = r.name
                /\ IF IsGenerated(r.name) THEN Corrected(result, r) ELSE result = r
  BY DEF Finished, WrittenMerged
<1> QED
  BY <1>2, <1>3 DEF HandWrittenWins, Conflict

\* Whatever the generators left, and however many they are, what BUILD.in says
\* of a target holds in BUILD, or the merge fails, for one of the two reasons
\* there are (maybeMergeExpr, mergeCallExpr, merge).
THEOREM AuthorHasTheLastWord == MergeSpec => []HandWrittenWins
<1>1. MergeInv => HandWrittenWins
  BY HandWrittenWinsInv
<1> QED
  BY <1>1, MergeInductive, PTL

LEMMA NothingIsLostInv ==
    ASSUME MergeInv
    PROVE  NothingIsLost
<1> SUFFICES ASSUME merged = Len(Files), ~failed
             PROVE  NothingIsLost
  BY DEF NothingIsLost, Finished
<1> USE DEF MergeInv
<1>1. build.licenses = "none" => Licenses = {}
  BY DEF LicensesSoFar, Licenses
<1>2. Licenses \subseteq {build.licenses}
  BY DEF LicensesSoFar, Licenses
<1>3. Calls(build) = UNION {Calls(Files[i]) : i \in 1 .. Len(Files)}
  <2>1. \A name : name \in Calls(build)
            <=> name \in UNION {Calls(Files[i]) : i \in 1 .. Len(Files)}
    BY DEF RulesSoFar
  <2> QED
    BY <2>1 DEF Calls
<1>4. \A r, s \in build.rules : r.name = s.name => r = s
  BY DEF RulesSoFar
<1>5. \A r \in build.rules :
        \E i \in 1 .. Len(Files) :
            /\ \E s \in Files[i].rules : s.name = r.name /\ s.kind = r.kind
            /\ \A j \in 1 .. i - 1 : r.name \notin Calls(Files[j])
  BY DEF RulesSoFar
<1>6. \A i \in 1 .. Len(Files) : \A r \in Files[i].rules : \A l \in Files[i].loads :
        \/ r.kind # l.as
        \/ ~\E s \in build.rules : s.name = r.name /\ s.kind = r.kind
        \/ \E m \in build.loads : m.module = l.module /\ m.symbol = l.symbol
  BY DEF LoadsSoFar
<1> QED
  BY <1>1, <1>2, <1>3, <1>4, <1>5, <1>6 DEF NothingIsLost

\* A merge that succeeds loses no target, kind, licenses or load of any of the
\* files, however many there are (merge and FixWarnings between two merges).
THEOREM MergeLosesNothing == MergeSpec => []NothingIsLost
<1>1. MergeInv => NothingIsLost
  BY NothingIsLostInv
<1> QED
  BY <1>1, MergeInductive, PTL
=============================================================================
