--------------------------------- MODULE BzlGen ---------------------------------
(***************************************************************************)
(* bzl gen: which directories get new BUILD files.  Rounds of all          *)
(* generators (regenerate_build_files) go on until no directory is new.    *)
(* The generator for Go runs gen-build-go, which walks the imports of the  *)
(* packages depth first; the one for Python follows deps; the last one     *)
(* sees to the directories that only have a BUILD.in.  What becomes of     *)
(* their files is BuildMerge's.                                            *)
(*                                                                         *)
(* A directory is one package and one target.  Imports are those that      *)
(* gen-build-go visits.  Dry runs and Go modules are left out, and         *)
(* so is the order of directories within a set.                            *)
(***************************************************************************)
EXTENDS Naturals, Sequences

CONSTANT Dirs  \* the directories of the workspace

VARIABLES
    ws,           \* the workspace and the command line, which do not change
    pc,           \* where bzl gen is
    generator,    \* the generator that is called next
    targets,      \* what the generators are called for: bazel_targets
    prev,         \* prev_visited_dirs
    generated,    \* generated[d]: the generators with files in generated_files[d]
    goVisited,    \* GoBuildGenerator.visited_dirs
    packages,     \* the packages gen-build-go was called with
    unprocessed,  \* those it has not come to
    visitStack,   \* g.visitStack
    toVisit,      \* toVisit[d]: the imports of d, on the stack, to be visited
    processed,    \* g.processedPkgs
    lastErr,      \* a package could not be processed
    pyVisited,    \* the directories PyBuildGenerator has visited
    pyTargets     \* those it has been called for since

roundVars == <<generator, targets, prev>>
goVars == <<packages, unprocessed, visitStack, toVisit, processed, lastErr>>
pyVars == <<pyVisited, pyTargets>>
genVars == <<ws, pc, roundVars, generated, goVisited, goVars, pyVars>>

\* The targets, --deps-generation, the directories with Go sources, with a
\* BUILD.in, and with Python rules in one; imports of Go, deps of Python.
Workspaces ==
    [requested : SUBSET Dirs, deps_generation : BOOLEAN,
     go : SUBSET Dirs, annotated : SUBSET Dirs, py : SUBSET Dirs,
     imports : [Dirs -> SUBSET Dirs], deps : [Dirs -> SUBSET Dirs]]

\* Before the first call of a generator.
Idle ==
    /\ generator = 1
    /\ targets = ws.requested
    /\ prev = {}
    /\ generated = [d \in Dirs |-> {}]
    /\ goVisited = {}
    /\ packages = {}
    /\ unprocessed = {}
    /\ visitStack = <<>>
    /\ toVisit = [d \in Dirs |-> {}]
    /\ processed = {}
    /\ lastErr = FALSE
    /\ pyVisited = {}
    /\ pyTargets = {}

GenInit ==
    /\ ws \in Workspaces
    /\ ws.py \subseteq ws.annotated
    /\ pc = "round"
    /\ Idle

OnStack == {visitStack[i] : i \in DOMAIN visitStack}

\* The generators for Go and Python, and CopyGenerator.
Generators == {"go", "py", "copy"}

Keys == {d \in Dirs : generated[d] # {}}

\* A generator leaves a file of its own in each of ds.
Generates(g, ds) ==
    generated' = [d \in Dirs |-> IF d \in ds THEN generated[d] \cup {g} ELSE generated[d]]

IsNext(n) == pc = "round" /\ generator = n

Returns ==
    /\ pc' = "round"
    /\ generator' = generator + 1

\* An error of a generator ends bzl gen.
Aborts ==
    /\ pc' = "failed"
    /\ UNCHANGED generator
-----------------------------------------------------------------------------
(* GoBuildGenerator.regenerate and gen-build-go.                          *)

CallGo ==
    /\ IsNext(1)
    /\ packages' = targets \ goVisited
    /\ \/ packages' = {} /\ Returns /\ UNCHANGED <<unprocessed, processed, lastErr>>
       \/ /\ packages' # {}
          /\ pc' = "go"
          /\ unprocessed' = packages'
          /\ processed' = {}
          /\ lastErr' = FALSE
          /\ UNCHANGED generator
    /\ UNCHANGED <<ws, targets, prev, generated, goVisited, visitStack, toVisit, pyVars>>

\* Without --deps-generation only the packages of the command line.
ToVisit(d) ==
    (IF ws.deps_generation THEN ws.imports[d] ELSE ws.imports[d] \cap packages) \ {d}

\* Nothing to be done for it, or it is being processed further down: a cycle.
Skipped(d) == d \notin ws.go \/ d \in processed \/ d \in OnStack

\* A package is visited; visit[d] is what is left to be visited of each.
Visit(d, visit) ==
    IF Skipped(d)
    THEN toVisit' = visit /\ UNCHANGED visitStack
    ELSE /\ visitStack' = Append(visitStack, d)
         /\ toVisit' = [visit EXCEPT ![d] = ToVisit(d)]

VisitRoot(d) ==
    /\ pc = "go"
    /\ visitStack = <<>>
    /\ d \in unprocessed
    /\ unprocessed' = unprocessed \ {d}
    /\ Visit(d, toVisit)
    /\ UNCHANGED <<ws, pc, roundVars, generated, goVisited, packages, processed, lastErr, pyVars>>

Top == visitStack[Len(visitStack)]

Pop == SubSeq(visitStack, 1, Len(visitStack) - 1)

VisitImport(d) ==
    /\ pc = "go"
    /\ visitStack # <<>>
    /\ d \in toVisit[Top]
    /\ Visit(d, [toVisit EXCEPT ![Top] = @ \ {d}])
    /\ UNCHANGED <<ws, pc, roundVars, generated, goVisited, packages, unprocessed, processed, lastErr, pyVars>>

\* Its file is written after those of all it imports.
WriteConfig ==
    /\ pc = "go"
    /\ visitStack # <<>>
    /\ toVisit[Top] = {}
    /\ processed' = processed \cup {Top}
    /\ visitStack' = Pop
    /\ UNCHANGED <<ws, pc, roundVars, generated, goVisited, packages, unprocessed, toVisit, lastErr, pyVars>>

\* The sources of a package cannot be parsed or its file not be written: the
\* packages that led to it are given up, and the next root is processed.
ProcessFails ==
    /\ pc = "go"
    /\ visitStack # <<>>
    /\ visitStack' = <<>>
    /\ lastErr' = TRUE
    /\ UNCHANGED <<ws, pc, roundVars, generated, goVisited, packages, unprocessed, toVisit, processed, pyVars>>

\* Its output tells the generator what was written; a BUILD.in may be refused.
GoExits ==
    /\ pc = "go"
    /\ visitStack = <<>>
    /\ unprocessed = {}
    /\ \/ /\ ~lastErr
          /\ Generates("go", processed)
          /\ goVisited' = goVisited \cup processed
          /\ Returns
       \/ Aborts /\ UNCHANGED <<generated, goVisited>>
    /\ UNCHANGED <<ws, targets, prev, goVars, pyVars>>
-----------------------------------------------------------------------------
(* PyBuildGenerator and CopyGenerator.                                    *)

CallPy ==
    /\ IsNext(2)
    /\ pc' = "py"
    /\ pyTargets' = targets
    /\ UNCHANGED <<ws, roundVars, generated, goVisited, goVars, pyVisited>>

\* The deps of the rules that are generated are followed; so are those in the
\* BUILD file of a directory without a BUILD.in.
ToTraverse(d) ==
    IF ws.deps_generation /\ d \notin pyVisited /\ (d \in ws.py \/ d \notin ws.annotated)
    THEN ws.deps[d] ELSE {}

VisitPy(d) ==
    /\ pc = "py"
    /\ d \in pyTargets
    /\ pyVisited' = pyVisited \cup {d}
    /\ Generates("py", ({d} \cap ws.py) \ pyVisited)
    /\ pyTargets' = (pyTargets \ {d}) \cup ToTraverse(d)
    /\ UNCHANGED <<ws, pc, roundVars, goVisited, goVars>>

\* A module is in no library.
VisitPyFails ==
    /\ pc = "py"
    /\ (pyTargets \ pyVisited) \cap ws.py # {}
    /\ Aborts
    /\ UNCHANGED <<ws, targets, prev, generated, goVisited, goVars, pyVars>>

PyReturns ==
    /\ pc = "py"
    /\ pyTargets = {}
    /\ Returns
    /\ UNCHANGED <<ws, targets, prev, generated, goVisited, goVars, pyVars>>

\* For a directory no generator has a file in.  Its own visited_dirs change
\* nothing: a directory that has files keeps them.
CallCopy ==
    /\ IsNext(3)
    /\ Generates("copy", (targets \cap ws.annotated) \ Keys)
    /\ Returns
    /\ UNCHANGED <<ws, targets, prev, goVisited, goVars, pyVars>>
-----------------------------------------------------------------------------
\* Mutant of NewlyVisited: only what the generator for Go has found.
NewlyVisitedByGo == goVisited \ prev

NewlyVisited == Keys \ prev

\* The directories of this round are the targets of the next one.
NextRound ==
    /\ IsNext(4)
    /\ \/ /\ NewlyVisited # {}
          /\ prev' = Keys
          /\ targets' = NewlyVisited
          /\ generator' = 1
          /\ UNCHANGED pc
       \/ /\ NewlyVisited = {}
          /\ pc' = "done"
          /\ UNCHANGED roundVars
    /\ UNCHANGED <<ws, generated, goVisited, goVars, pyVars>>

GenNext ==
    \/ CallGo \/ WriteConfig \/ ProcessFails \/ GoExits
    \/ CallPy \/ VisitPyFails \/ PyReturns \/ CallCopy \/ NextRound
    \/ \E d \in Dirs : VisitRoot(d) \/ VisitImport(d) \/ VisitPy(d)

GenSpec == GenInit /\ [][GenNext]_genVars
-----------------------------------------------------------------------------
GenTypeOK ==
    /\ ws \in Workspaces
    /\ ws.py \subseteq ws.annotated
    /\ pc \in {"round", "go", "py", "done", "failed"}
    /\ generator \in 1 .. 4
    /\ targets \in SUBSET Dirs
    /\ prev \in SUBSET Dirs
    /\ generated \in [Dirs -> SUBSET Generators]
    /\ goVisited \in SUBSET Dirs
    /\ packages \in SUBSET Dirs
    /\ unprocessed \in SUBSET Dirs
    /\ visitStack \in Seq(Dirs)
    /\ toVisit \in [Dirs -> SUBSET Dirs]
    /\ processed \in SUBSET Dirs
    /\ lastErr \in BOOLEAN
    /\ pyVisited \in SUBSET Dirs
    /\ pyTargets \in SUBSET Dirs

\* gen-build-go writes the file of a package after those of all that it visits
\* for it, those of a cycle apart: until an error, what a processed package
\* imports is processed or on the stack.
DependenciesFirst ==
    lastErr \/ \A d \in processed : ToVisit(d) \cap ws.go \subseteq processed \cup OnStack

\* A: directories whose BUILD files are to be made, V: directories the
\* generator for Python comes to.  Nothing more follows from them: what is asked
\* for is in A, with --deps-generation the Go packages that one in A imports are
\* too, and those with Python rules among what is in V or a dep of it.
NothingFollows(A, V) ==
    /\ ws.requested \subseteq A
    /\ A \subseteq V
    /\ V \cap ws.py \subseteq A
    /\ ws.deps_generation =>
        /\ \A d \in A \cap ws.go : ws.imports[d] \cap ws.go \subseteq A
        /\ \A d \in V : d \in ws.py \/ d \notin ws.annotated => ws.deps[d] \subseteq V

\* The least such A, whatever the order in which it is found.
Wanted == {d \in Dirs : \A A, V \in SUBSET Dirs : NothingFollows(A, V) => d \in A}

\* When bzl gen has converged, no target type is missing and nothing is there
\* that was not needed: of the directories asked for or found, by whichever
\* generator, each one with Go sources has a file of the generator for Go, each
\* one with Python rules one of that for Python, each one with a BUILD.in some
\* file, and no other directory has any (regenerate_build_files).
NothingMissed ==
    pc = "done" =>
        \A d \in Dirs :
            /\ "go" \in generated[d] <=> d \in Wanted \cap ws.go
            /\ "py" \in generated[d] <=> d \in Wanted \cap ws.py
            /\ generated[d] # {} <=> d \in Wanted \cap (ws.go \cup ws.annotated)
=============================================================================
