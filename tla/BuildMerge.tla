------------------------------- MODULE BuildMerge -------------------------------
(***************************************************************************)
(* build-merge/main.go: how bzl gen makes the BUILD file of a directory    *)
(* out of the files that the generators left there and the hand-written    *)
(* BUILD.in.  They are merged in that order, each into what the ones       *)
(* before it gave; a value of a later file replaces an earlier one, and an *)
(* argument additional_x adds to x.  A step is a merge.                    *)
(*                                                                         *)
(* A file has a set of rules, a set of loads and the licenses, "none"      *)
(* without.  A rule has a name, a kind and the arguments, own and          *)
(* additional_ ones; package() is a rule of that name.  A value is the     *)
(* sequence of the terms of a sum.  Comments, assignments and positional   *)
(* arguments, which are all kept, and the order in a file are left out.    *)
(***************************************************************************)
EXTENDS Naturals, Sequences

CONSTANTS
    Generated,  \* the files that a generator may leave in a directory
    Written     \* what an author may have in BUILD.in

\* Names differ in a file, and a symbol is loaded once.
IsFile(f) ==
    /\ \A r, s \in f.rules : r.name = s.name => r = s
    /\ \A l, m \in f.loads : l.module = m.module /\ l.symbol = m.symbol => l = m

\* Only an author writes additional_ arguments.
ASSUME FilesAssumption ==
    /\ \A f \in Generated \cup Written : IsFile(f)
    /\ \A f \in Generated : \A r \in f.rules : DOMAIN r.additional = {}

VARIABLES
    gens,     \* the files of the generators, in their order
    written,  \* BUILD.in, empty where there is none
    merged,   \* how many files have been merged
    build,    \* the output file, BUILD
    failed    \* a merge failed, which ends bzl gen

mergeVars == <<gens, written, merged, build, failed>>

Files == Append(gens, written)

\* The file with the header that bzl gen begins with.
HeaderOnly == [rules |-> {}, loads |-> {}, licenses |-> "none"]

MergeInit ==
    /\ gens \in Seq(Generated)
    /\ written \in Written
    /\ merged = 0
    /\ build = HeaderOnly
    /\ failed = FALSE

Last(value) == value[Len(value)]

\* A list can be added to a list or a glob, the last term of a sum, and a dict
\* to a dict; nothing else has a sum.
CanAdd(lhs, rhs) ==
    /\ Len(rhs) = 1
    /\ \/ Last(lhs).form \in {"list", "glob"} /\ rhs[1].form = "list"
       \/ Last(lhs).form = "dict" /\ rhs[1].form = "dict"

\* The sum of two dicts is a call of update, whose value is None.
MaybeMergeExpr(lhs, rhs) ==
    IF Last(lhs).form = "dict"
    THEN [lhs EXCEPT ![Len(lhs)] = [form |-> "update", items |-> {}]]
    ELSE lhs \o rhs

\* Mutant of Chosen: the file that comes first has the last word.
ChosenFirst(call1, call2, x) ==
    IF x \in DOMAIN call1.own THEN call1.own[x] ELSE call2.own[x]

\* The later of two values.
Chosen(call1, call2, x) ==
    IF x \in DOMAIN call2.own THEN call2.own[x] ELSE call1.own[x]

\* The arguments that either call has a value of its own for.
Own(call1, call2) == DOMAIN call1.own \cup DOMAIN call2.own

MergedValue(call1, call2, x) ==
    IF x \notin Own(call1, call2) THEN call2.additional[x]
    ELSE IF x \in DOMAIN call2.additional
    THEN MaybeMergeExpr(Chosen(call1, call2, x), call2.additional[x])
    ELSE Chosen(call1, call2, x)

\* Two calls for one target; the kinds are assumed to be the same.  What call1
\* is to add is left in it.
MergeCallExpr(call1, call2) ==
    [name |-> call1.name, kind |-> call1.kind, additional |-> call1.additional,
     own |-> [x \in Own(call1, call2) \cup DOMAIN call2.additional |->
                MergedValue(call1, call2, x)]]

MergeCallFails(call1, call2) ==
    \E x \in Own(call1, call2) \cap DOMAIN call2.additional :
        ~CanAdd(Chosen(call1, call2, x), call2.additional[x])

\* The targets a file has calls for.
Calls(file) == {r.name : r \in file.rules}

\* The pairs of calls, one of each file, for the same target.
SameTarget(file1, file2) ==
    {p \in file1.rules \X file2.rules : p[1].name = p[2].name}

\* Mutant of Rest: a rule without arguments of its own is taken to be merged.
RestWithValues(file1, file2) ==
    {r \in file2.rules : r.name \notin Calls(file1) /\ DOMAIN r.own # {}}

\* The rules of file2 that are not merged into one of file1.
Rest(file1, file2) == {r \in file2.rules : r.name \notin Calls(file1)}

\* A symbol of a module is loaded once, by the name it was given first.
MergeLoads(loads1, loads2) ==
    loads1 \cup {l \in loads2 :
                    ~\E m \in loads1 : m.module = l.module /\ m.symbol = l.symbol}

\* Neither file's licenses are dropped for others.
LicensesConflict(file1, file2) ==
    file1.licenses # "none" /\ file2.licenses # "none" /\ file1.licenses # file2.licenses

MergeFails(file1, file2) ==
    \/ LicensesConflict(file1, file2)
    \/ \E p \in SameTarget(file1, file2) : MergeCallFails(p[1], p[2])

Merge(file1, file2) ==
    [rules |-> Rest(file2, file1)
                \cup {MergeCallExpr(p[1], p[2]) : p \in SameTarget(file1, file2)}
                \cup Rest(file1, file2),
     loads |-> MergeLoads(file1.loads, file2.loads),
     licenses |-> IF file1.licenses = "none" THEN file2.licenses ELSE file1.licenses]

\* FixWarnings: a symbol that no rule of the file uses is not loaded.
FixWarnings(file) ==
    [file EXCEPT !.loads = {l \in @ : \E r \in file.rules : r.kind = l.as}]

MergeFile ==
    /\ ~failed
    /\ merged < Len(Files)
    /\ ~MergeFails(build, Files[merged + 1])
    /\ build' = FixWarnings(Merge(build, Files[merged + 1]))
    /\ merged' = merged + 1
    /\ UNCHANGED <<gens, written, failed>>

\* What the merges before wrote stays.
MergeFileFails ==
    /\ ~failed
    /\ merged < Len(Files)
    /\ MergeFails(build, Files[merged + 1])
    /\ failed' = TRUE
    /\ UNCHANGED <<gens, written, merged, build>>

MergeNext == MergeFile \/ MergeFileFails

MergeSpec == MergeInit /\ [][MergeNext]_mergeVars
-----------------------------------------------------------------------------
\* What file i says argument x of the target is: one value, or none.
Says(i, name, x) ==
    {r.own[x] : r \in {s \in Files[i].rules : s.name = name /\ x \in DOMAIN s.own}}

\* What the last of the first n files to say so says it is.
LastWord(n, name, x) ==
    UNION {Says(i, name, x) : i \in {j \in 1 .. n : \A k \in j + 1 .. n : Says(k, name, x) = {}}}

\* The arguments that one of the first n files gives a value for.
Given(n, name) ==
    UNION {DOMAIN r.own : r \in {s \in UNION {Files[i].rules : i \in 1 .. n} : s.name = name}}

\* The target is made by a generator: only then is additional_x added to x.
IsGenerated(name) == \E i \in DOMAIN gens : name \in Calls(gens[i])

\* An additional argument that has nothing it can be added to.
Misplaced(r, x) ==
    /\ IsGenerated(r.name)
    /\ \E value \in LastWord(Len(Files), r.name, x) : ~CanAdd(value, r.additional[x])

Licenses == {Files[i].licenses : i \in 1 .. Len(Files)} \ {"none"}

Finished == failed \/ merged = Len(Files)

\* The result for a rule of BUILD.in that a generator makes, too: it has each
\* argument, with the value of BUILD.in or else that of the last generator,
\* followed by what BUILD.in adds to it.
Corrected(result, r) ==
    /\ DOMAIN result.own = Given(Len(Files), r.name) \cup DOMAIN r.additional
    /\ \A x \in DOMAIN result.own :
        LET last == LastWord(Len(Files), r.name, x)
        IN  IF last = {} THEN result.own[x] = r.additional[x]
            ELSE \E value \in last :
                    IF x \notin DOMAIN r.additional THEN result.own[x] = value
                    ELSE \/ Last(value).form = "dict"
                         \/ result.own[x] = value \o r.additional[x]

\* What BUILD.in says of a target holds, whichever generators ran before it:
\* generated ones are corrected, a target of its own is copied as it is; and
\* the merge fails for a value that cannot be added to, or for other licenses,
\* and for nothing else (maybeMergeExpr, mergeCallExpr, merge and the order of
\* merge_generated_build_files).  What is added to a dict is left out: see
\* MaybeMergeExpr.
HandWrittenWins ==
    Finished =>
        /\ failed <=>
            \/ \E l, m \in Licenses : l # m
            \/ \E r \in written.rules : \E x \in DOMAIN r.additional : Misplaced(r, x)
        /\ ~failed =>
            \A r \in written.rules :
                \E result \in build.rules :
                    /\ result.name = r.name
                    /\ IF IsGenerated(r.name) THEN Corrected(result, r) ELSE result = r

\* A merge that succeeds loses nothing: each target of a file is there, once,
\* with the kind of the first file that has it, and no other; the licenses are
\* there; and the symbol that the file of a rule loads for its kind is loaded,
\* by the name it was given first (the loads and the rules of merge, and
\* FixWarnings, which runs between two merges).
NothingIsLost ==
    Finished /\ ~failed =>
        /\ build.licenses = "none" => Licenses = {}
        /\ Licenses \subseteq {build.licenses}
        /\ Calls(build) = UNION {Calls(Files[i]) : i \in 1 .. Len(Files)}
        /\ \A r, s \in build.rules : r.name = s.name => r = s
        /\ \A r \in build.rules :
            \E i \in 1 .. Len(Files) :
                /\ \E s \in Files[i].rules : s.name = r.name /\ s.kind = r.kind
                /\ \A j \in 1 .. i - 1 : r.name \notin Calls(Files[j])
        /\ \A i \in 1 .. Len(Files) : \A r \in Files[i].rules : \A l \in Files[i].loads :
            \/ r.kind # l.as
            \/ ~\E s \in build.rules : s.name = r.name /\ s.kind = r.kind
            \/ \E m \in build.loads : m.module = l.module /\ m.symbol = l.symbol
=============================================================================
