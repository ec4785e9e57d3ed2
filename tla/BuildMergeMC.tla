------------------------------ MODULE BuildMergeMC ------------------------------
(***************************************************************************)
(* BuildMerge over the files of one directory: what up to MaxGenerators    *)
(* generators left there for one target, and a BUILD.in that may correct   *)
(* that target and that adds another.                                      *)
(***************************************************************************)
EXTENDS BuildMerge, TLC

CONSTANT MaxGenerators  \* the most generators that write to one directory

\* A value tells by its items who wrote it: a generator, or BUILD.in.
Value(form, from) == <<[form |-> form, items |-> {from}]>>

Arguments(values) == {[x \in {} |-> <<>>]} \cup {[x \in {"deps"} |-> v] : v \in values}

\* What a file calls the rule of a target by, and the load it needs for that.
Kinds ==
    {[kind |-> "native", loads |-> {}]}
        \cup {[kind |-> name, loads |-> {[module |-> "m", symbol |-> "rule", as |-> name]}] :
                name \in {"rule", "alias"}}

\* One of the generators leaves empty files, so that BUILD.in alone is enough.
FilesOf(from) ==
    {[rules |-> {}, loads |-> {}, licenses |-> "none"]} \cup
    {[rules |-> {[name |-> "lib", own |-> own, additional |-> [x \in {} |-> <<>>], kind |-> k.kind]},
      loads |-> k.loads, licenses |-> l] :
        own \in Arguments({Value("list", from), Value("select", from)}),
        k \in Kinds, l \in {"none", "notice"}}

GeneratedFiles == UNION {FilesOf(ToString(i)) : i \in 1 .. MaxGenerators}

WrittenCalls ==
    {[own |-> own, additional |-> more] :
        own \in Arguments({Value("list", "author"), Value("select", "author"), Value("glob", "author"),
                           Value("list", "author") \o Value("select", "author"),
                           Value("select", "author") \o Value("list", "author")}),
        more \in Arguments({Value("list", "more"), Value("select", "more")})}

\* The rule that only BUILD.in has.
Extra(kind) ==
    [name |-> "doc", own |-> [x \in {} |-> <<>>],
     additional |-> [x \in {"data"} |-> Value("list", "more")], kind |-> kind]

WrittenFiles ==
    {[rules |-> {[name |-> "lib", own |-> c.own, additional |-> c.additional, kind |-> k.kind],
                 Extra(k.kind)},
      loads |-> k.loads, licenses |-> l] :
        c \in WrittenCalls, k \in Kinds, l \in {"none", "notice", "restricted"}}
        \cup {[rules |-> {Extra(k.kind)}, loads |-> k.loads, licenses |-> "none"] : k \in Kinds}
        \cup {HeaderOnly}

MergeInput ==
    /\ \E n \in 0 .. MaxGenerators :
        gens \in {g \in [1 .. n -> GeneratedFiles] : \A i \in 1 .. n : g[i] \in FilesOf(ToString(i))}
    /\ written \in WrittenFiles
    /\ merged = 0
    /\ build = HeaderOnly
    /\ failed = FALSE

\* Nothing is left to be merged.
NoFiles ==
    /\ gens = <<>>
    /\ written = HeaderOnly
    /\ merged = 1
    /\ build = HeaderOnly
    /\ failed = FALSE
=============================================================================
