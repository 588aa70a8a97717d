------------------------------ MODULE FullOutput ------------------------------
(***************************************************************************)
(* rwdiscovery/cli.py: full_output_for(), which names the queued task,     *)
(* export or logs, that returns the whole output of a command whose output *)
(* was cut short; and build_export_argv() and build_logs_argv(), the argv  *)
(* those tasks run. What kubectl (external) selects with an argv says      *)
(* whether the task really covers the command.                             *)
(***************************************************************************)
EXTENDS CliArgv

CONSTANTS
    Labels,         \* names that are DNS labels
    Durations,      \* values the logs task takes for `since`
    PlainAtoms,     \* atoms of a resource list or workload, "/" and "," too
    Objects,        \* what there is in the cluster: [type, ns, name, app]
    NoNs,           \* the namespace of an object that has none
    Containers      \* the containers of every pod, the default one first

\* What the tasks write is what the pack's get and logs take.
ASSUME TaskAssumption ==
    /\ PlainAtoms \union {Comma, "json", "6h", "all"} \subseteq Atoms
    /\ ShellSuffix \notin {"json", "6h", "all"}
    /\ <<"get">> \in DOMAIN Verbs =>
          /\ {"namespace", "all-namespaces", "selector", "output"} \subseteq Verbs[<<"get">>].flags
          /\ "since" \notin Verbs[<<"get">>].flags
    /\ <<"logs">> \in DOMAIN Verbs =>
          /\ {"namespace", "selector", "container", "all-containers", "previous", "since"}
                \subseteq Verbs[<<"logs">>].flags
          /\ "all-namespaces" \notin Verbs[<<"logs">>].flags
    /\ \A n \in {"namespace", "selector", "output", "container", "since"} \intersect DOMAIN Flags : Flags[n].value
    /\ \A n \in {"all-namespaces", "all-containers", "previous"} \intersect DOMAIN Flags : ~Flags[n].value

\* _last_value and _is_set: the last occurrence counts, and an empty value
\* is none. (Mutant: the first one counts.)
At(fs, name) == {i \in DOMAIN fs : fs[i].name = name}
LastValue_First(fs, name) ==
    IF At(fs, name) = {} \/ fs[Min(At(fs, name))].value = <<>> THEN NoValue
    ELSE fs[Min(At(fs, name))].value
LastValue(fs, name) ==
    IF At(fs, name) = {} \/ fs[Max(At(fs, name))].value = <<>> THEN NoValue
    ELSE fs[Max(At(fs, name))].value
IsSet(fs, name) == At(fs, name) # {} /\ fs[Max(At(fs, name))].value # <<"false">>

HasSlash(part) == Contains(part, "/")
Flag(name) == <<"-", "-", name>>
FlagIs(name, value) == Flag(name) \o (<<"=">> \o value)
IsLabel(value) == Len(value) = 1 /\ value[1] \in Labels
IsPlain(part) == part # <<>> /\ Range(part) \subseteq PlainAtoms /\ part[1] \notin {"/", Comma, "-"}
None == <<>>                       \* no argv: the task would refuse, or there is none

-----------------------------------------------------------------------------
\* _export_resources: the types of all positionals when several are given as
\* type/name, each where it is first named; none when a bare name is among
\* them. (Of more than one atom before its slash, which kubectl refuses, the
\* first stands for the type.)
Kinds(ps) ==
    LET named == Those([i \in DOMAIN ps |-> i], {i \in DOMAIN ps : \A j \in 1..(i - 1) : ps[j][1] # ps[i][1]})
    IN  [k \in DOMAIN named |-> ps[named[k]][1]]
CommaList(kinds) == [i \in 1..(2 * Len(kinds) - 1) |-> IF i % 2 = 1 THEN kinds[(i + 1) \div 2] ELSE Comma]
ExportResources(ps, allNamespaces) ==
    IF ps = <<>> THEN None
    ELSE IF ~HasSlash(ps[1]) \/ (Len(ps) = 1 /\ ~allNamespaces) THEN ps[1]
    ELSE IF \E i \in DOMAIN ps : ~HasSlash(ps[i]) THEN None
    ELSE CommaList(Kinds(ps))

\* build_export_argv, for a namespace that is NoValue for all of them.
BuildExportArgv(resources, namespace, selector) ==
    IF TypesIn(resources) \intersect Sensitive # {} \/ ~IsPlain(resources)
       \/ (namespace # NoValue /\ ~IsLabel(namespace))
    THEN None
    ELSE <<<<"get">>, resources,
           IF namespace = NoValue THEN Flag("all-namespaces") ELSE FlagIs("namespace", namespace),
           FlagIs("output", <<"json">>)>>
         \o (IF selector = NoValue THEN <<>> ELSE <<FlagIs("selector", selector)>>)

\* _export_inputs, and the argv the export task makes of them.
ExportArgv(ps, fs) ==
    LET all == IsSet(fs, "all-namespaces")
        namespace == LastValue(fs, "namespace")
        resources == ExportResources(ps, all)
    IN  IF resources = None \/ (~all /\ namespace = NoValue) THEN None
        ELSE BuildExportArgv(resources, IF all THEN NoValue ELSE namespace, LastValue(fs, "selector"))

-----------------------------------------------------------------------------
\* build_logs_argv: exactly one of a selector and a workload.
BuildLogsArgv(namespace, selector, workload, container, since) ==
    IF \/ ~IsLabel(namespace)
       \/ (selector = NoValue) = (workload = None)
       \/ since \notin Durations
       \/ workload # None /\ ~IsPlain(workload)
       \/ container # NoValue /\ ~IsLabel(container)
    THEN None
    ELSE <<<<"logs">>, FlagIs("namespace", namespace),
           IF selector # NoValue THEN FlagIs("selector", selector) ELSE workload,
           IF container # NoValue THEN FlagIs("container", container) ELSE Flag("all-containers"),
           FlagIs("since", since), FlagIs("tail", <<"all">>)>>

\* _logs_inputs, and the argv the logs task makes of them.
LogsArgv(ps, fs) ==
    LET value(name) == LastValue(fs, name)
        container == IF value("container") # NoValue THEN value("container")
                     ELSE IF Len(ps) = 2 /\ ps[2] # <<>> THEN ps[2] ELSE NoValue
    IN  IF \/ value("namespace") = NoValue \/ Len(ps) > 2 \/ IsSet(fs, "previous")
           \/ At(fs, "since-time") # {}
        THEN None
        ELSE BuildLogsArgv(value("namespace"), value("selector"),
                           IF ps = <<>> THEN None ELSE ps[1],
                           IF IsSet(fs, "all-containers") THEN NoValue ELSE container,
                           IF value("since") = NoValue THEN <<"6h">> ELSE value("since"))

\* full_output_for, as the argv of the task it names.
TaskArgv ==
    CASE verb = <<"get">>  -> ExportArgv(SplitPositionals(AfterVerb), SplitFlags(AfterVerb))
      [] verb = <<"logs">> -> LogsArgv(SplitPositionals(AfterVerb), SplitFlags(AfterVerb))
      [] OTHER -> None

-----------------------------------------------------------------------------
(* kubectl (external): what an argv selects; nothing when it is refused.   *)
Types(part) == TypesIn(part)
Heeded(fs, name) ==                \* of several, the last; <<>> for none
    IF At(fs, name) = {} THEN <<>> ELSE fs[Max(At(fs, name))].value
Turned(fs, name) == Heeded(fs, name) \notin {<<>>, <<"false">>}
InNamespace(fs, dflt) ==
    LET namespace == Heeded(fs, "namespace")
    IN  {o \in Objects : \/ o.ns = NoNs \/ Turned(fs, "all-namespaces")
                         \/ <<o.ns>> = (IF namespace = <<>> THEN <<dflt>> ELSE namespace)}
Selected(fs, S) ==
    LET selector == Heeded(fs, "selector")
    IN  {o \in S : selector = <<>> \/ <<o.app>> = selector}

\* get TYPES, get TYPES NAME..., or get TYPE/NAME... and nothing else beside;
\* by name neither across namespaces nor with a selector.
TypeAndName(p) == Len(p) = 3 /\ {i \in DOMAIN p : p[i] = "/"} = {2}
GetSelects(ps, fs, dflt) ==
    LET byName == Turned(fs, "all-namespaces") \/ Heeded(fs, "selector") # <<>>
        there == InNamespace(fs, dflt)
    IN  IF ps = <<>> THEN {}
        ELSE IF \E i \in DOMAIN ps : HasSlash(ps[i])
        THEN IF byName \/ \E i \in DOMAIN ps : ~TypeAndName(ps[i]) THEN {}
             ELSE {o \in there : \E i \in DOMAIN ps : ps[i] = <<o.type, "/", o.name>>}
        ELSE IF Len(ps) = 1 THEN {o \in Selected(fs, there) : o.type \in Types(ps[1])}
        ELSE IF byName THEN {}
             ELSE {o \in there : o.type \in Types(ps[1]) /\ <<o.name>> \in Range(Tail(ps))}

\* logs POD [CONTAINER], logs TYPE/NAME or logs -l SELECTOR: pods with those
\* of their containers that are read.
LogsSelects(ps, fs, dflt) ==
    LET pods == {o \in InNamespace(fs, dflt) : o.type = "pods"}
        of == IF ps = <<>> THEN Selected(fs, pods)
              ELSE {p \in pods : ps[1] \in {<<p.name>>, <<"pods", "/", p.name>>, <<"deployments", "/", p.app>>}}
        flag == Heeded(fs, "container")
        containers == IF Turned(fs, "all-containers") THEN Range(Containers)
                      ELSE {c \in Range(Containers) :
                               <<c>> = (IF flag # <<>> THEN flag
                                        ELSE IF Len(ps) = 2 THEN ps[2] ELSE <<Containers[1]>>)}
        clash == \/ Len(ps) = 2 /\ flag # <<>>
                 \/ Turned(fs, "all-containers") /\ (flag # <<>> \/ Len(ps) = 2)
                 \/ (ps = <<>>) = (Heeded(fs, "selector") = <<>>)
    IN  IF clash \/ Len(ps) > 2 THEN {}
        ELSE of \X containers \X {IF Turned(fs, "previous") THEN "previous" ELSE "current"}

Selects(tokens, dflt) ==
    LET ps == SplitPositionals(Tail(tokens))
        fs == SplitFlags(Tail(tokens))
    IN  IF tokens[1] = <<"get">> THEN GetSelects(ps, fs, dflt) ELSE LogsSelects(ps, fs, dflt)

Namespaces == {o.ns : o \in Objects} \ {NoNs}

\* "A hint never narrows the selection": whatever the kubeconfig's own default
\* namespace is, the task that is named selects all that the command did, and
\* is run with the command's own `since` if it has one.
HintCovers ==
    stage = "accepted" /\ TaskArgv # None =>
        /\ \A dflt \in Namespaces : Selects(argv, dflt) \subseteq Selects(TaskArgv, dflt)
        /\ LET since == Heeded(SplitFlags(AfterVerb), "since")
           IN  since # <<>> => Heeded(SplitFlags(Tail(TaskArgv)), "since") = since
=============================================================================
