------------------------------- MODULE CliArgv -------------------------------
(***************************************************************************)
(* rwdiscovery/cli.py: validate(), the walk over a command's tokens that   *)
(* refuses it or turns it into the normalised argv kubectl is run with,    *)
(* and _split_normalised(), which reads such an argv back.                 *)
(*                                                                         *)
(* A token, and a flag's value, is a sequence of atoms: a dash, an equals  *)
(* sign, a flag's letter or name, a type, a name. The cli block of         *)
(* packs/kubernetes/pack.yaml is given by constants; which reason a        *)
(* command is refused for is left out.                                     *)
(***************************************************************************)
EXTENDS Integers, Sequences, SequencesExt, FiniteSets

CONSTANTS
    Atoms,          \* what tokens are made of
    Commands,       \* the commands to validate, without the leading kubectl
    Flags,          \* the pack's flags: [name -> [short, value, pseudo]]
    Verbs,          \* its verbs: [<<word, ...>> -> [flags, outputs]]
    Letters,        \* the atoms that are one letter
    NoValue,        \* a boolean given without `=`
    Booleans,       \* Booleans[v] is "true" or "false" for each spelling v of it
    Sensitive,      \* sensitiveTypes
    SensitiveOutputs,
    ShellTokens,    \* tokens that are shell syntax, and atoms a
    ShellPrefixes,  \* substitution begins with; the atom a token may
    ShellSuffix,    \* not end with
    BadPatterns     \* values of --grep that are no regular expressions

Token == Seq(Atoms)

ASSUME AtomsAssumption == {"-", "=", "true", "false", "200", "limit"} \subseteq Atoms
ASSUME CommandsAssumption == \A c \in Commands : c \in Seq(Token)
\* A verb is one word or two; none is another's first word.
ASSUME VerbsAssumption ==
    \A v \in DOMAIN Verbs :
        /\ v \in Token /\ Len(v) \in {1, 2} /\ Verbs[v].flags \subseteq DOMAIN Flags
        /\ \A w \in DOMAIN Verbs : v[1] = w[1] => Len(v) = Len(w)
ASSUME FlagsAssumption ==
    /\ DOMAIN Flags \subseteq Atoms \ {"", "="}
    /\ \A n \in DOMAIN Flags : Flags[n].value \in BOOLEAN /\ Flags[n].pseudo \in BOOLEAN
    /\ NoValue \notin Token
\* A boolean's value is lower-cased, which leaves nothing more to lower.
ASSUME BooleansAssumption ==
    \A v \in DOMAIN Booleans :
        /\ Booleans[v] \in DOMAIN Booleans \intersect {<<"true">>, <<"false">>}
        /\ Booleans[Booleans[v]] = Booleans[v]
ASSUME LogsAssumption ==
    <<"logs">> \in DOMAIN Verbs =>
        /\ {"tail", "limit-bytes"} \subseteq Verbs[<<"logs">>].flags
        /\ \A n \in {"tail", "since", "since-time", "limit-bytes"} \intersect DOMAIN Flags :
              Flags[n].value /\ ~Flags[n].pseudo
ASSUME LettersAssumption == "-" \notin Letters
ASSUME ShellAssumption ==
    /\ "-" \notin ShellPrefixes /\ \A t \in ShellTokens : t # <<>> /\ t[1] # "-"
    /\ ShellSuffix \notin DOMAIN Flags \union {"=", "true", "false", "200", "limit"}

VARIABLES
    stage,             \* "start", "walk", "accepted" or "rejected"
    command,        \* the tokens
    verb,           \* the verb, as its words
    rest,           \* the tokens still to walk
    cluster,        \* what is left of a token of short flags
    positionals,    \* positionals
    flags,          \* flags: [name, value], in order of appearance
    argv,           \* the normalised argv
    first           \* what the first validation made of the command: its
                    \* normalised argv is validated once more

walker == <<verb, rest, cluster, positionals, flags>>
argvVars == <<stage, command, walker, argv, first>>

Nothing == [argv |-> <<>>, positionals |-> <<>>, flags |-> <<>>]

-----------------------------------------------------------------------------
ArgvInit ==
    /\ stage = "start"
    /\ command \in Commands
    /\ verb = <<>> /\ rest = <<>> /\ cluster = <<>> /\ positionals = <<>> /\ flags = <<>>
    /\ argv = <<>> /\ first = Nothing

\* _reject_shell: `|` as a token of its own, `$(`... or `...;`.
IsShell(t) == t \in ShellTokens \/ (t # <<>> /\ (t[1] \in ShellPrefixes \/ t[Len(t)] = ShellSuffix))

\* _match_verb: two words first, then one; <<>> if there is none.
Words(v) == [i \in DOMAIN v |-> <<v[i]>>]
VerbOf(tokens) ==
    LET leading == {v \in DOMAIN Verbs : IsPrefix(Words(v), tokens)}
    IN  IF leading = {} THEN <<>>
        ELSE CHOOSE v \in leading : \A w \in leading : Len(w) <= Len(v)

MatchVerb ==
    /\ stage = "start"
    /\ LET v == VerbOf(command)
       IN  IF v = <<>> \/ \E i \in DOMAIN command : IsShell(command[i])
           THEN stage' = "rejected" /\ UNCHANGED <<verb, rest>>
           ELSE /\ stage' = "walk"
                /\ verb' = v
                /\ rest' = SubSeq(command, Len(v) + 1, Len(command))
    /\ UNCHANGED <<command, cluster, positionals, flags, argv, first>>

-----------------------------------------------------------------------------
IsLong(t) == Len(t) >= 2 /\ t[1] = "-" /\ t[2] = "-"
IsCluster(t) == Len(t) >= 2 /\ t[1] = "-" /\ t[2] \in Letters

\* token[2:].partition("=")
Equals(t) == SelectInSeq(t, LAMBDA a : a = "=")
GivenName(t) ==
    LET name == SubSeq(t, 3, IF Equals(t) = 0 THEN Len(t) ELSE Equals(t) - 1)
    IN  IF Len(name) = 1 THEN name[1] ELSE ""
Inline(t) == SubSeq(t, Equals(t) + 1, Len(t))

\* self.shorts.get(ch)
OfShort(letter) ==
    IF \E n \in DOMAIN Flags : Flags[n].short = letter
    THEN CHOOSE n \in DOMAIN Flags : Flags[n].short = letter ELSE ""

\* Mutant: any flag of the pack will do for any verb.
Allowed_AnyVerb(name) == name \in DOMAIN Flags

\* _resolve: this verb's flags; output and grep only once.
Allowed(name) ==
    /\ name \in Verbs[verb].flags
    /\ ~(name \in {"output", "grep"} /\ \E i \in DOMAIN flags : flags[i].name = name)

Add(name, value) == flags' = Append(flags, [name |-> name, value |-> value])
Walking == stage = "walk" /\ cluster = <<>> /\ rest # <<>>
Refuse == stage' = "rejected" /\ UNCHANGED <<command, walker, argv, first>>
GoOn == UNCHANGED <<stage, command, verb, positionals, argv, first>>

\* --name[=v]
LongFlag ==
    /\ Walking /\ IsLong(Head(rest))
    /\ LET token == Head(rest)
           name == GivenName(token)
           inline == Equals(token) # 0
       IN  \/ ~Allowed(name) /\ Refuse
           \/ /\ Allowed(name) /\ Flags[name].value
              /\ \/ inline /\ Add(name, Inline(token)) /\ rest' = Tail(rest) /\ UNCHANGED cluster /\ GoOn
                 \/ /\ ~inline /\ Len(rest) > 1
                    /\ Add(name, rest[2]) /\ rest' = Tail(Tail(rest)) /\ UNCHANGED cluster /\ GoOn
                 \/ ~inline /\ Len(rest) = 1 /\ Refuse
           \/ /\ Allowed(name) /\ ~Flags[name].value
              /\ \/ ~inline /\ Add(name, NoValue) /\ rest' = Tail(rest) /\ UNCHANGED cluster /\ GoOn
                 \/ /\ inline /\ Inline(token) \in DOMAIN Booleans
                    /\ Add(name, Booleans[Inline(token)]) /\ rest' = Tail(rest) /\ UNCHANGED cluster /\ GoOn
                 \/ inline /\ Inline(token) \notin DOMAIN Booleans /\ Refuse

\* -abc, -ovalue, -o=value or -o value, letter by letter.
ShortCluster ==
    /\ Walking /\ IsCluster(Head(rest))
    /\ cluster' = Tail(Head(rest))
    /\ rest' = Tail(rest)
    /\ UNCHANGED flags /\ GoOn

ShortFlag ==
    /\ stage = "walk" /\ cluster # <<>>
    /\ LET name == OfShort(Head(cluster))
           after == Tail(cluster)
           value == IF after # <<>> /\ Head(after) = "=" THEN Tail(after) ELSE after
       IN  \/ ~Allowed(name) /\ Refuse
           \/ /\ Allowed(name) /\ ~Flags[name].value
              /\ Add(name, NoValue) /\ cluster' = after /\ UNCHANGED rest /\ GoOn
           \/ /\ Allowed(name) /\ Flags[name].value
              /\ \/ value # <<>> /\ Add(name, value) /\ cluster' = <<>> /\ UNCHANGED rest /\ GoOn
                 \/ /\ value = <<>> /\ rest # <<>>
                    /\ Add(name, Head(rest)) /\ cluster' = <<>> /\ rest' = Tail(rest) /\ GoOn
                 \/ value = <<>> /\ rest = <<>> /\ Refuse

Positional ==
    /\ Walking /\ ~IsLong(Head(rest)) /\ ~IsCluster(Head(rest))
    /\ positionals' = Append(positionals, Head(rest))
    /\ rest' = Tail(rest)
    /\ UNCHANGED <<stage, command, verb, cluster, flags, argv, first>>

-----------------------------------------------------------------------------
Named(fs, names) == {f \in Range(fs) : f.name \in names}
Those(s, S) == FoldLeft(LAMBDA those, x : IF x \in S THEN Append(those, x) ELSE those, <<>>, s)

\* _check_sensitive: the types the first positional names.
Comma == ","
TypesIn(part) ==
    {part[i] : i \in {j \in DOMAIN part : j = 1 \/ part[j - 1] = Comma}}
IsSensitive ==
    /\ positionals # <<>> /\ TypesIn(positionals[1]) \intersect Sensitive # {}
    /\ \E f \in Named(flags, {"output"}) : f.value \notin SensitiveOutputs

\* Mutants: only the first limit is clamped; a boolean loses its value.
Clamped_First(fs) ==
    [i \in DOMAIN fs |->
        IF fs[i].name = "limit-bytes" /\ fs[i].value = <<"large">>
           /\ \A j \in 1..(i - 1) : fs[j].name # "limit-bytes"
        THEN [fs[i] EXCEPT !.value = <<"limit">>] ELSE fs[i]]
Render_Bare(f) ==
    <<"-", "-", f.name>> \o (IF f.value = NoValue \/ ~Flags[f.name].value THEN <<>> ELSE <<"=">> \o f.value)

\* _apply_logs_defaults: a limit is "small", "large" (clamped to "limit") or
\* no positive integer at all; a window and a limit are added when missing.
GoodLimits == {<<"small">>, <<"large">>, <<"limit">>}
Clamped(fs) ==
    [i \in DOMAIN fs |->
        IF fs[i].name = "limit-bytes" /\ fs[i].value = <<"large">>
        THEN [fs[i] EXCEPT !.value = <<"limit">>] ELSE fs[i]]
Defaults(fs) ==
    (IF Named(fs, {"tail", "since", "since-time"}) = {}
     THEN <<[name |-> "tail", value |-> <<"200">>]>> ELSE <<>>)
    \o (IF Named(fs, {"limit-bytes"}) = {}
        THEN <<[name |-> "limit-bytes", value |-> <<"limit">>]>> ELSE <<>>)

\* The flags kubectl is given, and how each is written (_render).
GivenTo(v, fs) ==
    LET own == Those(fs, {f \in Range(fs) : ~Flags[f.name].pseudo})
    IN  IF v = <<"logs">> THEN Clamped(own) \o Defaults(fs) ELSE own
Given == GivenTo(verb, flags)
Render(f) == <<"-", "-", f.name>> \o (IF f.value = NoValue THEN <<>> ELSE <<"=">> \o f.value)

Acceptable ==
    /\ \A f \in Named(flags, {"output"}) : f.value \in Verbs[verb].outputs
    /\ ~IsSensitive
    /\ \A f \in Named(flags, {"grep"}) : f.value \notin BadPatterns
    /\ verb = <<"logs">> => \A f \in Named(flags, {"limit-bytes"}) : f.value \in GoodLimits

\* All tokens are walked.
Conclude ==
    /\ stage = "walk" /\ rest = <<>> /\ cluster = <<>>
    /\ IF Acceptable
       THEN /\ stage' = "accepted"
            /\ argv' = Words(verb) \o positionals \o [i \in DOMAIN Given |-> Render(Given[i])]
       ELSE stage' = "rejected" /\ UNCHANGED argv
    /\ UNCHANGED <<command, walker, first>>

\* The normalised argv is given to validate() in its turn.
ValidateAgain ==
    /\ stage = "accepted" /\ first = Nothing
    /\ first' = [argv |-> argv, positionals |-> positionals, flags |-> Given]
    /\ command' = argv
    /\ stage' = "start"
    /\ verb' = <<>> /\ rest' = <<>> /\ cluster' = <<>> /\ positionals' = <<>> /\ flags' = <<>>
    /\ argv' = <<>>

ArgvNext ==
    \/ MatchVerb \/ LongFlag \/ ShortCluster \/ ShortFlag \/ Positional
    \/ Conclude \/ ValidateAgain
ArgvSpec == ArgvInit /\ [][ArgvNext]_argvVars

-----------------------------------------------------------------------------
\* _split_normalised, of the tokens after the verb.
SplitPositionals(tokens) == Those(tokens, {t \in Range(tokens) : ~IsLong(t)})
SplitFlags(tokens) ==
    LET long == Those(tokens, {t \in Range(tokens) : IsLong(t)})
    IN  [i \in DOMAIN long |->
            [name |-> GivenName(long[i]),
             value |-> IF Equals(long[i]) = 0 THEN NoValue ELSE Inline(long[i])]]
AfterVerb == SubSeq(argv, Len(verb) + 1, Len(argv))

ArgvTypeOK ==
    /\ stage \in {"start", "walk", "accepted", "rejected"}
    /\ verb \in DOMAIN Verbs \union {<<>>}
    /\ \A i \in DOMAIN flags :
          /\ flags[i].name \in Verbs[verb].flags
          /\ IF Flags[flags[i].name].value THEN flags[i].value # NoValue
             ELSE flags[i].value \in Range(Booleans) \union {NoValue}
    /\ \A i \in DOMAIN positionals : ~IsLong(positionals[i])
    /\ stage # "accepted" => argv = <<>>

\* Normalising keeps the meaning: the normalised argv is accepted in its turn,
\* with the same positionals and flags, and nothing is left to normalise; and
\* _split_normalised, which trusts its form, reads the same out of it.
NormalisedReadsBack ==
    first # Nothing =>
        /\ stage # "rejected"
        /\ stage = "accepted" =>
              /\ argv = first.argv
              /\ positionals = first.positionals /\ flags = first.flags
              /\ SplitPositionals(AfterVerb) = positionals
              /\ SplitFlags(AfterVerb) = flags

\* kubectl logs is always run with a window and with a limit that holds
\* whichever of several it heeds.
LogsAreBounded ==
    stage = "accepted" /\ verb = <<"logs">> =>
        LET limits == Named(SplitFlags(AfterVerb), {"limit-bytes"})
        IN  /\ limits # {}
            /\ \A f \in limits : f.value \in {<<"small">>, <<"limit">>}
            /\ Named(SplitFlags(AfterVerb), {"tail", "since", "since-time"}) # {}
=============================================================================
