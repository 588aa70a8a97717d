------------------------------ MODULE MCCliArgv ------------------------------
(***************************************************************************)
(* CliArgv and FullOutput on the part of the pack that tells flags apart:  *)
(* every command of a verb and up to three or four tokens out of a pool.   *)
(***************************************************************************)
EXTENDS FullOutput

F(short, value) == [short |-> short, value |-> value, pseudo |-> FALSE]
MCAtoms == STRING
MCFlags ==
    [f \in {"namespace", "all-namespaces", "selector", "output", "container", "previous", "since",
            "since-time", "tail", "limit-bytes", "all-containers", "grep", "list"} |->
        CASE f = "namespace" -> F("n", TRUE)      [] f = "all-namespaces" -> F("A", FALSE)
          [] f = "selector" -> F("l", TRUE)       [] f = "output" -> F("o", TRUE)
          [] f = "container" -> F("c", TRUE)      [] f = "previous" -> F("p", FALSE)
          [] f \in {"all-containers", "list"} -> F("none", FALSE)
          [] f = "grep" -> [F("none", TRUE) EXCEPT !.pseudo = TRUE]
          [] OTHER -> F("none", TRUE)]
MCVerbs ==
    [v \in {<<"get">>, <<"logs">>, <<"auth", "can-i">>} |->
        CASE v = <<"get">> -> [flags |-> {"namespace", "all-namespaces", "selector", "output"},
                               outputs |-> {<<"json">>, <<"wide">>}]
          [] v = <<"logs">> -> [flags |-> {"namespace", "container", "previous", "since", "since-time", "tail",
                                           "limit-bytes", "all-containers", "selector", "grep"},
                                outputs |-> {}]
          [] OTHER -> [flags |-> {"namespace", "all-namespaces", "list"}, outputs |-> {}]]
MCSensitive == {"secrets"}
MCSensitiveOutputs == {<<"wide">>}
MCShellTokens == {<<"|">>}
MCShellPrefixes == {"$("}
MCBadPatterns == {<<"[">>}
MCBooleans == [v \in {<<"true">>, <<"false">>, <<"False">>} |-> IF v = <<"true">> THEN v ELSE <<"false">>]

Long(name, value) == <<"-", "-", name, "=">> \o value
GetTokens == {<<"pods">>, <<"pods", ",", "nodes">>, <<"pods", "/", "a">>, <<"nodes", "/", "b">>, <<"a">>,
              <<"secrets">>, <<"-", "n">>, Long("namespace", <<"x">>), Long("namespace", <<>>), <<"-", "A">>,
              Long("all-namespaces", <<"False">>), <<"-", "l", "=", "a">>, <<"-", "A", "o", "json">>,
              Long("output", <<"wide">>), <<"-", "-", "list">>}
LogsTokens == {<<"a">>, <<"deployments", "/", "a">>, <<"c2">>, <<"-", "n", "x">>, <<"-", "-", "selector">>,
               <<"-", "p", "c">>, <<"-", "-", "all-containers">>, Long("all-containers", <<"False">>),
               Long("since", <<"2h">>), Long("limit-bytes", <<"large">>), Long("limit-bytes", <<"zero">>),
               Long("grep", <<"a">>), Long("grep", <<"[">>), <<"a", ";">>}
UpTo(n, tokens) == UNION {[1..k -> tokens] : k \in 0..n}
MCCommands ==
    {<<<<"get">>>> \o t : t \in UpTo(3, GetTokens)}
    \union {<<<<"logs">>>> \o t : t \in UpTo(4, LogsTokens)}
    \union {<<<<"auth">>, <<"can-i">>>> \o t : t \in UpTo(2, GetTokens)}
    \union {<<<<"auth">>, <<"pods">>>>, <<>>}

MCLetters == {"n", "A", "l", "o", "c", "p", "q"}
MCLabels == {"a", "x", "y", "c1", "c2"}
MCDurations == {<<"2h">>, <<"6h">>}
MCPlainAtoms == {"pods", "nodes", "deployments", "secrets", "a", "b", "c1", "c2", "x", "/", ",", "-"}
MCObjects == {[type |-> "pods", ns |-> "x", name |-> "a", app |-> "a"],
              [type |-> "pods", ns |-> "y", name |-> "a", app |-> "a"],
              [type |-> "pods", ns |-> "x", name |-> "b", app |-> "b"],
              [type |-> "nodes", ns |-> NoNs, name |-> "b", app |-> "b"]}
MCContainers == <<"c1", "c2">>
=============================================================================
