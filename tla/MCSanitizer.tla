----------------------------- MODULE MCSanitizer -----------------------------
(***************************************************************************)
(* Sanitizer for a Deployment, an Application, a Secret and a ConfigMap,   *)
(* each with a credential and a plain value in every place it has for one. *)
(***************************************************************************)
EXTENDS Sanitizer, TLC

MCKeys == STRING
MCPositions == {"1", "2", "3", "4"}

Plain(v) == Text(<<Piece("", {v}, {}, "none")>>)
Jwt(v) == Text(<<Piece("", {}, {v}, "jwt")>>)
Url(host, v) == Text(<<Piece("", {host}, {v}, "userinfo")>>)
Line(key, v) == Piece(key, {v}, {}, "none")
Under(path, d) == [p \in {path \o q : q \in DOMAIN d} |-> d[SubSeq(p, Len(path) + 1, Len(p))]]

MCWordsOf == [DB_PASSWORD |-> <<"db", "password">>, secretName |-> <<"secret", "name">>,
              secretKeyRef |-> <<"secret", "key", "ref">>, MYSQL_PWD |-> <<"mysql", "pwd">>,
              password_reset_url |-> <<"password", "reset", "url">>,
              api_key |-> <<"apikey">>]
MCInsideOf == [authtokens |-> {"token"}, authtoken |-> {"token"}, secretname |-> {"secret", "name"}]
MCEndsOf == [authtoken |-> {"token"}, secretname |-> {"name"}]

Metadata(annotations) == Under(<<"metadata">>,
    Under(<<"annotations">>, annotations)
    @@ <<"name">> :> Plain("n") @@ <<"uid">> :> Plain("uid")
    @@ <<"labels", "app">> :> Plain("a") @@ <<"labels", "token">> :> Plain("s1")
    @@ <<"ownerReferences", "1", "uid">> :> Plain("owner"))

\* In the first list called env, an entry that has one of its own.
Container(s, v) == Under(<<"spec", "containers", "1">>,
    <<"name">> :> Plain("c")
    @@ Under(<<"env">>,
           <<"1", "name">> :> Plain("DB_PASSWORD") @@ <<"1", "value">> :> Plain(s)
           @@ <<"2", "name">> :> Plain("HOST") @@ <<"2", "value">> :> Plain(v)
           @@ <<"3", "name">> :> Plain("CONN") @@ <<"3", "value">> :> Url("db", s)
           @@ <<"4", "name">> :> Plain("MYSQL_PWD")
           @@ <<"4", "valueFrom", "secretKeyRef", "name">> :> Plain("creds")
           @@ <<"4", "valueFrom", "env", "1", "value">> :> Plain("creds"))
    @@ <<"args", "1">> :> Jwt(s)
    @@ <<"args", "2">> :> Text(<<Line("api_key", s), Line("HOST", v)>>)
    @@ <<"args", "3">> :> Text(<<Line("authtokens", v), Line("authtoken", s)>>))
Deployment(s, v) ==
    [kind |-> "Deployment", document |->
        Metadata(<<"lastApplied">> :> Plain(s) @@ <<"note">> :> Url("db", s))
        @@ Container(s, v)
        @@ <<"spec", "volume", "secretName">> :> Plain("tls")
        @@ <<"spec", "note">> :> Plain("redacted")]
Application(s, v) ==
    [kind |-> "Application", document |->
        Metadata(<<"note">> :> Plain(v))
        @@ Under(<<"spec", "parameters">>,
               <<"1", "name">> :> Plain("DB_PASSWORD") @@ <<"1", "value">> :> Plain(s)
               @@ <<"2", "name">> :> Plain("tag") @@ <<"2", "value">> :> Plain(v)
               @@ <<"3", "value">> :> Plain("tls"))
        @@ <<"spec", "token", "1">> :> Plain(s) @@ <<"spec", "token", "2">> :> Plain(s)
        @@ <<"spec", "authtokens">> :> Plain(s) @@ <<"spec", "secretname">> :> Plain("creds")
        @@ <<"spec", "secretName">> :> Plain("tls")]
Secret(s) ==
    [kind |-> "Secret", document |->
        Metadata(<<"original">> :> Plain(s) @@ <<"helm">> :> Plain("release"))
        @@ <<"data", "plain">> :> Plain(s) @@ <<"stringData", "user">> :> Plain(s)]
ConfigMap(s, v) ==
    [kind |-> "ConfigMap", document |->
        Metadata(<<"lastApplied">> :> Plain(s))
        @@ <<"data", "DB_PASSWORD">> :> Plain(s)
        @@ <<"data", "conf">> :> Text(<<Line("DB_PASSWORD", s), Line("password_reset_url", "d1")>>)
        @@ <<"data", "motd">> :> Plain(v)
        @@ <<"binaryData", "DB_PASSWORD">> :> Plain(s) @@ <<"binaryData", "logo">> :> Plain(v)]
MCBodies ==
    UNION {{Deployment(s, v), Application(s, v), Secret(s)} :
               s \in {"s1", "s2"}, v \in {"a", "b", "long"}}
    \union {ConfigMap(s, v) : s \in {"s1", "s2"}, v \in {"d1", "dlong", "dlong2"}}
MCStatuses == {<<"phase">> :> Plain("up"),
               <<"phase">> :> Plain("down") @@ <<"conn">> :> Url("db", "s2")
               @@ <<"password">> :> Plain("s1")}
MCRedactions == {<<"spec", "note">>, <<"spec", "gone", "note">>}
=============================================================================
