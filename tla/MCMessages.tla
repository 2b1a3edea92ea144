----------------------------- MODULE MCMessages -----------------------------
(* An instance of HttpMessage for TLC: a few texts for each setter.          *)
EXTENDS HttpMessage

MCWords == STRING

MCDirectory ==
  <<"h">> :> <<"ip1", "ip2">> @@ <<"k">> :> <<"ip3">> @@ <<"ip3">> :> <<"ip3">>

MCNumber ==
  "20" :> 20 @@ "22" :> 22 @@ "25" :> 25 @@ "80" :> 80 @@ "143" :> 143 @@ "443" :> 443
    @@ "995" :> 995 @@ "65616" :> 65616

MCLower ==
  [n \in {"Server", "server", "etag", "upgrade"} |-> IF n = "Server" THEN "server" ELSE n]

Site(scheme, rest) == <<scheme, ":", "/", "/">> \o rest

MCUrlInputs == [
  texts |-> {
    Site("http", <<"h", "/", "p", "?", "a", "=", "b", "?", "#", "f">>),
    Site("http", <<"u", ":", "w", "@", "ip1", ":", "443">>),
    Site("https", <<"u", "@", "k", ":", "80", "/", "p", "#", "f">>),
    Site("ws", <<"999", "/">>), Site("ws", <<"h", ":", "x">>),
    <<"mailto", ":", "a", "@", "h">>, <<"file", ":", "/", "a", "/", "/", "h">>,
    <<"h">>},
  schemes |-> {<<"https">>, <<"ws">>, <<"no", " ">>},
  hosts |-> {<<"h">>, <<"ip3">>, <<"h", "/">>},
  users |-> {<<"u", "@">>, <<"@", "@">>},
  passwords |-> {<<>>, <<"w", "/">>},
  ips |-> {"ip3", "999", "h"},
  ports |-> {<<"65616">>, <<"x">>},
  paths |-> {<<"p">>, <<"/", "p", "?">>},
  queries |-> {<<"c", "=", "#">>},
  fragments |-> {<<"f", "/">>}]

MCHttpInputs == [
  headers |-> {Field("", <<"v">>), Field("content-type", UrlEncoded),
               Field("content-type", Multipart)},
  params |-> {Field("", <<"v">>), Field("a", <<"v", "&", "%">>), Field("b", <<"v">>)},
  bodies |-> {<<"v", "v">>},
  ssl |-> {TRUE},
  data |-> {<<"v">>}]

HeadOf(version, fields, spaced) ==
  [version |-> version, status |-> "200", fields |-> fields, spaced |-> spaced]

MCHeads == {
  HeadOf("HTTP/1.1", <<Field("Server", <<"v", ":", "v">>), Field("etag", <<>>)>>, TRUE),
  HeadOf("HTTP/1.1", <<Field("etag", <<>>)>>, FALSE),
  HeadOf("HTTP/1.1", <<Field("upgrade", <<"HTTP/2.0">>), Field("etag", <<"v">>)>>, FALSE),
  HeadOf("HTTP/1.0", <<>>, FALSE)}
=============================================================================
