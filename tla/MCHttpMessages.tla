--------------------------- MODULE MCHttpMessages ---------------------------
(* An instance of HttpMessages for TLC. *)
EXTENDS HttpMessages

Address(scheme, user, password, host, port, path, query) ==
    [scheme |-> <<scheme>>, user |-> user, password |-> password, host |-> host, port |-> port, path |-> path, query |-> query]
SomeUrls ==
    {Address("http", <<>>, <<>>, <<"w", "w", "w", ".", "h">>, <<>>, <<>>, <<>>),
     Address("https", <<>>, <<>>, <<"h">>, <<"8", "0", "8", "0">>, <<"p">>, <<"u", "=", "1", "&", "v", "=", "%26">>),
     Address("ftp", <<"u", "s">>, <<"w">>, <<"h">>, <<>>, <<"p", "/", "q">>, <<"u", "=", "1">>),
     Address("http", <<"u">>, <<"w">>, <<"h">>, <<"8", "0">>, <<"p">>, <<>>)}
SomeSchemes == {<<"http">>, <<"https">>, <<"gopher">>}
SomeHosts == {<<"g">>, <<"w", "w", "w", ".", "g">>}
SomePorts == {80, 443, 47873}
SomePaths == {<<"/", "p">>, <<"q">>}
SomeParams == {[name |-> <<"n">>, value |-> v] : v \in {<<>>, <<"x">>, <<"&", "!", "=">>}}
SomeHeaders ==
    {[name |-> "content-type", value |-> <<"urlencoded">>],
     [name |-> "Content-Type", value |-> <<"multipart">>],
     [name |-> "accept", value |-> <<"text", "/", "html">>]}
SomeBodies == {<<>>, <<"b">>, <<"b", "=", "&">>}

Line(name, value) == [name |-> name, value |-> value]
Reply(version, status, spaces, headers_) ==
    [version |-> version, status |-> status, spaces |-> spaces, headers |-> headers_]
SomeHeads ==
    {Reply("HTTP/1.0", "200", 1, <<>>),
     Reply("HTTP/1.1", "404", 0, <<>>),
     Reply("HTTP/1.1", "200", 1, <<Line(<<"n">>, <<"a", ":", " ", "b">>), Line(<<"m", " ", "o">>, <<>>)>>),
     Reply("HTTP/1.1", "200", 0, <<Line(<<"n">>, <<>>), Line(<<"n">>, <<":", ":">>), Line(<<"m">>, <<"7", " ">>)>>)}
=============================================================================
