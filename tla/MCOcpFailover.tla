----------------------------- MODULE MCOcpFailover -----------------------------
(* Values of the constants for the model checker. *)
EXTENDS OcpFailover

CONSTANTS s1, s2, version, pods, url1, url2, url3, base1, base2, token1, token2

\* url1 and url2 differ in a trailing /api: the same base.
NormalizeUrl == [u \in {url1, url2, url3} |-> IF u = url3 THEN base2 ELSE base1]

TwoConfigs ==
    {[urls |-> <<url1, url2, url3>>, tokens |-> <<token1, token2>>],
     [urls |-> <<url3>>, tokens |-> <<token2, token2>>]}
AnyConfig == TwoConfigs \cup {[urls |-> <<>>, tokens |-> <<>>]}

Serve(pairs) == {<<p, x[1], x[2]>> : p \in {version, pods}, x \in pairs}

\* All, none, one pair for everything, and pods only for another token.
Everything == {base1, base2} \X {token1, token2}
SomeService ==
    {Serve(Everything), {}, Serve({<<base1, token1>>}), Serve({<<base2, token2>>}),
     Serve({<<base2, token2>>}) \cup {<<version, base1, token1>>}}
=============================================================================
