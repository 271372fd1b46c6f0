-------------------------- MODULE MCAuthorityLeases --------------------------
(* Instances of AuthorityLeases for TLC: a repository of one directory     *)
(* with one file, and terms of which some exceed others in one respect.    *)
EXTENDS AuthorityLeases, TLC

MCPaths == {"src", "src/a"}
MCUnder == {<<"src", "src">>, <<"src/a", "src/a">>, <<"src/a", "src">>}

Offer(caps, forbidden, scopes, ttl) ==
    [caps |-> caps, forbidden |-> forbidden, scopes |-> scopes, ttl |-> ttl]

Wide == Offer({"read", "modify"}, {}, {"src"}, 2)
Narrow == Offer({"read"}, {}, {"src/a"}, 2)
ReadOnly == Offer({"read"}, {"modify"}, {"src"}, 1)

MCTerms == {Wide, Narrow, ReadOnly}

MCRequests ==
    {[caps |-> {"read"}, resources |-> {"src", "src/a"}],
     [caps |-> {"read", "modify"}, resources |-> {"src/a"}]}

Symmetric == Permutations(Leases) \cup Permutations(Nonces) \cup Permutations(Runs)
=============================================================================
