---------------------------- MODULE MCExporters ----------------------------
EXTENDS Exporters, TLC

CategorySymmetry == Permutations(DataCategory)

\* The data file may write X for x.
MCLowerCase == [symbol \in {"X"} |-> "x"]

X == <<"x">>   C == <<"c">>   D == <<"d">>   S == <<"*">>

\* A domain, a host below it, a single label, and a name that only ends like the
\* domain.
MCHost == {<<X, C>>, <<D, X, C>>, <<X>>, <<<<"d", "x">>, C>>}

\* Hosts, all below a domain and everything, a host in capitals; glued, inner and
\* trailing wildcards and a single symbol.
MCPattern == MCHost \cup {<<S, X, C>>, <<S>>, <<<<"j">>>>}
MCCatPattern == {<<<<"X">>, C>>, <<S, X, C>>, <<X, S>>, <<S, X, S>>, <<<<"*", "x">>, C>>,
                 <<<<"?">>, C>>}
MCCovers == [p \in MCPattern |-> {h \in MCHost : Fnmatch(p, h)}]

\* No host here looks like a category or holds a newline.
NoText == [t \in {} |-> t]

MCJunk == <<<<"j">>>>

\* An http URL hides port 80; ":80" is part of ":8080".
MCUrlShows == [n \in Port |-> IF n = 80 THEN {} ELSE {80, 8080}]

TypedText(p, n) == [HostText(p) EXCEPT !.port = n]

\* A host; all below the domain, with and without a port; everything on a port.
MCTyped == {TypedText(<<D, X, C>>, AnyPort), TypedText(<<S, X, C>>, AnyPort),
            TypedText(<<S, X, C>>, 80), TypedText(<<S>>, 8080)}
=============================================================================
