----------------------------- MODULE MCNamespace -----------------------------
EXTENDS Namespace

CONSTANTS p1, a, b

MCProcs == {p1}
MCNames == {a, b}

Rel(ts) == [abs |-> FALSE, toks |-> ts]
Abs(ts) == [abs |-> TRUE, toks |-> ts]

\* "a", "b", "a/b", "/a", "..", "." and "../b": every
\* branch of dir_from_path and of the "." and ".." cases, absolute and
\* relative.
MCPathArgs ==
    { Rel(<<a>>), Rel(<<b>>), Rel(<<a, b>>), Abs(<<a>>),
      Rel(<<"..">>), Rel(<<".">>), Rel(<<"..", b>>) }

=============================================================================
