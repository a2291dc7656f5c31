---------------------------- MODULE MCQueryEngine ----------------------------
(* Small instances of QueryEngine for TLC.                                  *)
EXTENDS QueryEngine

Navigate(capture) == [kind |-> "NAVIGATE", capture |-> capture]
Plain(kind) == [kind |-> kind]
Select(source) == [kind |-> "SELECT", source |-> source, where |-> FALSE,
                   orderBy |-> FALSE, limit |-> FALSE]
SelectFrom(s) == [kind |-> "SELECT", source |-> "SUBQUERY", subquery |-> s,
                  where |-> TRUE, orderBy |-> TRUE, limit |-> TRUE]
If(s, t) == [kind |-> "IF", thenBranch |-> s, elseBranch |-> t]
For(s) == [kind |-> "FOR", body |-> s]

\* The README's first example.
ReadmeStatements == {Select("URL")}

\* A plan of two steps, of one, of none, and one with a body.
SomeStatements ==
  {Navigate(TRUE), Plain("SET"), Plain("WITH"), If(Select("URL"), NoElse)}

\* Every form of statement, alone, as a body or as a subquery.
AllStatements ==
  {Navigate(TRUE), Plain("SET"), Plain("WITH"), Plain("SHOW"),
   Select("URL"), SelectFrom(Navigate(FALSE)), [kind |-> "UPDATE", assignments |-> 2],
   For(Plain("INSERT")),
   If(Select("URL"), Plain("DELETE")),
   If(If(Select("VARIABLE"), Plain("SET")), SelectFrom(Select("URL")))}
=============================================================================
