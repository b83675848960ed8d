---------------------------- MODULE MCEnvironment ----------------------------
(* Instances of Environment: two exports of two parents and their children;   *)
(* two runs of a manifest of two steps; rehearsals of two folders with up to  *)
(* two files; and comparisons of two databases.                               *)
EXTENDS Environment, TLC

\* Two parents, whose ids the source exchanges, and up to two children.
Parent(id, k, label) == [id |-> id, key |-> k, label |-> label]
Child(k, ref) == [key |-> k, ref |-> ref]

SmallSources ==
    {[parent |-> {Parent(1, "p", "x"), Parent(2, "q", "y")}, child |-> {Child("k", 1)}],
     [parent |-> {Parent(1, "q", "y"), Parent(2, "p", "x")}, child |-> {Child("k", 1), Child("l", None)}]}

SmallTargets ==
    {[parent |-> {Parent(1, "p", "x")}, child |-> {}],
     [parent |-> {Parent(1, "q", "y"), Parent(2, "p", "x")}, child |-> {}],
     [parent |-> {Parent(1, "q", "x"), Parent(2, "r", "z")}, child |-> {Child("k", 2)}],
     [parent |-> {Parent(1, "p", "x"), Parent(2, "r", "y")}, child |-> {}]}

\* What a database holds.  The privileges connect and resolve of one network
\* ACE share a place in the order, and so do grants of one privilege by two
\* grantors; "x" is no name of the configured prefixes.
R(c, o, n, v) == [section |-> c, order |-> o, name |-> n, value |-> v]
Table == R("tables", 1, "t", "one")
Role == R("roles", 1, "r", "plain")
Grant(v) == R("object-grants", 1, "g", v)
Ords(v) == R("ords", 1, "s", v)
Ace(o, n, v) == R("network-aces", o, n, v)
Connect == Ace(1, "connect", "grant")
Resolve == Ace(1, "resolve", "grant")

ManyContents ==
    {{Table, Role, Grant("plain"), Ords("a"), Connect, Resolve},
     {Table, R("roles", 1, "r", "option"), Grant("option"),
      R("object-grants", 2, "x", "plain"), Ords("b"), Connect, Ace(2, "smtp", "deny")},
     {R("tables", 1, "t", "two"), R("invalid-objects", 1, "t", "INVALID"), Role,
      Ords("off"), Ace(1, "smtp", "bounded")},
     {Table, Ace(2, "http", "grant"), Connect, Resolve},
     {Table, Role, Grant("plain"), Grant("option"), Ords("a"), Connect}}

\* Commands that compare d1 with d1 or d2, with and without DBA aliases.
Both == {"source", "target"}
Reach(to) == [e \in Both |-> IF e = "source" THEN "d1" ELSE to]
Command(sections, alias, to, dba, owner, emit) ==
    [sections |-> sections, alias |-> alias, reach |-> Reach(to),
     dbaReach |-> Reach(dba), owner |-> owner, emit |-> emit]
Structure == {"tables", "invalid-objects", "object-grants"}
Privileges == {"roles", "network-aces", "ords"}

Commands ==
    {Command(Structure \cup Privileges \cup {"versions"}, Both, to, dba, {}, TRUE) :
        to \in {"d1", "d2"}, dba \in {"d1", "d2"}}
    \cup {Command(Privileges, alias, "d2", "d2", {}, TRUE) :
             alias \in {Both, {"source"}}}
    \cup {Command(Structure, {}, "d2", "d2", owner, emit) :
             owner \in {Both, {"source"}}, emit \in BOOLEAN}
    \cup {Command({"object-grants"}, {"source"}, "d2", "d2", Both, TRUE)}

=============================================================================
