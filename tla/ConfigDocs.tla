----------------------------- MODULE ConfigDocs -----------------------------
(***************************************************************************)
(* The documents that Config::LoadFromYaml reads: ListAllMember of         *)
(* primo/config.cpp, which lists their nodes, and what the variables must  *)
(* hold once they are loaded.                                              *)
(***************************************************************************)
EXTENDS Config, LexicalCast, LogFormatter

\* BUG: lists the leaves only.
RECURSIVE BugListAllMember(_, _)
BugListAllMember(prefix, node) ==
  IF ~IsLegal(prefix) THEN <<>>
  ELSE IF node.kind # "map" THEN <<[name |-> prefix, node |-> node]>>
  ELSE FlattenSeq([i \in DOMAIN node.of |->
                     BugListAllMember(prefix \o node.of[i][1], node.of[i][2])])

RECURSIVE ListAllMember(_, _)

\* A node and, behind it, the nodes below it; what is below an illegal name is
\* left out.
ListAllMember(prefix, node) ==
  IF ~IsLegal(prefix) THEN <<>>
  ELSE <<[name |-> prefix, node |-> node]>> \o
       IF node.kind # "map" THEN <<>>
       ELSE FlattenSeq([i \in DOMAIN node.of |->
                          ListAllMember(prefix \o node.of[i][1], node.of[i][2])])

----------------------------------------------------------------------------
(* Properties *)

RECURSIVE Given(_, _)

\* The nodes that a document gives to a name, found from the name's first part
\* on, in the document's order.
Given(node, name) ==
  IF name = <<>> THEN <<node>>
  ELSE IF node.kind # "map" THEN <<>>
  ELSE FlattenSeq([i \in DOMAIN node.of |->
         LET key == node.of[i][1] IN
         IF IsPrefix(key, name)
         THEN Given(node.of[i][2], SubSeq(name, Len(key) + 1, Len(name))) ELSE <<>>])

\* The values of the variable's type in the documents that t loads.
Values(t, v) ==
  LET loads == SelectSeq(program[t], LAMBDA c : c.call = "load")
      texts == FlattenSeq([i \in DOMAIN loads |-> Given(loads[i].root, v.name)])
      all   == [i \in DOMAIN texts |-> FromStr(v.type, texts[i])]
  IN  SelectSeq(all, LAMBDA x : x # Throws)

\* LoadFromYaml: when all have returned, a variable holds the last value of its
\* type which some thread's documents give to its name.  Only when there is no
\* such value, or when the variable was registered after main began, when a load
\* may be over already, can it still hold the default value.
LoadedAsWritten ==
  Done => \A i \in DOMAIN objects :
    LET v     == objects[i]
        lasts == {Last(Values(t, v)) : t \in {t \in Threads : Values(t, v) # <<>>}}
    IN  \/ v.mVal \in lasts
        \/ /\ lasts = {} \/ i > Len(Statics)
           /\ IsDefault(v)

\* LexicalCast: ToString of a value and FromString of that text are inverse, for
\* the default values and all that documents set.
RoundTrip == \A i \in DOMAIN objects :
  LET v == objects[i] IN FromStr(v.type, ToStr(v.type, v.mVal)) = v.mVal

\* The formatters that the logs variable has been given.
Patterns == {d.formatter : d \in UNION {objects[i].mVal : i \in
              {i \in DOMAIN objects : objects[i].name = <<"logs">>}}}

\* LogFormatter::Init: a pattern which is a sequence of texts and known items is
\* cut into just these, and any pattern that is accepted is what its items spell,
\* so that no character of it is lost or repeated.
ParsesRight ==
  \A p \in Patterns :
    LET its   == Parse(p)
        meant == Readings(p)
    IN  /\ meant # {} => ~IsError(its) /\ meant = {its}
        /\ ~IsError(its) => SpelledBy(p, its)
=============================================================================
