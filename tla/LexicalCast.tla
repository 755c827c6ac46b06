---------------------------- MODULE LexicalCast ----------------------------
(***************************************************************************)
(* The conversions of configuration values from and to YAML: LexicalCast   *)
(* of primo/config.h for numbers and containers, and its specialisations   *)
(* for LogDefine in primo/log/Logger.cpp.                                  *)
(*                                                                         *)
(* A string that holds YAML is replaced by the node YAML::Load makes of    *)
(* it, which is also what the emitter writes back (yaml-cpp is external).  *)
(* So the types are those whose text YAML::Load reads back as it was       *)
(* written: ints, LogDefines and containers of them.  An element that is a *)
(* std::string, "" or "a: b" say, is not: config.h:112 and 262 parse it as *)
(* YAML and need not give it back, and RoundTrip says nothing about it.    *)
(* Any other text is a sequence of parts, and for a name the parts are     *)
(* what its dots separate.  A conversion that throws yields Throws.  A     *)
(* type is [c |-> constructor, e |-> element type]: std::list is "vector", *)
(* and an unordered container is as the ordered one.                       *)
(***************************************************************************)
EXTENDS Naturals, SequencesExt

CONSTANTS
  Numerals,   \* the texts boost reads as an int, and the int
  Throws

Scalar(s) == [kind |-> "scalar", of |-> s]
List(es)  == [kind |-> "seq", of |-> es]
Map(ps)   == [kind |-> "map", of |-> ps]      \* of <<key, node>> pairs
Undefined == [kind |-> "undefined", of |-> <<>>]

\* node["k"]
Has(n, k) == n.kind = "map" /\ \E i \in DOMAIN n.of : n.of[i][1] = <<k>>
Get(n, k) == n.of[CHOOSE i \in DOMAIN n.of :
                    /\ n.of[i][1] = <<k>>
                    /\ \A j \in 1..(i - 1) : n.of[j][1] # <<k>>][2]

\* What a loop over node.size() meets at node[i]: a scalar has no elements, and
\* an index is no key of a map.
Elements(n) == CASE n.kind = "seq" -> n.of
                 [] n.kind = "map" -> [i \in DOMAIN n.of |-> Undefined]
                 [] OTHER          -> <<>>

----------------------------------------------------------------------------
(* LOG_LEVEL, LogAppenderDefine and LogDefine *)

LevelNames == [debug |-> "DEBUG", info |-> "INFO", warn |-> "WARN",
               error |-> "ERROR", fatal |-> "FATAL"]

\* LOG_LEVEL::FromString, which knows two spellings of each level
LevelFromString(s) ==
  LET known == {l \in DOMAIN LevelNames : s \in {<<l>>, <<LevelNames[l]>>}} IN
  IF known = {} THEN "UNKNOW" ELSE LevelNames[CHOOSE l \in known : TRUE]

\* n["k"].as<std::string>() succeeds, or throws
AsString(n, k) == Has(n, k) /\ Get(n, k).kind = "scalar"
Fails(n, k)    == Has(n, k) /\ Get(n, k).kind # "scalar"

IsType(a, type) == Has(a, "type") /\ Get(a, "type").of = <<type>>

\* An appender without a known type, or a file appender without a file, is left
\* out.
Usable(a) == \/ IsType(a, "StdOutAppender")
             \/ IsType(a, "FileAppender") /\ Has(a, "file")

\* The level is not read; a file appender with a formatter takes its file name
\* for it.
FromAppender(a) ==
  LET isFile == IsType(a, "FileAppender") IN
  [type |-> IF isFile THEN 1 ELSE 2,
   level |-> "UNKNOW",
   file |-> IF isFile THEN Get(a, "file").of ELSE <<>>,
   formatter |-> IF ~Has(a, "formatter") THEN <<>>
                 ELSE Get(a, IF isFile THEN "file" ELSE "formatter").of]

AppenderFails(a) == \/ a.kind = "scalar"
                    \/ Fails(a, "type")
                    \/ Usable(a) /\ Fails(a, IF IsType(a, "FileAppender") THEN "file"
                                              ELSE "formatter")

\* string -> LogDefine
FromDefine(n) ==
  LET apds == IF Has(n, "appenders") THEN Elements(Get(n, "appenders")) ELSE <<>>
      used == SelectSeq(apds, Usable)
  IN
  IF \/ ~AsString(n, "name") \/ Fails(n, "level") \/ Fails(n, "formatter")
     \/ \E i \in DOMAIN apds : AppenderFails(apds[i])
  THEN Throws
  ELSE [name |-> Get(n, "name").of,
        level |-> LevelFromString(IF Has(n, "level") THEN Get(n, "level").of ELSE <<>>),
        formatter |-> IF Has(n, "formatter") THEN Get(n, "formatter").of ELSE <<>>,
        appenders |-> [i \in DOMAIN used |-> FromAppender(used[i])]]

\* n["k"] = v, where c says that there is something to write
Pair(k, v, c) == IF c THEN << <<<<k>>, v>> >> ELSE <<>>

\* The settings that LogDefine and LogAppenderDefine have in common.
Common(d) == Pair("level", Scalar(<<d.level>>), d.level # "UNKNOW")
             \o Pair("formatter", Scalar(d.formatter), d.formatter # <<>>)

ToAppender(a) ==
  Map(Pair("type", Scalar(<<IF a.type = 1 THEN "FileAppender" ELSE "StdOutAppender">>), TRUE)
      \o Pair("file", Scalar(a.file), a.type = 1) \o Common(a))

Appenders(d) == List([i \in DOMAIN d.appenders |-> ToAppender(d.appenders[i])])

\* BUG: writes the settings of the appenders only.
BugToDefine(d) == Map(Pair("name", Scalar(d.name), TRUE)
                      \o Pair("appenders", Appenders(d), d.appenders # <<>>))

\* LogDefine -> string
ToDefine(d) == Map(Pair("name", Scalar(d.name), TRUE) \o Common(d)
                   \o Pair("appenders", Appenders(d), d.appenders # <<>>))

----------------------------------------------------------------------------
(* The containers, from what their elements' nodes give *)

\* LogDefine orders, and so tells apart in a set, by name only.
Same(T, a, b) == IF T.c = "define" THEN a.name = b.name ELSE a = b

\* insert() one after the other: of equal elements, or keys, the first stays.
SetOf(T, es) == {es[i] : i \in {i \in DOMAIN es :
                                  \A j \in 1..(i - 1) : ~Same(T, es[j], es[i])}}
MapOf(n, es) == [k \in {n.of[i][1] : i \in DOMAIN es} |->
                   es[CHOOSE i \in DOMAIN es : /\ n.of[i][1] = k
                                               /\ \A j \in 1..(i - 1) : n.of[j][1] # k]]

\* The nodes a container is made of.
Nodes(T, n) == CASE T.c # "map"    -> Elements(n)
                 [] n.kind = "map" -> [i \in DOMAIN n.of |-> n.of[i][2]]
                 [] OTHER          -> <<>>

RECURSIVE FromStr(_, _)

\* LexicalCast<std::string, T>.  An element of a sequence has no key to put into
\* a map: it->first.Scalar() throws.
FromStr(T, n) ==
  LET nodes == Nodes(T, n)
      es    == [i \in DOMAIN nodes |-> FromStr(T.e, nodes[i])]
  IN
  CASE T.c = "int"    -> IF n.kind = "scalar" /\ n.of \in DOMAIN Numerals
                         THEN Numerals[n.of] ELSE Throws
    [] T.c = "define" -> FromDefine(n)
    [] OTHER          ->
         IF \/ Throws \in Range(es)
            \/ T.c = "map" /\ n.kind = "seq" /\ n.of # <<>>
         THEN Throws
         ELSE CASE T.c = "vector" -> es
                [] T.c = "set"    -> SetOf(T.e, es)
                [] T.c = "map"    -> MapOf(n, es)

RECURSIVE ToStr(_, _)

\* LexicalCast<T, std::string>
ToStr(T, v) ==
  LET toList(es) == List([i \in DOMAIN es |-> ToStr(T.e, es[i])])
      keys       == SetToSeq(DOMAIN v)
  IN
  CASE T.c = "int"    -> Scalar(CHOOSE s \in DOMAIN Numerals : Numerals[s] = v)
    [] T.c = "define" -> ToDefine(v)
    [] T.c = "vector" -> toList(v)
    [] T.c = "set"    -> toList(SetToSeq(v))
    [] T.c = "map"    -> Map([i \in DOMAIN keys |-> <<keys[i], ToStr(T.e, v[keys[i]])>>])
=============================================================================
