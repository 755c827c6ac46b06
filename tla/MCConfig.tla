------------------------------ MODULE MCConfig ------------------------------
(* Two threads, documents in the manner of config/config.yml, and short patterns. *)
EXTENDS ConfigDocs, TLC

CONSTANTS t1, t2

MCThreads  == {t1, t2}

MCAllNodes(root)    == ListAllMember(<<>>, root)
MCCasts(type, node) == {FromStr(type, node)} \ {Throws}

MCNumerals == (<<"1">> :> 1) @@ (<<"2">> :> 2) @@ (<<"0">> :> 0)
MCLegal    == {"logs", "a", "b", "c", "v", "s"}
MCLower    == [x \in MCLegal |-> x] @@ ("A" :> "a")

Number     == [c |-> "int"]
Of(c)   == [c |-> c, e |-> Number]
Defines == [c |-> "set", e |-> [c |-> "define"]]

MCStatics == << LookUpCall(<<"logs">>, Defines, {}),
                LookUpCall(<<"a", "b">>, Number, 0),
                LookUpCall(<<"a">>, Of("map"), <<>>),
                LookUpCall(<<"v">>, Of("vector"), <<1, 1>>) >>

MCReacts == (<<"a", "b">> :> LookUpCall(<<"b", "c">>, Number, 1))
            @@ (<<"v">> :> LookUpCall(<<"b", "c">>, Of("set"), {1}))

\* Documents
N(x)       == Scalar(<<x>>)
Key(k, n) == <<<<k>>, n>>

Plain   == Map(<<Key("a", Map(<<Key("b", N("1")), Key("c", N("2"))>>)),
                 Key("v", List(<<N("1"), N("2")>>)), <<<<"b", "c">>, N("2")>> >>)
Dotted  == Map(<< <<<<"a", "b">>, N("2")>>, Key("a", Map(<<Key("b", N("1")), Key("b", N("2"))>>)),
                  Key("b", Map(<<Key("c", List(<<N("1"), N("1"), N("2")>>))>>)) >>)
Upper   == Map(<<Key("A", Map(<<Key("b", N("2"))>>)), Key("a", Map(<<Key("b", N("x"))>>)),
                 Key("v", N("1"))>>)
Nested  == Map(<<Key("v", Map(<<Key("a", N("1"))>>)),
                 Key("a", Map(<<Key("b", N("2")), Key("c", Map(<<Key("b", N("1"))>>))>>)),
                 Key("b", Map(<<Key("c", N("0"))>>))>>)
Lists   == Map(<<Key("a", List(<<N("1")>>)), Key("v", List(<<N("1"), N("x")>>))>>)

Docs == {Plain, Dotted, Upper, Nested, Lists}

\* Log definitions
Entry(ps)     == Map([i \in DOMAIN ps |-> Key(ps[i][1], ps[i][2])])
Logs(es)      == Map(<<Key("logs", List(es))>>)
File(more)    == Entry(<< <<"type", N("FileAppender")>>, <<"file", N("log.txt")>> >> \o more)
StdOut(more)  == Entry(<< <<"type", N("StdOutAppender")>> >> \o more)
MessageLine   == <<"formatter", Scalar(<<"%", "m", "%", "n">>)>>
Root          == <<"name", N("root")>>
Appending(as) == <<"appenders", as>>

LogDocs == {
  Logs(<<Entry(<<Root, <<"level", N("info")>>, MessageLine,
                 Appending(List(<<File(<<>>), StdOut(<<>>)>>))>>),
         Entry(<< <<"name", N("system")>>, Appending(List(<<StdOut(<<MessageLine>>)>>))>>)>>),
  Logs(<<Entry(<<Root, <<"level", N("loud")>>,
                 Appending(List(<<File(<<MessageLine>>), Entry(<<MessageLine>>),
                                  Entry(<< <<"type", N("FileAppender")>> >>)>>))>>),
         Entry(<<Root, <<"level", N("ERROR")>>, Appending(Map(<<Key("a", N("1"))>>))>>)>>),
  Logs(<<Entry(<<MessageLine>>)>>),
  Logs(<<Entry(<<Root, Appending(List(<<N("1")>>))>>)>>)}

\* All patterns of up to MaxLength characters, also behind a % and an open brace
CONSTANT MaxLength
Chars       == {"%", "{", "}", "m", "q", "-"}
Formats(p)  == Logs(<<Entry(<<Root, <<"formatter", Scalar(p)>>, Appending(List(<<StdOut(<<>>)>>))>>)>>)
UpTo(n)     == UNION {[1..k -> Chars] : k \in 0..n}
AllPatterns == {x \o y : x \in {<<>>, <<"%">>, <<"%", "m", "{">>, <<"-", "%", "m", "{">>},
                         y \in UpTo(MaxLength)}

Others ==
  { <<LookUpCall(<<"b", "c">>, Number, 0), VisitCall, LookUpCall(<<"b", "c">>, Of("set"), {})>>,
    <<LookUpCall(<<"A">>, Number, 0), FindCall(<<"b", "c">>, Number), VisitCall,
      LookUpCall(<<"b", "c">>, Of("set"), {})>>,
    <<LookUpCall(<<"a">>, Of("map"), <<>>), LookUpCall(<<"a">>, Of("vector"), <<1>>)>> }

Two(p, q) == (t1 :> p) @@ (t2 :> q)

MCPrograms ==
  {Two(<<LoadCall(d)>>, <<LoadCall(e)>>) : d, e \in Docs}
  \cup {Two(<<LoadCall(d), LoadCall(e)>>, p) : d, e \in Docs, p \in Others}
  \cup {Two(<<LoadCall(d)>>, <<LoadCall(e)>>) : d, e \in LogDocs}
  \cup {Two(<<LoadCall(Formats(p))>>, <<>>) : p \in AllPatterns}
=============================================================================
