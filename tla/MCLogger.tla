------------------------------ MODULE MCLogger ------------------------------
(* Instances of Logger for TLC. *)
EXTENDS Logger

CONSTANTS s, c, net, root, r, u, a1, a2, f0, f1, bad, null

NetRoot == <<net, root>>

\* "logs" names net, both loggers or none; appenders have a formatter of their
\* own, a bad one or none.
NetConfigs ==
  LET d1 == [level |-> 2, formatter |-> f1,
             appenders |-> <<[a |-> a1, level |-> 0, formatter |-> null]>>]
      d2 == [level |-> 0, formatter |-> null,
             appenders |-> <<[a |-> a1, level |-> 0, formatter |-> f0],
                             [a |-> a2, level |-> 5, formatter |-> bad]>>]
      d3 == [level |-> 0, formatter |-> f1,
             appenders |-> <<[a |-> r, level |-> 0, formatter |-> null]>>]
  IN  {<<>>, net :> d1, net :> d2 @@ root :> d3}

\* Threads log to both loggers and change the root logger.
RootApi ==
  {Op("Log", net, null, 2), Op("Log", root, null, 2),
   Op("GetLogger", net, null, null), Op("MgrToYaml", null, null, null),
   Op("AddAppender", root, u, null), Op("DelAppender", root, r, null),
   Op("ClearAppenders", root, null, null), Op("SetLevel", root, null, 5),
   Op("SetFormatter", root, null, f1), Op("SetFormatter", root, null, bad),
   Op("ApSetFormatter", null, u, f0), Op("ApSetFormatter", null, u, null)}
=============================================================================
