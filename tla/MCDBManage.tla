----------------------------- MODULE MCDBManage -----------------------------
(***************************************************************************)
(* DBManage for model checking: two or three threads, one text, and calls  *)
(* that insert, change, read and delete one or two rows.                   *)
(***************************************************************************)
EXTENDS DBManage

CONSTANTS c1, c2, t1

MCClients == {c1, c2}
MCTexts == {t1}

Arg(chan, h) == [ id |-> 0, nAnaChannel |-> chan, nAnaMainType |-> 1, nAnaSubType |-> 1,
                  szDevName |-> t1, szDevIP |-> t1, nHLimit |-> h, szLine |-> t1 ]

OneCall(op, n, chan, h) == [ op |-> op, n |-> n, p |-> Arg(chan, h) ]

\* Every operation once, and a Set call the interface turns away
AllCalls ==
  {OneCall(op, 1, 1, 1) : op \in WriteOps \union ReadOps} \union {OneCall("SetLinkInfo", 0, 1, 1)}

\* A write that inserts, one that changes what is there, one that deletes,
\* the creation of the tables and a query
FewCalls ==
  {OneCall("AddLinkInfo", 0, 1, 0), OneCall("SetLinkInfo", 1, 1, 1),
   OneCall("DelLinkInfo", 0, 1, 0), OneCall("CreateTable", 0, 0, 0), OneCall("GetLinkInfo", 0, 1, 0)}

WriteCalls == {OneCall("AddLinkInfo", 0, 1, 0), OneCall("DelLinkInfo", 0, 1, 0),
               OneCall("CreateTable", 0, 0, 0)}

EmptyTables == [ NoTables EXCEPT !.hasLinks = TRUE, !.hasRules = TRUE ]
=============================================================================
