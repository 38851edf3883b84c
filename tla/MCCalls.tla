------------------------------ MODULE MCCalls ------------------------------
(***************************************************************************)
(* The objects that one thread calls, one call after the other, side by    *)
(* side: family is chosen at the start.                                    *)
(*                                                                         *)
(* links, rules: LinkRuleStore with two channels, two texts, two types of  *)
(* each kind and two ids of each table, so that a call hits one and misses *)
(* the other; the channel and the rule calls meet only in CreateTable and  *)
(* in lastId.  coder: Serialize with an int of -16..15, in which the       *)
(* size of 4 floats is negative, that of 8 is 0 and that of 9 is 4.        *)
(* memory: SyncedMemory with two values, two blocks and one user's buffer  *)
(* on each side, the two host allocators and two devices; the second block *)
(* of a side is there to be leaked into.  trim: TrimTS with every document *)
(* of two contexts and three messages, located or not, some of one source  *)
(* and some of one context name.                                           *)
(***************************************************************************)
EXTENDS LinkRuleStore, Serialize, SyncedMemory, TrimTS

CONSTANTS t1, t2, h1, h2, d1, d2, fh, fd, zero, one

MCTexts == {t1, t2}

\* What callers pass to the channel calls: records to store (id 0, types 0)
\* and conditions
MCLinkArgs ==
  [ id : {0}, nAnaChannel : {1, 2}, nAnaMainType : {0}, nAnaSubType : {0},
    szDevName : MCTexts, szDevIP : {t2}, nHLimit : {0, 1}, szLine : {t1} ]
  \union
  [ id : {0, 1, 2}, nAnaChannel : {0, 1}, nAnaMainType : {0}, nAnaSubType : {0},
    szDevName : {t1}, szDevIP : {t1}, nHLimit : {0}, szLine : {t1} ]

\* Rules to store, of three types, and conditions on every subset of the fields
MCRuleArgs ==
  [ id : {0}, nAnaChannel : {1}, nAnaMainType : {1}, nAnaSubType : {1, 2},
    szDevName : {t1}, szDevIP : {t1}, nHLimit : {0}, szLine : {t2} ]
  \union
  [ id : {0}, nAnaChannel : {1}, nAnaMainType : {2}, nAnaSubType : {2},
    szDevName : {t1}, szDevIP : {t1}, nHLimit : {0}, szLine : {t1} ]
  \union
  [ id : {0, 1}, nAnaChannel : {0, 1}, nAnaMainType : {0, 1}, nAnaSubType : {0, 2},
    szDevName : {t1}, szDevIP : {t1}, nHLimit : {0}, szLine : {t1} ]

MCDevIds == {0, 1, 2}

MCValue == {zero, one}
MCBlock == [s \in Side |-> IF s = "cpu" THEN {h1, h2} ELSE {d1, d2}]
MCForeign == [s \in Side |-> IF s = "cpu" THEN {fh} ELSE {fd}]
MCOrigin == [s \in Side |-> IF s = "cpu" THEN {"malloc", "cudaMallocHost"} ELSE {"device0", "device1"}]

\* Three messages in two contexts, which may have one name
Messages(c, n, sources) ==
  [ context : {c}, name : {n}, source : sources, located : BOOLEAN,
    translation : {<< >>, << "t" >>, << "u" >>} ]

MCDocs ==
  { << p, q, r >> :
      p \in Messages(1, "x", {"s"}), q \in Messages(1, "x", {"s", "v"}),
      r \in Messages(2, "x", {"s"}) \union Messages(2, "y", {"s"}) }

\* The file a is there and b is not
Files(doc) == [ u \in Urls |-> IF u = << "a", 0 >> THEN doc ELSE Unreadable ]
MCDisks == {Files(doc) : doc \in MCDocs \union {Unreadable}}

VARIABLE family     \* whose calls this behaviour is made of

MCInit ==
  /\ Init /\ CoderInit /\ SyncedInit /\ TrimInit
  /\ family \in {"links", "rules", "coder", "memory", "trim"}
  /\ (family = "trim") <=> (disk # Files(Unreadable))
  /\ family # "memory" => now = [s \in Side |-> IF s = "cpu" THEN "malloc" ELSE "device0"]

StoreNext ==
  \/ CreateTable
  \/ DropTable
  \/ family = "links" /\ LinkCall
  \/ family = "rules" /\ RuleCall

\* After a fault of the coder there is nothing
MCNext ==
  /\ \/ family \in {"links", "rules"} /\ StoreNext /\ UNCHANGED << serVars, syncedVars, trimVars >>
     \/ family = "coder" /\ CoderNext /\ UNCHANGED << vars, syncedVars, trimVars >>
     \/ family = "coder" /\ fault /\ UNCHANGED << vars, serVars, syncedVars, trimVars >>
     \/ family = "memory" /\ SyncedNext /\ UNCHANGED << vars, serVars, trimVars >>
     \/ family = "trim" /\ TrimNext /\ UNCHANGED << vars, serVars, syncedVars >>
  /\ UNCHANGED family

MCSpec == MCInit /\ [][MCNext]_<< vars, serVars, syncedVars, trimVars, family >>
=============================================================================
