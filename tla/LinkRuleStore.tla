---------------------------- MODULE LinkRuleStore ----------------------------
(***************************************************************************)
(* The zeno_SQLite_* calls on a connected handle as one client sees them,  *)
(* one call after the other: every call runs to its end before the next    *)
(* one starts, so the lock, the transaction and the commit thread do not   *)
(* show.  DBManage adds them.                                              *)
(***************************************************************************)
EXTENDS LinkRuleTables

CONSTANTS
  LinkArgs,    \* LINK_DATA arguments of the channel calls
  RuleArgs,    \* LINK_DATA arguments of the rule calls
  DevIds,      \* the nDevId argument of the two Set calls
  MaxId        \* bound: no table gives out more ids than this

ASSUME StoreAssumption ==
  /\ LinkArgs \subseteq LinkData
  /\ RuleArgs \subseteq LinkData
  /\ DevIds \subseteq Int
  /\ MaxId \in Nat

VARIABLES
  db,        \* the tables as this connection sees them
  lastId,    \* sqlite3_last_insert_rowid of the connection
  last       \* the last call: its name, arguments, result and rows returned

vars == << db, lastId, last >>

NoLinkData == [ id |-> 0, nAnaChannel |-> 0, nAnaMainType |-> 0, nAnaSubType |-> 0,
                szDevName |-> CHOOSE t \in Texts : TRUE, szDevIP |-> CHOOSE t \in Texts : TRUE,
                nHLimit |-> 0, szLine |-> CHOOSE t \in Texts : TRUE ]

Init ==
  /\ db = NoTables
  /\ lastId = 0
  /\ last = [ op |-> "Connect", n |-> 0, p |-> NoLinkData, ret |-> 0, rows |-> {} ]

Bounded(tables) == tables.linkSeq <= MaxId /\ tables.ruleSeq <= MaxId

\* A call that executes one statement and returns its result
Writes(op, n, p, stmt) ==
  /\ Bounded(stmt.tables)
  /\ db' = stmt.tables
  /\ lastId' = stmt.lastId
  /\ last' = [ op |-> op, n |-> n, p |-> p, ret |-> stmt.ret, rows |-> {} ]

\* A call that ignores the statement's result and returns the last insert id
Inserts(op, p, stmt) ==
  /\ Bounded(stmt.tables)
  /\ db' = stmt.tables
  /\ lastId' = stmt.lastId
  /\ last' = [ op |-> op, n |-> 0, p |-> p, ret |-> stmt.lastId, rows |-> {} ]

Reads(op, p, rows) ==
  /\ last' = [ op |-> op, n |-> 0, p |-> p, ret |-> 0, rows |-> rows ]
  /\ UNCHANGED << db, lastId >>

CreateTable == Writes("CreateTable", 0, NoLinkData, CreateTableStmt(db, lastId))

DropTable ==
  \/ Writes("DropTable", 0, NoLinkData, DropLinksStmt(db, lastId))
  \/ Writes("DropTable", 0, NoLinkData, DropRulesStmt(db, lastId))

AddLinkInfo(p) == Inserts("AddLinkInfo", p, AddLinkStmt(db, lastId, p))

DelLinkInfo(p) == Writes("DelLinkInfo", 0, p, DelLinkStmt(db, lastId, p))

GetLinkInfo(p) == Reads("GetLinkInfo", p, GetLinkRows(db, p))

SetLinkInfo(n, p) ==
  /\ n > 0
  /\ Writes("SetLinkInfo", n, p, SetLinkStmt(db, lastId, n, p))

AddRuleInfo(p) == Inserts("AddRuleInfo", p, AddRuleStmt(db, lastId, p))

DelRuleInfo(p) == Writes("DelRuleInfo", 0, p, DelRuleStmt(db, lastId, p))

GetRuleInfo(p) == Reads("GetRuleInfo", p, GetRuleRows(db, p))

SetRuleInfo(n, p) ==
  /\ n > 0
  /\ Writes("SetRuleInfo", n, p, SetRuleStmt(db, lastId, n, p))

\* nDevId <= 0 is turned away before the class is called
RejectSet(n, p) ==
  /\ n <= 0
  /\ last' = [ op |-> "RejectSet", n |-> n, p |-> p, ret |-> -1, rows |-> {} ]
  /\ UNCHANGED << db, lastId >>

LinkCall ==
  \E p \in LinkArgs :
     \/ AddLinkInfo(p)
     \/ DelLinkInfo(p)
     \/ GetLinkInfo(p)
     \/ \E n \in DevIds : SetLinkInfo(n, p) \/ RejectSet(n, p)

RuleCall ==
  \E p \in RuleArgs :
     \/ AddRuleInfo(p)
     \/ DelRuleInfo(p)
     \/ GetRuleInfo(p)
     \/ \E n \in DevIds : SetRuleInfo(n, p) \/ RejectSet(n, p)

Next == CreateTable \/ DropTable \/ LinkCall \/ RuleCall

Spec == Init /\ [][Next]_vars

-----------------------------------------------------------------------------
TypeOK ==
  /\ db \in Tables
  /\ lastId \in Nat
  /\ last.ret \in Int
  /\ last.rows \subseteq ChannelRow \union RuleRow

-----------------------------------------------------------------------------
(* Properties of the tables *)

\* SetRuleInfo looks a rule up before it writes (DBManage.cpp:1010): whatever
\* the sequence of calls, a channel has one rule of each type at most.
RuleKeysUnique ==
  \A r, s \in db.rules : RuleKey(r) = RuleKey(s) => r = s

-----------------------------------------------------------------------------
(* Properties of a call *)

\* The step is a call of op (a step that leaves vars alone is none)
Called(op) == last'.op = op

\* SetRuleInfo is an update-or-insert of exactly one rule (DBManage.cpp:993):
\* afterwards the key holds the text, and every other rule is as it was.
SetRuleIsUpsert ==
  [][ Called("SetRuleInfo") /\ db.hasRules =>
        LET key == << last'.n, last'.p.nAnaMainType, last'.p.nAnaSubType >>
        IN  /\ \E r \in db'.rules : RuleKey(r) = key /\ r.line1 = last'.p.szLine
            /\ {r \in db'.rules : RuleKey(r) # key} = {r \in db.rules : RuleKey(r) # key} ]_vars

\* A field that is not positive asks for nothing
Agrees(field, value) == field > 0 => value = field

\* The rows of a query are those on which every positive field of the argument
\* agrees, whichever of the fields are given: the conditions are chained with a
\* flag (DBManage.cpp:652-671, 867-916), and no condition is lost or makes the
\* statement one that does not compile.  One value is another field's: a main
\* type that comes first is compared with the sub type (:898).
QueryExact ==
  [][ LET p == last'.p
          asked == IF p.id > 0 \/ p.nAnaChannel > 0 THEN p.nAnaMainType ELSE p.nAnaSubType
      IN  /\ Called("GetLinkInfo") =>
               last'.rows = {r \in db.links : Agrees(p.id, r.id) /\ Agrees(p.nAnaChannel, r.anachannel)}
          /\ Called("GetRuleInfo") =>
               last'.rows = {r \in db.rules :
                               /\ Agrees(p.id, r.id)
                               /\ Agrees(p.nAnaChannel, r.anachannel)
                               /\ p.nAnaMainType > 0 => r.anamaintype = asked
                               /\ Agrees(p.nAnaSubType, r.anasubtype)} ]_vars

\* A call that deletes takes exactly the rows its argument names and keeps the
\* others: of the rules, those on which id, channel and, when both are given,
\* the two types agree (DBManage.cpp:1061-1091); of the channels, those whose
\* number is the id field as well as the channel field (:362-379).
DeleteExact ==
  [][ LET p == last'.p
          typed == p.nAnaMainType > 0 /\ p.nAnaSubType > 0
      IN  /\ Called("DelLinkInfo") /\ db.hasLinks =>
               {r \in db.links : r \notin db'.links} =
                 {r \in db.links : \A field \in {p.id, p.nAnaChannel} : Agrees(field, r.anachannel)}
          /\ Called("DelRuleInfo") /\ db.hasRules =>
               {r \in db.rules : r \notin db'.rules} =
                 {r \in db.rules :
                    /\ Agrees(p.id, r.id)
                    /\ Agrees(p.nAnaChannel, r.anachannel)
                    /\ typed => r.anamaintype = p.nAnaMainType /\ r.anasubtype = p.nAnaSubType}
          /\ Called("DelLinkInfo") \/ Called("DelRuleInfo") =>
               db'.links \subseteq db.links /\ db'.rules \subseteq db.rules ]_vars
=============================================================================
