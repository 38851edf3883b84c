--------------------------- MODULE LinkRuleTables ---------------------------
(***************************************************************************)
(* The SQL behind the calls of CDBManage (6.hwbrapsqlite/src/DBManage.cpp): *)
(* the contents of the channel table and the rule table, and what each     *)
(* statement the class builds makes of them.  Every operator here is a     *)
(* function of the tables and the LINK_DATA argument.  LinkRuleStore runs  *)
(* them one call at a time, DBManage runs them under the lock, inside the  *)
(* transaction of the commit thread.                                       *)
(*                                                                         *)
(* A text column is a member of Texts.  The columns that every statement   *)
(* handles alike are represented by one of them: deviceip stands for the   *)
(* device's port, channel, maker, login and preset columns, line1 for the  *)
(* sixteen texts and the counter of a rule.                                *)
(***************************************************************************)
EXTENDS Integers, Sequences

CONSTANT Texts     \* the values of a text column

\* LINK_DATA: one structure serves as record to store and as condition
LinkData == [ id : Int, nAnaChannel : Int, nAnaMainType : Int, nAnaSubType : Int,
              szDevName : Texts, szDevIP : Texts, nHLimit : Int, szLine : Texts ]

Id == Nat \ {0}

\* A row of TBCHAN and a row of TBRULE
ChannelRow == [ id : Id, anachannel : Int, devicename : Texts, deviceip : Texts, hlimit : Int ]
RuleRow == [ id : Id, anachannel : Int, anamaintype : Int, anasubtype : Int, line1 : Texts ]

\* linkSeq and ruleSeq: the largest id ever given out (AUTOINCREMENT)
Tables == [ hasLinks : BOOLEAN, hasRules : BOOLEAN,
            links : SUBSET ChannelRow, rules : SUBSET RuleRow,
            linkSeq : Nat, ruleSeq : Nat ]

NoTables == [ hasLinks |-> FALSE, hasRules |-> FALSE, links |-> {}, rules |-> {},
              linkSeq |-> 0, ruleSeq |-> 0 ]

-----------------------------------------------------------------------------
(* What a statement leaves behind: the tables, the result of SQLiteExec and *)
(* the last insert rowid of the connection.                                 *)

Done(tables, lastId) == [ tables |-> tables, ret |-> 0, lastId |-> lastId ]

Failed(tables, lastId) == [ tables |-> tables, ret |-> -1, lastId |-> lastId ]

\* A DELETE or a SELECT while its text is put together: the conditions with
\* the keyword in front of each, and the flag bMulti
NoCondition == [ conditions |-> << >>, bMulti |-> FALSE ]

\* One condition: not written when its field does not ask for it
Condition(q, wanted, column, value) ==
  IF wanted
  THEN [ conditions |-> Append(q.conditions, << IF q.bMulti THEN "AND" ELSE "WHERE", column, value >>),
         bMulti |-> TRUE ]
  ELSE q

\* SQLite compiles one WHERE and then only ANDs
Compiles(q) == \A i \in DOMAIN q.conditions : q.conditions[i][1] = IF i = 1 THEN "WHERE" ELSE "AND"

Selects(q, r) == \A i \in DOMAIN q.conditions : r[q.conditions[i][2]] = q.conditions[i][3]

\* The rows a SELECT finds: none when it does not compile
Selected(rows, q) == {r \in rows : Compiles(q) /\ Selects(q, r)}

\* CreateTable executes two statements and returns the result of the second
CreateTableStmt(t, lastId) ==
  LET new == [ t EXCEPT !.hasLinks = TRUE, !.hasRules = TRUE ]
  IN  IF t.hasRules THEN Failed(new, lastId) ELSE Done(new, lastId)

\* DROP TABLE forgets the rows and the table's AUTOINCREMENT counter
DropLinksStmt(t, lastId) ==
  IF t.hasLinks THEN Done([ t EXCEPT !.hasLinks = FALSE, !.links = {}, !.linkSeq = 0 ], lastId)
                ELSE Failed(t, lastId)

DropRulesStmt(t, lastId) ==
  IF t.hasRules THEN Done([ t EXCEPT !.hasRules = FALSE, !.rules = {}, !.ruleSeq = 0 ], lastId)
                ELSE Failed(t, lastId)

-----------------------------------------------------------------------------
(* The channel table *)

NewChannelRow(t, p) ==
  [ id |-> t.linkSeq + 1, anachannel |-> p.nAnaChannel, devicename |-> p.szDevName,
    deviceip |-> p.szDevIP, hlimit |-> p.nHLimit ]

InsertChannel(t, p) ==
  [ t EXCEPT !.links = @ \union {NewChannelRow(t, p)}, !.linkSeq = @ + 1 ]

AddLinkStmt(t, lastId, p) ==
  IF t.hasLinks THEN Done(InsertChannel(t, p), t.linkSeq + 1) ELSE Failed(t, lastId)

\* The condition built from id compares anachannel
DelLinkQuery(p) ==
  LET channel == Condition(NoCondition, p.id > 0, "anachannel", p.id)
  IN  Condition(channel, p.nAnaChannel > 0, "anachannel", p.nAnaChannel)

DelLinkStmt(t, lastId, p) ==
  LET q == DelLinkQuery(p)
  IN  IF t.hasLinks /\ Compiles(q)
      THEN Done([ t EXCEPT !.links = @ \ Selected(@, q) ], lastId)
      ELSE Failed(t, lastId)

GetLinkRows(t, p) ==
  LET id == Condition(NoCondition, p.id > 0, "id", p.id)
  IN  Selected(t.links, Condition(id, p.nAnaChannel > 0, "anachannel", p.nAnaChannel))

\* A positive height limit is stored alone; otherwise every column is, and
\* the device name is taken from the field that holds the address
UpdatedChannel(r, p) ==
  IF p.nHLimit > 0
  THEN [ r EXCEPT !.hlimit = p.nHLimit ]
  ELSE [ r EXCEPT !.devicename = p.szDevIP, !.deviceip = p.szDevIP, !.hlimit = p.nHLimit ]

\* No row of channel n: the record goes in under the channel it names itself
SetLinkStmt(t, lastId, n, p) ==
  IF ~t.hasLinks THEN Failed(t, lastId)
  ELSE IF \E r \in t.links : r.anachannel = n
       THEN Done([ t EXCEPT !.links = {IF r.anachannel = n THEN UpdatedChannel(r, p) ELSE r : r \in @} ],
                 lastId)
       ELSE Done(InsertChannel(t, p), t.linkSeq + 1)

-----------------------------------------------------------------------------
(* The rule table *)

\* Twenty values for the twelve columns of TBCHAN: the statement never compiles
AddRuleStmt(t, lastId, p) == Failed(t, lastId)

\* Slip: bMulti is not set with WHERE anachannel
GetRuleRowsFlagless(t, p) ==
  LET id == Condition(NoCondition, p.id > 0, "id", p.id)
      channel == [ Condition(id, p.nAnaChannel > 0, "anachannel", p.nAnaChannel) EXCEPT !.bMulti = id.bMulti ]
      mainType == Condition(channel, p.nAnaMainType > 0, "anamaintype",
                            IF channel.bMulti THEN p.nAnaMainType ELSE p.nAnaSubType)
  IN  Selected(t.rules, Condition(mainType, p.nAnaSubType > 0, "anasubtype", p.nAnaSubType))

\* The value that goes with WHERE anamaintype is that of the sub type
GetRuleRows(t, p) ==
  LET id == Condition(NoCondition, p.id > 0, "id", p.id)
      channel == Condition(id, p.nAnaChannel > 0, "anachannel", p.nAnaChannel)
      mainType == Condition(channel, p.nAnaMainType > 0, "anamaintype",
                            IF channel.bMulti THEN p.nAnaMainType ELSE p.nAnaSubType)
  IN  Selected(t.rules, Condition(mainType, p.nAnaSubType > 0, "anasubtype", p.nAnaSubType))

RuleKey(r) == << r.anachannel, r.anamaintype, r.anasubtype >>

NewRuleRow(t, n, p) ==
  [ id |-> t.ruleSeq + 1, anachannel |-> n, anamaintype |-> p.nAnaMainType,
    anasubtype |-> p.nAnaSubType, line1 |-> p.szLine ]

InsertRule(t, n, p) ==
  [ t EXCEPT !.rules = @ \union {NewRuleRow(t, n, p)}, !.ruleSeq = @ + 1 ]

\* Slip: the rule is not looked up
SetRuleStmtBlind(t, lastId, n, p) ==
  IF t.hasRules THEN Done(InsertRule(t, n, p), t.ruleSeq + 1) ELSE Failed(t, lastId)

\* Slip: the UPDATE names the channel and the main type only
SetRuleStmtWide(t, lastId, n, p) ==
  LET hit(r) == r.anachannel = n /\ r.anamaintype = p.nAnaMainType
  IN  IF ~t.hasRules THEN Failed(t, lastId)
      ELSE IF \E r \in t.rules : hit(r) /\ r.anasubtype = p.nAnaSubType
           THEN Done([ t EXCEPT !.rules = {IF hit(r) THEN [ r EXCEPT !.line1 = p.szLine ] ELSE r : r \in @} ],
                     lastId)
           ELSE Done(InsertRule(t, n, p), t.ruleSeq + 1)

SetRuleStmt(t, lastId, n, p) ==
  LET key == << n, p.nAnaMainType, p.nAnaSubType >>
  IN  IF ~t.hasRules THEN Failed(t, lastId)
      ELSE IF \E r \in t.rules : RuleKey(r) = key
           THEN Done([ t EXCEPT !.rules = {IF RuleKey(r) = key THEN [ r EXCEPT !.line1 = p.szLine ] ELSE r
                                             : r \in @} ], lastId)
           ELSE Done(InsertRule(t, n, p), t.ruleSeq + 1)

\* Slip: one type is enough
DelRuleQueryEither(p) ==
  LET id == Condition(NoCondition, p.id > 0, "id", p.id)
      channel == Condition(id, p.nAnaChannel > 0, "anachannel", p.nAnaChannel)
      types == p.nAnaMainType > 0 \/ p.nAnaSubType > 0
      mainType == Condition(channel, types, "anamaintype", p.nAnaMainType)
  IN  Condition(mainType, types, "anasubtype", p.nAnaSubType)

\* The types count only together
DelRuleQuery(p) ==
  LET id == Condition(NoCondition, p.id > 0, "id", p.id)
      channel == Condition(id, p.nAnaChannel > 0, "anachannel", p.nAnaChannel)
      types == p.nAnaMainType > 0 /\ p.nAnaSubType > 0
      mainType == Condition(channel, types, "anamaintype", p.nAnaMainType)
  IN  Condition(mainType, types, "anasubtype", p.nAnaSubType)

DelRuleStmt(t, lastId, p) ==
  LET q == DelRuleQuery(p)
  IN  IF t.hasRules /\ Compiles(q)
      THEN Done([ t EXCEPT !.rules = @ \ Selected(@, q) ], lastId)
      ELSE Failed(t, lastId)
=============================================================================
