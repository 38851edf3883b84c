------------------------ MODULE LinkRuleTablesProofs ------------------------
(***************************************************************************)
(* Lemmas about the statements of LinkRuleTables: each maps tables to      *)
(* tables, none makes a second rule of a key, SetRuleInfo writes one rule, *)
(* and a chain of conditions selects what meets every one of them.         *)
(***************************************************************************)
EXTENDS LinkRuleTables, SequenceTheorems, TLAPS

StmtResult == [ tables : Tables, ret : {0, -1}, lastId : Nat ]

\* What RuleKeysUnique says, of any tables
UniqueKeys(t) == \A r, s \in t.rules : RuleKey(r) = RuleKey(s) => r = s

-----------------------------------------------------------------------------
(* Every statement yields tables, a result and an insert id. *)

LEMMA CreateTableType ==
  ASSUME NEW t \in Tables, NEW i \in Nat
  PROVE  CreateTableStmt(t, i) \in StmtResult
BY DEF CreateTableStmt, Done, Failed, StmtResult, Tables

LEMMA DropTableType ==
  ASSUME NEW t \in Tables, NEW i \in Nat
  PROVE  DropLinksStmt(t, i) \in StmtResult /\ DropRulesStmt(t, i) \in StmtResult
BY DEF DropLinksStmt, DropRulesStmt, Done, Failed, StmtResult, Tables

LEMMA InsertChannelType ==
  ASSUME NEW t \in Tables, NEW p \in LinkData
  PROVE  InsertChannel(t, p) \in Tables
<1>1. NewChannelRow(t, p) \in ChannelRow
  BY DEF NewChannelRow, ChannelRow, Tables, LinkData, Id
<1>2. t.links \union {NewChannelRow(t, p)} \in SUBSET ChannelRow
  BY <1>1 DEF Tables
<1>3. t.linkSeq + 1 \in Nat
  BY DEF Tables
<1>4. QED
  BY <1>2, <1>3 DEF InsertChannel, Tables

LEMMA AddLinkType ==
  ASSUME NEW t \in Tables, NEW i \in Nat, NEW p \in LinkData
  PROVE  AddLinkStmt(t, i, p) \in StmtResult
<1>1. t.linkSeq + 1 \in Nat
  BY DEF Tables
<1>2. QED
  BY <1>1, InsertChannelType DEF AddLinkStmt, Done, Failed, StmtResult

LEMMA DelLinkType ==
  ASSUME NEW t \in Tables, NEW i \in Nat, NEW p \in LinkData
  PROVE  DelLinkStmt(t, i, p) \in StmtResult
<1> DEFINE kept == t.links \ Selected(t.links, DelLinkQuery(p))
<1>1. [t EXCEPT !.links = kept] \in Tables
  <2> HIDE DEF kept
  <2>1. kept \subseteq t.links
    BY DEF kept
  <2>2. QED
    BY <2>1 DEF Tables
<1>2. QED
  BY <1>1 DEF DelLinkStmt, Done, Failed, StmtResult

LEMMA SetLinkType ==
  ASSUME NEW t \in Tables, NEW i \in Nat, NEW n \in Int, NEW p \in LinkData
  PROVE  SetLinkStmt(t, i, n, p) \in StmtResult
<1> DEFINE updated == {IF r.anachannel = n THEN UpdatedChannel(r, p) ELSE r : r \in t.links}
<1>1. ASSUME NEW r \in ChannelRow PROVE UpdatedChannel(r, p) \in ChannelRow
  BY DEF UpdatedChannel, ChannelRow, LinkData
<1>2. updated \in SUBSET ChannelRow
  BY <1>1 DEF Tables
<1>3. [t EXCEPT !.links = updated] \in Tables
  <2> HIDE DEF updated
  <2>1. QED
    BY <1>2 DEF Tables
<1>4. t.linkSeq + 1 \in Nat
  BY DEF Tables
<1>5. QED
  BY <1>3, <1>4, InsertChannelType DEF SetLinkStmt, Done, Failed, StmtResult

LEMMA AddRuleType ==
  ASSUME NEW t \in Tables, NEW i \in Nat, NEW p \in LinkData
  PROVE  AddRuleStmt(t, i, p) \in StmtResult
BY DEF AddRuleStmt, Failed, StmtResult

LEMMA DelRuleType ==
  ASSUME NEW t \in Tables, NEW i \in Nat, NEW p \in LinkData
  PROVE  DelRuleStmt(t, i, p) \in StmtResult
<1> DEFINE kept == t.rules \ Selected(t.rules, DelRuleQuery(p))
<1>1. [t EXCEPT !.rules = kept] \in Tables
  <2> HIDE DEF kept
  <2>1. kept \subseteq t.rules
    BY DEF kept
  <2>2. QED
    BY <2>1 DEF Tables
<1>2. QED
  BY <1>1 DEF DelRuleStmt, Done, Failed, StmtResult

LEMMA SetRuleType ==
  ASSUME NEW t \in Tables, NEW i \in Nat, NEW n \in Int, NEW p \in LinkData
  PROVE  SetRuleStmt(t, i, n, p) \in StmtResult
<1> DEFINE key == << n, p.nAnaMainType, p.nAnaSubType >>
           row == NewRuleRow(t, n, p)
           updated == {IF RuleKey(r) = key THEN [r EXCEPT !.line1 = p.szLine] ELSE r : r \in t.rules}
<1>1. row \in RuleRow /\ t.ruleSeq + 1 \in Nat
  BY DEF NewRuleRow, RuleRow, Tables, LinkData, Id
<1>2. ASSUME NEW r \in RuleRow PROVE [r EXCEPT !.line1 = p.szLine] \in RuleRow
  BY DEF RuleRow, LinkData
<1>3. updated \in SUBSET RuleRow
  BY <1>2 DEF Tables
<1>4. [t EXCEPT !.rules = updated] \in Tables
  <2> HIDE DEF updated
  <2>1. QED
    BY <1>3 DEF Tables
<1>5. InsertRule(t, n, p) \in Tables
  <2> HIDE DEF row
  <2>1. QED
    BY <1>1 DEF InsertRule, Tables, row
<1>6. QED
  BY <1>1, <1>4, <1>5 DEF SetRuleStmt, Done, Failed, StmtResult

-----------------------------------------------------------------------------
(* Only SetRuleInfo writes rules; the others keep keys unique trivially. *)

LEMMA OtherStatementsKeepKeys ==
  ASSUME NEW t \in Tables, NEW i \in Nat, NEW n \in Int, NEW p \in LinkData, UniqueKeys(t)
  PROVE  /\ UniqueKeys(CreateTableStmt(t, i).tables)
         /\ UniqueKeys(DropLinksStmt(t, i).tables)
         /\ UniqueKeys(DropRulesStmt(t, i).tables)
         /\ UniqueKeys(AddLinkStmt(t, i, p).tables)
         /\ UniqueKeys(DelLinkStmt(t, i, p).tables)
         /\ UniqueKeys(SetLinkStmt(t, i, n, p).tables)
         /\ UniqueKeys(AddRuleStmt(t, i, p).tables)
<1>1. UniqueKeys(CreateTableStmt(t, i).tables)
  BY DEF CreateTableStmt, Done, Failed, UniqueKeys, Tables
<1>2. UniqueKeys(DropLinksStmt(t, i).tables) /\ UniqueKeys(DropRulesStmt(t, i).tables)
  BY DEF DropLinksStmt, DropRulesStmt, Done, Failed, UniqueKeys, Tables
<1>3. UniqueKeys(AddLinkStmt(t, i, p).tables)
  BY DEF AddLinkStmt, InsertChannel, Done, Failed, UniqueKeys, Tables
<1>4. UniqueKeys(DelLinkStmt(t, i, p).tables)
  BY DEF DelLinkStmt, Done, Failed, UniqueKeys, Tables
<1>5. UniqueKeys(SetLinkStmt(t, i, n, p).tables)
  BY DEF SetLinkStmt, InsertChannel, Done, Failed, UniqueKeys, Tables
<1>6. UniqueKeys(AddRuleStmt(t, i, p).tables)
  BY DEF AddRuleStmt, Failed
<1>7. QED
  BY <1>1, <1>2, <1>3, <1>4, <1>5, <1>6

LEMMA DelRuleKeepsKeys ==
  ASSUME NEW t \in Tables, NEW i \in Nat, NEW p \in LinkData, UniqueKeys(t)
  PROVE  UniqueKeys(DelRuleStmt(t, i, p).tables)
<1>1. t.rules \ Selected(t.rules, DelRuleQuery(p)) \subseteq t.rules
  OBVIOUS
<1>2. QED
  BY <1>1 DEF DelRuleStmt, Done, Failed, UniqueKeys, Tables

\* An update keeps every key; an insert finds its key free.
LEMMA SetRuleKeepsKeys ==
  ASSUME NEW t \in Tables, NEW i \in Nat, NEW n \in Int, NEW p \in LinkData, UniqueKeys(t)
  PROVE  UniqueKeys(SetRuleStmt(t, i, n, p).tables)
<1> DEFINE key == << n, p.nAnaMainType, p.nAnaSubType >>
           row == NewRuleRow(t, n, p)
           Up(r) == IF RuleKey(r) = key THEN [r EXCEPT !.line1 = p.szLine] ELSE r
           updated == {Up(r) : r \in t.rules}
           after == SetRuleStmt(t, i, n, p).tables
<1>1. CASE ~t.hasRules
  BY <1>1 DEF SetRuleStmt, Failed
<1>2. CASE t.hasRules /\ \E r \in t.rules : RuleKey(r) = key
  <2>1. after.rules = updated
    BY <1>2 DEF SetRuleStmt, Done, Tables
  <2>2. ASSUME NEW r \in t.rules PROVE RuleKey(Up(r)) = RuleKey(r)
    <3>1. r \in RuleRow
      BY DEF Tables
    <3>2. QED
      BY <3>1 DEF RuleKey, RuleRow
  <2>3. ASSUME NEW r \in updated, NEW s \in updated, RuleKey(r) = RuleKey(s) PROVE r = s
    <3>1. PICK r0 \in t.rules : r = Up(r0)
      OBVIOUS
    <3>2. PICK s0 \in t.rules : s = Up(s0)
      OBVIOUS
    <3>3. RuleKey(r0) = RuleKey(s0)
      BY <2>2, <2>3, <3>1, <3>2
    <3>4. r0 = s0
      BY <3>3 DEF UniqueKeys
    <3>5. QED
      BY <3>1, <3>2, <3>4
  <2>4. QED
    BY <2>1, <2>3 DEF UniqueKeys
<1>3. CASE t.hasRules /\ ~ \E r \in t.rules : RuleKey(r) = key
  <2>1. after.rules = t.rules \union {row}
    BY <1>3 DEF SetRuleStmt, InsertRule, Done, Tables
  <2>2. RuleKey(row) = key
    BY DEF NewRuleRow, RuleKey
  <2>3. ASSUME NEW r \in after.rules, NEW s \in after.rules, RuleKey(r) = RuleKey(s) PROVE r = s
    <3> HIDE DEF row, after, key
    <3>1. QED
      BY <1>3, <2>1, <2>2, <2>3 DEF UniqueKeys
  <2>4. QED
    BY <2>3 DEF UniqueKeys
<1>4. QED
  BY <1>1, <1>2, <1>3

\* SetRuleInfo leaves the text under its key and the other keys alone
LEMMA SetRuleUpserts ==
  ASSUME NEW t \in Tables, NEW i \in Nat, NEW n \in Int, NEW p \in LinkData, t.hasRules
  PROVE  LET key == << n, p.nAnaMainType, p.nAnaSubType >>
             after == SetRuleStmt(t, i, n, p).tables
         IN  /\ \E r \in after.rules : RuleKey(r) = key /\ r.line1 = p.szLine
             /\ {r \in after.rules : RuleKey(r) # key} = {r \in t.rules : RuleKey(r) # key}
<1> DEFINE key == << n, p.nAnaMainType, p.nAnaSubType >>
           row == NewRuleRow(t, n, p)
           Up(r) == IF RuleKey(r) = key THEN [r EXCEPT !.line1 = p.szLine] ELSE r
           after == SetRuleStmt(t, i, n, p).tables
<1>1. CASE \E r \in t.rules : RuleKey(r) = key
  <2>1. after.rules = {Up(r) : r \in t.rules}
    BY <1>1 DEF SetRuleStmt, Done, Tables
  <2>2. ASSUME NEW r \in t.rules, RuleKey(r) = key PROVE RuleKey(Up(r)) = key /\ Up(r).line1 = p.szLine
    <3>1. r \in RuleRow
      BY DEF Tables
    <3>2. QED
      BY <2>2, <3>1 DEF RuleKey, RuleRow
  <2>3. ASSUME NEW r \in t.rules, RuleKey(r) # key PROVE Up(r) = r
    BY <2>3
  <2> HIDE DEF key, after, Up
  <2>4. QED
    BY <1>1, <2>1, <2>2, <2>3 DEF key, after
<1>2. CASE ~ \E r \in t.rules : RuleKey(r) = key
  <2>1. after.rules = t.rules \union {row}
    BY <1>2 DEF SetRuleStmt, InsertRule, Done, Tables
  <2>2. RuleKey(row) = key /\ row.line1 = p.szLine
    BY DEF NewRuleRow, RuleKey
  <2> HIDE DEF key, after, row
  <2>3. QED
    BY <1>2, <2>1, <2>2 DEF key, after
<1>3. QED
  BY <1>1, <1>2

-----------------------------------------------------------------------------
(* The conditions of a DELETE or a SELECT *)

Columns == {"id", "anachannel", "anamaintype", "anasubtype"}

\* bMulti says whether there is a condition yet, and what there is compiles
Chained(q) ==
  /\ q.conditions \in Seq({"WHERE", "AND"} \X Columns \X Int)
  /\ q.bMulti <=> q.conditions # << >>
  /\ Compiles(q)

LEMMA NothingChained == Chained(NoCondition) /\ ~NoCondition.bMulti /\ \A r : Selects(NoCondition, r)
BY DEF NoCondition, Chained, Compiles, Selects

\* next is q with one more condition, if it is wanted
Narrows(next, q, wanted, column, value) ==
  /\ Chained(next)
  /\ next.bMulti <=> q.bMulti \/ wanted
  /\ \A r : Selects(next, r) <=> Selects(q, r) /\ (wanted => r[column] = value)

\* One more condition compiles with those before it and selects among their rows
LEMMA ConditionChains ==
  ASSUME NEW q, Chained(q), NEW wanted, NEW column \in Columns, NEW value \in Int
  PROVE  Narrows(Condition(q, wanted, column, value), q, wanted, column, value)
<1> DEFINE next == Condition(q, wanted, column, value)
           s == q.conditions
           x == << IF q.bMulti THEN "AND" ELSE "WHERE", column, value >>
           a == Append(s, x)
<1>1. CASE ~wanted
  BY <1>1 DEF Condition, Narrows
<1>2. CASE wanted
  <2>1. next.conditions = a /\ next.bMulti = TRUE
    BY <1>2 DEF Condition
  <2>2. /\ x \in {"WHERE", "AND"} \X Columns \X Int
        /\ x[1] = (IF s = << >> THEN "WHERE" ELSE "AND") /\ x[2] = column /\ x[3] = value
    BY DEF Chained
  <2>3. s \in Seq({"WHERE", "AND"} \X Columns \X Int)
    BY DEF Chained
  <2> HIDE DEF next, x
  <2>4. /\ a \in Seq({"WHERE", "AND"} \X Columns \X Int)
        /\ Len(a) = Len(s) + 1 /\ a[Len(s) + 1] = x
        /\ \A i \in 1..Len(s) : a[i] = s[i]
    BY <2>2, <2>3, AppendProperties
  <2>5. DOMAIN s = 1..Len(s) /\ DOMAIN a = 1..Len(s) + 1 /\ Len(s) \in Nat /\ (s = << >> <=> Len(s) = 0)
    BY <2>3, <2>4, EmptySeq, LenProperties
  <2>6. DOMAIN a = DOMAIN s \union {Len(s) + 1}
    BY <2>5
  <2> HIDE DEF a
  <2>7. \A i \in DOMAIN a : a[i][1] = IF i = 1 THEN "WHERE" ELSE "AND"
    <3>1. \A i \in DOMAIN s : a[i][1] = IF i = 1 THEN "WHERE" ELSE "AND"
      BY <2>4, <2>5 DEF Chained, Compiles
    <3>2. a[Len(s) + 1][1] = IF Len(s) + 1 = 1 THEN "WHERE" ELSE "AND"
      BY <2>2, <2>4, <2>5
    <3>3. QED
      BY <2>6, <3>1, <3>2
  <2>8. ASSUME NEW r PROVE Selects(next, r) <=> Selects(q, r) /\ r[column] = value
    <3>1. \A i \in DOMAIN s : (r[a[i][2]] = a[i][3]) = (r[s[i][2]] = s[i][3])
      BY <2>4, <2>5
    <3>2. (r[a[Len(s) + 1][2]] = a[Len(s) + 1][3]) = (r[column] = value)
      BY <2>2, <2>4
    <3>3. QED
      BY <2>1, <2>6, <3>1, <3>2 DEF Selects
  <2>9. a # << >>
    BY <2>4, <2>5, EmptySeq
  <2>10. Chained(next)
    BY <2>1, <2>4, <2>7, <2>9 DEF Chained, Compiles
  <2>11. QED
    BY <1>2, <2>1, <2>8, <2>10 DEF next, Narrows
<1>3. QED
  BY <1>1, <1>2

LEMMA SelectedIs ==
  ASSUME NEW q, Chained(q), NEW rows
  PROVE  Selected(rows, q) = {r \in rows : Selects(q, r)}
BY DEF Selected, Chained

\* What a query of the channels, or of the rules, selects
LEMMA LinkQuerySelects ==
  ASSUME NEW t, NEW p \in LinkData
  PROVE  GetLinkRows(t, p) =
           {r \in t.links : (p.id > 0 => r.id = p.id) /\ (p.nAnaChannel > 0 => r.anachannel = p.nAnaChannel)}
<1> DEFINE q1 == Condition(NoCondition, p.id > 0, "id", p.id)
           q2 == Condition(q1, p.nAnaChannel > 0, "anachannel", p.nAnaChannel)
<1>1. /\ p.id \in Int /\ p.nAnaChannel \in Int
      /\ "id" \in Columns /\ "anachannel" \in Columns /\ "anamaintype" \in Columns /\ "anasubtype" \in Columns
  BY DEF LinkData, Columns
<1>2. GetLinkRows(t, p) = Selected(t.links, q2)
  BY DEF GetLinkRows
<1>3. Narrows(q1, NoCondition, p.id > 0, "id", p.id)
  BY <1>1, NothingChained, ConditionChains
<1> HIDE DEF q1
<1>4. Narrows(q2, q1, p.nAnaChannel > 0, "anachannel", p.nAnaChannel)
  <2>1. Chained(q1)
    BY <1>3 DEF Narrows
  <2>2. QED
    BY <1>1, <2>1, ConditionChains
<1> HIDE DEF q2
<1>5. Compiles(q2) /\ Selected(t.links, q2) = {r \in t.links : Selects(q2, r)}
  BY <1>4, SelectedIs DEF Narrows, Chained
<1>6. QED
  BY <1>2, <1>3, <1>4, <1>5, NothingChained DEF Narrows

LEMMA RuleQuerySelects ==
  ASSUME NEW t, NEW p \in LinkData
  PROVE  GetRuleRows(t, p) =
           {r \in t.rules :
              /\ p.id > 0 => r.id = p.id
              /\ p.nAnaChannel > 0 => r.anachannel = p.nAnaChannel
              /\ p.nAnaMainType > 0 =>
                   r.anamaintype = IF p.id > 0 \/ p.nAnaChannel > 0 THEN p.nAnaMainType ELSE p.nAnaSubType
              /\ p.nAnaSubType > 0 => r.anasubtype = p.nAnaSubType}
<1> DEFINE q1 == Condition(NoCondition, p.id > 0, "id", p.id)
           q2 == Condition(q1, p.nAnaChannel > 0, "anachannel", p.nAnaChannel)
           v == IF q2.bMulti THEN p.nAnaMainType ELSE p.nAnaSubType
           q3 == Condition(q2, p.nAnaMainType > 0, "anamaintype", v)
           q4 == Condition(q3, p.nAnaSubType > 0, "anasubtype", p.nAnaSubType)
<1>1. /\ p.id \in Int /\ p.nAnaChannel \in Int /\ p.nAnaMainType \in Int /\ p.nAnaSubType \in Int
      /\ "id" \in Columns /\ "anachannel" \in Columns /\ "anamaintype" \in Columns /\ "anasubtype" \in Columns
  BY DEF LinkData, Columns
<1>2. GetRuleRows(t, p) = Selected(t.rules, q4)
  BY DEF GetRuleRows
<1>3. Narrows(q1, NoCondition, p.id > 0, "id", p.id)
  BY <1>1, NothingChained, ConditionChains
<1> HIDE DEF q1
<1>4. Narrows(q2, q1, p.nAnaChannel > 0, "anachannel", p.nAnaChannel)
  <2>1. Chained(q1)
    BY <1>3 DEF Narrows
  <2>2. QED
    BY <1>1, <2>1, ConditionChains
<1> HIDE DEF q2
<1>5. v \in Int
  BY <1>1
<1>6. v = IF p.id > 0 \/ p.nAnaChannel > 0 THEN p.nAnaMainType ELSE p.nAnaSubType
  BY <1>3, <1>4, NothingChained DEF Narrows
<1> HIDE DEF v
<1>7. Narrows(q3, q2, p.nAnaMainType > 0, "anamaintype", v)
  <2>1. Chained(q2)
    BY <1>4 DEF Narrows
  <2>2. QED
    BY <1>1, <1>5, <2>1, ConditionChains
<1> HIDE DEF q3
<1>8. Narrows(q4, q3, p.nAnaSubType > 0, "anasubtype", p.nAnaSubType)
  <2>1. Chained(q3)
    BY <1>7 DEF Narrows
  <2>2. QED
    BY <1>1, <2>1, ConditionChains
<1> HIDE DEF q4
<1>9. Compiles(q4) /\ Selected(t.rules, q4) = {r \in t.rules : Selects(q4, r)}
  BY <1>8, SelectedIs DEF Narrows, Chained
<1>10. QED
  BY <1>2, <1>3, <1>4, <1>5, <1>6, <1>7, <1>8, <1>9, NothingChained DEF Narrows

\* What a deletion of channels, or of rules, selects
LEMMA DelLinkSelects ==
  ASSUME NEW rows, NEW p \in LinkData
  PROVE  /\ Compiles(DelLinkQuery(p))
         /\ Selected(rows, DelLinkQuery(p)) =
              {r \in rows : /\ p.id > 0 => r.anachannel = p.id
                            /\ p.nAnaChannel > 0 => r.anachannel = p.nAnaChannel}
<1> DEFINE q1 == Condition(NoCondition, p.id > 0, "anachannel", p.id)
           q2 == Condition(q1, p.nAnaChannel > 0, "anachannel", p.nAnaChannel)
<1>1. /\ p.id \in Int /\ p.nAnaChannel \in Int
      /\ "id" \in Columns /\ "anachannel" \in Columns /\ "anamaintype" \in Columns /\ "anasubtype" \in Columns
  BY DEF LinkData, Columns
<1>2. DelLinkQuery(p) = q2
  BY DEF DelLinkQuery
<1>3. Narrows(q1, NoCondition, p.id > 0, "anachannel", p.id)
  BY <1>1, NothingChained, ConditionChains
<1> HIDE DEF q1
<1>4. Narrows(q2, q1, p.nAnaChannel > 0, "anachannel", p.nAnaChannel)
  <2>1. Chained(q1)
    BY <1>3 DEF Narrows
  <2>2. QED
    BY <1>1, <2>1, ConditionChains
<1> HIDE DEF q2
<1>5. Compiles(q2) /\ Selected(rows, q2) = {r \in rows : Selects(q2, r)}
  BY <1>4, SelectedIs DEF Narrows, Chained
<1>6. QED
  BY <1>2, <1>3, <1>4, <1>5, NothingChained DEF Narrows

LEMMA DelRuleSelects ==
  ASSUME NEW rows, NEW p \in LinkData
  PROVE  /\ Compiles(DelRuleQuery(p))
         /\ Selected(rows, DelRuleQuery(p)) =
              {r \in rows :
                 /\ p.id > 0 => r.id = p.id
                 /\ p.nAnaChannel > 0 => r.anachannel = p.nAnaChannel
                 /\ p.nAnaMainType > 0 /\ p.nAnaSubType > 0 =>
                      r.anamaintype = p.nAnaMainType /\ r.anasubtype = p.nAnaSubType}
<1> DEFINE q1 == Condition(NoCondition, p.id > 0, "id", p.id)
           q2 == Condition(q1, p.nAnaChannel > 0, "anachannel", p.nAnaChannel)
           w == p.nAnaMainType > 0 /\ p.nAnaSubType > 0
           q3 == Condition(q2, w, "anamaintype", p.nAnaMainType)
           q4 == Condition(q3, w, "anasubtype", p.nAnaSubType)
<1>1. /\ p.id \in Int /\ p.nAnaChannel \in Int /\ p.nAnaMainType \in Int /\ p.nAnaSubType \in Int
      /\ "id" \in Columns /\ "anachannel" \in Columns /\ "anamaintype" \in Columns /\ "anasubtype" \in Columns
  BY DEF LinkData, Columns
<1>2. DelRuleQuery(p) = q4
  BY DEF DelRuleQuery
<1>3. Narrows(q1, NoCondition, p.id > 0, "id", p.id)
  BY <1>1, NothingChained, ConditionChains
<1> HIDE DEF q1
<1>4. Narrows(q2, q1, p.nAnaChannel > 0, "anachannel", p.nAnaChannel)
  <2>1. Chained(q1)
    BY <1>3 DEF Narrows
  <2>2. QED
    BY <1>1, <2>1, ConditionChains
<1> HIDE DEF q2
<1>5. Narrows(q3, q2, w, "anamaintype", p.nAnaMainType)
  <2>1. Chained(q2)
    BY <1>4 DEF Narrows
  <2>2. QED
    BY <1>1, <2>1, ConditionChains
<1> HIDE DEF q3
<1>6. Narrows(q4, q3, w, "anasubtype", p.nAnaSubType)
  <2>1. Chained(q3)
    BY <1>5 DEF Narrows
  <2>2. QED
    BY <1>1, <2>1, ConditionChains
<1> HIDE DEF q4
<1>7. Compiles(q4) /\ Selected(rows, q4) = {r \in rows : Selects(q4, r)}
  BY <1>6, SelectedIs DEF Narrows, Chained
<1>8. QED
  BY <1>2, <1>3, <1>4, <1>5, <1>6, <1>7, NothingChained DEF Narrows
=============================================================================
