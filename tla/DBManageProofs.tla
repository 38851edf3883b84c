--------------------------- MODULE DBManageProofs ---------------------------
(***************************************************************************)
(* The safety properties of DBManage for every number of client threads,   *)
(* every set of calls and every bound.                                     *)
(***************************************************************************)
EXTENDS DBManage, LinkRuleTablesProofs

Places == {"idle", "fault"} \union Using \union Connecting \union Disconnecting

\* What a client's step at its statement is, whichever operation it runs
Statement(c) == \E stmt \in StmtResult, next \in {"request", "idle"} : Execute(c, stmt, next)

LEMMA OperationCases ==
  ASSUME DBTypeOK, NEW c \in Clients, Operation(c)
  PROVE  Enter(c) \/ Statement(c) \/ RequestCommit(c) \/ ReadId(c)
<1> DEFINE k == call[c]
<1>1. view \in Tables /\ lastId \in Nat
  BY DEF DBTypeOK
<1>2. k.op # "none" => k \in Call
  BY DBManageAssumption DEF DBTypeOK, NoCall
<1>3. k \in Call => k.n \in Int /\ k.p \in LinkData
  BY DEF Call
<1>4. CASE CreateTable(c)
  <2>1. CreateTableStmt(view, lastId) \in StmtResult
    BY <1>1, CreateTableType
  <2>2. QED
    BY <1>4, <2>1 DEF CreateTable, Statement
<1>5. CASE DropTable(c)
  <2>1. DropLinksStmt(view, lastId) \in StmtResult /\ DropRulesStmt(view, lastId) \in StmtResult
    BY <1>1, DropTableType
  <2>2. QED
    BY <1>5, <2>1 DEF DropTable, Statement
<1>6. CASE AddLinkInfo(c)
  <2>1. AddLinkStmt(view, lastId, k.p) \in StmtResult
    BY <1>1, <1>2, <1>3, <1>6, AddLinkType DEF AddLinkInfo
  <2>2. QED
    BY <1>6, <2>1 DEF AddLinkInfo, Statement
<1>7. CASE DelLinkInfo(c)
  <2>1. DelLinkStmt(view, lastId, k.p) \in StmtResult
    BY <1>1, <1>2, <1>3, <1>7, DelLinkType DEF DelLinkInfo
  <2>2. QED
    BY <1>7, <2>1 DEF DelLinkInfo, Statement
<1>8. CASE SetLinkInfo(c)
  <2>1. SetLinkStmt(view, lastId, k.n, k.p) \in StmtResult
    BY <1>1, <1>2, <1>3, <1>8, SetLinkType DEF SetLinkInfo
  <2>2. QED
    BY <1>8, <2>1 DEF SetLinkInfo, Statement
<1>9. CASE AddRuleInfo(c)
  <2>1. AddRuleStmt(view, lastId, k.p) \in StmtResult
    BY <1>1, <1>2, <1>3, <1>9, AddRuleType DEF AddRuleInfo
  <2>2. QED
    BY <1>9, <2>1 DEF AddRuleInfo, Statement
<1>10. CASE DelRuleInfo(c)
  <2>1. DelRuleStmt(view, lastId, k.p) \in StmtResult
    BY <1>1, <1>2, <1>3, <1>10, DelRuleType DEF DelRuleInfo
  <2>2. QED
    BY <1>10, <2>1 DEF DelRuleInfo, Statement
<1>11. CASE SetRuleInfo(c)
  <2>1. SetRuleStmt(view, lastId, k.n, k.p) \in StmtResult
    BY <1>1, <1>2, <1>3, <1>11, SetRuleType DEF SetRuleInfo
  <2>2. QED
    BY <1>11, <2>1 DEF SetRuleInfo, Statement
<1>12. CASE GetInfo(c)
  <2>1. Done(view, lastId) \in StmtResult
    BY <1>1 DEF Done, StmtResult
  <2>2. QED
    BY <1>12, <2>1 DEF GetInfo, Statement
<1>13. QED
  BY <1>4, <1>5, <1>6, <1>7, <1>8, <1>9, <1>10, <1>11, <1>12 DEF Operation

-----------------------------------------------------------------------------
(* Type correctness *)

LEMMA TypeInit == DBInit => DBTypeOK
<1> SUFFICES ASSUME DBInit PROVE DBTypeOK
  OBVIOUS
<1>1. pc \in [Clients -> Places]
  BY DEF DBInit, Places
<1>2. call \in [Clients -> Calls \union {NoCall}] /\ ret \in [Clients -> Int]
  BY DEF DBInit
<1>3. view \in Tables /\ file \in Tables
  BY DBManageAssumption DEF DBInit
<1>4. QED
  BY <1>1, <1>2, <1>3 DEF DBInit, DBTypeOK, Places

LEMMA StatementType ==
  ASSUME DBTypeOK, NEW c \in Clients, Statement(c)
  PROVE  DBTypeOK'
<1>1. PICK stmt \in StmtResult, next \in {"request", "idle"} : Execute(c, stmt, next)
  BY DEF Statement
<1>2. stmt.tables \in Tables /\ stmt.lastId \in Nat /\ stmt.ret \in Int
  BY DEF StmtResult
<1>3. pc' \in [Clients -> Places]
  BY <1>1 DEF DBTypeOK, Execute, Goto, Places, Using
<1>4. ret' \in [Clients -> Int] /\ cs' \in Clients \union {NoOne}
  BY <1>1, <1>2 DEF DBTypeOK, Execute
<1>5. view' \in Tables /\ file' \in Tables /\ lastId' \in Nat
  BY <1>1, <1>2 DEF DBTypeOK, Execute
<1>6. QED
  BY <1>1, <1>3, <1>4, <1>5 DEF DBTypeOK, Execute, threadVars, Places

LEMMA OperationType ==
  ASSUME DBTypeOK, NEW c \in Clients, Operation(c)
  PROVE  DBTypeOK'
<1>1. CASE Enter(c)
  BY <1>1 DEF DBTypeOK, Enter, Goto, Return, dbVars, threadVars, Using
<1>2. CASE Statement(c)
  BY <1>2, StatementType
<1>3. CASE RequestCommit(c)
  BY <1>3 DEF DBTypeOK, RequestCommit, Goto, dbVars, threadVars, Using
<1>4. CASE ReadId(c)
  <2>1. pc' \in [Clients -> Places] /\ ret' \in [Clients -> Int]
    BY <1>4 DEF DBTypeOK, ReadId, Goto, Return, Places
  <2>2. QED
    BY <1>4, <2>1 DEF DBTypeOK, ReadId, dbVars, threadVars, Places
<1>5. QED
  BY <1>1, <1>2, <1>3, <1>4, OperationCases

LEMMA StartCallType ==
  ASSUME DBTypeOK, NEW c \in Clients, NEW k \in Calls, StartCall(c, k)
  PROVE  DBTypeOK'
BY DEF DBTypeOK, StartCall, Goto, Return, dbVars, threadVars, Using

LEMMA OwnerType ==
  ASSUME DBTypeOK, OwnerStep \/ Connect \/ Reconnect \/ Disconnect
  PROVE  DBTypeOK'
<1>1. pc' \in [Clients -> Places]
  <2> USE DBManageAssumption DEF DBTypeOK, Goto, Return, Places, Connecting, Disconnecting
  <2>1. CASE Connect \/ Reconnect \/ Disconnect
    BY <2>1 DEF Connect, Reconnect, Disconnect
  <2>2. CASE ConnectEnter \/ OpenSucceeds \/ OpenFails \/ StartThread
    BY <2>2 DEF ConnectEnter, OpenSucceeds, OpenFails, StartThread
  <2>3. CASE CommitLast \/ StopThread \/ JoinThread \/ CloseDb \/ DeleteDb
    BY <2>3 DEF CommitLast, StopThread, JoinThread, CloseDb, DeleteDb
  <2>4. QED
    BY <2>1, <2>2, <2>3 DEF OwnerStep
<1>2. ret' \in [Clients -> Int]
  <2> USE DEF DBTypeOK, Return
  <2>1. CASE Connect \/ Reconnect \/ Disconnect
    BY <2>1 DEF Connect, Reconnect, Disconnect
  <2>2. CASE ConnectEnter \/ OpenSucceeds \/ OpenFails \/ StartThread
    BY <2>2 DEF ConnectEnter, OpenSucceeds, OpenFails, StartThread
  <2>3. CASE CommitLast \/ StopThread \/ JoinThread \/ CloseDb \/ DeleteDb
    BY <2>3 DEF CommitLast, StopThread, JoinThread, CloseDb, DeleteDb
  <2>4. QED
    BY <2>1, <2>2, <2>3 DEF OwnerStep
<1>3. count' \in [ calls : Nat, opens : Nat, crashes : Nat ]
  BY DEF DBTypeOK, OwnerStep, Connect, Reconnect, Disconnect, ConnectEnter, OpenSucceeds, OpenFails,
         StartThread, CommitLast, StopThread, JoinThread, CloseDb, DeleteDb
<1>4. view' \in Tables /\ file' \in Tables /\ lastId' \in Nat
  BY DEF DBTypeOK, OwnerStep, Connect, Reconnect, Disconnect, ConnectEnter, OpenSucceeds, OpenFails,
         StartThread, CommitLast, EndTransaction, StopThread, JoinThread, CloseDb, DeleteDb, dbVars
<1>5. call' = call /\ cs' \in Clients \union {NoOne}
  BY DBManageAssumption
     DEF DBTypeOK, OwnerStep, Connect, Reconnect, Disconnect, ConnectEnter, OpenSucceeds, OpenFails,
         StartThread, CommitLast, EndTransaction, StopThread, JoinThread, CloseDb, DeleteDb
<1> USE <1>1, <1>2, <1>3, <1>4, <1>5 DEF DBTypeOK, Places, dbVars, threadVars
<1>6. CASE Connect
  BY <1>6 DEF Connect
<1>7. CASE Reconnect \/ Disconnect
  BY <1>7 DEF Reconnect, Disconnect
<1>8. CASE ConnectEnter \/ OpenFails
  BY <1>8 DEF ConnectEnter, OpenFails
<1>9. CASE OpenSucceeds
  BY <1>9 DEF OpenSucceeds
<1>10. CASE StartThread
  <2>1. /\ handle' \in BOOLEAN /\ m_bCommit' \in BOOLEAN /\ m_bExit' \in BOOLEAN
        /\ m_hCommitPro' \in BOOLEAN /\ m_hEvent' \in BOOLEAN
    BY <1>10 DEF StartThread
  <2>2. thr' \in {"none", "top", "check", "end", "begin", "clear", "wait", "signal"}
    BY <1>10 DEF StartThread
  <2>3. m_db' = m_db /\ tx' = tx
    BY <1>10 DEF StartThread
  <2>4. QED
    BY <2>1, <2>2, <2>3
<1>11. CASE CommitLast
  BY <1>11 DEF CommitLast, EndTransaction
<1>12. CASE StopThread
  BY <1>12 DEF StopThread
<1>13. CASE JoinThread
  BY <1>13 DEF JoinThread
<1>14. CASE CloseDb
  BY <1>14 DEF CloseDb
<1>15. CASE DeleteDb
  BY <1>15 DEF DeleteDb
<1>16. QED
  BY <1>6, <1>7, <1>8, <1>9, <1>10, <1>11, <1>12, <1>13, <1>14, <1>15 DEF OwnerStep

LEMMA ThreadType == ASSUME DBTypeOK, ThreadStep PROVE DBTypeOK'
<1> USE DEF DBTypeOK, ThreadGoto, clientVars, dbVars
<1>1. CASE ThreadTop \/ ThreadCheck \/ ThreadClear \/ ThreadWait \/ ThreadSignal
  BY <1>1 DEF ThreadTop, ThreadCheck, ThreadClear, ThreadWait, ThreadSignal
<1>2. CASE ThreadEnd
  BY <1>2 DEF ThreadEnd, EndTransaction
<1>3. CASE ThreadBegin
  BY <1>3 DEF ThreadBegin, BeginTransaction
<1>4. QED
  BY <1>1, <1>2, <1>3 DEF ThreadStep

LEMMA CrashType == ASSUME DBTypeOK, Crash PROVE DBTypeOK'
<1>1. pc' \in [Clients -> Places]
  BY DEF Crash, Places
<1>2. count' \in [ calls : Nat, opens : Nat, crashes : Nat ]
  BY DEF Crash, DBTypeOK
<1>3. view' \in Tables /\ file' \in Tables
  BY DEF Crash, DBTypeOK
<1>4. QED
  BY <1>1, <1>2, <1>3 DEF Crash, DBTypeOK, Places

LEMMA TypeStep == DBTypeOK /\ [DBNext]_manageVars => DBTypeOK'
<1> SUFFICES ASSUME DBTypeOK, [DBNext]_manageVars PROVE DBTypeOK'
  OBVIOUS
<1>1. CASE DBNext
  BY <1>1, OperationType, StartCallType, OwnerType, ThreadType, CrashType DEF DBNext
<1>2. CASE UNCHANGED manageVars
  BY <1>2 DEF manageVars, DBTypeOK
<1>3. QED
  BY <1>1, <1>2

\* Every variable keeps its type, the tables included.
THEOREM TypeCorrect == DBSpec => []DBTypeOK
BY TypeInit, TypeStep, PTL DEF DBSpec

-----------------------------------------------------------------------------
(* The control flow of a client and of the commit thread, without the data *)

Move(c, from, to) == pc[c] = from /\ pc' = [pc EXCEPT ![c] = to]

ClientMove(c) ==
  /\ \/ /\ Move(c, "idle", "idle") \/ Move(c, "idle", "enter")
        /\ Quiesce => pc[Owner] \notin Connecting \union Disconnecting
        /\ handle /\ cs' = cs
     \/ m_db = "null" /\ cs = NoOne /\ Move(c, "enter", "idle") /\ cs' = cs
     \/ m_db # "null" /\ cs = NoOne /\ Move(c, "enter", "exec") /\ cs' = c
     \/ m_db = "null" /\ (Move(c, "exec", "fault") \/ Move(c, "readid", "fault")) /\ cs' = cs
     \/ m_db # "null" /\ (Move(c, "exec", "request") \/ Move(c, "exec", "idle")) /\ cs' = NoOne
     \/ (Move(c, "request", "readid") \/ Move(c, "request", "idle")) /\ cs' = cs
     \/ m_db # "null" /\ Move(c, "readid", "idle") /\ cs' = cs
  /\ UNCHANGED << handle, m_db, tx, m_bExit, m_hCommitPro, m_hEvent, thr >>

LEMMA OperationMoves ==
  ASSUME DBTypeOK, NEW c \in Clients, Operation(c)
  PROVE  ClientMove(c)
<1>1. CASE Enter(c)
  BY <1>1 DEF Enter, ClientMove, Move, Goto, Return, dbVars, threadVars
<1>2. CASE Statement(c)
  <2>1. PICK stmt \in StmtResult, next \in {"request", "idle"} : Execute(c, stmt, next)
    BY <1>2 DEF Statement
  <2>2. UNCHANGED << handle, m_db, tx, m_bExit, m_hCommitPro, m_hEvent, thr >>
    BY <2>1 DEF Execute, threadVars
  <2>3. CASE m_db = "null"
    BY <2>1, <2>2, <2>3 DEF Execute, ClientMove, Move, Goto
  <2>4. CASE m_db # "null"
    BY <2>1, <2>2, <2>4 DEF Execute, ClientMove, Move, Goto
  <2>5. QED
    BY <2>3, <2>4
<1>3. CASE RequestCommit(c)
  <2>1. UNCHANGED << handle, m_db, tx, m_bExit, m_hCommitPro, m_hEvent, thr, cs >>
    BY <1>3 DEF RequestCommit, dbVars, threadVars
  <2>2. Move(c, "request", "readid") \/ Move(c, "request", "idle")
    BY <1>3 DEF RequestCommit, Move, Goto
  <2>3. QED
    BY <2>1, <2>2 DEF ClientMove
<1>4. CASE ReadId(c)
  <2>1. UNCHANGED << handle, m_db, tx, m_bExit, m_hCommitPro, m_hEvent, thr, cs >>
    BY <1>4 DEF ReadId, dbVars, threadVars
  <2>2. CASE m_db = "null"
    BY <1>4, <2>1, <2>2 DEF ReadId, ClientMove, Move, Goto
  <2>3. CASE m_db # "null"
    BY <1>4, <2>1, <2>3 DEF ReadId, ClientMove, Move, Goto, Return
  <2>4. QED
    BY <2>2, <2>3
<1>5. QED
  BY <1>1, <1>2, <1>3, <1>4, OperationCases

LEMMA StartCallMoves ==
  ASSUME DBTypeOK, NEW c \in Clients, NEW k \in Calls, StartCall(c, k)
  PROVE  ClientMove(c)
<1>1. UNCHANGED << handle, m_db, tx, m_bExit, m_hCommitPro, m_hEvent, thr, cs >>
  BY DEF StartCall, dbVars, threadVars
<1>2. Move(c, "idle", "idle") \/ Move(c, "idle", "enter")
  BY DEF StartCall, Move, Goto, Return
<1>3. handle /\ (Quiesce => pc[Owner] \notin Connecting \union Disconnecting)
  BY DEF StartCall
<1>4. QED
  BY <1>1, <1>2, <1>3 DEF ClientMove

\* The commit thread leaves the clients, the lock and the object alone
LEMMA ThreadFrame ==
  ASSUME ThreadStep
  PROVE  UNCHANGED << pc, call, ret, cs, handle, m_db, view, lastId, m_bExit, m_hCommitPro, count >>
BY DEF ThreadStep, ThreadTop, ThreadCheck, ThreadEnd, ThreadBegin, ThreadClear, ThreadWait,
       ThreadSignal, ThreadGoto, EndTransaction, BeginTransaction, clientVars, dbVars

\* The cases of a step that the lemmas below go through
LEMMA NextCases ==
  ASSUME DBTypeOK, [DBNext]_manageVars
  PROVE  \/ \E c \in Clients : ClientMove(c)
         \/ Connect \/ Reconnect \/ Disconnect
         \/ OwnerStep
         \/ ThreadStep
         \/ Crash
         \/ UNCHANGED manageVars
BY OperationMoves, StartCallMoves DEF DBNext

-----------------------------------------------------------------------------
(* The control part of the inductive invariant *)

ControlInv == DBTypeOK /\ Roles /\ LockInv /\ OpenInv /\ HandleInv /\ ThreadInv

LEMMA ControlInit == DBInit => ControlInv
<1> SUFFICES ASSUME DBInit PROVE ControlInv
  OBVIOUS
<1>1. Roles /\ LockInv
  BY DBManageAssumption DEF DBInit, Roles, LockInv
<1>2. OpenInv
  BY DBManageAssumption DEF DBInit, OpenInv
<1>3. HandleInv /\ ThreadInv
  BY DBManageAssumption DEF DBInit, HandleInv, OthersIdle, ThreadInv
<1>4. QED
  BY <1>1, <1>2, <1>3, TypeInit DEF ControlInv

LEMMA RolesStep == ASSUME ControlInv, [DBNext]_manageVars PROVE Roles'
<1> USE DBManageAssumption DEF ControlInv, DBTypeOK, Roles, Goto, Return, Using
<1>1. ASSUME NEW c \in Clients, ClientMove(c) PROVE Roles'
  BY <1>1 DEF ClientMove, Move
<1>2. CASE Connect \/ Reconnect \/ Disconnect
  BY <1>2 DEF Connect, Reconnect, Disconnect
<1>3. CASE OwnerStep
  BY <1>3 DEF OwnerStep, ConnectEnter, OpenSucceeds, OpenFails, StartThread,
              CommitLast, StopThread, JoinThread, CloseDb, DeleteDb
<1>4. CASE ThreadStep
  BY <1>4, ThreadFrame
<1>5. CASE Crash
  BY <1>5 DEF Crash
<1>6. CASE UNCHANGED manageVars
  BY <1>6 DEF manageVars
<1>7. QED
  BY <1>1, <1>2, <1>3, <1>4, <1>5, <1>6, NextCases

LEMMA LockStep == ASSUME ControlInv, [DBNext]_manageVars PROVE LockInv'
<1> USE DBManageAssumption DEF ControlInv, DBTypeOK, Roles, LockInv, Goto, Return, Using
<1>1. ASSUME NEW c \in Clients, ClientMove(c) PROVE LockInv'
  BY <1>1 DEF ClientMove, Move, Connecting, Disconnecting
<1>2. CASE Connect \/ Reconnect \/ Disconnect
  BY <1>2 DEF Connect, Reconnect, Disconnect
<1>3. CASE OwnerStep
  <2>1. CASE ConnectEnter \/ OpenSucceeds \/ OpenFails \/ StartThread
    BY <2>1 DEF ConnectEnter, OpenSucceeds, OpenFails, StartThread
  <2>2. CASE CommitLast \/ StopThread \/ JoinThread
    BY <2>2 DEF CommitLast, EndTransaction, StopThread, JoinThread
  <2>3. CASE CloseDb \/ DeleteDb
    BY <2>3 DEF CloseDb, DeleteDb
  <2>4. QED
    BY <1>3, <2>1, <2>2, <2>3 DEF OwnerStep
<1>4. CASE ThreadStep
  BY <1>4, ThreadFrame
<1>5. CASE Crash
  BY <1>5 DEF Crash
<1>6. CASE UNCHANGED manageVars
  BY <1>6 DEF manageVars
<1>7. QED
  BY <1>1, <1>2, <1>3, <1>4, <1>5, <1>6, NextCases

LEMMA OpenStep == ASSUME ControlInv, [DBNext]_manageVars PROVE OpenInv'
<1> USE DBManageAssumption DEF ControlInv, DBTypeOK, Roles, OpenInv, Goto, Return
<1>1. ASSUME NEW c \in Clients, ClientMove(c) PROVE OpenInv'
  <2>1. CASE c = Owner
    BY <1>1, <2>1 DEF ClientMove, Move
  <2>2. CASE c # Owner
    BY <1>1, <2>2 DEF ClientMove, Move
  <2>3. QED
    BY <2>1, <2>2
<1>2. CASE Connect \/ Reconnect \/ Disconnect
  BY <1>2 DEF Connect, Reconnect, Disconnect, dbVars
<1>3. CASE OwnerStep
  <2>1. CASE ConnectEnter
    BY <2>1 DEF ConnectEnter, dbVars
  <2>2. CASE OpenSucceeds \/ OpenFails \/ StartThread
    BY <2>2 DEF OpenSucceeds, OpenFails, StartThread, dbVars
  <2>3. CASE CommitLast \/ StopThread \/ JoinThread
    BY <2>3 DEF CommitLast, EndTransaction, StopThread, JoinThread, dbVars
  <2>4. CASE CloseDb \/ DeleteDb
    BY <2>4 DEF CloseDb, DeleteDb
  <2>5. QED
    BY <1>3, <2>1, <2>2, <2>3, <2>4 DEF OwnerStep
<1>4. CASE ThreadStep
  BY <1>4, ThreadFrame
<1>5. CASE Crash
  BY <1>5 DEF Crash
<1>6. CASE UNCHANGED manageVars
  BY <1>6 DEF manageVars
<1>7. QED
  BY <1>1, <1>2, <1>3, <1>4, <1>5, <1>6, NextCases

\* An object nobody was given has no client in a call
LEMMA HandleStep == ASSUME ControlInv, [DBNext]_manageVars PROVE HandleInv'
<1> USE DBManageAssumption DEF ControlInv, DBTypeOK, OpenInv, HandleInv, OthersIdle, Goto, Return
<1>1. ASSUME NEW c \in Clients, ClientMove(c) PROVE HandleInv'
  BY <1>1 DEF ClientMove, Move
<1>2. CASE Connect \/ Reconnect \/ Disconnect
  <2>1. CASE Connect
    BY <2>1 DEF Connect
  <2>2. CASE Reconnect \/ Disconnect
    BY <2>2 DEF Reconnect, Disconnect
  <2>3. QED
    BY <1>2, <2>1, <2>2
<1>3. CASE OwnerStep
  <2>1. CASE ConnectEnter
    BY <2>1 DEF ConnectEnter, dbVars, threadVars
  <2>2. CASE OpenSucceeds \/ OpenFails
    BY <2>2 DEF OpenSucceeds, OpenFails, threadVars
  <2>3. CASE StartThread
    BY <2>3 DEF StartThread, dbVars
  <2>4. CASE CommitLast \/ StopThread \/ JoinThread
    BY <2>4 DEF CommitLast, StopThread, JoinThread, threadVars, dbVars
  <2>5. CASE CloseDb \/ DeleteDb
    BY <2>5 DEF CloseDb, DeleteDb, threadVars
  <2>6. QED
    BY <1>3, <2>1, <2>2, <2>3, <2>4, <2>5 DEF OwnerStep
<1>4. CASE ThreadStep
  <2>1. handle' = handle /\ pc' = pc /\ m_db' = m_db
    BY <1>4, ThreadFrame
  <2>2. ~handle => ~m_bExit
    BY DEF ThreadInv
  <2>3. ~handle => ~m_bCommit' /\ thr' \in {"none", "top", "check", "wait"}
    BY <1>4, <2>2 DEF ThreadStep, ThreadTop, ThreadCheck, ThreadEnd, ThreadBegin, ThreadClear,
                      ThreadWait, ThreadSignal, ThreadGoto
  <2>4. QED
    BY <2>1, <2>3
<1>5. CASE Crash
  BY <1>5 DEF Crash
<1>6. CASE UNCHANGED manageVars
  BY <1>6 DEF manageVars
<1>7. QED
  BY <1>1, <1>2, <1>3, <1>4, <1>5, <1>6, NextCases

LEMMA ThreadInvStep == ASSUME ControlInv, [DBNext]_manageVars PROVE ThreadInv'
<1> USE DBManageAssumption DEF ControlInv, DBTypeOK, Roles, OpenInv, ThreadInv, Goto, Return
<1>1. ASSUME NEW c \in Clients, ClientMove(c) PROVE ThreadInv'
  BY <1>1 DEF ClientMove, Move
<1>2. CASE Connect \/ Reconnect \/ Disconnect
  BY <1>2 DEF Connect, Reconnect, Disconnect, dbVars, threadVars
<1>3. CASE OwnerStep
  <2>1. CASE ConnectEnter
    BY <2>1 DEF ConnectEnter, dbVars, threadVars
  <2>2. CASE OpenSucceeds \/ OpenFails
    BY <2>2 DEF OpenSucceeds, OpenFails, dbVars, threadVars
  <2>3. CASE StartThread
    BY <2>3 DEF StartThread, dbVars
  <2>4. CASE CommitLast
    BY <2>4 DEF CommitLast, EndTransaction, threadVars
  <2>5. CASE StopThread
    BY <2>5 DEF StopThread, dbVars
  <2>6. CASE JoinThread
    BY <2>6 DEF JoinThread, dbVars
  <2>7. CASE CloseDb
    BY <2>7 DEF CloseDb, threadVars
  <2>8. CASE DeleteDb
    BY <2>8 DEF DeleteDb, threadVars
  <2>9. QED
    BY <1>3, <2>1, <2>2, <2>3, <2>4, <2>5, <2>6, <2>7, <2>8 DEF OwnerStep
<1>4. CASE ThreadStep
  <2>1. CASE ThreadTop
    BY <1>4, <2>1, ThreadFrame DEF ThreadTop, ThreadGoto
  <2>2. CASE ThreadCheck \/ ThreadEnd \/ ThreadBegin \/ ThreadClear \/ ThreadWait
    BY <1>4, <2>2, ThreadFrame
       DEF ThreadCheck, ThreadEnd, ThreadBegin, ThreadClear, ThreadWait, ThreadGoto
  <2>3. CASE ThreadSignal
    BY <1>4, <2>3, ThreadFrame DEF ThreadSignal
  <2>4. QED
    BY <1>4, <2>1, <2>2, <2>3 DEF ThreadStep
<1>5. CASE Crash
  BY <1>5 DEF Crash
<1>6. CASE UNCHANGED manageVars
  BY <1>6 DEF manageVars
<1>7. QED
  BY <1>1, <1>2, <1>3, <1>4, <1>5, <1>6, NextCases

LEMMA ControlStep == ControlInv /\ [DBNext]_manageVars => ControlInv'
<1> SUFFICES ASSUME ControlInv, [DBNext]_manageVars PROVE ControlInv'
  OBVIOUS
<1>1. DBTypeOK'
  BY TypeStep DEF ControlInv
<1>2. QED
  BY <1>1, RolesStep, LockStep, OpenStep, HandleStep, ThreadInvStep DEF ControlInv

\* The commit thread's database is never NULL, closed or deleted, the thread is
\* always gone before ConnectSQL starts the next, and the thread of a connection
\* that failed leaves the dangling handle alone until a caller has the object.
THEOREM OneThread == DBSpec => []OneThreadPerDb
<1>1. ControlInv => OneThreadPerDb
  BY DEF ControlInv, OpenInv, HandleInv, ThreadInv, OneThreadPerDb
<1>2. QED
  BY <1>1, ControlInit, ControlStep, PTL DEF DBSpec

-----------------------------------------------------------------------------
(* The transaction *)

LEMMA TransactionStep ==
  ASSUME ControlInv, TransactionOpen, [DBNext]_manageVars
  PROVE  TransactionOpen'
<1> USE DBManageAssumption DEF ControlInv, DBTypeOK, Roles, OpenInv, ThreadInv, TransactionOpen, Goto, Return
<1>1. ASSUME NEW c \in Clients, ClientMove(c) PROVE TransactionOpen'
  BY <1>1 DEF ClientMove, Move
<1>2. CASE Connect \/ Reconnect \/ Disconnect
  BY <1>2 DEF Connect, Reconnect, Disconnect, dbVars, threadVars
<1>3. CASE OwnerStep
  <2>1. CASE ConnectEnter
    BY <2>1 DEF ConnectEnter, dbVars, threadVars
  <2>2. CASE OpenSucceeds \/ OpenFails
    BY <2>2 DEF OpenSucceeds, OpenFails, dbVars, threadVars
  <2>3. CASE StartThread
    BY <2>3 DEF StartThread, dbVars
  <2>4. CASE CommitLast
    BY <2>4 DEF CommitLast, EndTransaction, threadVars
  <2>5. CASE StopThread \/ JoinThread
    BY <2>5 DEF StopThread, JoinThread, dbVars
  <2>6. CASE CloseDb \/ DeleteDb
    BY <2>6 DEF CloseDb, DeleteDb, threadVars
  <2>7. QED
    BY <1>3, <2>1, <2>2, <2>3, <2>4, <2>5, <2>6 DEF OwnerStep
<1>4. CASE ThreadStep
  <2>1. CASE ThreadTop \/ ThreadCheck \/ ThreadClear \/ ThreadWait \/ ThreadSignal
    BY <1>4, <2>1, ThreadFrame
       DEF ThreadTop, ThreadCheck, ThreadClear, ThreadWait, ThreadSignal, ThreadGoto, dbVars
  <2>2. CASE ThreadEnd
    BY <1>4, <2>2, ThreadFrame DEF ThreadEnd, ThreadGoto
  <2>3. CASE ThreadBegin
    BY <1>4, <2>3, ThreadFrame DEF ThreadBegin, BeginTransaction
  <2>4. QED
    BY <1>4, <2>1, <2>2, <2>3 DEF ThreadStep
<1>5. CASE Crash
  BY <1>5 DEF Crash
<1>6. CASE UNCHANGED manageVars
  BY <1>6 DEF manageVars
<1>7. QED
  BY <1>1, <1>2, <1>3, <1>4, <1>5, <1>6, NextCases

\* Every statement runs in an open transaction but in the two windows that
\* the commit thread and DisconnectSQL leave.
THEOREM TransactionIsOpen == DBSpec => []TransactionOpen
<1>1. DBInit => TransactionOpen
  BY DEF DBInit, TransactionOpen
<1>2. ControlInv /\ TransactionOpen /\ [DBNext]_manageVars => TransactionOpen'
  BY TransactionStep
<1>3. QED
  BY <1>1, <1>2, ControlInit, ControlStep, PTL DEF DBSpec

-----------------------------------------------------------------------------
(* An application that lets its calls end before it disconnects *)

LEMMA QuiesceStep ==
  ASSUME ControlInv, QuiesceInv, [DBNext]_manageVars
  PROVE  QuiesceInv'
<1> SUFFICES ASSUME Quiesce PROVE QuiesceInv'
  BY DEF QuiesceInv
<1> USE DBManageAssumption
    DEF ControlInv, DBTypeOK, Roles, OpenInv, QuiesceInv, OthersIdle, Goto, Return,
        Connecting, Disconnecting, Using
<1>1. ASSUME NEW c \in Clients, ClientMove(c) PROVE QuiesceInv'
  <2>1. CASE c = Owner
    BY <1>1, <2>1 DEF ClientMove, Move
  <2>2. CASE c # Owner
    BY <1>1, <2>2 DEF ClientMove, Move
  <2>3. QED
    BY <2>1, <2>2
<1>2. CASE Connect \/ Reconnect \/ Disconnect
  BY <1>2 DEF Connect, Reconnect, Disconnect, dbVars
<1>3. CASE OwnerStep
  <2>1. CASE ConnectEnter \/ OpenSucceeds \/ OpenFails
    BY <2>1 DEF ConnectEnter, OpenSucceeds, OpenFails, dbVars
  <2>2. CASE StartThread \/ CommitLast
    BY <2>2 DEF StartThread, CommitLast, EndTransaction, dbVars
  <2>3. CASE StopThread \/ JoinThread
    BY <2>3 DEF StopThread, JoinThread, dbVars
  <2>4. CASE CloseDb \/ DeleteDb
    BY <2>4 DEF CloseDb, DeleteDb
  <2>5. QED
    BY <1>3, <2>1, <2>2, <2>3, <2>4 DEF OwnerStep
<1>4. CASE ThreadStep
  BY <1>4, ThreadFrame
<1>5. CASE Crash
  BY <1>5 DEF Crash
<1>6. CASE UNCHANGED manageVars
  BY <1>6 DEF manageVars
<1>7. QED
  BY <1>1, <1>2, <1>3, <1>4, <1>5, <1>6, NextCases

LEMMA QuiesceInit == DBInit => QuiesceInv
BY DBManageAssumption DEF DBInit, QuiesceInv, OthersIdle, Connecting, Disconnecting

-----------------------------------------------------------------------------
(* The tables: what a client's step does to them *)

ClientWrites(c) ==
  /\ pc[c] = "exec" /\ m_db = "open"
  /\ view' \in Tables
  /\ file' = IF tx THEN file ELSE view'

ClientData(c) ==
  /\ ClientWrites(c) \/ UNCHANGED << view, file >>
  /\ UNCHANGED << m_db, tx >>
  /\ count'.crashes = count.crashes

LEMMA OperationData ==
  ASSUME DBTypeOK, NEW c \in Clients, Operation(c)
  PROVE  ClientData(c)
<1>1. CASE Enter(c)
  BY <1>1 DEF Enter, ClientData, dbVars
<1>2. CASE Statement(c)
  <2>1. PICK stmt \in StmtResult, next \in {"request", "idle"} : Execute(c, stmt, next)
    BY <1>2 DEF Statement
  <2>2. stmt.tables \in Tables
    BY DEF StmtResult
  <2>3. UNCHANGED << m_db, tx, count >>
    BY <2>1 DEF Execute
  <2>4. CASE m_db = "open"
    BY <2>1, <2>2, <2>3, <2>4 DEF Execute, ClientData, ClientWrites
  <2>5. CASE m_db # "open"
    BY <2>1, <2>3, <2>5 DEF Execute, ClientData
  <2>6. QED
    BY <2>4, <2>5
<1>3. CASE RequestCommit(c)
  BY <1>3 DEF RequestCommit, ClientData, dbVars
<1>4. CASE ReadId(c)
  BY <1>4 DEF ReadId, ClientData, dbVars
<1>5. QED
  BY <1>1, <1>2, <1>3, <1>4, OperationCases

LEMMA StartCallData ==
  ASSUME DBTypeOK, NEW c \in Clients, NEW k \in Calls, StartCall(c, k)
  PROVE  ClientData(c)
<1>1. count'.crashes = count.crashes
  BY DEF StartCall, DBTypeOK
<1>2. QED
  BY <1>1 DEF StartCall, ClientData, dbVars

LEMMA NextDataCases ==
  ASSUME DBTypeOK, [DBNext]_manageVars
  PROVE  \/ \E c \in Clients : ClientMove(c) /\ ClientData(c)
         \/ Connect \/ Reconnect \/ Disconnect
         \/ OwnerStep
         \/ ThreadStep
         \/ Crash
         \/ UNCHANGED manageVars
BY OperationMoves, StartCallMoves, OperationData, StartCallData DEF DBNext

\* The steps that only move the owner or the thread along
LEMMA QuietSteps ==
  ASSUME ControlInv,
         \/ Connect \/ Reconnect \/ Disconnect
         \/ ConnectEnter \/ OpenFails \/ StartThread \/ StopThread \/ JoinThread
         \/ ThreadTop \/ ThreadCheck \/ ThreadClear \/ ThreadWait \/ ThreadSignal
  PROVE  /\ UNCHANGED << view, tx, file >>
         /\ (m_db' = "open") = (m_db = "open")
         /\ count'.crashes = count.crashes
<1>1. UNCHANGED << view, tx, file >> /\ count'.crashes = count.crashes
  BY DEF ControlInv, DBTypeOK, Connect, Reconnect, Disconnect, ConnectEnter, OpenFails, StartThread,
         StopThread, JoinThread, ThreadTop, ThreadCheck, ThreadClear, ThreadWait, ThreadSignal,
         ThreadGoto, dbVars
<1>2. CASE Connect \/ OpenFails
  <2>1. m_db # "open"
    BY <1>2 DEF ControlInv, OpenInv, HandleInv, Connect, OpenFails
  <2>2. m_db' # "open"
    BY <1>2 DEF Connect, OpenFails
  <2>3. QED
    BY <1>1, <2>1, <2>2
<1>3. CASE ~(Connect \/ OpenFails)
  <2>1. m_db' = m_db
    BY <1>3 DEF Reconnect, Disconnect, ConnectEnter, StartThread, StopThread, JoinThread,
                ThreadTop, ThreadCheck, ThreadClear, ThreadWait, ThreadSignal, ThreadGoto, dbVars
  <2>2. QED
    BY <1>1, <2>1
<1>4. QED
  BY <1>2, <1>3

-----------------------------------------------------------------------------
(* Nothing is uncommitted outside a transaction *)

LEMMA CommittedStep ==
  ASSUME ControlInv, CommittedInv, [DBNext]_manageVars
  PROVE  CommittedInv'
<1>1. DBTypeOK
  BY DEF ControlInv
<1>2. ASSUME NEW c \in Clients, ClientData(c) PROVE CommittedInv'
  BY <1>2 DEF ClientData, ClientWrites, CommittedInv
<1>3. CASE Connect \/ Reconnect \/ Disconnect
  BY <1>3, QuietSteps DEF CommittedInv
<1>4. CASE OwnerStep
  <2>1. CASE ConnectEnter \/ OpenFails \/ StartThread \/ StopThread \/ JoinThread
    BY <2>1, QuietSteps DEF CommittedInv
  <2>2. CASE OpenSucceeds
    BY <2>2 DEF OpenSucceeds, CommittedInv
  <2>3. CASE CommitLast
    BY <2>3 DEF CommitLast, EndTransaction, CommittedInv
  <2>4. CASE CloseDb \/ DeleteDb
    BY <2>4 DEF CloseDb, DeleteDb, CommittedInv, ControlInv, OpenInv
  <2>5. QED
    BY <1>4, <2>1, <2>2, <2>3, <2>4 DEF OwnerStep
<1>5. CASE ThreadStep
  <2>1. CASE ThreadTop \/ ThreadCheck \/ ThreadClear \/ ThreadWait \/ ThreadSignal
    BY <2>1, QuietSteps DEF CommittedInv
  <2>2. CASE ThreadEnd
    BY <2>2 DEF ThreadEnd, EndTransaction, CommittedInv
  <2>3. CASE ThreadBegin
    BY <2>3 DEF ThreadBegin, BeginTransaction, CommittedInv
  <2>4. QED
    BY <1>5, <2>1, <2>2, <2>3 DEF ThreadStep
<1>6. CASE Crash
  BY <1>6 DEF Crash, CommittedInv
<1>7. CASE UNCHANGED manageVars
  BY <1>7 DEF manageVars, CommittedInv
<1>8. QED
  BY <1>1, <1>2, <1>3, <1>4, <1>5, <1>6, <1>7, NextDataCases

-----------------------------------------------------------------------------
(* Closing loses nothing when COMMIT works and no call is running *)

StoreSafe == ControlInv /\ QuiesceInv /\ CommittedInv /\ CloseCommits

LEMMA CloseStep ==
  ASSUME Quiesce, ~CommitMayFail, StoreSafe, [DBNext]_manageVars
  PROVE  CloseCommits'
<1>1. DBTypeOK
  BY DEF StoreSafe, ControlInv
<1> USE DBManageAssumption DEF StoreSafe, ControlInv, OpenInv, CommittedInv, CloseCommits, Goto, Return
<1>2. ASSUME NEW c \in Clients, ClientMove(c), ClientData(c) PROVE CloseCommits'
  <2>1. CASE c = Owner
    BY <1>1, <1>2, <2>1 DEF DBTypeOK, ClientMove, Move, ClientData, ClientWrites
  <2>2. CASE c # Owner
    <3>1. pc'[Owner] = pc[Owner]
      BY <1>1, <1>2, <2>2 DEF DBTypeOK, ClientMove, Move
    <3>2. pc[Owner] \in {"stop", "join", "close"} => pc[c] = "idle"
      BY <2>2 DEF QuiesceInv, OthersIdle, Disconnecting
    <3>3. QED
      BY <1>2, <3>1, <3>2 DEF ClientData, ClientWrites
  <2>3. QED
    BY <2>1, <2>2
<1>3. CASE Connect \/ Reconnect \/ Disconnect
  <2>1. pc'[Owner] \in {"connect", "endtx"}
    BY <1>1, <1>3 DEF DBTypeOK, Connect, Reconnect, Disconnect
  <2>2. QED
    BY <2>1
<1>4. CASE OwnerStep
  <2>1. CASE ConnectEnter \/ OpenFails \/ StartThread \/ StopThread \/ JoinThread
    <3>1. UNCHANGED << view, file >>
      BY <2>1, QuietSteps
    <3>2. pc'[Owner] \in {"stop", "join", "close"} => pc[Owner] \in {"stop", "join"}
      BY <1>1, <2>1 DEF DBTypeOK, ConnectEnter, OpenFails, StartThread, StopThread, JoinThread
    <3>3. QED
      BY <3>1, <3>2
  <2>2. CASE OpenSucceeds
    BY <1>1, <2>2 DEF DBTypeOK, OpenSucceeds
  <2>3. CASE CommitLast
    BY <1>1, <2>3 DEF DBTypeOK, CommitLast, EndTransaction
  <2>4. CASE CloseDb \/ DeleteDb
    BY <1>1, <2>4 DEF DBTypeOK, CloseDb, DeleteDb
  <2>5. QED
    BY <1>4, <2>1, <2>2, <2>3, <2>4 DEF OwnerStep
<1>5. CASE ThreadStep
  <2>1. CASE ThreadTop \/ ThreadCheck \/ ThreadClear \/ ThreadWait \/ ThreadSignal
    BY <1>5, <2>1, QuietSteps, ThreadFrame
  <2>2. CASE ThreadEnd
    BY <1>5, <2>2, ThreadFrame DEF ThreadEnd, EndTransaction
  <2>3. CASE ThreadBegin
    BY <1>5, <2>3, ThreadFrame DEF ThreadBegin, BeginTransaction
  <2>4. QED
    BY <1>5, <2>1, <2>2, <2>3 DEF ThreadStep
<1>6. CASE Crash
  BY <1>6 DEF Crash
<1>7. CASE UNCHANGED manageVars
  BY <1>7 DEF manageVars
<1>8. QED
  BY <1>1, <1>2, <1>3, <1>4, <1>5, <1>6, <1>7, NextDataCases

LEMMA StoreSafeInit == DBInit => StoreSafe
BY ControlInit, QuiesceInit, DBManageAssumption DEF DBInit, StoreSafe, CommittedInv, CloseCommits

LEMMA StoreSafeStep ==
  ASSUME Quiesce, ~CommitMayFail
  PROVE  StoreSafe /\ [DBNext]_manageVars => StoreSafe'
BY ControlStep, QuiesceStep, CommittedStep, CloseStep DEF StoreSafe

\* DisconnectSQL closes the database with every write in the file.
THEOREM CloseIsCommitted ==
  ASSUME Quiesce, ~CommitMayFail
  PROVE  DBSpec => []CloseCommits
<1>1. StoreSafe => CloseCommits
  BY DEF StoreSafe
<1>2. QED
  BY <1>1, StoreSafeInit, StoreSafeStep, PTL DEF DBSpec

-----------------------------------------------------------------------------
(* The refinement *)

LEMMA DurableInit == DBInit => Durable!Init
BY DEF DBInit, Durable!Init

LEMMA DurableStep ==
  ASSUME StoreSafe, [DBNext]_manageVars
  PROVE  [Durable!Next]_(Durable!vars)
<1>1. DBTypeOK
  BY DEF StoreSafe, ControlInv
<1>2. ASSUME NEW c \in Clients, ClientData(c) PROVE [Durable!Next]_(Durable!vars)
  <2>1. CASE ClientWrites(c)
    BY <1>2, <2>1 DEF ClientData, ClientWrites, Durable!Next, Durable!Write
  <2>2. CASE UNCHANGED << view, file >>
    BY <1>2, <2>2 DEF ClientData, Durable!vars
  <2>3. QED
    BY <1>2, <2>1, <2>2 DEF ClientData
<1>3. ASSUME UNCHANGED << view, file >>, (m_db' = "open") = (m_db = "open"),
             count'.crashes = count.crashes
      PROVE  UNCHANGED Durable!vars
  BY <1>3 DEF Durable!vars
<1>4. ASSUME m_db = "open", UNCHANGED << m_db, view, count >>, file' = view \/ file' = file
      PROVE  [Durable!Next]_(Durable!vars)
  BY <1>4 DEF Durable!Next, Durable!Commit, Durable!vars
<1>5. CASE Connect \/ Reconnect \/ Disconnect
  BY <1>3, <1>5, QuietSteps DEF StoreSafe
<1>6. CASE OwnerStep
  <2>1. CASE ConnectEnter \/ OpenFails \/ StartThread \/ StopThread \/ JoinThread
    BY <1>3, <2>1, QuietSteps DEF StoreSafe
  <2>2. CASE OpenSucceeds
    <3>1. m_db # "open"
      BY <2>2 DEF OpenSucceeds, StoreSafe, ControlInv, OpenInv
    <3>2. QED
      BY <2>2, <3>1 DEF OpenSucceeds, Durable!Next, Durable!Open
  <2>3. CASE CommitLast
    <3>1. CASE m_db = "open"
      BY <1>4, <2>3, <3>1 DEF CommitLast, EndTransaction
    <3>2. CASE m_db # "open"
      <4>1. ~tx
        BY <3>2 DEF StoreSafe, CommittedInv
      <4>2. QED
        BY <1>3, <2>3, <4>1 DEF CommitLast, EndTransaction
    <3>3. QED
      BY <3>1, <3>2
  <2>4. CASE CloseDb
    <3>1. view = file
      BY <2>4 DEF CloseDb, StoreSafe, CloseCommits
    <3>2. CASE m_db = "open"
      BY <2>4, <3>1, <3>2 DEF CloseDb, Durable!Next, Durable!Close
    <3>3. CASE m_db # "open"
      BY <2>4, <3>3 DEF CloseDb, Durable!vars
    <3>4. QED
      BY <3>2, <3>3
  <2>5. CASE DeleteDb
    <3>1. m_db = "closed"
      BY <2>5 DEF DeleteDb, StoreSafe, ControlInv, OpenInv
    <3>2. QED
      BY <2>5, <3>1 DEF DeleteDb, Durable!vars
  <2>6. QED
    BY <1>6, <2>1, <2>2, <2>3, <2>4, <2>5 DEF OwnerStep
<1>7. CASE ThreadStep
  <2>1. CASE ThreadTop \/ ThreadCheck \/ ThreadClear \/ ThreadWait \/ ThreadSignal
    BY <1>3, <2>1, QuietSteps DEF StoreSafe
  <2>2. CASE ThreadEnd
    <3>1. CASE m_db = "open"
      BY <1>4, <1>7, <2>2, <3>1, ThreadFrame DEF ThreadEnd, EndTransaction
    <3>2. CASE m_db # "open"
      <4>1. ~tx
        BY <3>2 DEF StoreSafe, CommittedInv
      <4>2. QED
        BY <1>3, <1>7, <2>2, <4>1, ThreadFrame DEF ThreadEnd, EndTransaction
    <3>3. QED
      BY <3>1, <3>2
  <2>3. CASE ThreadBegin
    BY <1>3, <1>7, <2>3, ThreadFrame DEF ThreadBegin, BeginTransaction
  <2>4. QED
    BY <1>7, <2>1, <2>2, <2>3 DEF ThreadStep
<1>8. CASE Crash
  <2>1. count'.crashes = count.crashes + 1
    BY <1>1, <1>8 DEF Crash, DBTypeOK
  <2>2. QED
    BY <1>8, <2>1 DEF Crash, Durable!Next, Durable!Crash
<1>9. CASE UNCHANGED manageVars
  BY <1>3, <1>9 DEF manageVars
<1>10. QED
  BY <1>1, <1>2, <1>5, <1>6, <1>7, <1>8, <1>9, NextDataCases

\* CDBManage is a store that loses nothing but what a crash takes.
THEOREM Refinement ==
  ASSUME Quiesce, ~CommitMayFail
  PROVE  DBSpec => ImplementsDurableStore
<1>1. StoreSafe /\ [DBNext]_manageVars => [Durable!Next]_(Durable!vars)
  BY DurableStep
<1>2. QED
  BY <1>1, StoreSafeInit, StoreSafeStep, DurableInit, PTL
     DEF DBSpec, ImplementsDurableStore, Durable!Spec
=============================================================================
