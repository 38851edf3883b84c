------------------------------ MODULE DBManage ------------------------------
(***************************************************************************)
(* CDBManage (6.hwbrapsqlite/src/DBManage.cpp): one SQLite connection that *)
(* several threads of an application use under the critical section        *)
(* m_csCommit, always inside an open transaction, and a commit thread      *)
(* that ends the transaction and begins the next one whenever m_bCommit is *)
(* set.  A client thread is a program counter that goes through the body   *)
(* of one call; a step is what lies between two places where another       *)
(* thread can get in.  The owner is the client that connects and           *)
(* disconnects.                                                            *)
(***************************************************************************)
EXTENDS LinkRuleTables

CONSTANTS
  Clients,        \* the application's threads
  Owner,          \* the one that calls Connect and DisConnect
  NoOne,          \* m_csCommit is free
  Calls,          \* the calls clients make: the operation and its arguments
  InitialFile,    \* the tables in the file to begin with
  Quiesce,        \* the application disconnects only when no call is running
  MayReconnect,   \* ConnectSQL may be called on a connected object
  CommitMayFail,  \* COMMIT may fail: another connection has the file locked
  MaxCalls,       \* bound: calls made
  MaxOpens,       \* bound: ConnectSQL calls made
  MaxCrashes      \* bound: crashes of the process

WriteOps == {"CreateTable", "DropTable", "AddLinkInfo", "DelLinkInfo", "SetLinkInfo",
             "AddRuleInfo", "DelRuleInfo", "SetRuleInfo"}
ReadOps == {"GetLinkInfo", "GetRuleInfo"}

\* The calls that return the last insert id
AddOps == {"AddLinkInfo", "AddRuleInfo"}

Call == [ op : WriteOps \union ReadOps, n : Int, p : LinkData ]

NoCall == [ op |-> "none" ]

CommitThread == "thread"     \* the commit thread as a user of m_csCommit

ASSUME DBManageAssumption ==
  /\ Owner \in Clients
  /\ NoOne \notin Clients
  /\ CommitThread \notin Clients \union {NoOne}
  /\ Calls \subseteq Call
  /\ InitialFile \in Tables
  /\ Quiesce \in BOOLEAN /\ MayReconnect \in BOOLEAN /\ CommitMayFail \in BOOLEAN
  /\ MaxCalls \in Nat /\ MaxOpens \in Nat /\ MaxCrashes \in Nat

VARIABLES
  pc,         \* pc[c]: where client c is
  call,       \* call[c]: its last call
  ret,        \* ret[c]: the result of its last call
  cs,         \* who is inside m_csCommit
  handle,     \* the application holds a handle of this object
  m_db,       \* the CZenoSQL object: "null", "open", "closed", or "bad" with the
              \* dangling sqlite3 handle that a failed open leaves in it
  view,       \* the tables as the connection sees them
  tx,         \* a transaction is open on the connection
  lastId,     \* sqlite3_last_insert_rowid of the connection
  file,       \* the committed tables
  m_bCommit,  \* a commit is requested
  m_bExit,    \* the commit thread is to stop
  m_hCommitPro,   \* the object has a commit thread handle
  m_hEvent,   \* the commit thread has signalled its end
  thr,        \* where the commit thread is; "none": there is none
  count       \* calls, opens and crashes so far, for the bounds

manageVars == << pc, call, ret, cs, handle, m_db, view, tx, lastId, file,
           m_bCommit, m_bExit, m_hCommitPro, m_hEvent, thr, count >>

\* What the client, the connection and the thread keep
clientVars == << pc, call, ret >>
dbVars == << m_db, view, tx, lastId, file >>
threadVars == << m_bExit, m_hCommitPro, m_hEvent, thr >>

\* Inside ConnectSQL and inside DisconnectSQL
Connecting == {"connect", "open", "start"}
Disconnecting == {"endtx", "stop", "join", "close", "delete"}
Using == {"enter", "exec", "request", "readid"}

DBInit ==
  /\ pc = [c \in Clients |-> "idle"]
  /\ call = [c \in Clients |-> NoCall]
  /\ ret = [c \in Clients |-> 0]
  /\ cs = NoOne
  /\ handle = FALSE
  /\ m_db = "null"
  /\ view = InitialFile /\ file = InitialFile
  /\ tx = FALSE
  /\ lastId = 0
  /\ m_bCommit = FALSE /\ m_bExit = FALSE
  /\ m_hCommitPro = FALSE /\ m_hEvent = FALSE
  /\ thr = "none"
  /\ count = [ calls |-> 0, opens |-> 0, crashes |-> 0 ]

Goto(c, l) == pc' = [pc EXCEPT ![c] = l]

Return(c, r) == Goto(c, "idle") /\ ret' = [ret EXCEPT ![c] = r]

OthersIdle == \A c \in Clients \ {Owner} : pc[c] = "idle"

-----------------------------------------------------------------------------
(* The transaction *)

\* m_csCommit is recursive: the owner enters again inside ConnectSQL
MayEnter(a) == cs \in {NoOne, a}

EndTransaction(a) ==
  /\ MayEnter(a)
  /\ \/ /\ m_db = "open" /\ tx
        /\ file' = view /\ tx' = FALSE
     \/ /\ m_db # "open" \/ ~tx \/ CommitMayFail
        /\ UNCHANGED << file, tx >>
  /\ UNCHANGED << m_db, view, lastId, cs >>

BeginTransaction(a) ==
  /\ MayEnter(a)
  /\ tx' = (tx \/ m_db = "open")
  /\ UNCHANGED << m_db, view, lastId, file, cs >>

-----------------------------------------------------------------------------
(* The body of a call that uses the tables *)

StartCall(c, k) ==
  /\ pc[c] = "idle" /\ handle
  /\ Quiesce => pc[Owner] \notin Connecting \union Disconnecting
  /\ count.calls < MaxCalls
  /\ call' = [call EXCEPT ![c] = k]
  /\ IF k.op \in {"SetLinkInfo", "SetRuleInfo"} /\ k.n <= 0
     THEN Return(c, -1)
     ELSE Goto(c, "enter") /\ UNCHANGED ret
  /\ count' = [count EXCEPT !.calls = @ + 1]
  /\ UNCHANGED << cs, handle, m_bCommit, dbVars, threadVars >>

\* Slip: the early return leaves m_csCommit locked
EnterKeepsLock(c) ==
  /\ pc[c] = "enter" /\ cs = NoOne
  /\ cs' = c
  /\ IF m_db = "null" THEN Return(c, -1) ELSE Goto(c, "exec") /\ UNCHANGED ret
  /\ m_bCommit' = (m_bCommit /\ call[c].op # "CreateTable")
  /\ UNCHANGED << call, handle, dbVars, threadVars, count >>

\* Lock, and the test of m_db; CreateTable takes back a pending request first
Enter(c) ==
  /\ pc[c] = "enter" /\ cs = NoOne
  /\ IF m_db = "null" THEN Return(c, -1) /\ UNCHANGED cs
                      ELSE Goto(c, "exec") /\ cs' = c /\ UNCHANGED ret
  /\ m_bCommit' = (m_bCommit /\ call[c].op # "CreateTable")
  /\ UNCHANGED << call, handle, dbVars, threadVars, count >>

\* The statement, on whatever m_db has become since it was tested, and Unlock.
\* Outside a transaction the statement commits by itself; on a handle that is
\* closed it fails, or the process dies (Crash).
Execute(c, stmt, next) ==
  /\ pc[c] = "exec"
  /\ IF m_db = "null"
     THEN Goto(c, "fault") /\ UNCHANGED << ret, cs, view, lastId, file >>
     ELSE /\ Goto(c, next)
          /\ cs' = NoOne
          /\ IF m_db = "open"
             THEN /\ ret' = [ret EXCEPT ![c] = stmt.ret]
                  /\ view' = stmt.tables
                  /\ lastId' = stmt.lastId
                  /\ file' = IF tx THEN file ELSE stmt.tables
             ELSE /\ ret' = [ret EXCEPT ![c] = -1]
                  /\ UNCHANGED << view, lastId, file >>
  /\ UNCHANGED << call, handle, m_db, tx, m_bCommit, threadVars, count >>

CreateTable(c) ==
  call[c].op = "CreateTable" /\ Execute(c, CreateTableStmt(view, lastId), "request")

DropTable(c) ==
  /\ call[c].op = "DropTable"
  /\ \/ Execute(c, DropLinksStmt(view, lastId), "request")
     \/ Execute(c, DropRulesStmt(view, lastId), "request")

AddLinkInfo(c) ==
  call[c].op = "AddLinkInfo" /\ Execute(c, AddLinkStmt(view, lastId, call[c].p), "request")

DelLinkInfo(c) ==
  call[c].op = "DelLinkInfo" /\ Execute(c, DelLinkStmt(view, lastId, call[c].p), "request")

SetLinkInfo(c) ==
  /\ call[c].op = "SetLinkInfo"
  /\ Execute(c, SetLinkStmt(view, lastId, call[c].n, call[c].p), "request")

AddRuleInfo(c) ==
  call[c].op = "AddRuleInfo" /\ Execute(c, AddRuleStmt(view, lastId, call[c].p), "request")

DelRuleInfo(c) ==
  call[c].op = "DelRuleInfo" /\ Execute(c, DelRuleStmt(view, lastId, call[c].p), "request")

SetRuleInfo(c) ==
  /\ call[c].op = "SetRuleInfo"
  /\ Execute(c, SetRuleStmt(view, lastId, call[c].n, call[c].p), "request")

\* The two queries change nothing; what they return is LinkRuleStore's matter
GetInfo(c) ==
  call[c].op \in ReadOps /\ Execute(c, Done(view, lastId), "idle")

\* After Unlock
RequestCommit(c) ==
  /\ pc[c] = "request"
  /\ m_bCommit' = TRUE
  /\ Goto(c, IF call[c].op \in AddOps THEN "readid" ELSE "idle")
  /\ UNCHANGED << call, ret, cs, handle, dbVars, threadVars, count >>

\* getLastInsertId is called outside the lock, on the pointer as it is now; a
\* dangling handle is read all the same
ReadId(c) ==
  /\ pc[c] = "readid"
  /\ \/ m_db = "null" /\ Goto(c, "fault") /\ UNCHANGED ret
     \/ m_db \in {"open", "bad"} /\ Return(c, lastId)
     \/ m_db \in {"closed", "bad"} /\ Return(c, -1)
  /\ UNCHANGED << call, cs, handle, m_bCommit, dbVars, threadVars, count >>

Operation(c) ==
  \/ Enter(c)
  \/ CreateTable(c) \/ DropTable(c)
  \/ AddLinkInfo(c) \/ DelLinkInfo(c) \/ SetLinkInfo(c)
  \/ AddRuleInfo(c) \/ DelRuleInfo(c) \/ SetRuleInfo(c)
  \/ GetInfo(c)
  \/ RequestCommit(c)
  \/ ReadId(c)

-----------------------------------------------------------------------------
(* ConnectSQL *)

\* zeno_SQLite_Connect makes a new object; calls on the old one are over.  An
\* object that did not connect is lost with its thread: nobody has its pointer.
Connect ==
  /\ pc[Owner] = "idle" /\ OthersIdle
  /\ handle => m_db = "null"
  /\ count.opens < MaxOpens
  /\ Goto(Owner, "connect")
  /\ handle' = FALSE /\ m_db' = "null"
  /\ m_bCommit' = FALSE /\ m_bExit' = FALSE
  /\ m_hCommitPro' = FALSE /\ m_hEvent' = FALSE /\ thr' = "none"
  /\ count' = [count EXCEPT !.opens = @ + 1]
  /\ UNCHANGED << call, ret, cs, view, tx, lastId, file >>

\* ConnectSQL called again on the same, connected object
Reconnect ==
  /\ MayReconnect
  /\ pc[Owner] = "idle" /\ handle /\ m_db # "null"
  /\ count.opens < MaxOpens
  /\ Quiesce => OthersIdle
  /\ Goto(Owner, "connect")
  /\ count' = [count EXCEPT !.opens = @ + 1]
  /\ UNCHANGED << call, ret, cs, handle, m_bCommit, dbVars, threadVars >>

\* Lock; an open database is closed first, with the lock held
ConnectEnter ==
  /\ pc[Owner] = "connect" /\ cs = NoOne
  /\ cs' = Owner
  /\ Goto(Owner, IF m_db = "null" THEN "open" ELSE "endtx")
  /\ UNCHANGED << call, ret, handle, m_bCommit, dbVars, threadVars, count >>

\* Slip: no BEGIN
OpenSucceedsNoBegin ==
  /\ pc[Owner] = "open"
  /\ m_db' = "open" /\ view' = file /\ lastId' = 0
  /\ cs' = NoOne
  /\ Goto(Owner, "start")
  /\ UNCHANGED << call, ret, handle, tx, file, m_bCommit, threadVars, count >>

\* Open the file, BEGIN, Unlock
OpenSucceeds ==
  /\ pc[Owner] = "open"
  /\ m_db' = "open" /\ view' = file /\ lastId' = 0
  /\ tx' = TRUE
  /\ cs' = NoOne
  /\ Goto(Owner, "start")
  /\ UNCHANGED << call, ret, handle, file, m_bCommit, threadVars, count >>

\* sqlite3_open fails: its handle is closed but kept, so that the BEGIN that
\* follows fails on it, and ConnectSQL goes on as if it had connected
OpenFails ==
  /\ pc[Owner] = "open"
  /\ m_db' = "bad"
  /\ cs' = NoOne
  /\ Goto(Owner, "start")
  /\ UNCHANGED << call, ret, handle, view, tx, lastId, file, m_bCommit, threadVars, count >>

\* The thread is started either way; zeno_SQLite_Connect hands a new object
\* out only when the database is open
StartThread ==
  /\ pc[Owner] = "start"
  /\ m_hEvent' = FALSE /\ m_hCommitPro' = TRUE /\ thr' = "top"
  /\ handle' = (handle \/ m_db = "open")
  /\ Return(Owner, IF m_db = "open" THEN 0 ELSE -1)
  /\ UNCHANGED << call, cs, m_bCommit, m_bExit, dbVars, count >>

-----------------------------------------------------------------------------
(* DisconnectSQL: it takes the lock only inside EndTransaction *)

Disconnect ==
  /\ pc[Owner] = "idle" /\ handle
  /\ Quiesce => OthersIdle
  /\ m_db # "null"
  /\ Goto(Owner, "endtx")
  /\ UNCHANGED << call, ret, cs, handle, m_bCommit, dbVars, threadVars, count >>

\* Slip: the last transaction is not ended
CommitLastNot ==
  /\ pc[Owner] = "endtx"
  /\ Goto(Owner, "stop")
  /\ UNCHANGED << call, ret, cs, handle, m_bCommit, dbVars, threadVars, count >>

CommitLast ==
  /\ pc[Owner] = "endtx"
  /\ EndTransaction(Owner)
  /\ Goto(Owner, "stop")
  /\ UNCHANGED << call, ret, handle, m_bCommit, threadVars, count >>

StopThread ==
  /\ pc[Owner] = "stop" /\ m_hCommitPro
  /\ m_bExit' = TRUE
  /\ Goto(Owner, "join")
  /\ UNCHANGED << call, ret, cs, handle, m_bCommit, m_hCommitPro, m_hEvent, thr, dbVars, count >>

\* Slip: the end of the thread is not waited for
JoinThreadNot ==
  /\ pc[Owner] = "join"
  /\ m_hEvent' = FALSE /\ m_hCommitPro' = FALSE /\ m_bExit' = FALSE
  /\ Goto(Owner, "close")
  /\ UNCHANGED << call, ret, cs, handle, m_bCommit, thr, dbVars, count >>

\* The event resets itself when the wait returns
JoinThread ==
  /\ pc[Owner] = "join" /\ m_hEvent
  /\ m_hEvent' = FALSE /\ m_hCommitPro' = FALSE /\ m_bExit' = FALSE
  /\ Goto(Owner, "close")
  /\ UNCHANGED << call, ret, cs, handle, m_bCommit, thr, dbVars, count >>

\* sqlite3_close rolls an open transaction back
CloseDb ==
  /\ pc[Owner] = "close"
  /\ m_db' = "closed" /\ view' = file /\ tx' = FALSE
  /\ Goto(Owner, "delete")
  /\ UNCHANGED << call, ret, cs, handle, m_bCommit, lastId, file, threadVars, count >>

\* Back into ConnectSQL when it is ConnectSQL that is closing
DeleteDb ==
  /\ pc[Owner] = "delete"
  /\ m_db' = "null"
  /\ IF cs = Owner THEN Goto(Owner, "open") /\ UNCHANGED ret ELSE Return(Owner, 0)
  /\ UNCHANGED << call, cs, handle, m_bCommit, view, tx, lastId, file, threadVars, count >>

OwnerStep ==
  \/ ConnectEnter \/ OpenSucceeds \/ OpenFails \/ StartThread
  \/ CommitLast \/ StopThread \/ JoinThread \/ CloseDb \/ DeleteDb

-----------------------------------------------------------------------------
(* CommitTransactionProc *)

ThreadGoto(l) == thr' = l /\ UNCHANGED << m_bExit, m_hCommitPro, m_hEvent >>

ThreadTop ==
  /\ thr = "top"
  /\ ThreadGoto(IF m_bExit THEN "signal" ELSE "check")
  /\ UNCHANGED << clientVars, cs, handle, m_bCommit, dbVars, count >>

ThreadCheck ==
  /\ thr = "check"
  /\ ThreadGoto(IF m_bCommit THEN "end" ELSE "wait")
  /\ UNCHANGED << clientVars, cs, handle, m_bCommit, dbVars, count >>

ThreadEnd ==
  /\ thr = "end"
  /\ EndTransaction(CommitThread)
  /\ ThreadGoto("begin")
  /\ UNCHANGED << clientVars, handle, m_bCommit, count >>

ThreadBegin ==
  /\ thr = "begin"
  /\ BeginTransaction(CommitThread)
  /\ ThreadGoto("clear")
  /\ UNCHANGED << clientVars, handle, m_bCommit, count >>

ThreadClear ==
  /\ thr = "clear"
  /\ m_bCommit' = FALSE
  /\ ThreadGoto("wait")
  /\ UNCHANGED << clientVars, cs, handle, dbVars, count >>

\* Slip: the sleep loop ends on m_bExit only
ThreadWaitExit ==
  /\ thr = "wait" /\ m_bExit
  /\ ThreadGoto("top")
  /\ UNCHANGED << clientVars, cs, handle, m_bCommit, dbVars, count >>

\* The sleep loop ends on a flag or after 1000 turns
ThreadWait ==
  /\ thr = "wait"
  /\ ThreadGoto("top")
  /\ UNCHANGED << clientVars, cs, handle, m_bCommit, dbVars, count >>

ThreadSignal ==
  /\ thr = "signal"
  /\ thr' = "none" /\ m_hEvent' = TRUE
  /\ UNCHANGED << clientVars, cs, handle, m_bCommit, m_bExit, m_hCommitPro, dbVars, count >>

ThreadStep ==
  \/ ThreadTop \/ ThreadCheck \/ ThreadEnd \/ ThreadBegin \/ ThreadClear
  \/ ThreadWait \/ ThreadSignal

-----------------------------------------------------------------------------
\* The process dies; SQLite's journal takes the file back to the last commit
Crash ==
  /\ count.crashes < MaxCrashes
  /\ count' = [count EXCEPT !.crashes = @ + 1]
  /\ pc' = [c \in Clients |-> "idle"]
  /\ cs' = NoOne /\ handle' = FALSE
  /\ m_db' = "null" /\ view' = file /\ tx' = FALSE
  /\ m_bCommit' = FALSE /\ m_bExit' = FALSE
  /\ m_hCommitPro' = FALSE /\ m_hEvent' = FALSE /\ thr' = "none"
  /\ UNCHANGED << call, ret, lastId, file >>

DBNext ==
  \/ \E c \in Clients : Operation(c) \/ \E k \in Calls : StartCall(c, k)
  \/ Connect \/ Reconnect \/ Disconnect
  \/ OwnerStep
  \/ ThreadStep
  \/ Crash

DBSpec == DBInit /\ [][DBNext]_manageVars

\* The operating system runs every thread that can take a step
DBFairness ==
  /\ \A c \in Clients : WF_manageVars(Operation(c))
  /\ WF_manageVars(OwnerStep)
  /\ WF_manageVars(ThreadStep)

FairSpec == DBSpec /\ DBFairness

-----------------------------------------------------------------------------
DBTypeOK ==
  /\ pc \in [Clients -> {"idle", "fault"} \union Using \union Connecting \union Disconnecting]
  /\ call \in [Clients -> Calls \union {NoCall}]
  /\ ret \in [Clients -> Int]
  /\ cs \in Clients \union {NoOne}
  /\ handle \in BOOLEAN
  /\ m_db \in {"null", "open", "bad", "closed"}
  /\ view \in Tables /\ file \in Tables
  /\ tx \in BOOLEAN
  /\ lastId \in Nat
  /\ m_bCommit \in BOOLEAN /\ m_bExit \in BOOLEAN
  /\ m_hCommitPro \in BOOLEAN /\ m_hEvent \in BOOLEAN
  /\ thr \in {"none", "top", "check", "end", "begin", "clear", "wait", "signal"}
  /\ count \in [ calls : Nat, opens : Nat, crashes : Nat ]

-----------------------------------------------------------------------------
(* Safety *)

\* A statement finds a transaction open except in the two windows the code
\* leaves: between the commit thread's COMMIT and its BEGIN, and after
\* DisconnectSQL has committed (DBManage.cpp:119-122, 219-236).
TransactionOpen ==
  m_db = "open" /\ ~tx => thr = "begin" \/ pc[Owner] \in {"stop", "join", "close"}

\* A commit thread belongs to one database: while it runs m_db is neither NULL
\* nor closed nor deleted; it has gone before ConnectSQL opens another database
\* and starts another thread, so that the branch that stops an old thread
\* (DBManage.cpp:188-201) never finds one; and the thread that a failed open
\* starts all the same (:204-205) never touches the dangling handle unless
\* the application was given the object.
OneThreadPerDb ==
  /\ thr # "none" => m_db \in {"open", "bad"}
  /\ pc[Owner] \in {"open", "start"} => thr = "none" /\ ~m_hCommitPro /\ ~m_hEvent
  /\ ~handle => thr \in {"none", "top", "check", "wait"}

\* "m_csCommit;//临界资源" (the critical resource, DBManage.h:96): m_db is used
\* inside m_csCommit and only while it is not NULL (DBManage.cpp:317).
NoUseAfterDelete == \A c \in Clients : pc[c] # "fault"

\* Outside a transaction nothing is uncommitted, and DisconnectSQL closes
\* the database with everything committed (DBManage.cpp:210: "关闭数据库，提交事务",
\* close the database, commit the transaction).
CloseCommits == pc[Owner] \in {"stop", "join", "close"} => view = file

\* What clients see of all this is a store written out whole.
Durable == INSTANCE DurableStore WITH
  Value <- Tables,
  InitialDisk <- InitialFile,
  mem <- IF m_db = "open" THEN view ELSE file,
  disk <- file,
  up <- m_db = "open",
  crashes <- count.crashes

\* Writes, commits, closings and crashes are those of DurableStore.
ImplementsDurableStore == Durable!Spec

-----------------------------------------------------------------------------
(* The inductive invariant behind the safety properties, in parts *)

\* Only the owner connects and disconnects
Roles == \A c \in Clients : c # Owner => pc[c] \in {"idle", "fault"} \union Using

\* Who is inside the critical section: a client at its statement, or the
\* owner from ConnectSQL's Lock on, through the closing it may do there
LockInv ==
  /\ \A c \in Clients : pc[c] = "exec" => cs = c
  /\ pc[Owner] = "open" => cs = Owner

\* m_db follows the owner through ConnectSQL and DisconnectSQL
OpenInv ==
  /\ pc[Owner] \in {"start", "endtx", "stop", "join", "close"} => m_db \in {"open", "bad"}
  /\ pc[Owner] = "delete" <=> m_db = "closed"
  /\ pc[Owner] = "open" => m_db = "null"
  /\ pc[Owner] \in {"exec", "request", "readid"} => m_db \in {"open", "bad"}

\* An object that was not handed out is new, or failed to connect
HandleInv ==
  ~handle =>
    /\ OthersIdle /\ ~m_bCommit
    /\ pc[Owner] \in {"idle", "connect", "open", "start"}
    /\ pc[Owner] = "connect" => m_db = "null"
    /\ pc[Owner] = "idle" => m_db # "open"
    /\ thr \in {"none", "top", "check", "wait"}

\* The thread, its handle, its event and the flag that stops it
ThreadInv ==
  /\ m_hCommitPro <=> m_db \in {"open", "bad"} /\ pc[Owner] \notin {"start", "close"}
  /\ thr # "none" => m_hCommitPro /\ ~m_hEvent
  /\ m_hCommitPro => thr # "none" \/ m_hEvent
  /\ m_hEvent \/ m_bExit => pc[Owner] = "join"
  /\ thr = "signal" => m_bExit

\* Nothing is uncommitted outside a transaction, and none is open on a
\* database that is not
CommittedInv == (~tx => view = file) /\ (tx => m_db = "open")

\* An application that waits for its calls before it disconnects
QuiesceInv ==
  Quiesce =>
    /\ pc[Owner] \in Connecting \union Disconnecting => OthersIdle
    /\ \A c \in Clients : pc[c] \in {"exec", "request", "readid"} => m_db \in {"open", "bad"}

DBInv ==
  /\ DBTypeOK /\ Roles /\ LockInv /\ OpenInv /\ HandleInv /\ ThreadInv
  /\ TransactionOpen /\ CommittedInv /\ QuiesceInv /\ (Quiesce => NoUseAfterDelete)
  /\ Quiesce /\ ~CommitMayFail => CloseCommits

-----------------------------------------------------------------------------
(* Liveness *)

\* No call hangs: neither on the lock nor on the commit thread.
EveryCallReturns == \A c \in Clients : pc[c] # "idle" ~> pc[c] = "idle"

\* A request that the commit thread has not yet begun to serve is served: the
\* file catches up with all that was written before.
RequestServed ==
  m_bCommit /\ thr \in {"top", "check", "wait"} ~> file = view

\* "提交本次事务", "开启下一次事务" (commit this transaction, begin the next,
\* DBManage.cpp:118-121): what a finished call has written gets committed.
FinishedWriteCommitted ==
  (\A c \in Clients : pc[c] = "idle") /\ view # file ~> file = view

\* "停止已开启的事务处理线程" (stop the running transaction thread,
\* DBManage.cpp:187): connecting again closes the old database and returns.
ReconnectReturns == pc[Owner] = "connect" ~> pc[Owner] = "idle"
=============================================================================
