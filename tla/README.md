# CodeToolKit in TLA+

CodeToolKit is a collection of libraries and tools, some written here and some
kept for reference. This directory holds specifications of the parts whose
behaviour depends on the order in which things happen: threads, callbacks,
crashes, long sequences of calls. TLC checks them on small instances; TLAPS
proves the most important properties for every value of the constants.

Paths below are relative to `src/`, and `caffe/` stands for
`9.caffe-ssd/src/caffe/`.

1. [The system](#1-the-system): inventory of the parts and what makes each correct
2. [Modules and code](#2-modules-and-code): state and actions against functions
3. [Runs](#3-runs): what is checked, within which bounds, under which fairness
4. [Disagreements between code and
   comments](#4-disagreements-between-code-and-comments)
5. [Proofs](#5-proofs)
6. [What is not modelled, and the
   abstractions](#6-what-is-not-modelled-and-the-abstractions)
7. [Plan](#7-plan)


## 1. The system

The parts do not call each other across the numbered directories: each is a
library or a program of its own. Within `6.hwbrapsqlite` and `9.caffe-ssd`
several components interact.

### hwbrapsqlite (`6.hwbrapsqlite/src`)

A DLL that stores the channels and the analysis rules of a camera application
in SQLite.

| Part | State | Operations |
|---|---|---|
| C interface, `AnalystSQLite.cpp` | the handle, a pointer to a `CDBManage` | `zeno_SQLite_Connect`, `DisConnect`, and one function per operation; the two `Set` functions turn `nDevId <= 0` away |
| `CDBManage`, `DBManage.cpp` | `m_db`, the critical section `m_csCommit`, `m_bCommit`, `m_bExit`, the thread handle `m_hCommitPro`, the event `m_hEvent` | `ConnectSQL`, `DisconnectSQL`, `CreateTable`, `DropTable`, `Add/Del/Get/Set` of links and of rules |
| commit thread, `CommitTransactionProc` | where it is in its loop | ends the transaction and begins the next one when `m_bCommit` is set |
| `CZenoSQL` | the connection: tables as seen, open transaction, last insert id | executes a statement, reads rows |

Interaction: every operation enters `m_csCommit`, executes a statement in the
transaction that is always open, sets `m_bCommit`, leaves, and an `Add` then
reads the last insert id. `DisconnectSQL` takes no lock: it commits, stops the
thread, waits for its event, closes, deletes.

Hard: the lock is left before everything is done; two flags and an event tie
the threads together; the process may die with a transaction open; SQL
conditions are assembled from whichever fields of the argument are positive.

Correct when: what a call wrote is seen by later calls and gets committed;
closing loses nothing; a crash takes the file back to a commit; nobody uses a
deleted object; no call hangs; every statement hits exactly the rows meant; a
channel never has two rules of one type.

### caffe-ssd: SyncedMemory (`caffe/syncedmem.cpp`)

Memory with a host copy and a device copy, allocated when first asked for and
copied when stale. State: `head_`, a pointer, an ownership flag and an origin
(allocator or device) for each side. Operations: the two accessors of each
side, `set_cpu_data`, `set_gpu_data`, `async_gpu_push`, destruction. Every blob
holds two of them, and `Blob::Reshape` replaces them. Correct when a reader
always gets what was written last, and every block is freed once, by the
allocator it came from.

### caffe-ssd: DataReader and BlockingQueue (`caffe/data_reader.cpp`, `caffe/util/blocking_queue.cpp`)

The data layers of several solvers read one source through one thread (a
`Body`), found through a registry of weak pointers. State: the registry, each
body's thread, cursor and list of queue pairs, each reader's two queues of
`Datum` objects. Operations: construction and destruction of readers, from any
thread; the reading loop, which deals the records out in turn; interruption.
Correct when records are dealt in turn however the readers arrive, no `Datum`
is lost, set-up needs one record only, and shutting down never waits for ever.

A `BlockingQueue` is a mutex, a condition variable and a queue; `pop` and `peek`
wait, `push` notifies one waiter after it has given the mutex up. Correct when
every element comes out once and in order, and no waiter sleeps on a queue that
has something.

### caffe-ssd: prefetching data layers (`caffe/layers/base_data_layer.cpp`, `caffe/layers/data_layer.cpp`)

Each data layer owns a `DataReader` and a thread. Three batches go round between
two blocking queues: the thread takes an empty one, fills it record by record,
and hands it over; `Forward` takes a full one, copies it, gives it back. The
destructor interrupts the thread wherever it waits, then destroys the reader,
whose body may be waiting as well. Correct when no batch is copied while it is
being filled, when a solver sees exactly its share of the records in order, and
when neither `Forward` nor the destructor waits for ever.

### caffe-ssd: nets (`caffe/net.cpp`, `caffe/util/insert_splits.cpp`)

`Net::Init` gets layers that name the blobs they read and make. It inserts a
split layer for every blob with several uses, wires bottoms to tops by name,
turns bad nets away, and decides which layers need a backward pass (loss
weights, `propagate_down`, learning rates, `force_backward`). `AppendParam`
shares parameters by name. `Backward` then runs the layers in reverse. All this
is one computation, called once: hard because of its rules, not its timing.
Correct when exactly the wrong nets are refused and each learnable parameter
gets the gradient that the chain rule gives on the net as written.

### caffe-ssd: SSD detector (`caffe/util/bbox_util.cpp`, `caffe/layers/multibox_loss_layer.cpp`, `caffe/layers/detection_output_layer.cpp`)

In training, `MultiBoxLoss` matches prior boxes to ground truths, mines the hard
negatives, packs the predictions that count, and in `Backward` scatters their
gradients back by walking the matches again. The matches are state between
`Forward` and `Backward`. In use, `DetectionOutput` suppresses overlapping boxes,
keeps the best, and saves the detections of `num_test_image` images at a time
into files; the counter, the list of detections and the files are state between
batches, and rounds need not end where batches do. Correct when the matching is
stable, the mined examples are the hardest, gradients return to where the
predictions came from, and every image of a round is saved once, under its name.

### caffe-ssd: parallel training (`caffe/parallel.cpp`, `caffe/solver.cpp`, `caffe/util/signal_handler.cpp`)

`DevicePair::compute` pairs the GPUs; `P2PSync::Prepare` makes a tree of
solvers of the pairs. Each solver is a thread that runs `Solver::Step`, and
`Step` calls `P2PSync` back: `on_start` sends the weights down the tree,
`on_gradients_ready` collects the gradients up the tree. One `BlockingQueue`
per solver takes the words of its parent and of its children. The root also
tests, updates, takes snapshots, and asks for signals. State: iteration
counters, weights, gradients, queues, `requested_early_exit_`, the two signal
flags, the snapshot files. The process may end and another may resume from a
snapshot. Correct when the tree has every device once; every update uses the
gradient of every solver at the present weights, once; training stopped or
finished leaves a usable snapshot; `Run` returns and leaves no thread; signals
are answered.

### Serialize tool (`1.Serialize`)

A class that encodes an array of numbers into a buffer it owns and decodes it
into one the caller owns. State: `m_data`, `m_size`, and `intelptr`, a second
pointer to `m_data` that lives from `decode` to `freeSpace`. Correct when every
block is freed once and what is decoded is what was encoded.

### TrimTSFile (`10.TrimTSFile`)

A Qt window that takes obsolete messages (those without a location) out of a
translation file, and lets the user recall their translations for messages that
stay. State: two trees on the screen, the current row, the document to be
saved, the files. Correct when the saved document is the file without the
obsolete messages, with what was recalled and nothing else changed, and when
the screen shows what will be saved.

### Parts without a module

| Part | What it is | Why it has no module |
|---|---|---|
| Layers of caffe other than those named | convolution, pooling, losses, in C++ and CUDA | arithmetic on arrays; `Net` has them as boxes with bottoms and tops |
| `caffe/util/db_lmdb.cpp`, `db_leveldb.cpp` | cursors over embedded databases | a cursor that wraps is in `DataReader`; the rest is I/O of the databases |
| ViBE (`2.MachineLearning`) | background subtraction | pixel arithmetic with random sampling, one thread |
| mms downloader (`3.libmms-0.6.4/downloader.cpp`) | a loop of reads | pure I/O over a vendored library |
| libmms, libjpeg, libpng, zlib, libccv, gtest, SQLite's header | vendored | third-party code, most of the lines of this repository |
| Iris data set, archives of `4.` and `5.`, `10.Jobs`, `13.Jobs` | data, binaries, place holders | no code |


## 2. Modules and code

| Module | Models | Used by |
|---|---|---|
| `LinkRuleTables` | every SQL statement of `CDBManage` as a function of the tables | the next two |
| `LinkRuleStore` | the interface as one client sees it, call after call | `MCCalls` |
| `DBManage` | clients, lock, transaction, commit thread, connect, disconnect, crash | `MCDBManage`, `MCThreads` |
| `DurableStore` | abstract: one store, written out from time to time | refined by `DBManage` |
| `Serialize` | `SerializeData`, its heap and its caller | `MCCalls` |
| `TrimTS` | the window, its document, its files | `MCCalls` |
| `SyncedMemory` | the class and its user | `MCCalls` |
| `Register` | abstract: a read returns the last write | refined by `SyncedMemory` |
| `BlockingQueue` | mutex, condition variable, waiters, notification | `MCThreads` |
| `DataReader` | readers, registry, bodies, queue pairs | `MCThreads`; extended by `Prefetch` |
| `Prefetch` | data layers: the owners of readers, with thread, batches, `Forward` | `MCPrefetch` |
| `Net` | splits, wiring, backward marks, shared parameters, the backward pass, as operators | `NetCases` |
| `NetCases` | nets that grow layer by layer | `MCLayers` |
| `BBox` | matching, suppression, mining, as operators | `MultiBoxLoss` |
| `MultiBoxLoss` | the loss layer: `Forward`, `Backward` and what it keeps | `MCLayers` |
| `DetectionOutput` | the output layer: `Detect` (its `Forward_cpu`), saving | `MCLayers` |
| `SignalHandler` | the signal flags and `CheckForSignals` | instantiated by `P2PSync` |
| `DevicePairs` | `DevicePair::compute` and `Prepare` as operators, a loop as a function of its rounds | `MCTraining`, which makes the trees of `P2PSync` with it |
| `P2PSync` | the training loop on every solver, snapshots, resume | `MCTraining` |
| `Training` | abstract: gradient descent on one machine | refined by `P2PSync` |
| `*Proofs` | theorems, see section 5; `StandaloneProofs` is about `BlockingQueue`, `Serialize`, `TrimTS` and `LinkRuleStore`, `SSDProofs` about `MultiBoxLoss`, `DetectionOutput` and `NetCases` | |

`MCCalls` (objects that one thread calls), `MCThreads` (threads that wait for each
other) and `MCLayers` hold several components that do not talk to each other; `family`, chosen in the initial state, says whose behaviour it is,
and the variables of the others stand still. A state of one family is never a
state of another, so each is checked as if alone.

A definition under a comment `Slip:` is used by no specification. It is the
definition that follows it, written with a mistake one could make in that code;
putting it in the place of the real one makes TLC report the property it is
there for. Each property checked has one, so none of them holds by the mere
shape of the model.

### LinkRuleTables, LinkRuleStore, DBManage

A table is a set of rows with the largest id given out (`AUTOINCREMENT`). A
statement maps the tables, the last insert id and the argument to the new
tables, a result and the new last insert id. Conditions are those the code
assembles, one after the other: `Condition` adds one if its field asks for it, with
the keyword that the flag `bMulti` calls for, and sets the flag; a text compiles
if it has one `WHERE`, at the front, and then only `AND`s (`Compiles`), and one that
does not compile deletes and finds nothing. The oddities are kept: `DelLinkQuery` compares a
positive `id` with the column `anachannel` (`DBManage.cpp:364`), `UpdatedChannel` stores the
address as the device's name (`:784`), `GetRuleRows` takes the value of the
main type from the sub type when that condition comes first (`:898`),
`AddRuleStmt` always fails (`:826`, twenty values for twelve columns).

In `DBManage` each client is a program counter; a step is what lies between two
places where another thread can get in.

| Code | Actions |
|---|---|
| a call, up to `Lock`; its statement; `m_bCommit`, `Unlock`; `getLastInsertId` after it | the client's steps at `enter`, `exec`, `request`, `readid` (`Operation`) |
| `ConnectSQL` | `Connect`, `Reconnect` (on a connected object), `ConnectEnter`, `OpenSucceeds`, `OpenFails`, `StartThread` |
| `DisconnectSQL` | `Disconnect`, `CommitLast`, `StopThread`, `JoinThread`, `CloseDb`, `DeleteDb` |
| `CommitTransactionProc` | `ThreadTop` ... `ThreadSignal`, one for each line that touches shared state |
| the process dies | `Crash`: the tables go back to the committed ones |

`cs` is the owner of the critical section, which is recursive (`MayEnter`);
`view` is what the connection sees, `file` what is committed. `m_db` is `"null"`,
`"open"`, `"closed"`, or `"bad"`: an open that fails closes its handle but keeps it
(`ZenoSQL.cpp:38-45`), and `ConnectSQL` goes on with it as if it had connected: the
`BEGIN` fails, the commit thread is started (`DBManage.cpp:183`, `:204-205`), and only
the result says what happened. `zeno_SQLite_Connect` then forgets the object, which lives on
with its thread, but out of everyone's reach; on a second `ConnectSQL` of one object the
application keeps it, and calls on it fail. The use of a
deleted `m_db` takes a client to `fault`. SQLite itself is external: `BEGIN`
within a transaction fails, a statement outside one commits by itself, `COMMIT`
may fail when the constant `CommitMayFail` says so.

### SyncedMemory

Both sides are handled alike, so members are functions of the side. `to_cpu`
and `to_gpu` are `Bring`; the accessors are `Data` and `MutableData`;
`SetData`, `AsyncGpuPush`, `Renew` (destruction and construction, by
`Blob::Reshape`) are the rest. `from` is the heap's own knowledge of where a
block came from; the object only has `origin`. A push ends in
`StreamSynchronize`. The user of the class is part of the model: it writes only
through the pointer it asked for last, and synchronises before it touches what
is being pushed. `Switch` changes the mode and the current device at any time.

### DataReader

A reader stands for the layer that owns it: `New`, `SetUp` (peeks at a datum),
`Get`, `GiveBack`, `Reset` and `Erase` (the two halves of the destructor, with
the registry's mutex taken only in the second), `Join` (the last one waits for
the thread). A body's thread goes through `Accept`, `Take`, `Fill`, `Loop`;
`Interrupted` is `boost::thread_interrupted` at a queue it waits on.

### BlockingQueue

What happens under the mutex is one step. `Push` and `Notify` are two, since
`push` unlocks before `notify_one`; `Wait` goes to sleep, `Notify` or a spurious
`WakeUp` ends the sleep, and `Pop` or `Look` runs only after the queue has been
looked at again. Elements are pairs of pusher and count. `try_peek` changes
nothing and is `TryPop`'s test. The other modules use the queue as one whose pop
waits, with one thread popping: `TakenInOrder` and `PopReturns` are what makes that
sound.

### Prefetch

It extends `DataReader` and conjoins each step of a layer with the step the
reader's owner takes in it.

| Code | Actions |
|---|---|
| constructors of `DataLayer` and `DataReader` | `Construct` (with `New`) |
| `LayerSetUp`: the first datum shapes the blobs, the thread starts | `LayerSetUp` (with `SetUp`) |
| `Forward_cpu` | `PopFull`, `Copy` |
| `~DataLayer`: `StopInternalThread`, then the members' destructors | `StopThread`, `JoinThread` (with `Reset`), `ReaderGone` (`Join`, `Erase`) |
| `InternalThreadEntry`, `load_batch` | `MustStop`, `PopFree`, `PopDatum` (with `Get`), `Transform` (with `GiveBack`), `PushFull`, `StopWaiting` |

A record is its number, so a batch is the sequence of the numbers in it.

### Net, NetCases

`NetInit` is `Net::Init`, `NetBackward` what `Net::Backward` then does; `NetCases`
has the net as it is written and what `NetInit` makes of it, and lets the net grow by
any layer of `Cases(net)`, a constant operator. `Known` is the check of
`InsertSplits` that something before it makes what a layer reads; the rest of it is
`Uses`, `SplitCount`, `ConfigureSplitLayer`, `Rewired`, put together in `WithSplits`.
Names in a net as written are tuples of one string and those of splits have
four parts, so that a blob never has the name of a split's top by accident. `Connect`
is the loop over layers of `Net::Init`, in each of which `Reads` is the loop of
`AppendBottom` and `Makes` that of `AppendTop`, all three recursive functions of
what has passed; the first fatal step ends them. `Mark`
is the loop from the last layer to the first, `ForceBackward` the case after it;
`Owner`, `RatesAgree` and `LearnableRate` are `AppendParam`. `NetBackward` is the
composition of `Layer::Backward` calls, for layers that pass on the sum of what
their tops got: a gradient is then the weighted number of ways to a loss, which
tells a lost, doubled or misplaced gradient from the right one. `Gradient` is the
same number computed on the net as written, by the chain rule alone.

### BBox, MultiBoxLoss, DetectionOutput

An image is what the algorithms see of it: the overlap of each prior with each
ground truth, the order of the losses, which boxes overlap too much.
`MatchBBox`, `FindMatches`, `ApplyNMS` and `Mine` are the functions of
`bbox_util.cpp`. The loop of `MatchBBox` that ends when no pair is free is
`Bipartite`: as many rounds of `MatchOne` as there are ground truths, where a
round without a free pair changes nothing. Likewise `ApplyNMS` is as many rounds of
`NMSOne` as there are boxes, and `Ascending` is a loop over priors or labels that takes
some of them; the loops are recursive functions of their rounds. `IsMatch` and
`IsHardest` say what a match and a mining are for, without the greedy loops.

The part of an image in `conf_gt_` begins `num_priors` elements after that of the image
before it (`bbox_util.cpp:1633-1634`). Under the logistic loss, whose rows are `num_classes`
wide, the labels of later images are set in rows of earlier ones when there is no mining:
`LogisticSet` are the elements that are set, `Target` what a row then has.
`Forward` of `MultiBoxLoss` (with `Pack`, its second half) appends to `all_match_indices_` as the code does and
reads only the first entries; a row of `loc_pred_` or `conf_pred_` is the place its
prediction came from. `Backward` counts the rows again and clears the matches.

`DetectionOutput` reads images round and round. `ByScore` is the sort of
`GetMaxScoreIndex`: the k-th is the one with k - 1 better ones, which names it since
no two scores of an image are alike (`IsSource`). `MayStay` is the loop over the boxes
kept, `Only` the return from the best of all labels to lists by label. `Rows` are the
top blob, `Save` is what one image of a batch does to counter, waiting detections and files,
`Reshape` clears the files of a VOC layer when a batch begins with a round. A
batch in the middle of which a round ends writes the files and goes on.

### Serialize, TrimTS

`Serialize`: blocks of the heap may be given out again; a free or a read of a
block not in use sets `fault`, after which there are no steps: what follows is undefined.
`ToInt` is what an `int` up to `INT_MAX` keeps of a number. The caller may free what it
decoded (`owed`), as the header asks ("解码时配对", to be paired with decoding,
`serializeTool.h:23`), or leave it, as the driver says it may (`serializeTool.cpp:129`);
`skipped` remembers that it decoded again or let the object go before it had freed.

`TrimTS`: a document is a function from positions to messages; what is taken out
of it keeps the positions of what stays, and so do the rows of the trees.
`Choose` is `prepareRepeatXml` and `prepareOutputXml` on one file, `Click` a
selection on the left, `Recall` the slot that recalls one row, `RecallAll` the
start of its loop over all rows when none is current and `RecallNext` a turn of
it (`todo` has the rows still to come, and nothing else is done meanwhile), `Save`
the slot that saves. `Shown` changes the first fitting row of the tree on the
right and `Written` every fitting message of the document, as the two searches of
the code do. The functions look texts up by value, so duplicates matter and are
among the documents.

### P2PSync

`pc[n]` is where solver `n` is in `Solver::Step`. The steps are: `Begin` (top
of the loop, `ClearParamDiffs`), the root's `Test`, `OnStart`, `Copy` and
`Tell` (weights to one child, then the word), `ForwardBackward` (once for each
of `iter_size`), `Gather` and `Add` (one child each), `Leave` and `Report`
(gradients to the parent's buffer, then the word), `Apply`, and the root's
`Decide`. `Solved`, `Stop(i)`, `Finish` are the rest of `Solve` and
`P2PSync::Run`. `Save` writes the model file and then the state file, each
`Torn` while it is written. `Restart` ends the process wherever it is and
starts another, from nothing or from a usable snapshot; as in
`InternalThreadEntry` the workers of a resumed run count from 0 and only go to
`max_iter - initial_iter_`, whereas the root counts on.

Weights are the number of proper updates they went through. A gradient is a
pair of solver and weights, and a buffer counts gradients, so `Apply` can tell
a proper sum (each solver's `iter_size` gradients at the present weights,
nothing else) from any other, which makes the weights `Bad`.

`SignalHandler` splits `GotSIGHUP` and `GotSIGINT` in reading and clearing.
`since` is a history variable: the signal came after the last read of its flag.


## 3. Runs

| Run | Kind | Distinct states | Question |
|---|---|---|---|
| `calls` | pass | 724 000 | does every call of the SQLite interface, of the serialize tool, of `SyncedMemory` and of TrimTSFile leave things as it should, and return what it should? |
| `dbmanage` | pass | 1 190 000 | do lock, transactions, commit thread, connect, disconnect and crashes keep the promise of `DurableStore`? |
| `threads` | pass | 36 000 | are records dealt in turn, is no datum and no wake-up of a queue lost, does every call of `CDBManage` return, and are commit requests served? |
| `prefetch` | pass | 275 000 | does each solver get its share in order, whatever the threads do, and do layers start, run and stop? |
| `layers` | pass | 87 000 | do nets compute whole gradients, and does the detector match, mine, suppress and save as it should? |
| `training` | pass | 250 000 | is training on a tree of solvers gradient descent on one machine, and does it end? |
| `lost_request`, `reconnect`, `use_after_delete`, `double_free`, `lost_signal`, `stale_matches` | violation | | section 4 |

### Bounds, and why they are enough

`calls`: two channels, two texts, two types of a kind, two ids. Two of a thing
let a condition hit one row and miss another, which is all the statements can
tell apart. Channel calls and rule calls share only `CreateTable` and the last
insert id, so a behaviour is made of either (`family`). `MaxId = 2` ends a
behaviour after two inserts into a table; calls without inserts go on.

For the coder: three blocks, one more than the object and its caller can hold,
so that an address can be given out again; an `int` of -16..15 and arrays of
1, 2, 4, 8 and 9 numbers, whose sizes in bytes fit (1 and 2), or come out
negative (4), zero (8) and small again (9). All sequences of calls, of callers that
free what they decoded and of those that do not, up to the first fault.

For `SyncedMemory`: two values; two blocks for each side, the second one there to
be leaked into or freed wrongly; one user's buffer for each side; two
allocators and two devices. No other bound: all sequences of calls are covered.

For TrimTSFile: every document of two contexts, of one name or two, with two
messages in the first and one in the second, each located or not, with no
translation or one of two, of equal or different sources. `MaxMods = 1` lets a saved file be read and trimmed again,
once; `MaxRecalls = 2` is one recall over another.

`dbmanage`: two clients, one of them the owner, three calls, each operation
once (they differ in the lock only by writing, reading and returning an id),
two connections, either of which may fail to open the file, so that a second thread
is started after the first, one crash,
and `MayReconnect`, so that `ConnectSQL` on a connected object is included. The
file starts empty. `Quiesce = TRUE`: the application disconnects when none of
its calls is running. The interface asks for no such thing; it is a hypothesis of
`ImplementsDurableStore` alone, which says nothing of a process that has used a deleted
object. That it may is shown by `use_after_delete`, which has `Quiesce = FALSE`.
`TransactionOpen` and `OneThreadPerDb` are proved without it.
`CHECK_DEADLOCK FALSE` in all `MCDB*` configurations, because an application
may stop making calls.

`threads`: two readers, two bodies, two solvers, two `Datum` objects for
each reader, four records. With two readers one body can be being stopped while
the second is being started. Beside them a `BlockingQueue` with two threads that
push twice each and one or two that pop, so that a popper that was woken finds
its element taken. And a `CDBManage` with two clients, two calls of five kinds, and one
connection, which may stop when its calls are used up. No other bound. Deadlock is
checked.

`prefetch`: two layers for two solvers on one body, one `Datum` in each queue
pair, two batches of two records, three records. The number of records is
not divisible by the number of solvers, so that a share runs through all of
them and each batch differs from the next. Layers are made and destroyed again
and again. `CHECK_DEADLOCK FALSE`: a layer may leave while the other one waits
for records that the reading thread can no longer deal in turn (see
`ForwardReturns`), and a net need not be rebuilt.

`layers`: three priors and two ground truths, two images in a batch, two passes.
Two priors take every overlap from none to above the threshold with each ground
truth; the second pass has few batches, and shows what the layer remembers. All
combinations of matching type and mining that the code accepts with one location
for all labels, and the matchings with a location for each label. One of them has the
logistic confidence loss, without mining. Nets: a data
layer and up to three more, the third of them a loss, in every combination:
enough for a blob with two uses, a layer in place over it, a shared parameter
and a branch that is cut off. Detections: rounds of three images read in batches
of two, so that rounds and batches drift apart, and rounds of one; three priors
and two labels with every overlap of the first image. `CHECK_DEADLOCK FALSE`,
because passes and layers are counted.

`training`: two, three and four devices, with every relation of peer access, and
of two and three devices every division in boards. That gives eleven trees: all
that `DevicePair::compute` makes of two and three devices, and seven of the
eighteen it makes of four, the star and the balanced tree among them (boards
with four devices add a chain of four and other orders of children). Two
iterations, two passes in an iteration (`iter_size`), tests every two iterations
and before the first, snapshots every two iterations and at the end, `SIGHUP`
takes a snapshot and `SIGINT` stops. `MCNext` keeps the sum of solvers, signals
and new processes at four or below: two solvers see a signal and a new process,
three see one of these, four none. Signals and restarts concern the root, and
what they disturb in a tree shows with one level below it; orders of threads are
what four solvers add. Deadlock is checked; a finished run stutters (`Done`).

### Fairness

- `DBManage` (`FairSpec`): weak fairness of each client's operation once begun,
  of the owner's steps inside connect and disconnect, and of the commit thread.
  They are threads that the operating system runs. Nobody has to begin a call,
  connect or disconnect. Weak fairness does not give a
  client the lock against others that take it again and again; in the run the
  calls are bounded (`MaxCalls`) and the commit thread holds the lock within
  one step only, so `EveryCallReturns` speaks of deadlock, of the waiting for
  the thread and of the thread's loop, not of starvation by endless calls.
- `DataReader` (`Fairness`): weak fairness of `SetUp`, of the destructor once
  begun, and of the reading thread. Nobody has to make, use or destroy a reader.
- `BlockingQueue` (`QueueFairness`): weak fairness of `Notify` after a `Push`, and of a
  thread inside `pop` or `peek`. Nobody has to call, and no spurious wake-up is
  assumed, so `PopReturns` rests on `notify_one` alone.
- `Prefetch` (`LayerFairness`): weak fairness of each solver's thread inside a
  call, of each prefetch thread and of the reading thread. What the solver does
  next, another `Forward` or the destructor, is its choice, and nobody has to
  make a layer.
- `P2PSync` (`FairSpec`): weak fairness of all threads together, that is, some
  thread that can step does. This is less than fairness of each thread, and
  enough: apart from signals and new processes, which are bounded, each step
  takes training nearer its end.

### Properties

Each is stated above its definition in the module, with the lines it is about.

- `LinkRuleStore`: `RuleKeysUnique`, `SetRuleIsUpsert`, `QueryExact`, `DeleteExact`. The
  last two state for all arguments which rows a chain of conditions selects, as plain
  conjunctions; where the code takes another field than the one asked for (section 4)
  they say which.
- `DBManage`: `TransactionOpen`, `OneThreadPerDb`,
  `ImplementsDurableStore`; `EveryCallReturns`, `RequestServed`.
- `Serialize`: `FreedAsPaired`, `RoundTrip`. The first says exactly when a block is freed
  twice: if the caller goes on without `freeSpace`, and never otherwise. `TrimTS`: `RecalledExact`, `ShownIsSaved`.
- `SyncedMemory`: `HeapIsOwned`, `FreedAsAllocated`, `ImplementsRegister`.
- `DataReader`: `DataGoRound`, `RoundRobin`, `RegistryExact`; `SetUpReturns`.
- `BlockingQueue`: `TakenInOrder`; `PopReturns`.
- `Prefetch`: `BatchesGoRound`, `ForwardInOrder`; `LayerDestroyed`,
  `ForwardReturns`. `LayerDestroyed` includes the end of `DataReader`'s destructor.
- `NetCases`: `RefusedIffWrong`, `WholeGradient`.
- `MultiBoxLoss`: `MatchesStable`, `HardestMined`, `GradientsGoHome`.
- `DetectionOutput`: `DetectionsBest`, `SavedExact`.
- `P2PSync`: `TreeSpans`, `QueueOrder`, `InStep`, `SavedAtEnd`,
  `EarlyExitIsFinal`, `ImplementsTraining`; `RunReturns`.

Type invariants that section 5 proves for every value of the constants are not
run again; TLC would only repeat them.


## 4. Disagreements between code and comments

Six runs find a behaviour of the code that a comment says does not happen.
`PROJECT.json` quotes the lines.

- `lost_request`: the commit thread clears `m_bCommit` after it has committed
  and begun the next transaction; a request made in between is erased and the
  write waits for the next call or the close (`DBManage.cpp:123`). This is why
  `RequestServed` speaks only of requests the thread has not yet begun to serve.
- `reconnect`: `ConnectSQL` on a connected object calls `DisconnectSQL` with the
  lock held, which waits for a thread that may wait for the lock
  (`DBManage.cpp:156`).
- `use_after_delete`: the calls test `m_db` and use it under `m_csCommit`, the lock of
  "临界资源" (the critical resource, `DBManage.h:96`), but `DisconnectSQL` deletes `m_db`
  without that lock (`DBManage.cpp:238`), and `AddLinkInfo` uses it after `Unlock`
  (`:338`). A disconnect that meets a call deletes the object the call goes on to use.
- `double_free`: `decode` keeps the encoded buffer a second time, in `intelptr`, and the
  next `decode` or the destructor frees both (`serializeTool.cpp:62-66`, `:14-24`). The
  driver says of its call of `freeSpace` "或者注释，让其自动回收" (or comment it out and
  let it be reclaimed by itself, `:129`): without that call the encoded buffer is freed
  twice and the decoded one never.
- `lost_signal`: a signal that comes between the reading of its flag and the
  clearing of it is never answered, although the function returns "true iff a
  SIGINT has been received since the last time" (`signal_handler.cpp:69`).
- `stale_matches`: a `Forward` of `MultiBoxLoss` that follows a `Forward`,
  without a `Backward` in between, packs the matches of the earlier batch,
  because `FindMatches` appends to a list that only `Backward` empties
  (`multibox_loss_layer.cpp:171`, `:367`). `layer.hpp:135` says the loss is that
  of the given blobs. A training net always goes back, which is why `layers` has
  `MayRepeat = FALSE`.

Met while modelling, and described by the model as they are, without a run:

- `AddRuleInfo` never stores a rule, and still returns a positive id when an
  earlier insert left one (`DBManage.cpp:826`). `AddLinkInfo` reads the last insert
  id after it has left the lock; the insert of another thread may supply it
  (`:338`).
- while the last reader waits for its thread to end, a new reader finds the weak
  pointer expired and starts another thread, although "a single reading thread is
  created per source" (`data_reader.hpp:16`); `Bodies` has two for that.
- a solver that leaves while another goes on stalls it: the reading thread goes
  on dealing to the queue pair of the one that left, and stops when that pair
  has no free `Datum` (`data_reader.cpp:105`). `ForwardReturns` speaks of
  solvers that are all at it.
- `InsertSplits` clears all loss weights of a layer when one of its tops hands its
  weight to a split (`insert_splits.cpp:82`); a second loss of that layer is lost.
  `WholeGradient` leaves such layers out (`LossesApart`).
- TrimTSFile: a file that cannot be read leaves the old document in place, and
  saving then writes that document under the new name; recalling an obsolete
  message changes every located one of that context and source in the document,
  but only the first that shows a translation in the tree. `ShownIsSaved` says
  when the two agree.
- a query for rules by type alone compares the main type with the sub type's
  value (`DBManage.cpp:898`); a delete of channels by `id` compares the channel
  number (`:364`; the query by the same field compares the id, `:655`); an update of a channel stores its address as its name
  (`:784`); a `COMMIT` that fails at the close is ignored (`:219`).
- under the logistic confidence loss without mining, targets of every image but the first
  are written into rows of other predictions: the pointer advances by `num_priors`, the
  rows are `num_classes` times as wide (`bbox_util.cpp:1593`, `:1633-1634`).
- records are dealt to disjoint subsets only if their number is divisible by
  the number of solvers; otherwise the next pass over the source shifts them
  (`RoundRobin`, `data_reader.hpp:16-20`).
- `DevicePair::compute` reads past the end of its vector when an odd number of
  devices (more than one) is left in a pass over the rest (`parallel.cpp:175`),
  as with three devices of which none can reach another. `Compute` marks such
  machines as undefined, and the run leaves them out.
- no snapshot is taken after training when the stop is requested in the test
  before the first iteration and `snapshot_interval` is set, because 0 is a
  multiple of everything (`solver.cpp:309`). `SavedAtEnd` therefore speaks of
  training that got beyond the iteration it started at.
- a snapshot of an iteration that already has one is written over it; until it
  is complete neither can be used. `Training!Snapshot` admits this.


## 5. Proofs

All proofs are checked by TLAPS down to the last leaf.

### DBManageProofs (for any clients, calls, initial file and bounds)

- `TypeCorrect`: `DBSpec => []DBTypeOK`.
- `OneThread`: `DBSpec => []OneThreadPerDb`. Not inductive as it stands. The
  invariant is `ControlInv`: `DBTypeOK`, `Roles` (only the owner connects and
  disconnects), `LockInv` (who holds the lock where), `OpenInv` (`m_db` follows
  the owner's program counter), `HandleInv` (an object that was not handed out is new or
  failed to connect: no client is in a call of it and no commit is requested) and
  `ThreadInv` (how thread, handle, event and
  exit flag hang together). The point of the argument: `m_hCommitPro` is set
  exactly while the owner is not in `start` or `close` of a database that was opened or
  failed to open, and the event is set only while the owner waits for it. No discipline
  of the application is assumed, and opening may fail at any time.
- `TransactionIsOpen`: `DBSpec => []TransactionOpen`, from `ControlInv`, likewise.
- `CloseIsCommitted`: assuming `Quiesce` and that `COMMIT` does not fail, the
  database is closed with everything committed. Its strengthening is
  `CommittedInv`: outside a transaction nothing is uncommitted, and none is open on a
  database that is not; and `QuiesceInv`, a client past its test finds `m_db` in place.
- `Refinement`: under the same assumptions `DBManage` implements
  `DurableStore`. A statement maps to `Write`, the thread's `COMMIT` to
  `Commit`, the owner's last `COMMIT` too, `OpenSucceeds` to `Open`, `CloseDb` to
  `Close`, `Crash` to `Crash`; everything else stutters.

The two assumptions are needed: without the first a client may use a deleted object
(`use_after_delete`), and with a `COMMIT` that fails the close loses writes. Neither is
enforced or asked for by the code.

### LinkRuleTablesProofs, and LinkRuleStore in StandaloneProofs (for any devices, arguments and numbers of rows)

Lemmas on each statement: it keeps the tables well typed (ids stay below the
counter, rows stay rows), it keeps rule keys unique, and `SetRuleStmt` touches the
rule of its key only. `ConditionChains` says what one more condition does to a text that is
chained rightly (`Chained`: it compiles, and the flag is set when it has a condition):
it stays so, and selects those that it selected and that agree with the new condition. From it
`LinkQuerySelects`, `RuleQuerySelects`, `DelLinkSelects` and `DelRuleSelects` follow by going
through the conditions. The lemmas on types serve `DBManageProofs` as well. From
them, with `StoreInv` (the type of the tables, and unique keys):

- `RuleKeysAreUnique`: `Spec => []RuleKeysUnique`.
- `SetRuleUpdatesOne`: `Spec => SetRuleIsUpsert`. It needs unique keys before the
  call: the code looks a rule up by its key and updates by the id it finds.
- `QueriesAreExact`: `Spec => QueryExact`, and `DeletesAreExact`: `Spec => DeleteExact`, for all
  arguments.

### SyncedMemoryProofs (for any heap, any users' buffers, any devices)

`SyncedTypeCorrect`, `NothingLeaks` (`HeapIsOwned`), `OriginIsKept`
(`FreedAsAllocated`) and `SyncedRefinement` (`SyncedSpec => ImplementsRegister`), from
one inductive invariant `SyncedInv`: besides the three invariants, `HeadInv` (which
copy is current, that both agree when `head_` is `SYNCED` and no push is under
way, that a user holds a pointer to the current side only) and `PtrInv` (a
side's buffer is its own block or a user's). The two halves support each other:
a refill of one side leaves the other alone only because the two buffers
differ, which `PtrInv` and `HeapIsOwned` give. The assumptions on constants are
that heaps, users' buffers and `NULL` are apart.

### DataReaderProofs (for any readers, bodies, solvers, queue size and records)

`DataReaderTypeCorrect`, `NoDatumLost` (`DataGoRound`), `RegistryIsExact`
(`RegistryExact`) and `DealtInTurn` (`RoundRobin`). The first three come from one inductive invariant `IInv` (defined in `DataReader`
and found to hold on the small instance by TLC before it was proved):

- `RoundInv`: where a thread is in its rounds. It serves a position of its row;
  until every solver has come, that position is the last one.
- `KnownApart`: no reader is known to two threads, so that two threads never
  fill a datum for the same queue pair. This is what makes `DataGoRound` go
  through when an old thread is still being joined and a new body has been made.
- `NoneDoubled`: a queue pair never has more Datum objects than it was made
  with, whether its reader is alive or gone. `DataGoRound` speaks only of
  readers that are there, but a thread may still be serving one that has gone.
- `KeptInv`: every thread has a reader that is alive or joins it, every reader
  alive has the body the registry names, and the registry is empty once all
  readers are gone.

`InHand` enters the proof as a function (`Hand`), which each step leaves alone
or changes at one reader.

`DealtInTurn` adds `DealInv`. `RoundRobin` says nothing of the cursor, so it cannot
be kept by itself: the record put next into a queue must be the one
`solver_count` after its last.

- `Dealing`: the last record of position `i`'s queue is as many records behind the
  cursor as it is steps since position `i` was served (`Ago`), modulo the number
  of records; with it each push extends the queue rightly.
- `CursorInTurn`: when the records divide evenly, the cursor is at a record of the
  position whose turn it is. While solvers are still joining, rounds of one
  record are dealt to the newest position; that this keeps in step is what
  `RoundOk` of `RoundInv` says.
- `NewEmpty`, `KnownOnce`: a reader that waits to be accepted has nothing in its
  queue, and no queue pair is in a row twice, so a push lengthens one queue.

The arithmetic of `%` is in lemmas of its own, since the solver does not
find it: adding and taking away before and after a remainder, and remainders by a
divisor of the modulus.

### PrefetchProofs (for any layers, bodies, solvers, queue sizes, batches and records)

- `LayersUseReaders`: `LayerSpec => Spec`, the layers use their readers as
  `DataReader` wants. The theorems of `DataReaderProofs` hold under them therefore;
  `NoDatumLostInLayers` is one instance.
- `NoBatchLost`: `LayerSpec => []BatchesGoRound`. Inductive with `LayerTypeOK` and
  `HandsOk` (when thread and solver have a batch in hand); the lemmas `TakenFrom`
  and `PutTo` say what a pop and a push do to the elements of a queue without
  repetitions.
- `SharesInOrder`: `LayerSpec => ForwardInOrder`, the promise of the whole
  pipeline. The invariant is `OrderInv` with `ShareInv` of `DataReader`. `RowInv`
  follows the records of a share along their way: what the solver has been
  shown, the full batches that wait, the batch the thread is filling up to
  `item`, the `Datum` it has in hand, and the queue of its reader are consecutive
  members of the share, and the reader's queue goes on from where the thread is.
  Each step moves the border between two of these places and leaves the sequence
  as it is. `ShareInv` gives the two ends: a reader in use is known to its body,
  and the first record of position `i` is record `i` (`FirstRound`), because a body
  accepts nobody while it deals and deals one record to each it accepts.
  Batches are apart by `BatchesGoRound`, so that filling one does not change
  another that waits or is being copied.

### P2PSyncProofs (for any trees that span their solvers, any iterations, signals and restarts)

The hypothesis `TreesSpan` says that every tree of the constant `Trees` satisfies
`Spans`: the root is nobody's child, everyone else is one child of one parent, and
each set of solvers below the root has a member whose parent is not in it. The
run `training` checks it of the trees made of up to four devices (`TreeSpans`).
`BuiltTreesSpan` proves it of every tree that `DevicePair::compute` and `Prepare`
build, of any number of different devices, whichever share a board or can reach
each other, as long as the loop of `parallel.cpp:175` stays inside its vector
(`TreesBuilt`); `TrainsInATree` draws the conclusion for `TreeSpans`. The loops are
functions of the rounds that have passed (`LoopIs` says that such a function exists
and stays in a set the body stays in), and the argument is one invariant per loop:

- `Grouped`, of a pass of `compute`: a device either remains or has been paired once,
  none is lost, and no parent has been paired before its child. `PassKeeps` adds that
  a pass without regard to proximity halves the devices or leaves the vector,
  `DepthIs` that two to the number of passes is enough for all of them, so one device
  is left (`PassesKeep`); this is the `CHECK` at `parallel.cpp:182`. `Rooted` is what
  `ComputeIs` makes of it: the parent of a pair is the root or is paired later.
- `Growing`, of an attempt of `Prepare`: children stand for pairs that have a solver,
  each in one place. When all pairs behind the k-th have a solver, the next attempt
  makes that of the k-th (`AttemptGrows`), so as many attempts as pairs are enough
  (`PrepareIs`).
- Of a set of solvers below the root, the one paired last has its parent outside
  (`PreparedSpans`).

From the invariant `TrainingInv`, in four layers, each proved on top of the
ones before:

- `Types`: what the variables hold, as far as it does not depend on the rest.
- `RoundsInv`: where each solver is in the present iteration. A
  child waits, has been called, works or has reported, and `EdgeInv` says which
  of these goes with which places of its parent; `QueueInv` says that the queue of
  a solver that works holds children that have reported and have not been
  added, each once; `PlaceInv` says what else goes with a place. `FoundAsExpected`
  (`Spec => []QueueOrder`) follows: one queue for both directions is safe because a
  child reports only after it was started and the parent starts a round only after
  all have reported.
- `GradInv`: a solver's buffer holds exactly the gradients of those below it that
  it has added, each as often as `iter_size`, at the present weights. Sums over
  the tree are avoided: `Below(n)` is the least set with `n` that is closed under
  children, and adding a child's buffer is the union of two disjoint sets.
  At the root the set is everybody, which is where `Spans` is used.
- `FilesInv`, `Bounds`: a snapshot file is missing, torn, or of the weights its name
  says; what has been written when the root is at each place; the program
  counter while a stop is requested.

Theorems: `FoundAsExpected` (`QueueOrder`), `TrainingTypeCorrect` (`TypeOK`),
`TrainsInStep` (`InStep`), `EndIsSaved` (`SavedAtEnd`), `NothingAfterEarlyExit`
(`EarlyExitIsFinal`) and `TrainingRefinement` (`Spec => ImplementsTraining`): the
root's `Apply` maps to `Update`, the steps that write files to `Snapshot` or a
stutter, `Restart` to `Resume` at a version that is kept or at 0, and every other
step of every thread to a stutter.

### StandaloneProofs (for any threads that push and pop; any heap, arrays and width of `int`; any files)

- `QueueIsInOrder`: `QueueSpec => []TakenInOrder` of `BlockingQueue`. The invariant says
  that what was taken, followed by what is in the queue, has each push of each
  thread once and in its order; the places of sleeping and woken threads do not
  matter to it.
- `BlocksAreFreedOnce` and `WhatWentInComesOut`: `FreedAsPaired` and `RoundTrip` of
  `Serialize`, for every caller, whether it frees what it decoded or not. `CoderInv` says
  that, until a fault, the second pointer `intelptr` is there exactly while
  the caller owes a block, that it owes one at most, and that what `m_data` points to
  is what was given last, cut to what an `int` keeps of its size. `CoderAssumption`
  says that `NULL` is no address, that counts are positive (`encode` turns others away),
  and that an `int` has a multiple of four values below zero, as every `int` of two bytes or
  more has; with it what is left of a size that wraps is a number of whole floats,
  and fewer than were given (`WrappedCount`).
- `TrimmedIsSaved` and `TreeIsSaved`: `RecalledExact` and `ShownIsSaved` of
  `TrimTS`, from `TrimInv`. Three parts of it are not in the two properties: the
  types of what the window holds, that there is a document whenever the file
  shown could be read, and `NoBlanks`: the document has an empty text only if one
  was recalled. The last makes the two searches agree, since the tree looks for a
  text and the document for an element (`ShownIsWritten`). `SavedNext` is the
  step of the other: one more row recalled, and what a message came to is still
  its own translation or the last one recalled for it. `TrimAssumption` says that
  what is on the disk at the start are documents at these positions, without
  empty texts (Qt reads such an element as one without text), or unreadable.

### SSDProofs (for any boxes, labels, losses, scores and limits, and any layers)

Most of the work is in the algorithms and not in the steps.

- `MatchingIsStable`: `Spec => []MatchesStable` of `MultiBoxLoss`. The invariant
  `PassesInv` only says that a batch holds images. `Fit` is what every round of the
  bipartite matching keeps: nothing is matched twice, a matched pair overlaps, and for
  each prior and ground truth that overlap both are free or one of them has a match as
  good (`StartFits`, `RoundFits`). `BipartiteFits`: when as many rounds have passed as
  there are ground truths, no pair is free, since a round either changes nothing or
  takes a ground truth out of the pool. `RestIs` is what `PER_PREDICTION` adds,
  `MatchIs` puts the two together, `FoundIs` goes through the ways in which
  `FindMatches` uses them.
- `HardestAreMined`: `Spec => []HardestMined`. `Sifted` is what a round of the
  suppression keeps: no box kept is near another or too small, and what is gone was too
  small or is near a harder box that was kept (`NMSOneSifts`, `ApplyNMSIs`). `SelectedIs`
  puts the choice of the hardest (`HardestIs`) before it, `MineIs` turns the set that
  was chosen into matches and negatives in the order of the priors (`AscendingIs`).
  `LossInv` is the invariant: between a `Forward` and its `Backward` the layer has what
  mining leaves of the matches of its batch, and nothing otherwise.
- `GradientsReturn`: `Spec => GradientsGoHome`. Two counts of the same rows must agree
  (the code counts matches, takes off the mined ones and adds the negatives before it
  fills, then counts again on the way back). `FlatIs` and `FlatApart` say what a
  concatenation of rows holds and when none comes twice, `SumsAre` and `SumsAdd` how
  its length adds up; with them `CountIs`, `EncodeIs` and `ConfAllIs` give the invariant
  `RowsInv`: the rows there are are those that were counted, each from a place of its own.
  `HomeIs` is the numbering of `Backward` read back.
- `DetectedAreBest`: `DetectSpec => []DetectionsBest` of `DetectionOutput`. As scores
  differ, the number of better ones is different for each, so every place of `ByScore` is
  taken, by the one that belongs there (`AboveIs`, `ByScoreIs`). `SieveIs` is a loop that
  keeps what passes a test against those kept so far; `ApplyNMSFastIs` says of it that
  a box stays exactly if none of the better ones that stay is against it, the threshold being
  that of their number. `KeptIs`: the best of all labels are closed upwards in each label, so
  cutting the list of an image leaves that true. `SeenInv` ties `top` to the images that
  were read, by arithmetic modulo the length of the list (`RemainderOfSum`).
- `RoundsAreSaved`: `DetectSpec => []SavedExact`. `GoodSaved` is what each image of a
  batch keeps (`SaveGood`, and by induction over the batch `SavedBatch`): the counter is
  within the list, what waits are the detections of as many images as it says, none
  twice, and the files are empty or those of one round. `SavedInv` is stronger than
  `SavedExact` by the types and by that range, without which the next image of a batch
  would not be the next of the list.
- `WrongNetsAreRefused`: `NetSpec => []RefusedIffWrong` of `NetCases`. The invariant
  `NetInv` only says that the net is a sequence of layers and `built` is what `NetInit`
  makes of it: the proof is about `NetInit`, which sees the net after its splits went in,
  while `RefusalExact` is about the net as written. `Sees` abstracts the state of the loop to
  two sets, the names that are taken (N) and those that nobody has read (A). `Holds` ties
  them to the net as written, after `i` layers and the splits of the first `j` tops
  of the last of them: the taken names are those of the tops so far and of their splits, and every
  bottom still to come whose source has passed finds the name it was given in A. The last is what a wrong split count or index would
  break. `RewiredNext`, `SplitNext` and `UnsplitNext` are the three kinds of step;
  `GoodIsNew` says that a top is new to the net with splits just when it is in place over
  a blob without other uses, or new, in the net as written. `ConnectIs` is the induction over
  the layers (`LayerRowsAre`) and, in each, over the splits of its tops (`SplitsNext`);
  `SameParams` says that splits carry no parameters, so that the rates
  agree in one net if they do in the other. Nothing is assumed of `Cases`: `Grow` takes a
  layer only if it is one (`Layer`, which has the checks on the counts of `loss_weight` and
  `propagate_down`).

Assumptions. `MultiBoxAssumption` says of each image that overlaps are numbers from 0 and
losses differ, and of each configuration what the layer checks in `LayerSetUp` (mining
needs a location that all labels share) and that its limits are numbers. `MayRepeat = FALSE`
is a hypothesis of `HardestAreMined` and `GradientsReturn`: a `Backward` comes between
two `Forward`s. Without it both are false, as `stale_matches` shows. `DetectionAssumption`
says that labels differ, limits are integers, an image has scores for the same
number of priors as the others, and no two scores of an image above the
threshold are alike: for equal ones `std::sort` leaves the order open.

These proofs need induction: over the size of a set (a finite set of pairs has a best
one: `Largest`, `BestIs`), over the rounds of a loop (that a function defined by recursion
exists and is what its equation says: `RoundsAre`, `LoopExists`, `SieveExists`, `SameLoop`)
and over the length of a sequence (`FlatIs`, `SumsAre`, `ConcatSet`). `Inductive` is the
principle in a form that takes a set of numbers for a predicate, from
`NatLessThanWellFounded` and `WFMin` of the library: the least number that is not in the
set has a predecessor that is.

### Model-checked only

- Liveness (`EveryCallReturns`, `RequestServed`, `SetUpReturns`, `PopReturns`,
  `LayerDestroyed`, `ForwardReturns`, `RunReturns`): it needs fairness and `ENABLED`,
  which TLAPS does not handle here.
- `WholeGradient` of `NetCases`: it compares a sum over the ways through the net with splits
  to one over the ways without them. That is an induction over the layers in reverse in
  which sums over sets of uses are nested, through marks that themselves come from a
  pass in reverse; TLC compares the two on every net of up to four layers.
- That the loops of `DevicePair::compute` stay inside the vector is not proved, as it
  is false (section 4); `TreesBuilt` leaves those machines out.
- `SignalHandler`: `SignalsNoticed` is false, as `lost_signal` shows. Its type
  correctness is part of `TrainingTypeCorrect`.

## 6. What is not modelled, and the abstractions

- hwbrapsqlite: one representative for columns that all statements treat alike
  (`deviceip` for the plain columns of a channel, `line1` for the texts of a
  rule); no logging, no message callback, no formatted statement texts, so not
  their length either; the object of a failed `Connect` is followed until the next
  `Connect`; its memory and its thread are never given back. One owner connects and
  disconnects.
- `SyncedMemory`: one user at a time: two threads that call the const accessors
  of one shared blob change `head_` and copy without a lock (`syncedmem.cpp:26`),
  which is a data race of the caller's making. In the `CPU_ONLY` build the device
  side is fatal, which is the model without its second side.
- `DataReader`: one source (bodies of different sources share the mutex only).
  `Prefetch`: the transformation of a record is the record's number; one source
  file; the GPU path of the prefetch thread copies a batch to the device before
  it hands it over, which the model leaves to `SyncedMemory`.
- `Net`: parameters with `lr_mult` only; no filtering by phase, no shapes, no
  `share_mode`, no root net, no weight decay, no automatic tops. Layers pass on
  sums, so that a gradient is counted rather than computed.
- `BBox`, `MultiBoxLoss`: the geometry is the table of overlaps; no two losses are
  equal; the arithmetic of the two inner losses is left out.
- `DetectionOutput`: the same, with distinct scores; the adaptive threshold is a
  function of the number of boxes kept; the source of images is cyclic and as
  long as the list of names; resizing, drawing and the contents of a line of a
  file are left out. Evaluation of detections (`detection_evaluate_layer.cpp`)
  is not modelled.
- `Serialize`: one object, one caller, which decodes into one pointer; nothing after a fault.
- `TrimTS`: files come from the dialog, not typed into the line edit; roots
  other than `ts`, message boxes and `readAndSave`, which nothing calls, are
  left out; the parts of a message come in the order Qt writes them (location,
  source, translation).
- `P2PSync`: losses, scores, learning rates and arithmetic are abstracted to the
  count of proper updates; one net to test on; two snapshots of one iteration
  by two processes are taken to hold the same weights if both are proper;
  multi-machine training does not exist in this code.
- `DevicePairs`: the read past the end of `parallel.cpp:175` is left undefined, and
  no tree is made of such machines.
- hwbrapsqlite, hazards without a property, outside what the model can
  see: two `DisconnectSQL` at once (one owner), rule texts longer than the
  statement's buffer (`DBManage.cpp:1020`, no texts), a result pointer that is not
  `NULL` (`:632`, refused by every query).
- Components without a module: section 1.


## 7. Plan

Written so far, in the order of importance to the system: the store of
hwbrapsqlite (statements, then lock and commit thread, with its proofs),
`SyncedMemory` and `DataReader` (with their proofs), parallel training; then
`BlockingQueue`, `Prefetch` (with its proofs), nets, the SSD detector, and the two
small tools.

The proofs cover every invariant and refinement of these components, except the
gradients of nets (`WholeGradient`, section 5).

Next:

1. Proof of `WholeGradient`, with the folds of `MarkAll` and `NetBackward` as functions of
   the layers that have passed, as those of `Connect` are.
2. Evaluation of detections: matching by overlap, true and false positives.
3. The solver's learning-rate policies and the state kept for `multistep` across
   a restart.
