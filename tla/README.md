# Verification of SphereServer

TLA+ models of the concurrent and stateful core of SphereServer 56c (an
emulator of Ultima Online game servers in C++), the TLC configurations that
check them on small instances, and TLAPS proofs for every instance.

Paths below are relative to the repository; `network.cpp` is
`src/network/network.cpp`, and so on.

## 1. Inventory

SphereServer is one process.  The *parent* thread reads the ini file, starts
the others and then watches over them (`Sphere_MainMonitorLoop`).  *g_Main*
runs the world: about forty times a second it ticks world and sectors, handles
what clients have sent, and clears up.  With `NETWORKTHREADS > 0` some network
threads own the sockets.  `CDataBaseAsyncHelper` runs the background queries of
scripts and `PingServer` answers a UDP port.  The threads share plain objects:
a few mutexes, events, volatile flags, and queues that use no lock at all.

| component | state | operations | who else touches it |
|---|---|---|---|
| ThreadSafeQueue (`sphere/containers.h`) | a `std::list`, `m_head`, `m_tail` | `push`, `clean`, `empty`, `front`, `pop` | one thread pushes, another pops, no lock |
| connection slots and network threads (`network/network.cpp`) | per slot `m_isInUse`, `m_isReadClosed`, `m_isWriteClosed`, `m_needsFlush`, `m_client`, `m_parent`, queues; per thread `m_assignQueue`, `m_states`, an event | accept, assign, receive, process, send, flush, close, clear, drop | main thread, network threads, clients |
| outgoing packets (`network/packet.h`, `network.cpp`) | five queues of transactions, the transaction being sent, the one being built, the tick | `QueuePacket`, `beginTransaction`, `endTransaction`, `processOutput`, `flush` | main thread fills, the owner of the slot empties |
| address history (`IPHistoryManager`) | list of addresses with pings, connections, blocks, times to live | `tick`, refuse, accept, block; `CClient` counts itself in and out | slots, clients, the list of objects to delete |
| database link (`common/CDataBase.cpp`, `sphere/asyncdb.cpp`) | `_myData`, `m_bConnected`, two lists, two mutexes | connect, close, query, ping; `addQuery`, `addQueryResult`, `OnTick` | main thread and helper |
| threads (`sphere/threads.cpp`, `game/spheresvr.cpp`) | handle, id, hang check, two events, `ThreadHolder`'s list | `start`, `run`, `checkStuck`, `waitForClose`, `terminate` | parent, the thread, the operating system |
| world save in stages (`game/CWorld.cpp`, `CSector.cpp`) | `m_iSaveStage`, parity bits of world, sectors and characters, `m_UIDs`, `m_ObjNew`, `m_ObjDelete` | `Save`, `SaveStage`, `SaveForce`; create, move, delete in between | ticks and clients, from one stage to the next |
| save files and the load | four files, their backups, `m_iSaveCountID` | rename, open, header, close; `LoadWorld` | the disk, a kill of the server |
| functions called later, TIMERF (`game/CWorld.cpp`) | `m_timedFunctions`, `m_tFqueuedToBeAdded`, `m_curTick` | `OnTick`, `Add`, `Stop`, `Erase`, `Load`, `r_Write` | the scripts that `OnTick` calls, removal of objects |
| parties (`game/clients/CParty.cpp`) | `m_Chars` of each party, `m_pParty` of each character, invitations | invite, accept, decline, leave, remove, disband, set master | clients that come and go, scripts that refuse |
| secure trade (`game/items/CItemContainer.cpp`) | two linked windows: items, `m_bCheck`, `m_iWaitTime`, gold | open, add, take out, check, exchange, close | death, log out, scripts |
| sectors and clock | lists of objects per sector, sleep state | `OnTick`, move between sectors | world save, clients |
| temporary strings (`sphere/threads.cpp`) | buffers and an index, under a mutex | take, give back | every thread |
| accounts, login | list of accounts, client of each | login, kick, ban | clients, consoles |
| objects, containers, UIDs | `m_UIDs`, container lists, `m_ObjDelete` | create, move, delete | everything in the world |
| characters, items, spawns, stones, chat | game state | script functions, ticks | main thread only |
| scripts and expressions, map files, packet formats, encryption, logs | text and binary data | parse, format, read, write | main thread, mostly |

How they interact: a client's bytes go network thread -> `rawPackets`
(ThreadSafeQueue) -> main thread -> `CClient` -> world; packets go back main
thread -> transactions in five ThreadSafeQueues -> network thread -> byte
queue -> socket.  A slot that closes passes through *both* threads: each closes
its side by a flag, and the main thread clears the slot when it sees both.  The
client object lives on in `m_ObjDelete` and takes itself out of the address
history when it is deleted.  Queries travel to the helper and back by two lists.
`Sphere_ExitServer` stops the threads one after the other with
`waitForClose`.

What is hard here, and what makes it correct:

* *interleavings without locks*: the queue is only right for one reader and one
  writer; a slot's flags are read by one thread and set by another; a slot may
  be reused before its old thread has noticed that it was cleared.  Correct
  means: no freed node is followed, values come once and in order, nothing
  crosses from a connection to the next, a slot in use has a thread.
* *signals and fairness*: sleeping threads that are woken once.  Correct means
  that every client is taken, every byte read, every closing finished.
* *ordering*: transactions, five priorities served by turns, answers through two
  queues.  Correct means whole, in order, and at last.
* *stale state*: a link read as connected before the mutex is taken, an address
  asked of a slot that has another peer by now, ids of threads that are gone.
* *things done in stages*: a save goes over the world while the world moves on,
  and may fail or be given up; a trade is agreed to by two who may change it.
  Correct means: everything once in a save, nothing exchanged unseen.
* *lists changed under a loop*: the functions that a tick calls add to and take
  from the list it is in; a party is disbanded while it is counted.
* *crashes*: four files are renamed, written and closed one after the other.
  Correct means that a whole save stays, and that a start finds it.
* *timeouts and restarts*: a main loop that is replaced because it seemed dead,
  a thread that is terminated because it did not close.  Correct means that
  there are never two main loops, and nobody is terminated who did answer.

`PROJECT.json` lists each component, and under `hazards` each such place at its
line with the properties that cover it.

## 2. Modules

| module | models | used by |
|---|---|---|
| `Fifo` | what `containers.h` promises: a first-in first-out queue | refined by `ThreadSafeQueue` |
| `ThreadSafeQueue` | `ThreadSafeQueue<T>`, one step per access to shared memory | `QueueProofs` |
| `NetworkManager` | slots, network threads, main thread and clients | `NetworkManagerProofs` |
| `NetworkOutput` | the packets of one client on their way to its byte queue | `NetworkOutputProofs` |
| `IPHistory` | address history, clients that count themselves, slots | `InTurnProofs` |
| `AsyncDatabase` | link, background queries, helper thread | `QueueProofs` |
| `ThreadLifecycle` | one `AbstractThread`, its parent, the system's threads | `ThreadLifecycleProofs` |
| `SaveSweep` | the save in stages, as memory sees it | `SaveSweepProofs` |
| `SaveFiles` | the files of saves, and what a start makes of them | `SaveFilesProofs` |
| `Party` | lists of members and the pointers to them | `ListProofs` |
| `TimedFunctions` | TIMERF: functions that are called in some seconds | `ListProofs` |
| `Trade` | secure trade of two players | `InTurnProofs` |
| `Loops` | what loops do: something for one after the other (`InTurn`), or a list without some of its entries (`Without`) | `IPHistory`, `Party`, `TimedFunctions`, `Trade` |
| `...Proofs` | theorems and their proofs: `QueueProofs`, `ListProofs` and `InTurnProofs` about two modules each, the others about the module of that name | |
| `MC...` | sets of model values for TLC | |

The modules are composed by what they promise.  `NetworkManager` and
`NetworkOutput` take push, front and pop of a queue as single steps: the module
`ThreadSafeQueue` shows that the real ones behave like a `Fifo` as long as one
thread reads.  `NetworkOutput` has the priorities and transactions of one slot
and leaves the socket to `NetworkManager`, which in turn has packets of one
priority only, the one that a closing slot still sends.  `IPHistory` has the
life of a slot seen from the main thread only, with one step for what
`NetworkManager` shows to take a dance of two threads.  `SaveSweep` has what a
save writes and `SaveFiles` what becomes of the files: the second takes a save
as a whole, which is what `SavedOnce` says of the first.

`QueueProofs`, `ListProofs` and `InTurnProofs` extend two modules each, for they
need the same lemmas on sequences and loops.  So that no name is defined twice,
what `ThreadSafeQueue`, `TimedFunctions` and `IPHistory` would call `Spec`,
`TypeOK` and so on begins with `Queue`, `Timed` and `IP`.

A definition that begins `\* A variant for <property>` is not part of the
specification: it is the definition after it with a plausible mistake, and
`PROJECT.json` names under `mutants` which property TLC finds violated when it
takes the place of the real one.

### ThreadSafeQueue

A node is its position in the history of the list, so that the live list is
`first..last` and a freed node is one below `first`.  `push` makes the node
visible (`Push`) and then runs `clean`, which copies `m_head` (`Clean`) and
frees node by node (`Erase`).  `empty`, `front` and `pop` each copy `m_head` and
then follow the copy: two steps each, `Empty`/`EmptyNext` and so on.  A reader
runs the loop every caller in the code runs: while not `empty`, `front`, `pop`,
use.  A thrown exception ends the loop.

### NetworkManager

State is the code's, one function per member: `inUse`, `readClosed`,
`writeClosed`, `needsFlush`, `client`, `parent` by slot; `assignQueue`,
`states`, program counter and place in the list by thread.  A packet is the
number of the connection it is for; `strays` records a packet that reached
another.  A thread's tick is `CheckNewStates`, `DropInvalidStates`/`Orphan`
(the test of `isInUse` and the `setParentThread(NULL)` are two steps),
`Receive...`, `Store`, then `checkFlushRequests` (`CheckFlush`, `TakePacket`,
`SendPacket`, `SendBytes...`, `FlushDone`, `CheckClosing`) and the packet queues
of each slot, then `Sleep`.  The main thread accepts (`AcceptNewConnection`,
`InitRead`, `InitUse`: the three flags of `NetState::init` are set one by one),
assigns, pokes threads that have data, processes raw packets, lets a handler
react by doing nothing, sending, or closing, and ticks each slot (`TickOpen`,
`TickFlush`, `TickClosing`, `Clear`).  `Latched` says whether an event keeps a
signal that nobody waits for: a Windows auto-reset event does, the pthread
version in `mutex.cpp` does not.

Merged: the calls of `checkForData` for all threads are one step, for the
sockets are not changed by the main thread in between.  Left out: contents of
packets, async sockets, the limits per tick other than `NETWORK_MAXPACKETS`.

### NetworkOutput

`queue` maps a priority to its sequence of transactions, `current` is
`currentTransaction`, `pending` the `ExtendedPacketTransaction` being built.
`QueuePacket` is the constructor-and-push that handlers call; a full queue
hands a packet down by `Demoted`, which changes the packet's own priority as
`SimplePacketTransaction::setPriority` does.  `processOutput` is `StartTick`
(the byte `tick` decides by `ToProcess` which queues have their turn),
`CheckFlush`, `CheckClosing`, `MarkWriteClosed`, and per level `TakePacket`,
`SendPacket`, `NextLevel`, `EndPass`.  `setup` never changes: it says whether
there is a network thread, so that the main thread acts between any two of
these, or only between calls, and which priorities are used.  `opc = "broken"`
stands for taking the front of an empty transaction.  Left out: a packet's own
`onSend()` refusal, the limit of bytes per tick.

### IPHistory

`ips` is the list in its order, because a tick erases the first entry that is
too old and no other.  A client remembers its slot (`net`) and the destructor
asks the slot for the address (`peer[net[c]]`), as `GetPeer()` does.
`connecting` and `connected` are integers which can be negative, as in the code;
`Entry` is what `getHistoryForIP` finds or creates, `Update` the list when that
has become something else.  `Tick(second)` is one of the ten calls a second, of
which one changes times.  `DeleteAll` goes through the clients one by one, in
any order.  `EnterGame` is also the client that is in game and selects a server
again, which nothing prevents and which takes it from the connecting ones once
more; `MaxRelays` only bounds how often.  `CountsKept` names the two steps by
which exact counts go wrong, this and the deletion of a client whose slot has
another address, and says that there is no third.

### AsyncDatabase

What runs under `m_connectionMutex`, `m_resultMutex` or `m_queryMutex` is one
step; the test of `m_bConnected` before the lock is a step of its own
(`LookAtLink`, `HelperLook`), and so is the close after it (`QueryGone`,
`HelperGone`), and the helper's look at the list before it locks it
(`LookAtTodo`, `Take`).  `"broken"` is a query through a null link,
`"underflow"` the front of an empty list; the thread stops there.  MySQL is
external: a call succeeds, fails, or says that the server is gone.

### ThreadLifecycle

Several threads of the operating system may run one `AbstractThread`, after a
restart or by mistake: `pc` is by system thread, everything else belongs to the
object.  The parent starts the thread, looks at `m_hangCheck` (`CheckStuck`,
its three stages), terminates it and runs the loop *itself* (`Kill`, `Pop`,
`Clear`, then `OnStart(Parent)`), or exits: `BeginExit`, the exit script,
`SetExiting`, `WaitForClose`, `Wait`, `Kill`.  A `Build` says which system and
which thread: `TerminateThread` works at once, `pthread_cancel` at a
cancellation point; `isCurrentThread` compares `m_id` on Windows and `m_handle`
with pthreads, which is never the parent's.  There is no time: a timeout is a
step that is possible only while the thread hangs or waits for a signal that
was lost, since 60 seconds are longer than any tick that does not hang.

### SaveSweep

One action is one stage, or one whole call of what runs between two stages:
`SaveStage()` returns to the ticks after each.  `worldParity`, `sectorParity`
and `charParity` are the three bits of the code; `WriteSectors` flips those of
the sectors it saves and writes what `ToWrite` says, after `MoveChar`, which
compares the bits of two sectors and of the character as
`CSector::MoveCharToSector` does, and may write him there and then.  Items have
no bit.  `slot` is `m_UIDs`: `Destroy` frees an entry, or, during a save, leaves
`Held` (`UID_PLACE_HOLDER`) there until `Forget`.  `TrapInSector` and
`TrapInLastStage` are a C++ exception in a stage; `Abort` is the one that
`Save()` catches.  `SaveForce` runs the rest of the stages at once.  The
variables `kept`, `stray` and `faulty` remember what the code does not: who was
there all the time, who crossed between a saved and another sector without
having his bits compared, and how recently something failed.

The world has a single copy of everything that is carried, so that an object
stands for its contents.  Left out: `r_WriteSafe`, which catches what a single
object throws, and `FixObj` of the garbage collection.

What reading this code showed besides: with `SaveBackground` 0, a stage that
throws for the accounts leaves the files open, and `Save(false)` does nothing
from then on, until it is forced; a throw in the last stage leaves the number
of the stage beyond the end, where nothing closes the save; one in the
background delays the next stage by a whole `SavePeriod`; when the file of the
characters cannot be opened, the one of the world stays open; and although
`CWorld.cpp:1348` says "Save only counts if we get to the end winout trapping",
a save in which a sector was skipped counts.

### SaveFiles

`disk` maps a name and a kind of file to the save it is of, the `SAVECOUNT` of
its header and whether it ends with `[EOF]`.  A save is `Begin`, then for each
file `Remove`, `Rename` (or `RenameFails`), `Open`, `WriteHeader` (or
`OpenFails`), then its stages until `CountSave`, and `CloseFile` for each; the
server may be killed between any two (`Crash`), and a save given up (`Abandon`).
`BackupName` is the arithmetic of `GetBackupName`.  `Start` and `LoadWorld` are
a start, one action for one turn of its loop, with the count that the headers
give.

`LoadsNewest` and `NewestKept` say how much can be relied on.  After one save
that was cut off in its stages the last one is found.  Two in a row, with a
restart between them, may destroy it: the number of the backup repeats.  With
the counter 0 there is no falling back at all, and `OpenFails` and `Abandon`
overwrite the last backup.

A `rename()` that fails is only warned of ("May not exist if this is the first
time.", `CWorld.cpp:1231`), whatever the reason, and the file that is still
there is opened for writing: the only copy of the last save, for the archive of
the name that it should have had was removed before (or, when that failed too,
is an older one).  So every property excepts
it, by `unrenamed`, the number of renames that failed since the last save that
was completed.  `LastKept` is `NewestKept` without that and false after a few
steps.  `LoadEnds` too is false without it: the backup that lacks a file sends
the start on to one that may send it back.  `SyncedAfterStages` holds without it
in all instances that TLC can exhaust, up to six saves, and is false after
eleven: several saves that are cut between two renames leave world and
characters of two saves under a name to which, long after that, only a backup
with a file missing leads.

The whole-file test of multis is ignored by the code, and so here; statics and
accounts are not modelled.

### Party

`list` and `party` are `m_Chars` and `m_pParty`.  Each action is a whole call,
with all that it calls: accepting leaves the old party, which may disband it,
which detaches its members, and so on; `Detach` applies what was taken out of
which list.  `Disbanded` has the loop of `Disband()` as it is, which skips every
second member.  `Without` (`Loops`) is a list after some were detached from
it: a recursive function and not `SelectSeq`, which has no definition that the
provers could use.  A script that refuses is a choice in `RemoveMember`, `Join`
and the like, counted by `refused`.  Left out: messages, loot flags, the time
between two invitations, the deletion of characters.

### TimedFunctions

`timedFunctions` is the array of lists, one for each tick of a second,
`queuedToBeAdded`, `curTick` and `isBeingProcessed` the members of the same
names.  A run of `OnTick()` is `BeginTick`, then `CountDown` or `Call` for the
entry at the iterator `it`, `Return` from the function, and `EndTick`; while a
function runs (`pc = "run"`) the script may do `Add`, `Stop`, `Erase`, `Delete`
its object or make others, as it may between two ticks.  `it` is the position
that the vector's iterator points to, and stays when something before it is
erased.  `Overrun` is the loop that finds its iterator beyond the end.  `GiveUp`
is an exception that `CWorld::OnTick` catches, after which `isBeingProcessed`
stays set.  `Restart` is a save, as `r_Write` makes it, and a start from it.
`asked`, `wait`, `stopped`, `delayed` and the like are for the properties.
Seconds are counted in calls of `OnTick()`, not by a clock, as in the code.

`StoppedStays` is about what was in the lists.  A request that still waits in
`m_tFqueuedToBeAdded` is not looked at when it is stopped, nor when its object
is removed (`CObjBase.cpp:3045`): it is put into a list at the end of the tick,
and called on whatever object has the UID by then (`StopStops`, below).

Left out: `FORTIMERF` and `ISTIMERF`, which change nothing, the text of a save
(`Load` strips quotes), and what `Load` makes of a line that is wrong.

### Trade

`<<c, d>>` is the window that `c` wears for a trade with `d`.  `open` is the set
of the windows there are, `linked` of those with an `m_uidLink`, which is to
`<<d, c>>`.  `place` says where each item is, `check`, `waits` and `offer` are
`m_bCheck`, `m_iWaitTime` and the gold.  `ItemBounce` moves an item to the pack
if it can be carried, where what is in a window counts as carried, and if no
script of `@DropOn_Self` refuses it (`refuse`).  `Trade_Delete` and `Delete` are
built from it in the order of the code, so that a window is emptied item by
item, then the partner's, and what is left in either is destroyed with it.

`@Destroy` may refuse that a window goes (`keep`).  `CItem::NotifyDelete` asks
it first, so where the window itself refuses, nothing happens; where the
partner's does, that one was unlinked already and stays alone with what is in
it.  Windows that were kept are in `kept` until they go.  One that refuses when
its player logs out stays linked: he may go on when he comes back, and meanwhile
nothing unchecks it, for `Trade_Status` returns when one of the two has no
client.

When both have pressed, `Trade_Status` asks the scripts of `@TradeAccepted`.
While they run the window is in `accepting`, and `Add`, `TakeOut` and `Spend`
are what they may do; then they refuse (`Decline`), or `Exchange` is the rest of
the function, with what is in the windows by then.  `meddled` says that
something was changed.  `ExchangeKept` is the exchange whose `Delete` is
refused: the windows stay with what could not go.  Items that leave uncheck
them, but `m_iGold` stays, and is paid once more at the next exchange, even to
below zero; `MaxDebt` bounds that.

`Close`, `ClientDetach` and `Death` are the ways in which a trade ends without.
The last two go through the windows that a character wears one by one; `Death`
does so twice, for `UnEquipAllItems` meets what the first loop left, and deletes
it by `DeleteUnlinked`.  The order of items in a window is any, and so is that
in which windows are `worn` (`Orders`): with heavy items in several it decides
what can still be carried.  `seen` remembers what was in both windows when one
was checked, `refused` what scripts refused in the last step.

Left out: stacks, containers in a window, dragging, newbie items that stay in
the pack, corpses that are not made or get nothing, restarts with open windows.
Of scripts: `@Destroy` of the items in a window, `@TradeClose`, what those of
`@DropOn_Self` and `@Destroy` do beside answering; those of `@TradeAccepted`
that close a window, kill or log somebody out; that a new pair is opened beside
a window that stands alone, and the button and wait of such a window, which no
handler uses.  Reading showed besides that a change of the gold takes no check
back.

## 3. Runs

Each passing run is checked against mutants: every property below is violated
when one definition of its module is exchanged for its variant.

| run | instance | properties | shows |
|---|---|---|---|
| `queue_one_reader` | 5 pushes | `NoDanglingNode` `ImplementsFifo` `EveryPushTaken` | one writer, one reader: no freed node is followed, the queue implements `Fifo`, all are taken |
| `net_one_slot` | 1 thread, 1 slot, 2 connections, Windows events | `NoCrossTalk` `ClientWhileWorking` `InUseIsOwned` `EveryClientTaken` `EveryCloseFinishes` `EveryByteRead` | a slot used twice: nothing crosses over, it is never cleared under the thread's hands, it has a thread while in use; and taking, reading and closing come to an end |
| `out_packets` | 3 packets; one thread with 3 priorities or 2 transactions, or a main and a network thread | `TransactionsWhole` `NoOvertaking` `LastWordsOfOneThread` `EverySent` | transactions whole, order kept, every packet sent; with one thread the reason for closing is sent first |
| `ip_counts` | 2 addresses, 2 slots, 3 connections, 1 second relay each | `CountsKept` `AddressForgotten` | counts go wrong in two ways only, a second relay and a slot given away too early; addresses are forgotten |
| `db_answers` | 4 queries, 3 links | `AnswersInOrder` `OneLink` `PopsEmptyOnlyAtExit` `EveryQueryAnswered` | answers once, in order and all; links are closed before others are opened |
| `thread_life` | main loop on Windows and on pthreads, sleeper on Windows; 2 threads, 1 hang | `OneTickerOnWindows` `ClosedOnWindows` `HangsEndOnWindows` `NeverForcedElsewhere` `ExitsElsewhere` | on Windows a hang ends, with one main loop, and close waits for the tick; in the other two a thread that answers is not terminated and a server that shall exit does |
| `save_sweep` | 2 sectors, a player, an item and one to be made, 2 UIDs, 4 saves | `SavedOnce` `CharsOnce` `UidsOfOne` `EverySaveEnds` | a save has everything once, no character twice, no UID for two, and ends |
| `save_files` | 5 saves, backups in base 3 with 2 levels, first count 2, 1 rename that fails between two whole saves | `NewestKept` `SyncedAfterStages` `LoadsNewest` `LoadEnds` | after a kill at any step a whole save is left; one in the stages costs nothing but the save |
| `party_members` | 4 players, 2 parties of 3, 1 refusal | `MembersAgree` `NeverAlone` | lists and pointers agree; nobody is a party on his own |
| `timed_functions` | 2 ticks a second, 1 object, 2 functions, 3 requests, 2 faults | `OnTime` `StoppedStays` `EveryCalled` | functions are called to the tick, not when they were stopped in their list or their object removed, and at last |
| `trade` | 2 players, 2 items (one as heavy as two), one who can hardly carry, one refusal in a pack, one window that may be kept | `WindowsPaired` `OnlyWhatWasSeen` `LostOnlyTooHeavy` | windows come and go in pairs, unless kept; things change hands only as both saw them, unless scripts of `@TradeAccepted` changed them; what is lost was too heavy or refused |
| `timed_overrun` | the same with 2 requests, 1 fault | `StaysInList` violated | finding 1 |

### Bounds, and why they are enough

* *Queue*: with five pushes the list is empty, has one node, and is cleaned
  while one, two or more consumed nodes wait; the proof covers every number.
* *Connections*: what goes wrong with slots goes wrong between the old and the
  new use of one, so two connections suffice; for lists longer than one and the
  circle of `findFreeSlot` there are the proofs of the invariants, for any
  number of slots.  `MaxQueue` 1 and `MaxPerTick` 1 make every queue full and
  every limit reached.  A closing
  client is sent one packet more (`late`): without that bound the main thread
  could keep a slot alive by sending without end, which it may.
* *Packets*: three packets make a transaction of two and a packet that could
  come between, at different priorities; with a second transaction one can end
  the other.  `MaxPerTick` 1 interrupts every transaction. `tick` is modulo 16:
  the code's byte only ever decides by `% 2`, `4`, `8`, `16`.
* *Addresses*: three connections of two addresses over two slots: an address
  with two at once, a slot reused by the other address, and one of each while
  the first client still waits to be deleted.  `TTL` and `PingDecay` 0
  let each counter reach its end in a second, and `TTL` 1 passes too; the limits
  are 1.
* *Database*: four queries keep both lists longer than one while the helper
  holds another; three links are a loss and a reopening by each thread.  Order
  and links are proved for every bound.
* *Threads*: two system threads are the thread and the one that `start` makes
  after a restart; a second hang is shown below.
* *Save in stages*: of two sectors one is done and one is not; a player and an
  item are the two kinds of objects, and the item that is made later takes a UID
  that was freed.  What a failure spoils reaches two saves on (`faulty`), so
  four saves have a whole one after it.  The proof covers every number.
* *Files*: two levels of backups in base 3 (the code has 8) are gone through
  once by five saves, with levels that are skipped.  One rename that fails is
  enough for what the properties except; two of them, with first counts 0 to 2,
  pass too, in 56 million states.
* *Parties*: the fourth player is one more than a party takes; the second party
  is the one somebody is in already.
* *Timed functions*: two ticks a second are two lists; three requests make a
  list in which one is before and one behind the iterator, or one in the queue.
  A second object adds nothing but another name: two objects with one fault pass
  too, in 2.5 million states.
* *Trade*: who can hardly carry cannot take the heavy item on top of itself, nor
  when he carries the other.  `Fussy` and `Sticky` bound what scripts refuse:
  one item in one pack, and the window of the other player; the choice is free
  each time.  `MaxDebt` is 0: an exchange whose window is kept does not pay what
  a purse has not.  Three items without gold pass too, in 76,120 states, and
  three players with one item, in 165,379, where one wears two windows.

`CHECK_DEADLOCK FALSE`: the bounded counters run out, and the server may exit;
only the queue's threads poll for ever.

### Fairness

Only what the code schedules by itself is fair.

* Threads run (`WF` of a thread's next step): loops without an end in
  `AbstractThread::run`, scheduled by the operating system.  Nothing outside is
  fair: no connection, packet, hang-up, command, query or loss of a link has to
  come.
* `NetworkManager`: `SF` of a successful or failing send, because a socket that
  says EAGAIN again and again does not do so for ever: a client that is there
  reads, one that is not is found to be gone.  The code has no timeout for a
  client that does neither, and with `WF` alone `EveryCloseFinishes` is false.
* `IPHistory`: the seconds pass and `m_ObjDelete` is emptied by the world's
  ticks.
* `AsyncDatabase`: `SF` of `Deliver`: the main loop gets to its results between
  whatever else it does with the link, which it does again and again.
* `SaveSweep`: `WF` of a stage: the clock ticks and a save goes on.
  `SaveFiles`: `WF` of `LoadWorld`: a start goes on until it is killed.
  `TimedFunctions`: `WF` of `OnTick`, and so of a `Return`: scripts return, or
  are given up.
* `ThreadLifecycle`: no fairness for `Recover`: a tick may hang for ever.

## 4. Findings

`PROJECT.json` quotes the lines that the code disagrees with.

1. *The iterator beyond the end* (`timed_overrun`, `CWorld.cpp:274`).  The
   comment at 265 sees that `vector::erase` needs care, and guards each call.
   The loop of `OnTick()` around them is not guarded: the function that it calls
   may stop timers, or remove an object, which takes entries out of the same
   list, while the iterator stays.  With two entries, of which the second one's
   function stops the first, the loop goes on beyond the end and reads what is
   no entry of the list.

### Further configurations

These are kept for reference and rerun by hand.  Each checks one property,
beside `TypeOK` in most, which TLC finds violated.  A property in parentheses
is checked by putting it in the place of the other.

| configuration | module | property | what happens |
|---|---|---|---|
| `queue_two_readers` | MCThreadSafeQueue | `TakenOnce` | two readers, as `rawPackets` has when `clearQueues()` (`network.cpp:249`) runs in a network thread, are given the same packet |
| `net_pthread` | MCNetworkManager | `EveryClientTaken` (`EveryFlushDone`) | pthread events keep no signal (`mutex.cpp:207`): the one for a new client is lost, or the one for a flush (`network.cpp:2771`), which is asked for once |
| `net_shared_slot` | MCNetworkManager | `OneThreadPerState` (`InUseIsOwned`) | two threads: a slot used again is in the lists of both; or between `isInUse()` and `setParentThread(NULL)` (`network.cpp:2916-2919`) it is taken again, loses its new parent, and is served by none |
| `net_one_slot` | MCNetworkManager | (`ClientCountExact`) | the slot used again is twice in the list of its one thread (`network.cpp:2897`) |
| `out_race` | MCNetworkOutput | `LastWords` | a packet queued between `hasPendingData()` and `markWriteClosed()` (`network.cpp:3723`) is lost |
| `out_demoted` | MCNetworkOutput | `LastWords` | a full queue hands the reason for closing down to a priority that is not sent any more (`network.cpp:4207`) |
| `out_demoted` with `MaxQueueSize` 0 | MCNetworkOutput | (`NoEmptyTransaction`) | a transaction whose packets were all refused is queued empty, and its front taken (`packet.h:274`) |
| `out_shared_tick` | MCNetworkOutput | `EverySent` | the tick is shared by all network threads (`network.cpp:3636`): one may never see the turn of a queue |
| `ip_block_lost` | MCIPHistory | `BlocksKept` | the loop that erases old entries asks the time to live alone (`network.cpp:539`): an address blocked between its time running out and its erasure loses the block, though 514 says "blocked ips don't decay" |
| `ip_limit` | MCIPHistory | `AtMostClientMaxIP` | `>` before counting (`network.cpp:2607`): `CLIENTMAXIP` + 1 connections |
| `ip_slot_reuse` | MCIPHistory | `RefusedWhenFull` | the destructor asks a slot with a new peer for its address (`CClient.cpp:88`): the wrong address is discounted |
| `db_gone` | AsyncDatabase | `QueriesOpenLink` | the link is closed between `isConnected()` and the lock (`CDataBase.cpp:181`) |
| `thread_slow_close` with `SleeperOnUnix`, `MaxHangs` 0 | MCThreadLifecycle | (`NeverForced`) | the signal of `waitForClose` is lost (`threads.cpp:326`) and the thread is cancelled after a minute |
| `thread_two_loops` | MCThreadLifecycle | `OneTicker` | `pthread_cancel` only asks (`threads.cpp:374`): a main loop that was found dead and goes on before its next cancellation point runs beside the parent's |
| `thread_slow_close` | MCThreadLifecycle | `ClosedOnReturn` | `waitForClose` returns after `pthread_cancel` while the tick still runs |
| `thread_exit_lost` | MCThreadLifecycle | (`EveryHangEnds`) | after a restart the watcher is the loop (`threads.cpp:375`): a second hang is noticed by nobody |
| `thread_exit_lost` | MCThreadLifecycle | `EveryExitFinishes` | Windows, after a restart: `m_id` is still the parent's (`threads.cpp:345`), which takes itself for the thread and ends itself in the middle of the exit |
| `thread_short_lived` | MCThreadLifecycle | `PopFinds` | a thread that ends at once is not in the list yet (`threads.cpp:182`); what `pop` throws nobody catches |
| `thread_slow_close` | MCThreadLifecycle | (`OneInWorld`) | `f_onserver_exit` runs in the parent before the main loop was stopped (`spheresvr.cpp:410`) |
| `save_offline` | MCSaveSweep | `NobodyMissed` | a player who is away is taken along by a ship (`CCharact.cpp:3488-3507`, `CItemShip.cpp:132-150`, `203-215`) without the comparison that `CSector.cpp:855` makes ("Save out the CChar now. the sector has already been saved."): he is missed |
| `save_endless` | SaveFiles | (`Synced`) | "NOTE: WE MUST Sync these files ! CHAR and WORLD !!!" (`CWorld.cpp:1732`): killed between two renames (1228), the backups of world and characters are of two saves, and both are loaded |
| `save_endless` | SaveFiles | `EveryLoadEnds` | "! same file ? break endless loop." (`CWorld.cpp:1786`): the loop compares with the last name only, and goes round two |
| `save_endless`, with `MaxFailures = 1` | SaveFiles | (`LastKept`) | "rename previous save to archive name." (`CWorld.cpp:1225`): the rename fails, which is warned of (1232), and the last save is opened for writing (1235): no file of it is left |
| `save_endless` | SaveFiles | (`BackupFound`) | "No previous backup available ?" (`CWorld.cpp:1730`): the start fails though there is a whole save under another number |
| `party_dangling` | MCParty | `NoDangling` | `Disband()` (`CParty.cpp:350`) counts up while its list shrinks: of three members the second keeps `m_pParty` ("What party am i in ?", `CChar.h:108`), which was deleted |
| `timed_overrun` | TimedFunctions | (`StopStops`) | `TIMERF STOP` and `CLEAR` "to stop a specific timerf" (`Changelog-56c-PreRelease.txt:24`) do not look at the queue, nor does a removal (`CObjBase.cpp:3045`): what was asked for in the same tick is called, on the object that has the UID by then |
| `timed_overrun` | TimedFunctions | (`AllSaved`) | "Entire list is now saved and loaded upon startup." (`Changelog-56b-PreRelease.txt:1855`): not the queue, when a function saves the world |
| `timed_overrun` | TimedFunctions | (`LoopFinds`) | `FORTIMERF` uses the object of an entry untested (`CWorld.cpp:402-403`), which may be gone |
| `trade` | MCTrade | (`NoneAlone`) | "Kill my trading partner." (`CItemContainer.cpp:256`): `@Destroy` of the partner's window may refuse (`CItem.cpp:100`), which is unlinked by then (`CItemContainer.cpp:270-272`) and stays alone; or a window stays on a player who logs out (`CChar.cpp:351`) |
| `trade` | MCTrade | (`AllSeen`) | "Check if both clients had pressed the 'accept' buttom" (`CItemContainer.cpp:106`): not again after `@TradeAccepted` (126); what its scripts put in or take out unchecks both, and is exchanged all the same |
| `trade` | MCTrade | (`NothingLost`) | "ensure trade contents are moved out" (`CItemContainer.cpp:26`): what cannot be carried on top of all, itself included, or is refused by `@DropOn_Self`, stays in the window (`CCharact.cpp:1860`) and is destroyed with it, even when its owner just cancels |
| `trade` | MCTrade | (`ExchangedWhole`) | "Everything went well, and we are about to exchange trade items" (`CChar.cpp:190`): one side may get nothing, for it cannot carry it |
| `trade` | MCTrade | (`GoldCovered`) | "To prevent cheating, check if the char really have these gold/platinum values" (`CItemContainer.cpp:208`): he has when he offers; he may have spent it since |

The passing runs are therefore about the builds and settings in which the
property does hold: one reader, Windows events, one network thread, no limit on
the size of queues.  `TypeOK` is proved for every module.
`AddressForgotten` speaks of addresses whose counts are exact, and of the time
until a slot is given away before its old client is deleted (`SlotsTell`).

## 5. Proofs

| theorem | module | for | says |
|---|---|---|---|
| `QueueTypeCorrect` | QueueProofs | one reader, any number of pushes | `[]QueueTypeOK` |
| `NeverDangling` | | | `[]NoDanglingNode` |
| `NeverTwice` | | | `[]TakenOnce` |
| `Implements` | | | `ImplementsFifo`: each step is a step of `Fifo` or none |
| `TypeCorrect` | QueueProofs | any number of queries and links | `[]TypeOK` |
| `OrderKept` | | | `[]AnswersInOrder` |
| `NeverTwoLinks` | | | `[]OneLink` |
| `NeverUnderflows` | | | `[]PopsEmptyOnlyAtExit` |
| `TypeCorrect` | SaveSweepProofs | any number of sectors, objects, UIDs, saves; all settings | `[]TypeOK` |
| `AllSavedOnce` | | | `[]SavedOnce` |
| `NoCharTwice` | | | `[]CharsOnce` |
| `UidsNotReused` | | | `[]UidsOfOne` |
| `TypeCorrect` | ThreadLifecycleProofs | any number of threads and hangs, every build | `[]TypeOK` |
| `NeverTwoTickers` | | | `[]OneTickerOnWindows` |
| `ClosedBeforeExit` | | | `[]ClosedOnWindows` |
| `ForcedOnlyIfHung` | | no sleeper with pthread events | `[]NeverForcedElsewhere` |
| `TypeCorrect` | NetworkManagerProofs | any number of slots, threads, connections | `[]TypeOK` |
| `NothingStrays` | | one network thread | `[]NoCrossTalk` |
| `NeverClearedAtWork` | | one network thread | `[]ClientWhileWorking` |
| `NeverForgotten` | | one network thread | `[]InUseIsOwned` |
| `TypeCorrect` | NetworkOutputProofs | any number of packets, transactions, any limit | `[]TypeOK` |
| `SentWhole` | | | `[]TransactionsWhole` |
| `SentInTurn` | | queues without a limit | `[]NoOvertaking` |
| `LastWordsSent` | | queues without a limit | `[]LastWordsOfOneThread` |
| `TypeCorrect` | SaveFilesProofs | any radix, levels, first counts, number of saves | `[]TypeOK` |
| `NeverLost` | | | `[]NewestKept` |
| `KilledInStages` | | | `LoadsNewest`, of each step |
| `StartsSynced` | | | `SyncedAfterStages`, of each step |
| `TypeCorrect` | ListProofs | any characters, parties, refusals | `[]TypeOK` |
| `ListsAndPointersAgree` | | | `[]MembersAgree` |
| `NeverOneOrTooMany` | | | `[]NeverAlone` |
| `TimedTypeCorrect` | ListProofs | any ticks a second, objects, functions, requests, faults | `[]TimedTypeOK` |
| `CalledInTime` | | | `[]OnTime` |
| `NeverCalledOnceStopped` | | | `[]StoppedStays` |
| `TypeCorrect` | InTurnProofs | any finite sets of players and items, any weights and purses | `[]TypeOK` |
| `AlwaysPaired` | | | `[]WindowsPaired` |
| `NothingUnseen` | | | `OnlyWhatWasSeen`, of each step |
| `OnlyTooHeavyLost` | | | `LostOnlyTooHeavy`, of each step |
| `IPTypeCorrect` | InTurnProofs | any addresses, slots, connections, limits | `[]IPTypeOK` |
| `WrongInTwoWays` | | | `CountsKept`, of each step |

*Queue.*  The assumption is `SingleReader`, which `containers.h` asks of its
callers, and `MaxPush \in Nat`.  `NoDanglingNode` is not inductive: that the
writer may erase up to its copy `stop` rests on `m_head` never going back, and
that the reader follows a live node on its copy being the present `m_head`.
`QueueInv` adds `Positions` (`first <= head <= last`, `stop <= head`),
`ReaderInStep` (a copy in use is the present `m_head`, the value in hand the one
after it) and `TakenUpToHead` (exactly the values up to `m_head` were taken).
The last gives `NeverTwice` and, with the mapping of the list beyond `m_head`
to the abstract queue, `Implements`.  `ReaderInStep` is where a second reader
breaks the argument, as `queue_two_readers` shows.

*Database.*  The assumptions are that the bounds are numbers and `CanLose` is a
boolean.  A query passes from `todo` to the helper's hands, to `results`, to
`answered`; `IInv` says that along this way every query is younger than all in
front of it (`InOrder`), that the helper holds a query exactly while it works on
one (`HelperHolds`), and that without `m_bConnected` no link is open, which is
so whenever the main thread is about to connect (`Linked`).  The lemmas on
rising sequences say what appending and taking off do to that order.
`PopsEmptyOnlyAtExit` needs none of this: what the helper saw in `todo` stays
there until it takes it, unless the main thread empties `todo`, which it does on
its way out (`SeenStays`).

*Save in stages.*  The assumptions are those that `SaveSweep` states of its
constants: at least one sector, objects with UIDs of their own.  `SavedOnce`
says something of the end of a save, so `IInv` has to follow the bits all the
way.  The sectors in front of the stage have the world's bit (`Swept`). A
character who is placed has the bit of his sector, unless something failed
recently (`Follow`), and who has the world's bit was written, and once (`Bits`,
`Told`).  Between two saves all bits are those of the last one (`Between`),
which is what makes the next flip of the world's bit turn all of them into "not
yet"; a failure breaks this for as many saves as `faulty` and `stray` count.
New objects are given the bit that fits before they are placed (`NewBits`).
UIDs need no bits: whoever was written and is gone leaves `Held` behind
(`Entries`), so that its UID is not given out (`UidsOfOne`).

*Threads.*  `Builds` may have any mixture of main loops and sleepers, on Windows
or not.  `OneTicker` follows from `OneAlive`: on Windows at most one system
thread of the object is not idle, and none while the parent runs the loop
itself.  A restart keeps this because `checkStuck` terminates the old thread
before the parent takes over and because a new one is made only at the parent's
own end; the hard step is the end of a thread that may be the parent
(`NotItself`: the parent takes itself for the thread only before the new one
has begun).  `RegisteredOnce` bounds `ThreadHolder`'s list, and so `TypeOK`.
`ForcedOnlyIfHung` has the hypothesis `SignalsKept`, that no thread sleeps on an
event that keeps no signal; `thread_slow_close` shows that it is needed.
`ToKill` is what the parent knows when it terminates a thread: it hung, it is
gone, or it has told of its end.

*Connections.*  `TypeOK` holds for any number of network threads; it needs
`InPlace` (no iterator is followed past the end of `m_states`, no packet is
taken beyond the limit) and `WritableHasClient`.  The rest has the hypothesis
`SingleThread`, the default of `NETWORKTHREADS`; `net_shared_slot` shows that it
is needed.  The core is `HoldsOwn`: while the thread holds a packet, the slot is
open for writing and its client is the one the packet is for, because only this
thread closes the write side and the main thread clears a slot only when both
sides are closed.  With it everything in the queues of a slot is its own
client's (`QueuesOwn`), and nothing strays.  `InUseIsOwned` survives the two
steps of `dropInvalidStates` because a slot that was taken again in between is
in the assignment queue (`OrphanAssigned`).

*Outgoing packets.*  Everything is somewhere on the way from `pending` over
`queue` and `current` or `hold` to `wire`, and `IInv` orders these places
pairwise.  An entry of a queue is a packet by itself or packets of one
transaction (`Queued`); in hand is one entry (`Handed`); what is in front of
something has no part of its transaction (`Apart`), and nothing was sent since
the first packet of the transaction that is in hand (`Wired`, `Last`).  So far a
limit does no harm.  `InTurn` is the order by time within a priority, which a
full queue breaks by handing packets down, so that `NoOvertaking` and the last
words have the hypothesis `NoLimit`; `out_demoted` shows that the latter needs
it.  `LastWordsOfOneThread` rests on `Heard`: what was queued at the highest
priority is sent, or on its way and not closed yet; and on `Emptied`: one thread
that looked and found nothing still has nothing when it closes.

*Files.*  A save that is under way is followed file by file: `Made` and `Moved`
say from the program counter which file is new and which one old but renamed,
and `Renamed` where each file of the last save is then.  When nothing was
given up, that is `Now` or `BackupName(count)` (`Fresh`, `Renamed`); after one
save that was, the files are under some name, and the headers lead to it if
they were written (`Left`); all this while no rename failed.
`SyncedAfterStages` speaks of any number of killed saves, so no invariant on
single names will do: `Chained` says that there is a set of names which a start
never leaves, and each of which has world and characters of one save, or headers
that agree on a backup in the set (`Sound`).
No property of `BackupName` is used but that it gives a name, so that the
theorems hold for any radix and levels.

*Parties.*  `MembersAgree` is inductive with bounds on the size: while no script
has refused, each party lists 2 to `MaxInParty` members and they all point to
it (`Agree`).  Whatever scripts do, who points to a party is listed there
(`Points`), and nobody twice (`Once`).  `Points` and `Agree` take lists,
pointers and parties as arguments, for a call leaves and joins and the invariant
has to be followed through the half-way state.  `Agree` may be kept although
`Disband()` skips members, because it says nothing of a party that was deleted;
a pointer to it dangles (`party_dangling`).  What `Without` does to a list
(`WithoutDoes`, `WithoutOne`) is proved from its recursive function, by a least
counterexample, for all lists.

*Timed functions.*  The assumptions are that a second has a tick and that the
bounds are numbers.  `OnTime` says something of a function when it is called, so
`TimedInv` follows its entry there: `wait` counts down the calls of `OnTick()`
that it was asked to wait for, and from where the entry is one can tell in how
many ticks it is called (`OnCourse`): the `Rounds` that it still has, and the
ticks until its list has its `Turn`, which for the list of this tick depends on
whether the iterator has passed the entry.  The queue is a second away
(`WaitingInQueue`); what was left there by a tick that was given up counts as
delayed.  Taking something out of the list under the iterator makes it pass over
an entry, which is then a whole second late: that is in `delayed` too, and the
reason why `OnTime` excepts it.  `StoppedStays`, which is about the lists, needs
that no request is in two places (`Apart`), for what was stopped in a list might
be called from the queue.

*Trade.*  The assumptions are that players and items are finite sets; weights,
limits and gold are any numbers, and what scripts refuse is any set.
`WindowsPaired`, `SeenStill` (who has pressed the button still sees what he saw,
unless a window was kept) and `Agreed` (while scripts of `@TradeAccepted` run,
both have pressed it, unless they have meddled) are inductive together, and all
that matters lies in the handlers: `Delete`, `ClientDetach` and `Death` are
loops within loops.  `InTurnStays` is the induction for such a loop: what holds
of the state in front of it and is brought from each turn to the next holds
behind it.  With it, `GivesBack` says of the inner loops, and `AllDeleted`,
`AllGiven` and `AllUnlinked` of the outer ones, that items move from the windows
concerned (`Parted`) to the packs of those who wear them, or stay, and nowhere
else; `AskedEmpty`, that a window which goes is empty.  `LostOnlyTooHeavy`
compares weights at two times: an item that could not be carried when its turn
came (`Held`) cannot be carried in the end, because who has more carries the
greater weight (`CarriedWeighs`), and what its owner has in packs and windows
together, which is what `TotalWeight` counts, he still has.  `SwappedSeen` is
about both ways in which an exchange ends; nothing else makes anything change
hands (`OthersGainNothing`).

*Addresses.*  `IPInv` says that no address has two entries, that an entry whose
time to live is over counts nobody (`Entries`), and that slot and client agree
on the address as long as they have each other (`InSlots`).  The second is what
makes `EraseOld` harmless: counts can be below zero, but where they are exact an
erased entry had none, as the one that is made in its place.  The loop of
`DeleteAll` keeps the counts of all clients but those already deleted
(`DeletedCounts`), as long as slots tell the truth, and `EnterGame` those of all
clients if who enters was not in game.  There is no hypothesis on the constants:
`CountsKept` itself names the two steps that break the counts.

All inductive invariants were checked by TLC before they were proved, on the
instances of the runs or larger ones: 175,875 states of threads, 456,402 of
connections, 1.9 million of packets without a limit and 2.7 million with one,
1.6 million of files, 387,294 of parties, 1.3 million of timed functions (three
ticks a second), 315,194 of trade, 835,858 of addresses.

Only model-checked: liveness under fairness and `ENABLED`, which are out of
reach of the prover, so the temporal properties of the runs (`Every...`,
`LoadEnds`, `AddressForgotten`, `HangsEndOnWindows`, `ExitsElsewhere`).  Where a
proof needs an induction over numbers, as for every loop, it takes a least
counterexample (`Least`), for which the library's `WFMin` has no operator as a
parameter; loops are therefore recursive functions, and no module uses
`RECURSIVE` or a fold.

## 6. Not modelled

Each part with its reason is in `PROJECT.json`.  In short: packet layouts,
ciphers, map files and logs are data and input/output; formulas of skills and
combat have no control worth a model; the script interpreter is out of
proportion; MySQL and libev are external.  Asynchronous sockets and the
networking without `_MTNETWORK` are off by default; packet priorities are too,
and come in through `setup`.  Mutexes appear only as the atomic steps they
make, so that what happens to a mutex whose holder is terminated is not
covered.  The pool of temporary strings is behind a mutex; the ring of
`Str_GetTemp` has no owners, and what is taken from it is only safe because it
is long.

Of the code around what is modelled, some hazards have no model: a client that
never reads keeps its closing slot for ever (`network.cpp:4109`),
`markReadClosed` is called through a slot that may have another client
(`CChar.cpp:321`), the timed wait with pthreads gets a `tv_nsec` that may be
too large (`mutex.cpp:192`), and the main thread waits for a query in the
background as long as it takes (`CDataBase.cpp:103`).

## 7. Plan

Order: what can go wrong for every player first.

1. Done: the queue, slots and threads, outgoing packets, address history,
   database link, life of a thread; saves in stages and their files; parties,
   timed functions, trade; proofs for all of them.
2. `NetworkManager` with `IPHistory`: client objects that outlive their slots,
   `markReadClosed` through a stale slot, the relay packet's `onSent` in a
   network thread.
3. `SaveSweep` with an abstract specification, a save as one step, and
   `SaveFiles` on top of it.
4. Objects, containers and `m_ObjDelete`; sectors that sleep; spawns; accounts;
   chat.
5. Path finding as an algorithm against a reference definition.

Every safety property that a passing run checks is a theorem.  Proofs to come:
an abstract save, one step, that `SaveSweep` implements, and what
`NetworkManager` with several threads still promises.
