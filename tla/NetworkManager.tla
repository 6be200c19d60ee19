---------------------------- MODULE NetworkManager ----------------------------
(***************************************************************************)
(* The life of a connection slot (NetState) between the main thread, which *)
(* accepts connections, runs their packets and clears closed slots, and    *)
(* the network threads, which read and write the sockets of the slots they *)
(* were given (network/network.cpp, built with _MTNETWORK and started with *)
(* NETWORKTHREADS > 0).  The threads have the default priority, Disabled:  *)
(* they sleep until somebody signals them.                                 *)
(*                                                                         *)
(* Every step is one access of a thread to what the other threads change.  *)
(* A connection is a number, in the order of acceptance; it stands for the *)
(* socket, the CClient object and the packets written to or read from it.  *)
(* Packets have the one priority that is still sent by a closing slot; the *)
(* module NetworkOutput has the others.                                    *)
(***************************************************************************)
EXTENDS Naturals, Sequences

CONSTANTS
    Threads,    \* the network threads
    NoThread,   \* m_parent == NULL
    SlotCount,  \* m_stateCount
    MaxConn,    \* bound on the number of connections ever accepted
    MaxQueue,   \* bound on the packets waiting for a client, or from it
    MaxPerTick, \* NETWORK_MAXPACKETS: the packets sent at most for one slot
                \* before the thread turns to the next
    Latched     \* does a signal wait for a thread that is busy?  TRUE for the
                \* events of Windows, FALSE for those made of pthreads

ASSUME ThreadsAssumption == Threads # {} /\ NoThread \notin Threads
ASSUME BoundsAssumption ==
    /\ SlotCount \in Nat \ {0}
    /\ MaxConn \in Nat \ {0}
    /\ MaxQueue \in Nat \ {0}
    /\ MaxPerTick \in Nat \ {0}
ASSUME LatchedAssumption == Latched \in BOOLEAN

Slots == 1..SlotCount
Conns == 1..MaxConn
None == 0       \* no connection: m_client == NULL and a closed socket

VARIABLES
    \* NetState
    inUse, readClosed, writeClosed, needsFlush,
    client,         \* m_client and m_socket: the connection in each slot
    parent,         \* m_parent
    out,            \* m_outgoing.queue: the connections packets are for
    bytes,          \* m_outgoing.bytes: the same, for the data to be sent
    raw,            \* m_incoming.rawPackets: the connections they came from
    \* NetworkThread
    assignQueue,    \* m_assignQueue
    states,         \* m_states
    pc, at,         \* where each thread is, and its place in m_states
    hold,           \* the packet in each thread's hands
    batch,          \* packetsProcessed
    sent,           \* packetsSent > 0
    signalled,      \* the state of m_sleepEvent, where it has one
    \* the main thread
    mpc, slot,      \* where it is, and the slot it looks at
    lastGiven,      \* m_lastGivenSlot
    accepted,       \* the number of connections accepted
    \* the clients, and what has happened
    peer,           \* what each client is doing to its connection
    late,           \* the connections sent a packet while closing
    strays          \* <<of, to>>: packets that reached another connection

slotVars == <<inUse, readClosed, writeClosed, needsFlush, client, parent>>
queueVars == <<out, bytes, raw>>
listVars == <<assignQueue, states>>
sendVars == <<hold, batch, sent>>
threadVars == <<pc, at, sendVars, signalled>>
mainVars == <<mpc, slot, lastGiven, accepted>>
outsideVars == <<peer, late, strays>>
vars == <<slotVars, queueVars, listVars, threadVars, mainVars, outsideVars>>

Flushing == {"flush", "flushSend", "flushPacket", "flushBytes", "flushDone",
             "flushEnd"}
Sending == {"output", "outputPacket", "outputBytes"}
ThreadPC == {"new", "drop", "orphan", "recv", "store", "sleep", "wait"}
            \cup Flushing \cup Sending
MainPC == {"accept", "initRead", "initUse", "assign", "poke", "input",
           "react", "tick", "clear"}

Init ==
    /\ inUse = [s \in Slots |-> FALSE]
    /\ readClosed = [s \in Slots |-> TRUE]
    /\ writeClosed = [s \in Slots |-> TRUE]
    /\ needsFlush = [s \in Slots |-> FALSE]
    /\ client = [s \in Slots |-> None]
    /\ parent = [s \in Slots |-> NoThread]
    /\ out = [s \in Slots |-> <<>>]
    /\ bytes = [s \in Slots |-> <<>>]
    /\ raw = [s \in Slots |-> <<>>]
    /\ assignQueue = [t \in Threads |-> <<>>]
    /\ states = [t \in Threads |-> <<>>]
    /\ pc = [t \in Threads |-> "new"]
    /\ at = [t \in Threads |-> 1]
    /\ hold = [t \in Threads |-> None]
    /\ batch = [t \in Threads |-> 0]
    /\ sent = [t \in Threads |-> FALSE]
    /\ signalled = [t \in Threads |-> FALSE]
    /\ mpc = "accept" /\ slot = 1
    /\ lastGiven = SlotCount    \* INTPTR_MAX: the search starts over
    /\ accepted = 0
    /\ peer = [c \in Conns |-> "none"]
    /\ late = {} /\ strays = {}

-----------------------------------------------------------------------------
(* NetState *)

IsClosing(s) == readClosed[s] \/ writeClosed[s]
IsClosed(s) == readClosed[s] /\ writeClosed[s]

HasPendingData(s) ==
    /\ inUse[s] /\ client[s] # None
    /\ ~writeClosed[s]
    /\ out[s] # <<>> \/ bytes[s] # <<>>

\* What was meant for another connection than the one the slot has now
Misdirected(seq, s) ==
    {<<seq[i], client[s]>> : i \in {j \in DOMAIN seq : seq[j] # client[s]}}

Live(s) == inUse[s] /\ client[s] # None

-----------------------------------------------------------------------------
(* m_sleepEvent: awaken() of the threads in T, seen from a state in which  *)
(* the caller has made the program counters p                              *)

Awaken(T, p) ==
    /\ pc' = [t \in Threads |->
                 IF t \in T /\ p[t] = "wait" THEN "new" ELSE p[t]]
    /\ signalled' = [t \in Threads |->
                 signalled[t] \/ (Latched /\ t \in T /\ p[t] # "wait")]

\* NetworkThread::tick is over: m_sleepEvent.wait().
Sleep(t) ==
    /\ pc[t] = "sleep"
    /\ pc' = [pc EXCEPT ![t] = IF signalled[t] THEN "new" ELSE "wait"]
    /\ signalled' = [signalled EXCEPT ![t] = FALSE]
    /\ UNCHANGED <<slotVars, queueVars, listVars, at, sendVars, mainVars,
                   outsideVars>>

\* Either kind of event may end the wait with no signal.
SpuriousWakeup(t) ==
    /\ pc[t] = "wait"
    /\ pc' = [pc EXCEPT ![t] = "new"]
    /\ UNCHANGED <<slotVars, queueVars, listVars, at, sendVars, signalled,
                   mainVars, outsideVars>>

-----------------------------------------------------------------------------
(* NetworkThread::tick, taking and dropping slots *)

RemoveAt(seq, i) == SubSeq(seq, 1, i - 1) \o SubSeq(seq, i + 1, Len(seq))

InList(t) == at[t] <= Len(states[t])
Current(t) == states[t][at[t]]

Goto(t, label) == pc' = [pc EXCEPT ![t] = label]
NextState(t) == at' = [at EXCEPT ![t] = @ + 1]
FirstState(t) == at' = [at EXCEPT ![t] = 1]

\* A variant for InUseIsOwned: the new slot keeps the parent it had.
CheckNewStatesNoParent(t) ==
    /\ pc[t] = "new"
    /\ IF assignQueue[t] # <<>>
       THEN /\ states' = [states EXCEPT ![t] = Append(@, Head(assignQueue[t]))]
            /\ assignQueue' = [assignQueue EXCEPT ![t] = Tail(@)]
            /\ UNCHANGED <<pc, at>>
       ELSE /\ Goto(t, "drop")
            /\ FirstState(t)
            /\ UNCHANGED listVars
    /\ UNCHANGED <<slotVars, queueVars, sendVars, signalled, mainVars,
                   outsideVars>>

\* checkNewStates(): take what the main thread has assigned
CheckNewStates(t) ==
    /\ pc[t] = "new"
    /\ IF assignQueue[t] # <<>>
       THEN /\ parent' = [parent EXCEPT ![Head(assignQueue[t])] = t]
            /\ states' = [states EXCEPT ![t] = Append(@, Head(assignQueue[t]))]
            /\ assignQueue' = [assignQueue EXCEPT ![t] = Tail(@)]
            /\ UNCHANGED <<pc, at>>
       ELSE /\ Goto(t, "drop")
            /\ FirstState(t)
            /\ UNCHANGED <<parent, listVars>>
    /\ UNCHANGED <<inUse, readClosed, writeClosed, needsFlush, client,
                   queueVars, sendVars, signalled, mainVars, outsideVars>>

\* dropInvalidStates(): a slot that has another parent is forgotten, one
\* that is not in use is left without a parent first
DropInvalidStates(t) ==
    /\ pc[t] = "drop" /\ InList(t)
    /\ LET s == Current(t) IN
          \/ /\ parent[s] # t
             /\ states' = [states EXCEPT ![t] = RemoveAt(@, at[t])]
             /\ UNCHANGED <<pc, at>>
          \/ /\ parent[s] = t /\ ~inUse[s]
             /\ Goto(t, "orphan")
             /\ UNCHANGED <<states, at>>
          \/ /\ parent[s] = t /\ inUse[s]
             /\ NextState(t)
             /\ UNCHANGED <<states, pc>>
    /\ UNCHANGED <<slotVars, queueVars, assignQueue, sendVars, signalled,
                   mainVars, outsideVars>>

Orphan(t) ==
    /\ pc[t] = "orphan"
    /\ parent' = [parent EXCEPT ![Current(t)] = NoThread]
    /\ states' = [states EXCEPT ![t] = RemoveAt(@, at[t])]
    /\ Goto(t, "drop")
    /\ UNCHANGED <<inUse, readClosed, writeClosed, needsFlush, client,
                   queueVars, assignQueue, at, sendVars, signalled,
                   mainVars, outsideVars>>

EndDrop(t) ==
    /\ pc[t] = "drop" /\ ~InList(t)
    /\ Goto(t, IF states[t] = <<>> THEN "sleep" ELSE "recv")
    /\ FirstState(t)
    /\ UNCHANGED <<slotVars, queueVars, listVars, sendVars, signalled, mainVars,
                   outsideVars>>

-----------------------------------------------------------------------------
(* NetworkInput::receiveData *)

Readable(s) ==
    /\ ~IsClosing(s)
    /\ client[s] # None
    /\ peer[client[s]] \in {"data", "gone"}

ReceiveNothing(t) ==
    /\ pc[t] = "recv" /\ InList(t)
    /\ ~Readable(Current(t))
    /\ NextState(t)
    /\ UNCHANGED <<slotVars, queueVars, listVars, pc, sendVars, signalled,
                   mainVars, outsideVars>>

Receive(t) ==
    /\ pc[t] = "recv" /\ InList(t)
    /\ LET c == client[Current(t)] IN
          /\ Readable(Current(t))
          /\ peer[c] = "data"
          /\ hold' = [hold EXCEPT ![t] = c]
          /\ peer' = [peer EXCEPT ![c] = "quiet"]
    /\ Goto(t, "store")
    /\ UNCHANGED <<slotVars, queueVars, listVars, at, batch, sent, signalled,
                   mainVars, late, strays>>

\* The bytes read go to the slot's rawPackets.
Store(t) ==
    /\ pc[t] = "store"
    /\ raw' = [raw EXCEPT ![Current(t)] = Append(@, hold[t])]
    /\ hold' = [hold EXCEPT ![t] = None]
    /\ Goto(t, "recv")
    /\ NextState(t)
    /\ UNCHANGED <<slotVars, out, bytes, listVars, batch, sent, signalled,
                   mainVars, outsideVars>>

\* Receive() fails: markReadClosed(), which signals the slot's parent
ReceiveFails(t) ==
    /\ pc[t] = "recv" /\ InList(t)
    /\ LET s == Current(t) IN
          /\ Readable(s)
          /\ peer[client[s]] = "gone"
          /\ readClosed' = [readClosed EXCEPT ![s] = TRUE]
          /\ Awaken({parent[s]}, pc)
    /\ NextState(t)
    /\ UNCHANGED <<inUse, writeClosed, needsFlush, client, parent, queueVars,
                   listVars, sendVars, mainVars, outsideVars>>

EndReceive(t) ==
    /\ pc[t] = "recv" /\ ~InList(t)
    /\ Goto(t, "flush")
    /\ FirstState(t)
    /\ UNCHANGED <<slotVars, queueVars, listVars, sendVars, signalled,
                   mainVars, outsideVars>>

-----------------------------------------------------------------------------
(* NetworkOutput::processOutput: checkFlushRequests over every state, then *)
(* the packet queues of every state                                        *)

\* checkFlushRequests(): is the current state to be flushed?  flush() leaves
\* a state that is not in use alone.
CheckFlush(t) ==
    /\ pc[t] = "flush" /\ InList(t)
    /\ LET s == Current(t) IN
          \/ /\ writeClosed[s]
             /\ NextState(t)
             /\ UNCHANGED pc
          \/ /\ ~writeClosed[s]
             /\ Goto(t, IF needsFlush[s] /\ inUse[s] THEN "flushSend"
                        ELSE "flushEnd")
             /\ UNCHANGED at
    /\ UNCHANGED <<slotVars, queueVars, listVars, sendVars, signalled,
                   mainVars, outsideVars>>

FlushDone(t) ==
    /\ pc[t] = "flushDone"
    /\ needsFlush' = [needsFlush EXCEPT ![Current(t)] = FALSE]
    /\ Goto(t, "flushEnd")
    /\ UNCHANGED <<inUse, readClosed, writeClosed, client, parent, queueVars,
                   listVars, at, sendVars, signalled, mainVars, outsideVars>>

\* A variant for EveryCloseFinishes: markWriteClosed() is forgotten.
CheckClosingForgotten(t) ==
    /\ pc[t] = "flushEnd"
    /\ Goto(t, "flush")
    /\ NextState(t)
    /\ UNCHANGED <<slotVars, queueVars, listVars, sendVars, signalled,
                   mainVars, outsideVars>>

\* checkFlushRequests(): a closing state with nothing to send is closed.
CheckClosing(t) ==
    /\ pc[t] = "flushEnd"
    /\ LET s == Current(t) IN
          writeClosed' = [writeClosed EXCEPT
             ![s] = @ \/ (IsClosing(s) /\ ~HasPendingData(s))]
    /\ Goto(t, "flush")
    /\ NextState(t)
    /\ UNCHANGED <<inUse, readClosed, needsFlush, client, parent, queueVars,
                   listVars, sendVars, signalled, mainVars, outsideVars>>

EndFlush(t) ==
    /\ pc[t] = "flush" /\ ~InList(t)
    /\ Goto(t, "output")
    /\ FirstState(t)
    /\ UNCHANGED <<slotVars, queueVars, listVars, sendVars, signalled,
                   mainVars, outsideVars>>

\* processPacketQueue(): take the next packet of the current state
TakePacket(t) ==
    /\ pc[t] = "flushSend" \/ (pc[t] = "output" /\ InList(t))
    /\ LET s == Current(t) IN
          /\ ~writeClosed[s]
          /\ out[s] # <<>> /\ batch[t] < MaxPerTick
          /\ hold' = [hold EXCEPT ![t] = Head(out[s])]
          /\ out' = [out EXCEPT ![s] = Tail(@)]
    /\ Goto(t, IF pc[t] = "output" THEN "outputPacket" ELSE "flushPacket")
    /\ UNCHANGED <<slotVars, bytes, raw, listVars, at, batch, sent, signalled,
                   mainVars, outsideVars>>

\* sendPacket(): the packet joins the bytes to be sent, or it is deleted
\* because canReceive() refuses it
SendPacket(t) ==
    /\ pc[t] \in {"flushPacket", "outputPacket"}
    /\ LET s == Current(t) IN
          IF inUse[s] /\ client[s] # None
          THEN /\ bytes' = [bytes EXCEPT ![s] = Append(@, hold[t])]
               /\ batch' = [batch EXCEPT ![t] = @ + 1]
               /\ sent' = [sent EXCEPT ![t] = @ \/ pc[t] = "outputPacket"]
          ELSE UNCHANGED <<bytes, batch, sent>>
    /\ hold' = [hold EXCEPT ![t] = None]
    /\ Goto(t, IF pc[t] = "flushPacket" THEN "flushSend" ELSE "output")
    /\ UNCHANGED <<slotVars, out, raw, listVars, at, signalled, mainVars,
                   outsideVars>>

\* The queue is empty or the limit reached: on to the byte queue.
EndPackets(t) ==
    /\ pc[t] = "flushSend" \/ (pc[t] = "output" /\ InList(t))
    /\ LET s == Current(t) IN
          writeClosed[s] \/ out[s] = <<>> \/ batch[t] >= MaxPerTick
    /\ batch' = [batch EXCEPT ![t] = 0]
    /\ Goto(t, IF pc[t] = "output" THEN "outputBytes" ELSE "flushBytes")
    /\ UNCHANGED <<slotVars, queueVars, listVars, at, hold, sent, signalled,
                   mainVars, outsideVars>>

AfterBytes(t) ==
    \/ /\ pc[t] = "flushBytes"
       /\ Goto(t, "flushDone")
       /\ UNCHANGED at
    \/ /\ pc[t] = "outputBytes"
       /\ Goto(t, "output")
       /\ NextState(t)

\* processByteQueue(): nothing to send
SendNoBytes(t) ==
    /\ pc[t] \in {"flushBytes", "outputBytes"}
    /\ writeClosed[Current(t)] \/ bytes[Current(t)] = <<>>
    /\ AfterBytes(t)
    /\ UNCHANGED <<slotVars, queueVars, listVars, sendVars, signalled,
                   mainVars, outsideVars>>

\* processByteQueue(): the socket takes the bytes
SendBytes(t) ==
    /\ pc[t] \in {"flushBytes", "outputBytes"}
    /\ LET s == Current(t) IN
          /\ ~writeClosed[s] /\ bytes[s] # <<>>
          /\ strays' = strays \cup Misdirected(bytes[s], s)
          /\ bytes' = [bytes EXCEPT ![s] = <<>>]
    /\ sent' = [sent EXCEPT ![t] = @ \/ pc[t] = "outputBytes"]
    /\ AfterBytes(t)
    /\ UNCHANGED <<slotVars, out, raw, listVars, hold, batch, signalled,
                   mainVars, peer, late>>

\* ... or has no room for them now (EAGAIN), which counts as sent
SendBytesLater(t) ==
    /\ pc[t] \in {"flushBytes", "outputBytes"}
    /\ ~writeClosed[Current(t)] /\ bytes[Current(t)] # <<>>
    /\ sent' = [sent EXCEPT ![t] = @ \/ pc[t] = "outputBytes"]
    /\ AfterBytes(t)
    /\ UNCHANGED <<slotVars, queueVars, listVars, hold, batch, signalled,
                   mainVars, outsideVars>>

\* sendData() fails on a lost connection: clearQueues(), markWriteClosed()
SendBytesFails(t) ==
    /\ pc[t] \in {"flushBytes", "outputBytes"}
    /\ LET s == Current(t) IN
          /\ ~writeClosed[s] /\ bytes[s] # <<>>
          /\ client[s] # None => peer[client[s]] = "gone"
          /\ out' = [out EXCEPT ![s] = <<>>]
          /\ bytes' = [bytes EXCEPT ![s] = <<>>]
          /\ raw' = [raw EXCEPT ![s] = <<>>]
          /\ writeClosed' = [writeClosed EXCEPT ![s] = TRUE]
    /\ AfterBytes(t)
    /\ UNCHANGED <<inUse, readClosed, needsFlush, client, parent, listVars,
                   sendVars, signalled, mainVars, outsideVars>>

\* The thread signals itself when it sent anything: "there could be more".
EndOutput(t) ==
    /\ pc[t] = "output" /\ ~InList(t)
    /\ Awaken(IF sent[t] THEN {t} ELSE {}, [pc EXCEPT ![t] = "sleep"])
    /\ FirstState(t)
    /\ sent' = [sent EXCEPT ![t] = FALSE]
    /\ UNCHANGED <<slotVars, queueVars, listVars, hold, batch, mainVars,
                   outsideVars>>

ThreadStep(t) ==
    \/ Sleep(t)
    \/ CheckNewStates(t) \/ DropInvalidStates(t) \/ Orphan(t) \/ EndDrop(t)
    \/ ReceiveNothing(t) \/ Receive(t) \/ Store(t) \/ ReceiveFails(t)
    \/ EndReceive(t)
    \/ CheckFlush(t) \/ FlushDone(t) \/ CheckClosing(t) \/ EndFlush(t)
    \/ TakePacket(t) \/ SendPacket(t) \/ EndPackets(t)
    \/ SendNoBytes(t) \/ SendBytes(t) \/ SendBytesLater(t)
    \/ SendBytesFails(t) \/ EndOutput(t)

-----------------------------------------------------------------------------
(* The main thread: processAllInput, then NetworkManager::tick, for ever   *)

MainGoto(label) == mpc' = label

\* checkNewConnection(): nobody calls, or there is no room.
NoConnection ==
    /\ mpc = "accept"
    /\ MainGoto("poke")
    /\ UNCHANGED <<slotVars, queueVars, listVars, threadVars, slot, lastGiven,
                   accepted, outsideVars>>

\* findFreeSlot(): the first free slot after the one last given, in a circle
FindFreeSlot ==
    LET free == {s \in Slots : ~inUse[s]}
        after == {s \in free : s > lastGiven}
        range == IF after = {} THEN free ELSE after
    IN CHOOSE s \in range : \A r \in range : s <= r

\* acceptNewConnection(): NetState::init(), up to m_isWriteClosed = false
AcceptNewConnection ==
    /\ mpc = "accept"
    /\ accepted < MaxConn
    /\ \E s \in Slots : ~inUse[s]
    /\ LET s == FindFreeSlot IN
          /\ slot' = s
          /\ lastGiven' = s
          /\ needsFlush' = [needsFlush EXCEPT ![s] = FALSE]
          /\ out' = [out EXCEPT ![s] = <<>>]
          /\ bytes' = [bytes EXCEPT ![s] = <<>>]
          /\ raw' = [raw EXCEPT ![s] = <<>>]
          /\ client' = [client EXCEPT ![s] = accepted + 1]
          /\ readClosed' = [readClosed EXCEPT ![s] = TRUE]
          /\ writeClosed' = [writeClosed EXCEPT ![s] = FALSE]
    /\ accepted' = accepted + 1
    /\ peer' = [peer EXCEPT ![accepted + 1] = "quiet"]
    /\ MainGoto("initRead")
    /\ UNCHANGED <<inUse, parent, listVars, threadVars, late, strays>>

\* NetState::init(): m_isReadClosed = false
InitRead ==
    /\ mpc = "initRead"
    /\ readClosed' = [readClosed EXCEPT ![slot] = FALSE]
    /\ MainGoto("initUse")
    /\ UNCHANGED <<inUse, writeClosed, needsFlush, client, parent, queueVars,
                   listVars, threadVars, slot, lastGiven, accepted,
                   outsideVars>>

\* NetState::init(): m_isInUse = true
InitUse ==
    /\ mpc = "initUse"
    /\ inUse' = [inUse EXCEPT ![slot] = TRUE]
    /\ MainGoto("assign")
    /\ UNCHANGED <<readClosed, writeClosed, needsFlush, client, parent,
                   queueVars, listVars, threadVars, slot, lastGiven, accepted,
                   outsideVars>>

\* A variant for EveryClientTaken: the thread is not told.
AssignSilently ==
    /\ mpc = "assign"
    /\ \E t \in Threads :
          /\ \A u \in Threads : Len(states[t]) <= Len(states[u])
          /\ assignQueue' = [assignQueue EXCEPT ![t] = Append(@, slot)]
    /\ MainGoto("poke")
    /\ UNCHANGED <<slotVars, queueVars, states, threadVars, slot, lastGiven,
                   accepted, outsideVars>>

\* assignNetworkState(): to a thread with the shortest m_states, any of them
AssignNetworkState ==
    /\ mpc = "assign"
    /\ \E t \in Threads :
          /\ \A u \in Threads : Len(states[t]) <= Len(states[u])
          /\ assignQueue' = [assignQueue EXCEPT ![t] = Append(@, slot)]
          /\ Awaken({t}, pc)
    /\ MainGoto("poke")
    /\ UNCHANGED <<slotVars, queueVars, states, at, sendVars, slot,
                   lastGiven, accepted, outsideVars>>

\* A variant for EveryByteRead: the threads are not told of data.
CheckNothing ==
    /\ mpc = "poke"
    /\ MainGoto("input")
    /\ slot' = 1
    /\ UNCHANGED <<slotVars, queueVars, listVars, threadVars, lastGiven,
                   accepted, outsideVars>>

\* NetworkInput::processInput(), called by the main thread: the threads with
\* something to read are signalled
CheckForData ==
    /\ mpc = "poke"
    /\ Awaken({parent[s] : s \in {r \in Slots : Readable(r)}}, pc)
    /\ MainGoto("input")
    /\ slot' = 1
    /\ UNCHANGED <<slotVars, queueVars, listVars, at, sendVars, lastGiven,
                   accepted, outsideVars>>

NextSlot(here, done) ==
    IF slot < SlotCount
    THEN MainGoto(here) /\ slot' = slot + 1
    ELSE MainGoto(done) /\ slot' = 1

\* NetworkInput::processData(): the raw packets of a slot go to its client.
ProcessData ==
    /\ mpc = "input"
    /\ IF parent[slot] # NoThread /\ ~readClosed[slot]
       THEN /\ strays' = strays \cup Misdirected(raw[slot], slot)
            /\ raw' = [raw EXCEPT ![slot] = <<>>]
       ELSE UNCHANGED <<raw, strays>>
    /\ MainGoto("react")
    /\ UNCHANGED <<slotVars, out, bytes, listVars, threadVars, slot, lastGiven,
                   accepted, late, peer>>

\* A packet handler, or whatever else runs in the main thread, does nothing
\* to the network, ...
NoReaction ==
    /\ mpc = "react"
    /\ NextSlot("input", "tick")
    /\ UNCHANGED <<slotVars, queueVars, listVars, threadVars, lastGiven,
                   accepted, outsideVars>>

\* ... sends a packet to a client, through QueuePacketTransaction(), and no
\* more than one to a client that is closing: the bound of late, ...
QueuePacketTransaction ==
    /\ mpc = "react"
    /\ \E s \in Slots :
          /\ inUse[s] /\ client[s] # None /\ ~writeClosed[s]
          /\ Len(out[s]) + Len(bytes[s]) < MaxQueue
          /\ IsClosing(s) => client[s] \notin late
          /\ late' = IF IsClosing(s) THEN late \cup {client[s]} ELSE late
          /\ out' = [out EXCEPT ![s] = Append(@, client[s])]
          /\ Awaken({parent[s]}, pc)
    /\ NextSlot("input", "tick")
    /\ UNCHANGED <<slotVars, bytes, raw, listVars, at, sendVars, lastGiven,
                   accepted, peer, strays>>

\* ... or ends a connection, as CClient::addLoginErr and addKick do.
MarkReadClosed ==
    /\ mpc = "react"
    /\ \E s \in Slots :
          /\ inUse[s] /\ ~readClosed[s]
          /\ readClosed' = [readClosed EXCEPT ![s] = TRUE]
          /\ Awaken({parent[s]}, pc)
    /\ NextSlot("input", "tick")
    /\ UNCHANGED <<inUse, writeClosed, needsFlush, client, parent, queueVars,
                   listVars, at, sendVars, lastGiven, accepted, outsideVars>>

\* NetworkManager::tick, a slot that is not closing: the threads that may
\* have missed the signal for queued data are signalled again.
TickOpen ==
    /\ mpc = "tick"
    /\ ~inUse[slot] \/ ~IsClosing(slot)
    /\ Awaken(IF inUse[slot] /\ HasPendingData(slot) THEN {parent[slot]}
              ELSE {}, pc)
    /\ NextSlot("tick", "accept")
    /\ UNCHANGED <<slotVars, queueVars, listVars, at, sendVars, lastGiven,
                   accepted, outsideVars>>

\* A closing slot with something left to send: the thread is asked to flush
\* it, once.
TickFlush ==
    /\ mpc = "tick"
    /\ inUse[slot] /\ IsClosing(slot) /\ HasPendingData(slot)
    /\ IF needsFlush[slot] \/ parent[slot] = NoThread
       THEN UNCHANGED <<needsFlush, pc, signalled>>
       ELSE /\ needsFlush' = [needsFlush EXCEPT ![slot] = TRUE]
            /\ Awaken({parent[slot]}, pc)
    /\ NextSlot("tick", "accept")
    /\ UNCHANGED <<inUse, readClosed, writeClosed, client, parent, queueVars,
                   listVars, at, sendVars, lastGiven, accepted, outsideVars>>

\* A closing slot with nothing left to send: markReadClosed()
TickClosing ==
    /\ mpc = "tick"
    /\ inUse[slot] /\ IsClosing(slot) /\ ~HasPendingData(slot)
    /\ IF IsClosed(slot)
       THEN UNCHANGED <<readClosed, pc, signalled>>
       ELSE /\ readClosed' = [readClosed EXCEPT ![slot] = TRUE]
            /\ Awaken({parent[slot]}, pc)
    /\ MainGoto("clear")
    /\ UNCHANGED <<inUse, writeClosed, needsFlush, client, parent, queueVars,
                   listVars, at, sendVars, slot, lastGiven, accepted,
                   outsideVars>>

ClearSlot ==
    /\ inUse' = [inUse EXCEPT ![slot] = FALSE]
    /\ readClosed' = [readClosed EXCEPT ![slot] = TRUE]
    /\ writeClosed' = [writeClosed EXCEPT ![slot] = TRUE]
    /\ needsFlush' = [needsFlush EXCEPT ![slot] = FALSE]
    /\ client' = [client EXCEPT ![slot] = None]
    /\ out' = [out EXCEPT ![slot] = <<>>]
    /\ bytes' = [bytes EXCEPT ![slot] = <<>>]
    /\ raw' = [raw EXCEPT ![slot] = <<>>]

\* A variant for NoCrossTalk and ClientWhileWorking: the slot is cleared while
\* the network thread still has it open.
ClearEarly ==
    /\ mpc = "clear"
    /\ ClearSlot
    /\ NextSlot("tick", "accept")
    /\ UNCHANGED <<parent, listVars, threadVars, lastGiven, accepted,
                   outsideVars>>

\* clear(), once both sides have closed the slot
Clear ==
    /\ mpc = "clear"
    /\ IF IsClosed(slot)
       THEN ClearSlot
       ELSE UNCHANGED <<inUse, readClosed, writeClosed, needsFlush, client,
                        queueVars>>
    /\ NextSlot("tick", "accept")
    /\ UNCHANGED <<parent, listVars, threadVars, lastGiven, accepted,
                   outsideVars>>

MainStep ==
    \/ NoConnection \/ AcceptNewConnection \/ InitRead \/ InitUse
    \/ AssignNetworkState
    \/ CheckForData \/ ProcessData
    \/ NoReaction \/ QueuePacketTransaction \/ MarkReadClosed
    \/ TickOpen \/ TickFlush \/ TickClosing \/ Clear

-----------------------------------------------------------------------------
(* The clients send data, or hang up *)

PeerSends(c) ==
    /\ peer[c] = "quiet"
    /\ \A s \in Slots : client[s] = c => Len(raw[s]) < MaxQueue
    /\ peer' = [peer EXCEPT ![c] = "data"]
    /\ UNCHANGED <<slotVars, queueVars, listVars, threadVars, mainVars, late,
                   strays>>

PeerLeaves(c) ==
    /\ peer[c] \in {"quiet", "data"}
    /\ peer' = [peer EXCEPT ![c] = "gone"]
    /\ UNCHANGED <<slotVars, queueVars, listVars, threadVars, mainVars, late,
                   strays>>

-----------------------------------------------------------------------------
Next ==
    \/ MainStep
    \/ \E t \in Threads : ThreadStep(t) \/ SpuriousWakeup(t)
    \/ \E c \in Conns : PeerSends(c) \/ PeerLeaves(c)

Spec == Init /\ [][Next]_vars

\* The loops of the main thread and of the network threads go on.  Clients
\* need not say anything, but they take what they are sent, or go.
FairSpec ==
    /\ Spec
    /\ WF_vars(MainStep)
    /\ \A t \in Threads :
          /\ WF_vars(ThreadStep(t))
          /\ SF_vars(SendBytes(t) \/ SendBytesFails(t))

-----------------------------------------------------------------------------
Elements(seq) == {seq[i] : i \in DOMAIN seq}

\* The type invariant.
TypeOK ==
    /\ inUse \in [Slots -> BOOLEAN]
    /\ readClosed \in [Slots -> BOOLEAN]
    /\ writeClosed \in [Slots -> BOOLEAN]
    /\ needsFlush \in [Slots -> BOOLEAN]
    /\ client \in [Slots -> Conns \cup {None}]
    /\ parent \in [Slots -> Threads \cup {NoThread}]
    /\ out \in [Slots -> Seq(Conns)]
    /\ bytes \in [Slots -> Seq(Conns)]
    /\ raw \in [Slots -> Seq(Conns)]
    /\ assignQueue \in [Threads -> Seq(Slots)]
    /\ states \in [Threads -> Seq(Slots)]
    /\ pc \in [Threads -> ThreadPC]
    /\ at \in [Threads -> Nat]
    /\ hold \in [Threads -> Conns \cup {None}]
    /\ batch \in [Threads -> 0..MaxPerTick]
    /\ sent \in [Threads -> BOOLEAN]
    /\ signalled \in [Threads -> BOOLEAN]
    /\ mpc \in MainPC
    /\ slot \in Slots /\ lastGiven \in Slots
    /\ accepted \in 0..MaxConn
    /\ peer \in [Conns -> {"none", "quiet", "data", "gone"}]
    /\ late \subseteq Conns
    /\ strays \in SUBSET (Conns \X (Conns \cup {None}))

\* No packet written for one connection is sent on another, and no bytes
\* read from one are handled as another's, although slots are reused.
NoCrossTalk == strays = {}

\* A slot in use is in some thread's hands: it waits to be taken or it is in
\* the list of its parent.  One that is not would never be served again.
Owned(s) ==
    \E t \in Threads :
        \/ s \in Elements(assignQueue[t])
        \/ s \in Elements(states[t]) /\ parent[s] = t

InUseIsOwned ==
    \A s \in Slots :
        inUse[s] => Owned(s) \/ (slot = s /\ mpc = "assign")

\* A slot is worked on by at most one thread at a time, as the queues and
\* buffers of a NetState require.
Working == {"recv", "store"} \cup Flushing \cup Sending

OneThreadPerState ==
    \A t, u \in Threads :
        t # u /\ {pc[t], pc[u]} \subseteq Working
           => Elements(states[t]) \cap Elements(states[u]) = {}

\* getClientCount() is the number of clients a thread has.
ClientCountExact ==
    \A t \in Threads :
        \A i, j \in DOMAIN states[t] : i # j => states[t][i] # states[t][j]

\* While a thread sends or stores a packet its slot has a client, as
\* processPacketQueue() asserts: clear() never runs under a thread's hands.
ClientWhileWorking ==
    \A t \in Threads :
        pc[t] \in {"store", "flushPacket", "outputPacket"}
            => client[Current(t)] # None

\* Every slot that is assigned to a thread is taken by it.
EveryClientTaken ==
    \A s \in Slots :
        (\E t \in Threads : s \in Elements(assignQueue[t]))
            ~> ~(\E t \in Threads : s \in Elements(assignQueue[t]))

\* A slot flagged for flushing is flushed, or its connection is over.
EveryFlushDone == \A s \in Slots : needsFlush[s] ~> ~needsFlush[s]

\* A connection that either side has given up ends, and frees its slot.
EveryCloseFinishes ==
    \A s \in Slots : (inUse[s] /\ IsClosing(s)) ~> ~inUse[s]

\* What the client of a slot has sent is read, unless its connection ends.
EveryByteRead ==
    \A s \in Slots : (Live(s) /\ peer[client[s]] = "data")
            ~> ~(Live(s) /\ peer[client[s]] = "data")
=============================================================================
