---------------------------- MODULE NetworkOutput ----------------------------
(***************************************************************************)
(* The packets on their way to one client: QueuePacket() and the           *)
(* transactions of the main thread, the five priority queues of the        *)
(* NetState, and NetworkOutput::processOutput(), which empties them by     *)
(* turns and closes the connection at last (network/network.cpp,           *)
(* network/packet.cpp).                                                    *)
(*                                                                         *)
(* A packet that was sent has been given to the byte queue of the client;  *)
(* NetworkManager has the way of the bytes from there, and what happens    *)
(* when the connection breaks.  With threads, the main thread runs in      *)
(* between the steps of processOutput(); without, as it is by default, one *)
(* thread does everything in turn.                                         *)
(***************************************************************************)
EXTENDS Naturals, Sequences

CONSTANTS
    Setups,         \* the ways in which the server runs, to check
    OtherThreads,   \* are there other network threads?
    MaxPackets,     \* bound on the number of packets
    MaxQueueSize,   \* NETWORK_MAXQUEUESIZE, or 0
    MaxPerTick      \* NETWORK_MAXPACKETS

ASSUME FlagsAssumption == OtherThreads \in BOOLEAN
ASSUME BoundsAssumption ==
    /\ {MaxPackets, MaxQueueSize} \subseteq Nat
    /\ MaxPerTick \in Nat \ {0}

Priorities == 0..4
IDLE == 0
LOW == 1
NORMAL == 2
HIGH == 3
HIGHEST == 4

\*  threaded:      m_iNetworkThreads > 0
\*  used:          the priorities of the packets that the server sends
\*  transactions:  bound on the number of transactions begun
ASSUME SetupsAssumption ==
    Setups \subseteq [threaded : BOOLEAN, used : SUBSET Priorities,
                     transactions : Nat]

VARIABLES
    setup,          \* which of them this is
    queue,          \* m_outgoing.queue: transactions, which are sequences
    current,        \* m_outgoing.currentTransaction, or <<>>
    pending,        \* m_outgoing.pendingTransaction, once it is open
    open, openPri,  \* is it, and its m_priority
    begun,          \* the number of transactions begun, the open one's too
    made,           \* the number of packets made
    readClosed, writeClosed, needsFlush,
    tick,           \* the static tick of processOutput(), a byte, modulo
                    \* Period
    due,            \* toProcess
    opc,            \* where processOutput() is
    pass,           \* what its loop over the priorities belongs to
    level, batch,   \* priority, and packetsProcessed
    hold,           \* the packet in hand
    wire,           \* the packets that were sent
    urgent          \* the packets queued at the highest priority

sendVars == <<queue, current, tick, due, opc, pass, level, batch, hold, wire>>
pendingVars == <<pending, open, openPri, begun>>
mainVars == <<pendingVars, made, urgent>>
closeVars == <<readClosed, writeClosed, needsFlush>>
vars == <<setup, sendVars, mainVars, closeVars>>

Threaded == setup.threaded

\* A packet: its number, that of its transaction or 0, the priority it was made
\* with and m_priority.
Packet == [id : 1..MaxPackets, of : 0..setup.transactions,
           asked : Priorities, pri : Priorities]
Nobody == [id |-> 0, of |-> 0, asked |-> IDLE, pri |-> IDLE]

Init ==
    /\ setup \in Setups
    /\ queue = [p \in Priorities |-> <<>>]
    /\ current = <<>>
    /\ pending = <<>> /\ open = FALSE /\ openPri = IDLE
    /\ begun = 0 /\ made = 0
    /\ readClosed = FALSE /\ writeClosed = FALSE /\ needsFlush = FALSE
    /\ tick = 0 /\ due = {}
    /\ opc = "idle" /\ pass = "send" /\ level = HIGHEST /\ batch = 0
    /\ hold = Nobody
    /\ wire = <<>>
    /\ urgent = {}

IsClosing == readClosed \/ writeClosed

CanReceive(packet) == IsClosing => packet.pri >= HIGHEST

\* A variant for LastWordsOfOneThread: a closing client has nothing pending.
HasPendingDataOpen ==
    /\ ~writeClosed
    /\ \/ \E p \in Priorities : queue[p] # <<>> /\ ~IsClosing
       \/ current # <<>>

HasPendingData ==
    /\ ~writeClosed
    /\ \/ \E p \in Priorities :
             queue[p] # <<>> /\ (IsClosing => p >= HIGHEST)
       \/ current # <<>>

-----------------------------------------------------------------------------
(* The main thread.  It gets its turn between two calls of processOutput() *)
(* or, with network threads, at any time.                                  *)

MainTurn == Threaded \/ opc = "idle"

\* QueuePacketTransaction(): a full queue hands down to the next priority.
Demoted(p) ==
    LET room == {q \in 0..p : q = IDLE \/ MaxQueueSize = 0
                                \/ Len(queue[q]) < MaxQueueSize}
    IN CHOOSE q \in room : \A r \in room : r <= q

\* A variant for NoOvertaking: the newest transaction goes first.
QueueInFront(packets, p) ==
    queue' = IF writeClosed THEN queue
             ELSE [queue EXCEPT ![Demoted(p)] = <<packets>> \o @]

QueuePacketTransaction(packets, p) ==
    queue' = IF writeClosed THEN queue
             ELSE [queue EXCEPT ![Demoted(p)] = Append(@, packets)]

\* PacketSend::push() of a packet of priority p, and QueuePacket(): it goes to
\* the transaction that is being built or makes one of its own, whose
\* setPriority() is the packet's.  A packet that cannot be received is deleted.
QueuePacket(p, append) ==
    /\ MainTurn
    /\ made < MaxPackets
    /\ LET packet == [id |-> made + 1, asked |-> p, pri |-> p,
                      of |-> IF open /\ append THEN begun ELSE 0]
           alone == [packet EXCEPT !.pri = Demoted(p)]
       IN /\ CanReceive(packet)
          /\ IF open /\ append
             THEN /\ pending' = Append(pending, packet)
                  /\ UNCHANGED <<queue, urgent>>
             ELSE /\ QueuePacketTransaction(<<alone>>, p)
                  /\ urgent' = IF p = HIGHEST /\ ~writeClosed
                               THEN urgent \cup {packet.id} ELSE urgent
                  /\ UNCHANGED pending
    /\ made' = made + 1
    /\ UNCHANGED <<setup, current, tick, due, opc, pass, level, batch, hold,
                   wire, open, openPri, begun, closeVars>>

\* beginTransaction(): a transaction left open is ended.
BeginTransaction(p) ==
    /\ MainTurn
    /\ begun < setup.transactions /\ begun' = begun + 1
    /\ open => pending # <<>> \/ IsClosing
    /\ IF open THEN QueuePacketTransaction(pending, openPri)
       ELSE UNCHANGED queue
    /\ pending' = <<>> /\ open' = TRUE /\ openPri' = p
    /\ UNCHANGED <<setup, current, tick, due, opc, pass, level, batch, hold,
                   wire, closeVars, made, urgent>>

\* endTransaction().  The callers always have something to send, which a
\* closing client cannot receive: then the transaction ends empty.
EndTransaction ==
    /\ MainTurn
    /\ open
    /\ pending # <<>> \/ IsClosing
    /\ QueuePacketTransaction(pending, openPri)
    /\ pending' = <<>> /\ open' = FALSE
    /\ UNCHANGED <<setup, current, tick, due, opc, pass, level, batch, hold,
                   wire, openPri, begun, closeVars, made, urgent>>

\* markReadClosed()
MarkReadClosed ==
    /\ MainTurn
    /\ ~readClosed
    /\ readClosed' = TRUE
    /\ UNCHANGED <<setup, sendVars, mainVars, writeClosed, needsFlush>>

\* NetworkManager::tick for a closing client with data to send: flush(), by
\* the thread that the client belongs to.  For one with nothing to send it
\* calls markReadClosed(), which here has always been called before.
Flush ==
    /\ MainTurn
    /\ IsClosing /\ HasPendingData /\ ~needsFlush
    /\ IF Threaded
       THEN /\ needsFlush' = TRUE
            /\ UNCHANGED <<opc, pass>>
       ELSE /\ opc' = "queue" /\ pass' = "tickFlush"
            /\ UNCHANGED needsFlush
    /\ UNCHANGED <<setup, queue, current, tick, due, level, batch, hold, wire,
                   mainVars, readClosed, writeClosed>>

-----------------------------------------------------------------------------
(* processOutput() *)

\* A variant for EverySent: the turn of the normal queue never comes.
ToProcessLate(p, t) ==
    CASE p = HIGHEST -> TRUE
      [] p = HIGH    -> ~Threaded \/ t % 2 = 1
      [] p = NORMAL  -> t % 4 = 4
      [] p = LOW     -> IF Threaded THEN t % 8 = 7 ELSE t % 2 = 1
      [] p = IDLE    -> IF Threaded THEN t % 16 = 15 ELSE t % 4 = 3

\* The turns come round again in so many ticks.
Period == IF Threaded THEN 16 ELSE 4

\* The queues that have their turn in tick t
ToProcess(p, t) ==
    CASE p = HIGHEST -> TRUE
      [] p = HIGH    -> ~Threaded \/ t % 2 = 1
      [] p = NORMAL  -> ~Threaded \/ t % 4 = 3
      [] p = LOW     -> IF Threaded THEN t % 8 = 7 ELSE t % 2 = 1
      [] p = IDLE    -> IF Threaded THEN t % 16 = 15 ELSE t % 4 = 3

\* The tick is a static variable: other network threads may have moved it on.
StartTick ==
    /\ opc = "idle"
    /\ \E steps \in (IF OtherThreads THEN 1..16 ELSE {1}) :
            tick' = (tick + steps) % Period
    /\ due' = {p \in Priorities : ToProcess(p, tick')}
    /\ opc' = "flush"
    /\ UNCHANGED <<setup, queue, current, pass, level, batch, hold, wire,
                   mainVars, closeVars>>

\* checkFlushRequests()
CheckFlush ==
    /\ opc = "flush"
    /\ IF writeClosed THEN opc' = "idle" /\ UNCHANGED pass
       ELSE IF needsFlush THEN opc' = "queue" /\ pass' = "flush"
       ELSE opc' = "closing" /\ UNCHANGED pass
    /\ UNCHANGED <<setup, queue, current, tick, due, level, batch, hold, wire,
                   mainVars, closeVars>>

CheckClosing ==
    /\ opc = "closing"
    /\ IF writeClosed THEN opc' = "idle" /\ UNCHANGED pass
       ELSE IF IsClosing /\ ~HasPendingData
       THEN opc' = "close" /\ UNCHANGED pass
       ELSE opc' = "queue" /\ pass' = "send"
    /\ UNCHANGED <<setup, queue, current, tick, due, level, batch, hold, wire,
                   mainVars, closeVars>>

\* markWriteClosed(): the connection is ended.
MarkWriteClosed ==
    /\ opc = "close"
    /\ writeClosed' = TRUE
    /\ opc' = "idle"
    /\ UNCHANGED <<setup, queue, current, tick, due, pass, level, batch, hold,
                   wire, mainVars, readClosed, needsFlush>>

\* processPacketQueue() has something to do at this level.
More ==
    /\ ~writeClosed
    /\ batch < MaxPerTick
    /\ pass = "send" => level \in due
    /\ queue[level] # <<>> \/ current # <<>>

\* The transaction to take the next packet from
NextTransaction == IF current # <<>> THEN current ELSE Head(queue[level])

\* A variant for TransactionsWhole: the queue goes before the rest of the
\* transaction.
TakePacketOfQueue ==
    /\ opc = "queue" /\ More
    /\ LET first == IF queue[level] = <<>> THEN current
                    ELSE Head(queue[level]) \o current
       IN /\ first # <<>>
          /\ queue' = IF queue[level] = <<>> THEN queue
                      ELSE [queue EXCEPT ![level] = Tail(@)]
          /\ current' = Tail(first)
          /\ IF CanReceive(Head(first))
             THEN opc' = "packet" /\ hold' = Head(first)
             ELSE UNCHANGED <<opc, hold>>
    /\ UNCHANGED <<setup, tick, due, pass, level, batch, wire, mainVars,
                   closeVars>>

\* processPacketQueue(): the next packet, if it may be received.  To take one
\* from an empty transaction is undefined behaviour; the model stops there.
TakePacket ==
    /\ opc = "queue" /\ More
    /\ queue' = IF current # <<>> THEN queue
                ELSE [queue EXCEPT ![level] = Tail(@)]
    /\ IF NextTransaction = <<>>
       THEN /\ opc' = "broken"
            /\ UNCHANGED <<current, hold>>
       ELSE /\ current' = Tail(NextTransaction)
            /\ IF CanReceive(Head(NextTransaction))
               THEN opc' = "packet" /\ hold' = Head(NextTransaction)
               ELSE UNCHANGED <<opc, hold>>
    /\ UNCHANGED <<setup, tick, due, pass, level, batch, wire, mainVars,
                   closeVars>>

\* sendPacket() asks again whether the packet may be received.
SendPacket ==
    /\ opc = "packet"
    /\ CanReceive(hold)
    /\ wire' = Append(wire, hold)
    /\ batch' = batch + 1
    /\ hold' = Nobody
    /\ opc' = "queue"
    /\ UNCHANGED <<setup, queue, current, tick, due, pass, level, mainVars,
                   closeVars>>

\* If not, it fails: clearQueues(), markWriteClosed()
SendPacketFails ==
    /\ opc = "packet"
    /\ ~CanReceive(hold)
    /\ queue' = [p \in Priorities |-> <<>>]
    /\ writeClosed' = TRUE
    /\ hold' = Nobody
    /\ opc' = "queue"
    /\ UNCHANGED <<setup, current, tick, due, pass, level, batch, wire,
                   mainVars, readClosed, needsFlush>>

\* On to the next priority.
NextLevel ==
    /\ opc = "queue" /\ ~More
    /\ level > IDLE
    /\ level' = level - 1
    /\ batch' = 0
    /\ UNCHANGED <<setup, queue, current, tick, due, opc, pass, hold, wire,
                   mainVars, closeVars>>

\* The last priority: the end of processOutput(), or of flush()
EndPass ==
    /\ opc = "queue" /\ ~More
    /\ level = IDLE
    /\ level' = HIGHEST
    /\ batch' = 0
    /\ opc' = IF pass = "flush" THEN "closing" ELSE "idle"
    /\ needsFlush' = (needsFlush /\ pass = "send")
    /\ UNCHANGED <<setup, queue, current, tick, due, pass, hold, wire,
                   mainVars, readClosed, writeClosed>>

-----------------------------------------------------------------------------
ProcessOutput ==
    \/ StartTick \/ CheckFlush \/ CheckClosing \/ MarkWriteClosed
    \/ TakePacket \/ SendPacket \/ SendPacketFails \/ NextLevel \/ EndPass

Main ==
    \/ \E p \in setup.used, append \in BOOLEAN : QueuePacket(p, append)
    \/ \E p \in setup.used : BeginTransaction(p)
    \/ EndTransaction \/ MarkReadClosed \/ Flush

Next == ProcessOutput \/ Main

Spec == Init /\ [][Next]_vars

\* processOutput() is called again and again.
FairSpec == Spec /\ WF_vars(ProcessOutput)

-----------------------------------------------------------------------------
Sent == {wire[i].id : i \in DOMAIN wire}

\* The type invariant.
TypeOK ==
    /\ setup \in Setups
    /\ queue \in [Priorities -> Seq(Seq(Packet))]
    /\ current \in Seq(Packet)
    /\ pending \in Seq(Packet) /\ open \in BOOLEAN
    /\ openPri \in Priorities
    /\ begun \in 0..setup.transactions /\ made \in 0..MaxPackets
    /\ {readClosed, writeClosed, needsFlush} \subseteq BOOLEAN
    /\ tick \in 0..15 /\ due \subseteq Priorities
    /\ opc \in {"idle", "flush", "closing", "close", "queue",
                "packet", "broken"}
    /\ pass \in {"send", "flush", "tickFlush"}
    /\ level \in Priorities /\ batch \in 0..MaxPerTick
    /\ hold \in Packet \cup {Nobody}
    /\ wire \in Seq(Packet)
    /\ urgent \subseteq 1..MaxPackets

\* Is the packet in no transaction that a handler has begun?
Alone(packet) == packet.of = 0

\* The packets of a transaction are sent together: nothing else is sent
\* between two of them, whatever its priority.
TransactionsWhole ==
    \A i, k \in DOMAIN wire :
        ~Alone(wire[i]) /\ wire[i].of = wire[k].of
            => \A j \in i..k : wire[j].of = wire[i].of

\* Packets made with the same priority and outside transactions are sent in
\* the order they were made, although the queues are emptied by turns.
NoOvertaking ==
    \A i, j \in DOMAIN wire :
        ( /\ i < j
          /\ wire[i].asked = wire[j].asked
          /\ Alone(wire[i]) /\ Alone(wire[j]) )
            => wire[i].id < wire[j].id

\* What was queued at the highest priority before the connection is closed,
\* as the reason for the closing is, reaches the client.
LastWords == writeClosed => urgent \subseteq Sent

\* It does so when one thread queues, sends and closes (CheckClosing): nothing
\* is queued between hasPendingData() and markWriteClosed().
LastWordsOfOneThread == ~Threaded => LastWords

\* processPacketQueue() finds a packet in every transaction that it takes.
NoEmptyTransaction == opc # "broken"

\* Every packet in a queue is sent at last, or its connection is closing.
EverySent ==
    \A n \in 1..MaxPackets :
        (\E p \in Priorities : \E i \in DOMAIN queue[p] :
            \E j \in DOMAIN queue[p][i] : queue[p][i][j].id = n)
          ~> (n \in Sent \/ IsClosing \/ opc = "broken")
=============================================================================
