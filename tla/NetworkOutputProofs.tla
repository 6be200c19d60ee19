------------------------- MODULE NetworkOutputProofs -------------------------
(***************************************************************************)
(* For every number of packets and transactions, every set of priorities   *)
(* and every limit: a transaction is sent whole; and where no queue has a  *)
(* limit, as by default, packets of one priority are sent in the order in  *)
(* which they were made, and a server of one thread sends what it queued   *)
(* at the highest priority before it closes the connection.                *)
(***************************************************************************)
EXTENDS NetworkOutput, TLAPS

\* NETWORK_MAXQUEUESIZE is not set.
NoLimit == MaxQueueSize = 0

Packets(seq) == {seq[i] : i \in DOMAIN seq}

\* What processOutput() has in hand
InHand == Packets(current) \cup (IF opc = "packet" THEN {hold} ELSE {})

-----------------------------------------------------------------------------
(* Types, and what goes with them *)

HandsTyped ==
    /\ opc # "packet" => hold = Nobody
    /\ opc = "packet" => hold # Nobody /\ batch < MaxPerTick
    /\ open => begun > 0
    /\ ~open => pending = <<>>

TInv == TypeOK /\ HandsTyped

-----------------------------------------------------------------------------
(* Transactions and the order of the packets *)

\* What is in a queue: a packet by itself, in the queue of its priority, or
\* packets of one transaction
Single(seq, p) ==
    /\ Len(seq) = 1
    /\ Alone(seq[1])
    /\ NoLimit => seq[1].asked = p
Together(seq) ==
    \E b \in 1..begun : \A x \in Packets(seq) : x.of = b
Item(seq, p) == Single(seq, p) \/ Together(seq)

\* Neither of the same transaction, nor out of turn
Apart(x, y) == ~Alone(x) => x.of # y.of
InTurn(x, y) ==
    NoLimit /\ Alone(x) /\ Alone(y) /\ x.asked = y.asked => x.id < y.id
Before(S, T) == \A x \in S, y \in T : Apart(x, y) /\ InTurn(x, y)

\* What is in the queues
Waiting == {x \in Packet : \E p \in Priorities : \E i \in DOMAIN queue[p] :
                              x \in Packets(queue[p][i])}

Queued ==
    /\ \A p \in Priorities : \A i \in DOMAIN queue[p] : Item(queue[p][i], p)
    /\ \A p, q \in Priorities :
          \A i \in DOMAIN queue[p], k \in DOMAIN queue[q] :
             p # q \/ i < k
                => Before(Packets(queue[p][i]), Packets(queue[q][k]))

\* In hand is some of one transaction, or a packet by itself.
Handed ==
    /\ \A x, y \in InHand : x.of = y.of
    /\ \A x \in InHand :
          Alone(x) => IF opc = "packet" THEN current = <<>>
                      ELSE Len(current) <= 1
    /\ Before(InHand, Waiting)

\* Nothing was sent since the transaction's first packet that is not of it.
Last(b) ==
    \A i, j \in DOMAIN wire :
        b # 0 /\ wire[i].of = b /\ i <= j => wire[j].of = b

Wired ==
    /\ \A x \in Packets(wire), y \in InHand : InTurn(x, y)
    /\ \A y \in InHand : Last(y.of)
    /\ Before(Packets(wire), Waiting)

\* Nothing comes from the future, and the open transaction is nowhere else.
Past(x) == x.id <= made /\ x.of <= begun /\ (open => x.of < begun)
Made ==
    /\ \A x \in Packets(wire) \cup InHand \cup Waiting : Past(x)
    /\ \A x \in Packets(pending) : x.of = begun /\ x.id <= made

Order == Queued /\ Handed /\ Wired /\ Made
         /\ TransactionsWhole /\ (NoLimit => NoOvertaking)

-----------------------------------------------------------------------------
(* The last words *)

\* On its way: in the queue of the highest priority, or in hand
OnItsWay(n) ==
    \/ \E x \in InHand : x.id = n /\ x.pri = HIGHEST
    \/ \E i \in DOMAIN queue[HIGHEST] : \E x \in Packets(queue[HIGHEST][i]) :
          x.id = n /\ x.pri = HIGHEST

Heard ==
    \A n \in urgent : n \in Sent \/ (~writeClosed /\ OnItsWay(n))
Receivable == opc = "packet" => CanReceive(hold)
Emptied ==
    opc = "close" => writeClosed \/ (queue[HIGHEST] = <<>> /\ current = <<>>)

Words == NoLimit /\ ~Threaded => Heard /\ Receivable /\ Emptied

IInv == TInv /\ Order /\ Words

-----------------------------------------------------------------------------
(* The model in parts                                                      *)

\* What the steps do to sequences, as to their type
LEMMA Sequenced ==
  ASSUME NEW S
  PROVE  /\ <<>> \in Seq(S)
         /\ \A e \in S : <<e>> \in Seq(S)
         /\ \A q \in Seq(S), e \in S : Append(q, e) \in Seq(S)
         /\ \A q \in Seq(S) :
               q # <<>> => Head(q) \in S /\ Tail(q) \in Seq(S)
  OBVIOUS

\* The types in parts
QueueTyped == queue \in [Priorities -> Seq(Seq(Packet))]
HandTyped ==
    /\ current \in Seq(Packet) /\ hold \in Packet \cup {Nobody}
    /\ wire \in Seq(Packet)
PendingTyped ==
    /\ pending \in Seq(Packet) /\ open \in BOOLEAN /\ openPri \in Priorities
    /\ begun \in 0..setup.transactions /\ made \in 0..MaxPackets
    /\ urgent \subseteq 1..MaxPackets
FlagsTyped ==
    /\ readClosed \in BOOLEAN /\ writeClosed \in BOOLEAN
    /\ needsFlush \in BOOLEAN
PlaceTyped ==
    /\ setup \in Setups
    /\ tick \in 0..15 /\ due \subseteq Priorities
    /\ opc \in {"idle", "flush", "closing", "close", "queue",
                "packet", "broken"}
    /\ pass \in {"send", "flush", "tickFlush"}
    /\ level \in Priorities /\ batch \in 0..MaxPerTick

LEMMA Parts ==
  TypeOK <=> /\ QueueTyped /\ HandTyped /\ PendingTyped /\ FlagsTyped
             /\ PlaceTyped
  BY DEF TypeOK, QueueTyped, HandTyped, PendingTyped, FlagsTyped, PlaceTyped

\* How the server runs does not change, and with it not what a packet is.
LEMMA SetupStays ==
  ASSUME TypeOK, Next
  PROVE  /\ UNCHANGED setup /\ UNCHANGED Packet
         /\ setup.used \subseteq Priorities /\ setup.threaded \in BOOLEAN
         /\ setup.transactions \in Nat
<1>1. UNCHANGED setup
  BY DEF Next, ProcessOutput, Main, StartTick, CheckFlush, CheckClosing,
     MarkWriteClosed, TakePacket, SendPacket, SendPacketFails, NextLevel,
     EndPass, QueuePacket, BeginTransaction, EndTransaction, MarkReadClosed,
     Flush
<1>2. UNCHANGED Packet
  BY <1>1 DEF Packet
<1>3. setup \in [threaded : BOOLEAN, used : SUBSET Priorities,
                 transactions : Nat]
  BY SetupsAssumption DEF TypeOK
<1>4. QED
  BY <1>1, <1>2, <1>3

\* A queue that is full hands down to another, and one is always found.
LEMMA DemotedTyped ==
  ASSUME NEW p \in Priorities
  PROVE  Demoted(p) \in Priorities /\ Demoted(p) <= p
         /\ (NoLimit => Demoted(p) = p)
<1> DEFINE room == {q \in 0..p : q = IDLE \/ MaxQueueSize = 0
                                   \/ Len(queue[q]) < MaxQueueSize}
<1>1. IDLE \in room /\ room \subseteq 0..4
  BY DEF IDLE, Priorities
<1>2. NoLimit => p \in room
  BY DEF NoLimit, Priorities
<1>3. \A q \in room : q \in 0..p
  OBVIOUS
<1>4. Demoted(p) = CHOOSE q \in room : \A r \in room : r <= q
  BY DEF Demoted
<1> HIDE DEF room
<1>5. \E q \in room : \A r \in room : r <= q
  <2>1. CASE 4 \in room
    BY <1>1, <2>1
  <2>2. CASE 4 \notin room /\ 3 \in room
    BY <1>1, <2>2
  <2>3. CASE 4 \notin room /\ 3 \notin room /\ 2 \in room
    BY <1>1, <2>3
  <2>4. CASE 4 \notin room /\ 3 \notin room /\ 2 \notin room /\ 1 \in room
    BY <1>1, <2>4
  <2>5. CASE room \subseteq {0}
    BY <1>1, <2>5 DEF IDLE
  <2>6. QED
    BY <1>1, <2>1, <2>2, <2>3, <2>4, <2>5
<1>6. Demoted(p) \in room /\ \A r \in room : r <= Demoted(p)
  BY <1>4, <1>5
<1>7. Demoted(p) \in 0..p
  BY <1>3, <1>6
<1>8. NoLimit => p <= Demoted(p)
  BY <1>2, <1>6
<1>9. QED
  BY <1>7, <1>8 DEF Priorities

-----------------------------------------------------------------------------
(* Every step keeps the types                                              *)

\* The flags of the client keep their types.
LEMMA FlagsKept ==
  ASSUME TypeOK, Next
  PROVE  FlagsTyped'
<1> USE Parts, SetupStays DEF FlagsTyped, PlaceTyped, sendVars, pendingVars,
        mainVars, closeVars
<1>1. CASE MarkWriteClosed
  BY <1>1 DEF MarkWriteClosed
<1>2. CASE SendPacketFails
  BY <1>2 DEF SendPacketFails
<1>3. CASE EndPass
  BY <1>3 DEF EndPass
<1>4. CASE MarkReadClosed
  BY <1>4 DEF MarkReadClosed
<1>5. CASE Flush
  BY <1>5 DEF Flush
<1>6. ASSUME NEW p \in setup.used, NEW append \in BOOLEAN, QueuePacket(p,
            append)
      PROVE  FlagsTyped'
  BY <1>6 DEF QueuePacket
<1>7. ASSUME NEW p \in setup.used, BeginTransaction(p) PROVE FlagsTyped'
  BY <1>7 DEF BeginTransaction
<1>8. CASE StartTick \/ CheckFlush \/ CheckClosing \/ TakePacket \/ SendPacket
          \/ NextLevel \/ EndTransaction
  BY <1>8 DEF StartTick, CheckFlush, CheckClosing, TakePacket, SendPacket,
     NextLevel, EndTransaction
<1>9. QED
  BY <1>1, <1>2, <1>3, <1>4, <1>5, <1>6, <1>7, <1>8 DEF Next, ProcessOutput,
     Main

\* So does the place of processOutput(), its batch within its limit.
LEMMA PlaceKept ==
  ASSUME TInv, Next
  PROVE  PlaceTyped'
<1> USE Parts, SetupStays DEF PlaceTyped, TInv, sendVars, pendingVars,
        mainVars, closeVars
<1>1. CASE StartTick
  <2>1. \A x \in Nat : x % 16 \in 0..15 /\ x % 4 \in 0..15
    OBVIOUS
  <2>2. PICK steps \in 1..16 : tick' = (tick + steps) % Period
    BY <1>1 DEF StartTick
  <2>3. tick + steps \in Nat
    BY <2>2
  <2>4. tick' \in 0..15
    BY <2>1, <2>2, <2>3 DEF Period
  <2>5. QED
    BY <1>1, <2>4 DEF StartTick
<1>2. CASE CheckFlush
  BY <1>2 DEF CheckFlush
<1>3. CASE CheckClosing
  BY <1>3 DEF CheckClosing
<1>4. CASE MarkWriteClosed
  BY <1>4 DEF MarkWriteClosed
<1>5. CASE TakePacket
  BY <1>5 DEF TakePacket
<1>6. CASE SendPacket
  <2>1. batch < MaxPerTick
    BY <1>6 DEF SendPacket, HandsTyped
  <2>2. QED
    BY <1>6, <2>1, BoundsAssumption DEF SendPacket
<1>7. CASE SendPacketFails
  BY <1>7 DEF SendPacketFails
<1>8. CASE NextLevel
  BY <1>8, BoundsAssumption DEF NextLevel, Priorities, IDLE
<1>9. CASE EndPass
  BY <1>9, BoundsAssumption DEF EndPass, Priorities, HIGHEST
<1>10. CASE Flush
  BY <1>10 DEF Flush
<1>11. ASSUME NEW p \in setup.used, NEW append \in BOOLEAN, QueuePacket(p,
            append)
      PROVE  PlaceTyped'
  BY <1>11 DEF QueuePacket
<1>12. ASSUME NEW p \in setup.used, BeginTransaction(p) PROVE PlaceTyped'
  BY <1>12 DEF BeginTransaction
<1>13. CASE EndTransaction \/ MarkReadClosed
  BY <1>13 DEF EndTransaction, MarkReadClosed
<1>14. QED
  BY <1>1, <1>2, <1>3, <1>4, <1>5, <1>6, <1>7, <1>8, <1>9, <1>10, <1>11,
     <1>12, <1>13 DEF Next, ProcessOutput, Main

\* So do the queues.
LEMMA QueueKept ==
  ASSUME TypeOK, Next
  PROVE  QueueTyped'
<1> DEFINE S == Seq(Packet)
           Q == Seq(S)
<1>s. /\ \A q \in S : q # <<>> => Head(q) \in Packet /\ Tail(q) \in S
      /\ \A x \in Packet : <<x>> \in S
      /\ pending \in S
  BY Sequenced, Parts DEF PendingTyped
<1>q. /\ <<>> \in Q
      /\ \A q \in Q, e \in S : Append(q, e) \in Q
      /\ \A q \in Q : q # <<>> => Head(q) \in S /\ Tail(q) \in Q
  BY Sequenced
<1>i. queue \in [Priorities -> Q]
  BY Parts DEF QueueTyped
<1>g. SUFFICES (queue \in [Priorities -> Q])'
  BY SetupStays DEF QueueTyped
<1> HIDE DEF S, Q
<1>t. ASSUME NEW q \in S, NEW p \in Priorities, QueuePacketTransaction(q, p)
      PROVE  queue' \in [Priorities -> Q]
  BY <1>t, <1>q, <1>i, DemotedTyped DEF QueuePacketTransaction
<1>u. UNCHANGED Q
  BY SetupStays DEF S, Q
<1> USE <1>u, <1>i DEF sendVars
<1>1. CASE TakePacket
  <2>1. level \in Priorities
    BY Parts DEF PlaceTyped
  <2>2. \/ UNCHANGED queue
        \/ /\ queue[level] # <<>>
           /\ queue' = [queue EXCEPT ![level] = Tail(@)]
    BY <1>1 DEF TakePacket, More
  <2>3. QED
    BY <1>q, <1>i, <2>1, <2>2
<1>2. CASE SendPacketFails
  BY <1>2, <1>q DEF SendPacketFails
<1>3. ASSUME NEW p \in setup.used, NEW append \in BOOLEAN, QueuePacket(p,
            append)
      PROVE  (queue \in [Priorities -> Q])'
  <2> DEFINE alone == [id |-> made + 1, asked |-> p, pri |-> Demoted(p),
                       of |-> IF open /\ append THEN begun ELSE 0]
  <2>1. p \in Priorities
    BY SetupStays
  <2>2. alone \in Packet
    <3>1. made + 1 \in 1..MaxPackets
      BY <1>3, Parts, BoundsAssumption DEF QueuePacket, PendingTyped
    <3>2. begun \in 0..setup.transactions /\ 0 \in 0..setup.transactions
      BY Parts, SetupStays DEF PendingTyped
    <3>3. QED
      BY <2>1, <3>1, <3>2, DemotedTyped DEF Packet
  <2>3. UNCHANGED queue \/ QueuePacketTransaction(<<alone>>, p)
    BY <1>3 DEF QueuePacket
  <2> HIDE DEF alone
  <2>4. QED
    BY <1>s, <1>t, <1>i, <2>1, <2>2, <2>3
<1>4. ASSUME NEW p \in setup.used, BeginTransaction(p)
      PROVE  (queue \in [Priorities -> Q])'
  <2>1. UNCHANGED queue \/ QueuePacketTransaction(pending, openPri)
    BY <1>4 DEF BeginTransaction
  <2>2. QED
    BY <1>s, <1>t, <1>i, <2>1, Parts DEF PendingTyped
<1>5. CASE EndTransaction
  <2>1. QueuePacketTransaction(pending, openPri)
    BY <1>5 DEF EndTransaction
  <2>2. QED
    BY <1>s, <1>t, <2>1, Parts DEF PendingTyped
<1>6. CASE StartTick \/ CheckFlush \/ CheckClosing \/ MarkWriteClosed \/
          SendPacket \/ NextLevel \/ EndPass \/ MarkReadClosed \/ Flush
  BY <1>6 DEF StartTick, CheckFlush, CheckClosing, MarkWriteClosed,
     SendPacket, NextLevel, EndPass, MarkReadClosed, Flush
<1>7. QED
  BY <1>1, <1>2, <1>3, <1>4, <1>5, <1>6 DEF Next, ProcessOutput, Main

\* So does what processOutput() has in hand, and what was sent.
LEMMA HandKept ==
  ASSUME TInv, Next
  PROVE  HandTyped'
<1> USE DEF TInv
<1> DEFINE S == Seq(Packet)
<1>s. /\ \A q \in S : q # <<>> => Head(q) \in Packet /\ Tail(q) \in S
      /\ \A q \in S, x \in Packet : Append(q, x) \in S
  BY Sequenced
<1>i. /\ current \in S /\ wire \in S /\ hold \in Packet \cup {Nobody}
      /\ level \in Priorities
      /\ queue[level] # <<>> => Head(queue[level]) \in S
  BY Parts DEF HandTyped, PlaceTyped, QueueTyped
<1>u. UNCHANGED <<S, Packet, Nobody>>
  BY SetupStays DEF Nobody
<1>g. SUFFICES (current \in S /\ wire \in S /\ hold \in Packet \cup {Nobody})'
  BY DEF HandTyped
<1> HIDE DEF S
<1> USE <1>i, <1>u DEF sendVars
<1>1. CASE TakePacket
  <2>1. NextTransaction \in S
    BY <1>1 DEF TakePacket, More, NextTransaction
  <2>2. /\ UNCHANGED wire
        /\ UNCHANGED current \/ (NextTransaction # <<>>
                                 /\ current' = Tail(NextTransaction))
        /\ UNCHANGED hold \/ (NextTransaction # <<>>
                              /\ hold' = Head(NextTransaction))
    BY <1>1 DEF TakePacket
  <2>3. QED
    BY <1>s, <2>1, <2>2
<1>2. CASE SendPacket
  <2>1. hold \in Packet
    BY <1>2 DEF SendPacket, TInv, HandsTyped
  <2>2. QED
    BY <1>2, <1>s, <2>1 DEF SendPacket
<1>3. CASE SendPacketFails
  BY <1>3 DEF SendPacketFails
<1>4. ASSUME NEW p \in setup.used, NEW append \in BOOLEAN, QueuePacket(p,
            append)
      PROVE  (current \in S /\ wire \in S /\ hold \in Packet \cup {Nobody})'
  BY <1>4 DEF QueuePacket
<1>5. ASSUME NEW p \in setup.used, BeginTransaction(p)
      PROVE  (current \in S /\ wire \in S /\ hold \in Packet \cup {Nobody})'
  BY <1>5 DEF BeginTransaction
<1>6. CASE StartTick \/ CheckFlush \/ CheckClosing \/ MarkWriteClosed \/
          NextLevel \/ EndPass \/ EndTransaction \/ MarkReadClosed \/ Flush
  BY <1>6 DEF StartTick, CheckFlush, CheckClosing, MarkWriteClosed, NextLevel,
     EndPass, EndTransaction, MarkReadClosed, Flush
<1>7. QED
  BY <1>1, <1>2, <1>3, <1>4, <1>5, <1>6 DEF Next, ProcessOutput, Main

\* So does the transaction that is being built.
LEMMA PendingKept ==
  ASSUME TypeOK, Next
  PROVE  PendingTyped'
<1> DEFINE S == Seq(Packet)
<1>s. <<>> \in S /\ \A q \in S, x \in Packet : Append(q, x) \in S
  BY Sequenced
<1>i. /\ pending \in S /\ open \in BOOLEAN /\ openPri \in Priorities
      /\ begun \in 0..setup.transactions /\ made \in 0..MaxPackets
      /\ urgent \subseteq 1..MaxPackets
  BY Parts DEF PendingTyped
<1>u. UNCHANGED <<S, setup>>
  BY SetupStays
<1> DEFINE Typed ==
      /\ pending \in S /\ open \in BOOLEAN /\ openPri \in Priorities
      /\ begun \in 0..setup.transactions /\ made \in 0..MaxPackets
      /\ urgent \subseteq 1..MaxPackets
<1>g. SUFFICES Typed'
  BY DEF PendingTyped
<1> HIDE DEF S
<1> USE <1>s, <1>i, <1>u, SetupStays, BoundsAssumption
    DEF sendVars, pendingVars, mainVars, closeVars
<1>1. ASSUME NEW p \in setup.used, NEW append \in BOOLEAN, QueuePacket(p,
            append)
      PROVE  Typed'
  <2>1. [id |-> made + 1, asked |-> p, pri |-> p, of |-> begun] \in Packet
    BY <1>1 DEF QueuePacket, Packet
  <2>2. /\ made < MaxPackets /\ made' = made + 1
        /\ \/ UNCHANGED pending
           \/ pending' = Append(pending, [id |-> made + 1, asked |-> p,
                                          pri |-> p, of |-> begun])
        /\ UNCHANGED urgent \/ urgent' = urgent \cup {made + 1}
        /\ UNCHANGED <<open, openPri, begun>>
    BY <1>1 DEF QueuePacket
  <2>3. pending' \in S
    BY <2>1, <2>2
  <2>4. made + 1 \in 1..MaxPackets
    BY <2>2
  <2>5. made' \in 0..MaxPackets
    BY <2>2
  <2>6. urgent' \subseteq 1..MaxPackets
    <3>1. \A n \in urgent' : n \in urgent \/ n = made + 1
      BY <2>2
    <3>2. QED
      BY <2>4, <3>1
  <2>7. QED
    BY <2>2, <2>3, <2>5, <2>6
<1>2. ASSUME NEW p \in setup.used, BeginTransaction(p) PROVE Typed'
  BY <1>2 DEF BeginTransaction
<1>3. CASE EndTransaction
  BY <1>3 DEF EndTransaction
<1>4. CASE StartTick \/ CheckFlush \/ CheckClosing \/ MarkWriteClosed \/
          TakePacket \/ SendPacket \/ SendPacketFails \/ NextLevel \/ EndPass
          \/ MarkReadClosed \/ Flush
  BY <1>4 DEF StartTick, CheckFlush, CheckClosing, MarkWriteClosed,
     TakePacket, SendPacket, SendPacketFails, NextLevel, EndPass,
     MarkReadClosed, Flush
<1>5. QED
  BY <1>1, <1>2, <1>3, <1>4 DEF Next, ProcessOutput, Main

\* What goes with the types is kept, too.
LEMMA HandsTypedKept ==
  ASSUME TInv, Next
  PROVE  HandsTyped'
<1> USE Parts, SetupStays DEF HandsTyped, PlaceTyped, TInv, HandTyped,
        PendingTyped, sendVars, pendingVars, mainVars, closeVars
<1>1. CASE StartTick
  BY <1>1 DEF StartTick
<1>2. CASE CheckFlush
  BY <1>2 DEF CheckFlush
<1>3. CASE CheckClosing
  BY <1>3 DEF CheckClosing
<1>4. CASE MarkWriteClosed
  BY <1>4 DEF MarkWriteClosed
<1>5. CASE TakePacket
  <2>1. /\ opc = "queue" /\ batch < MaxPerTick
        /\ UNCHANGED <<batch, open, begun, pending>>
        /\ \/ opc' # "packet" /\ UNCHANGED hold
           \/ /\ NextTransaction # <<>> /\ opc' = "packet"
              /\ hold' = Head(NextTransaction)
    BY <1>5 DEF TakePacket, More
  <2>2. NextTransaction \in Seq(Packet)
    <3>1. queue[level] \in Seq(Seq(Packet))
      BY DEF QueueTyped
    <3>2. current = <<>> => queue[level] # <<>>
      BY <1>5 DEF TakePacket, More
    <3>3. QED
      BY <3>1, <3>2, Sequenced DEF NextTransaction
  <2>3. ASSUME NextTransaction # <<>> PROVE Head(NextTransaction) # Nobody
    <3>1. Head(NextTransaction) \in Packet
      BY <2>2, <2>3, Sequenced
    <3>2. QED
      BY <3>1 DEF Packet, Nobody
  <2>4. QED
    BY <2>1, <2>3
<1>6. CASE SendPacket
  BY <1>6 DEF SendPacket
<1>7. CASE SendPacketFails
  BY <1>7 DEF SendPacketFails
<1>8. CASE NextLevel
  BY <1>8 DEF NextLevel
<1>9. CASE EndPass
  BY <1>9 DEF EndPass
<1>10. ASSUME NEW p \in setup.used, NEW append \in BOOLEAN, QueuePacket(p,
            append)
      PROVE  HandsTyped'
  BY <1>10 DEF QueuePacket, QueuePacketTransaction
<1>11. ASSUME NEW p \in setup.used, BeginTransaction(p) PROVE HandsTyped'
  BY <1>11 DEF BeginTransaction, QueuePacketTransaction
<1>12. CASE EndTransaction
  BY <1>12 DEF EndTransaction, QueuePacketTransaction
<1>13. CASE Flush
  <2>1. /\ opc # "packet" \/ UNCHANGED opc
        /\ opc' \in {opc, "queue"}
        /\ UNCHANGED <<hold, batch, open, begun, pending>>
    BY <1>13 DEF Flush, MainTurn
  <2>2. QED
    BY <2>1
<1>14. CASE MarkReadClosed
  BY <1>14 DEF MarkReadClosed
<1>15. QED
  BY <1>1, <1>2, <1>3, <1>4, <1>5, <1>6, <1>7, <1>8, <1>9, <1>10, <1>11,
     <1>12, <1>13, <1>14 DEF Next, ProcessOutput, Main

-----------------------------------------------------------------------------
(* What the steps do to the packets                                        *)

\* What the steps do to a sequence, as to its elements
LEMMA PacketsMove ==
  ASSUME NEW S, NEW seq \in Seq(S), NEW e
  PROVE  /\ Packets(<<>>) = {} /\ Packets(<<e>>) = {e}
         /\ e \in S => Packets(Append(seq, e)) = Packets(seq) \cup {e}
         /\ seq # <<>> => Packets(seq) = {Head(seq)} \cup Packets(Tail(seq))
         /\ seq # <<>> /\ Len(seq) <= 1 => Tail(seq) = <<>>
         /\ Packets(seq) \subseteq S
<1>1. Packets(<<>>) = {} /\ Packets(<<e>>) = {e}
  BY DEF Packets
<1>2. ASSUME e \in S PROVE Packets(Append(seq, e)) = Packets(seq) \cup {e}
  <2>1. /\ DOMAIN Append(seq, e) = 1..(Len(seq) + 1) /\ Len(seq) \in Nat
        /\ DOMAIN seq = 1..Len(seq)
        /\ Append(seq, e)[Len(seq) + 1] = e
        /\ \A i \in 1..Len(seq) : Append(seq, e)[i] = seq[i]
    BY <1>2
  <2>2. QED
    BY <2>1 DEF Packets
<1>3. ASSUME seq # <<>>
      PROVE  Packets(seq) = {Head(seq)} \cup Packets(Tail(seq))
  <2>1. /\ DOMAIN seq = 1..Len(seq) /\ Len(seq) \in Nat /\ Len(seq) >= 1
        /\ Head(seq) = seq[1]
        /\ DOMAIN Tail(seq) = 1..(Len(seq) - 1)
        /\ \A i \in 1..(Len(seq) - 1) : Tail(seq)[i] = seq[i + 1]
    BY <1>3
  <2>2. \A i \in 1..Len(seq) :
           i = 1 \/ (i - 1 \in 1..(Len(seq) - 1) /\ Tail(seq)[i - 1] = seq[i])
    BY <2>1
  <2>3. Packets(seq) \subseteq {Head(seq)} \cup Packets(Tail(seq))
    <3>1. ASSUME NEW i \in 1..Len(seq)
          PROVE  seq[i] \in {Head(seq)} \cup Packets(Tail(seq))
      <4>1. CASE i = 1
        BY <2>1, <4>1
      <4>2. CASE i # 1
        <5>1. i - 1 \in DOMAIN Tail(seq) /\ Tail(seq)[i - 1] = seq[i]
          BY <2>1, <2>2, <4>2
        <5>2. QED
          BY <5>1 DEF Packets
      <4>3. QED
        BY <4>1, <4>2
    <3>2. QED
      BY <2>1, <3>1 DEF Packets
  <2>4. \A i \in 1..(Len(seq) - 1) : i + 1 \in 1..Len(seq)
    BY <2>1
  <2>5. {Head(seq)} \cup Packets(Tail(seq)) \subseteq Packets(seq)
    BY <2>1, <2>4 DEF Packets
  <2>6. QED
    BY <2>3, <2>5
<1>4. ASSUME seq # <<>>, Len(seq) <= 1 PROVE Tail(seq) = <<>>
  BY <1>4
<1>5. Packets(seq) \subseteq S
  BY DEF Packets
<1>6. QED
  BY <1>1, <1>2, <1>3, <1>4, <1>5

\* There is no packet in an empty transaction.
LEMMA NonePacked == Packets(<<>>) = {}
  BY DEF Packets

\* A packet put at the end of a transaction is the only one to come in.
LEMMA Appended ==
  ASSUME NEW seq \in Seq(Packet), NEW e \in Packet
  PROVE  Packets(Append(seq, e)) = Packets(seq) \cup {e}
<1>1. /\ DOMAIN Append(seq, e) = 1..(Len(seq) + 1) /\ Len(seq) \in Nat
      /\ DOMAIN seq = 1..Len(seq)
      /\ Append(seq, e)[Len(seq) + 1] = e
      /\ \A i \in 1..Len(seq) : Append(seq, e)[i] = seq[i]
  OBVIOUS
<1>2. QED
  BY <1>1 DEF Packets

\* A transaction is put at the end of a queue.
LEMMA Grows ==
  ASSUME QueueTyped, UNCHANGED Packet, NEW d \in Priorities,
         NEW s \in Seq(Packet), queue' = [queue EXCEPT ![d] = Append(@, s)]
  PROVE  /\ \A p \in Priorities : \A i \in DOMAIN queue'[p] :
               \/ i \in DOMAIN queue[p] /\ queue'[p][i] = queue[p][i]
               \/ p = d /\ i = Len(queue[d]) + 1 /\ queue'[p][i] = s
         /\ \A i \in DOMAIN queue[d] : i < Len(queue[d]) + 1
         /\ Waiting' \subseteq Waiting \cup Packets(s)
<1>1. /\ queue[d] \in Seq(Seq(Packet))
      /\ \A p \in Priorities : p # d => queue'[p] = queue[p]
      /\ queue'[d] = Append(queue[d], s)
  BY DEF QueueTyped
<1>2. /\ DOMAIN queue[d] = 1..Len(queue[d]) /\ Len(queue[d]) \in Nat
      /\ DOMAIN Append(queue[d], s) = 1..(Len(queue[d]) + 1)
      /\ Append(queue[d], s)[Len(queue[d]) + 1] = s
      /\ \A i \in 1..Len(queue[d]) : Append(queue[d], s)[i] = queue[d][i]
  BY <1>1
<1>3. \A p \in Priorities : \A i \in DOMAIN queue'[p] :
         \/ i \in DOMAIN queue[p] /\ queue'[p][i] = queue[p][i]
         \/ p = d /\ i = Len(queue[d]) + 1 /\ queue'[p][i] = s
  BY <1>1, <1>2
<1>4. Waiting' \subseteq Waiting \cup Packets(s)
  BY <1>3 DEF Waiting
<1>5. QED
  BY <1>2, <1>3, <1>4

\* The first transaction is taken off a queue.
LEMMA Shrinks ==
  ASSUME QueueTyped, UNCHANGED Packet, NEW d \in Priorities,
         queue[d] # <<>>, queue' = [queue EXCEPT ![d] = Tail(@)]
  PROVE  /\ \A p \in Priorities : \A i \in DOMAIN queue'[p] :
               \/ p # d /\ i \in DOMAIN queue[p] /\ queue'[p][i] = queue[p][i]
               \/ /\ p = d /\ i \in Nat /\ i + 1 \in DOMAIN queue[d]
                  /\ i + 1 > 1 /\ queue'[p][i] = queue[d][i + 1]
         /\ 1 \in DOMAIN queue[d] /\ Head(queue[d]) = queue[d][1]
         /\ Waiting' \subseteq Waiting
<1>1. /\ queue[d] \in Seq(Seq(Packet))
      /\ \A p \in Priorities : p # d => queue'[p] = queue[p]
      /\ queue'[d] = Tail(queue[d])
  BY DEF QueueTyped
<1>2. /\ DOMAIN queue[d] = 1..Len(queue[d]) /\ Len(queue[d]) \in Nat
      /\ Len(queue[d]) >= 1
      /\ DOMAIN Tail(queue[d]) = 1..(Len(queue[d]) - 1)
      /\ \A i \in 1..(Len(queue[d]) - 1) : Tail(queue[d])[i] = queue[d][i + 1]
      /\ Head(queue[d]) = queue[d][1]
  BY <1>1
<1>3. \A p \in Priorities : \A i \in DOMAIN queue'[p] :
         \/ p # d /\ i \in DOMAIN queue[p] /\ queue'[p][i] = queue[p][i]
         \/ /\ p = d /\ i \in Nat /\ i + 1 \in DOMAIN queue[d] /\ i + 1 > 1
            /\ queue'[p][i] = queue[d][i + 1]
  <2>1. ASSUME NEW i \in DOMAIN Tail(queue[d])
        PROVE  /\ i \in Nat /\ i + 1 \in DOMAIN queue[d] /\ i + 1 > 1
               /\ Tail(queue[d])[i] = queue[d][i + 1]
    BY <1>2, <2>1
  <2>2. QED
    BY <1>1, <2>1
<1>4. Waiting' \subseteq Waiting
  BY <1>3 DEF Waiting
<1>5. QED
  BY <1>2, <1>3, <1>4

\* Packets in two queues are in no order.
LEMMA Elsewhere ==
  ASSUME NEW p, NEW q, p # q, NEW s \in Seq(Packet), NEW u \in Seq(Packet),
         Item(s, p), Item(u, q), begun \in Nat,
         \A x \in Packets(s), y \in Packets(u) : Apart(y, x)
  PROVE  Before(Packets(s), Packets(u))
<1> SUFFICES ASSUME NEW x \in Packets(s), NEW y \in Packets(u)
             PROVE  Apart(x, y) /\ InTurn(x, y)
  BY DEF Before
<1>1. Apart(x, y)
  BY DEF Apart, Alone
<1>2. ASSUME NoLimit, NEW r, NEW v \in Seq(Packet), Item(v, r),
             NEW z \in Packets(v), Alone(z)
      PROVE  z.asked = r
  <2>1. CASE Single(v, r)
    <3>1. v[1].asked = r /\ Len(v) = 1
      BY <1>2, <2>1 DEF Single
    <3>2. DOMAIN v = 1..1
      BY <3>1
    <3>3. QED
      BY <3>1, <3>2 DEF Packets
  <2>2. CASE Together(v)
    BY <1>2, <2>2, Parts DEF Together, Alone
  <2>3. QED
    BY <1>2, <2>1, <2>2 DEF Item
<1>3. InTurn(x, y)
  BY <1>2 DEF InTurn
<1>4. QED
  BY <1>1, <1>3

\* What is in a queue is among what is waiting.
LEMMA InWaiting ==
  ASSUME QueueTyped
  PROVE  \A p \in Priorities : \A i \in DOMAIN queue[p] :
            /\ queue[p][i] \in Seq(Packet)
            /\ Packets(queue[p][i]) \subseteq Waiting
<1>1. ASSUME NEW p \in Priorities, NEW i \in DOMAIN queue[p]
      PROVE  queue[p][i] \in Seq(Packet)
  BY <1>1 DEF QueueTyped
<1>2. ASSUME NEW p \in Priorities, NEW i \in DOMAIN queue[p]
      PROVE  Packets(queue[p][i]) \subseteq Packet
  BY <1>1, <1>2, PacketsMove
<1>3. QED
  BY <1>1, <1>2 DEF Waiting

\* All these packets are packets.
LEMMA HandPackets ==
  ASSUME TInv
  PROVE  /\ InHand \subseteq Packet /\ Packets(wire) \subseteq Packet
         /\ Waiting \subseteq Packet /\ Packets(pending) \subseteq Packet
         /\ \A x \in Packet : x.id \in Nat /\ x.id > 0 /\ x.of \in Nat
         /\ made \in Nat /\ begun \in Nat
<1>1. /\ current \in Seq(Packet) /\ wire \in Seq(Packet)
      /\ pending \in Seq(Packet)
      /\ opc = "packet" => hold \in Packet
      /\ made \in Nat /\ begun \in Nat
  BY Parts, BoundsAssumption DEF TInv, HandTyped, HandsTyped, PendingTyped
<1>2. Packets(current) \subseteq Packet /\ Packets(wire) \subseteq Packet
      /\ Packets(pending) \subseteq Packet
  BY <1>1, PacketsMove
<1>3. InHand \subseteq Packet
  BY <1>1, <1>2 DEF InHand
<1>4. QED
  BY <1>1, <1>2, <1>3 DEF Waiting, Packet

\* A queue with a new transaction at its end is a queue.
LEMMA Enqueues ==
  ASSUME TInv, Queued, UNCHANGED Packet, begun' \in {begun, begun + 1},
         NEW s \in Seq(Packet), NEW p \in Priorities,
         QueuePacketTransaction(s, p), Item(s, Demoted(p)),
         Before(Waiting, Packets(s))
  PROVE  Queued' /\ Waiting' \subseteq Waiting \cup Packets(s)
<1> DEFINE d == Demoted(p)
<1>1. QueueTyped /\ d \in Priorities /\ begun \in Nat
  BY Parts, DemotedTyped, HandPackets DEF TInv
<1> DEFINE Fits(u, q) == \/ Single(u, q)
                         \/ \E b \in 1..begun' : \A x \in Packets(u) : x.of = b
<1>2. \A u, q : Item(u, q) => Fits(u, q)
  BY <1>1 DEF Item, Together
<1>f. ASSUME \A q \in Priorities : \A i \in DOMAIN queue'[q] :
                Fits(queue'[q][i], q)
      PROVE  \A q \in Priorities : \A i \in DOMAIN queue'[q] :
                Item(queue[q][i], q)'
  BY <1>f DEF Item, Single, Together
<1> HIDE DEF Fits
<1>3. CASE writeClosed
  <2>1. UNCHANGED queue
    BY <1>3 DEF QueuePacketTransaction
  <2>2. \A q \in Priorities : \A i \in DOMAIN queue'[q] : Fits(queue'[q][i], q)
    BY <1>2, <2>1 DEF Queued
  <2>3. UNCHANGED Waiting
    BY <2>1 DEF Waiting
  <2>4. QED
    BY <1>f, <2>1, <2>2, <2>3 DEF Queued, Before, Apart, InTurn
<1>4. CASE ~writeClosed
  <2>1. queue' = [queue EXCEPT ![d] = Append(@, s)]
    BY <1>4 DEF QueuePacketTransaction
  <2> HIDE DEF d
  <2>2. /\ \A q \in Priorities : \A i \in DOMAIN queue'[q] :
              \/ i \in DOMAIN queue[q] /\ queue'[q][i] = queue[q][i]
              \/ q = d /\ i = Len(queue[d]) + 1 /\ queue'[q][i] = s
        /\ \A i \in DOMAIN queue[d] : i < Len(queue[d]) + 1
        /\ Waiting' \subseteq Waiting \cup Packets(s)
    BY <1>1, <2>1, Grows
  <2>3. Item(s, d)
    BY DEF d
  <2>4. \A q \in Priorities : \A i \in DOMAIN queue'[q] : Fits(queue'[q][i], q)
    BY <1>2, <2>2, <2>3 DEF Queued
  <2>5. ASSUME NEW q \in Priorities, NEW r \in Priorities,
               NEW i \in DOMAIN queue'[q], NEW k \in DOMAIN queue'[r],
               q # r \/ i < k
        PROVE  Before(Packets(queue'[q][i]), Packets(queue'[r][k]))
    <3>1. CASE /\ i \in DOMAIN queue[q] /\ queue'[q][i] = queue[q][i]
               /\ k \in DOMAIN queue[r] /\ queue'[r][k] = queue[r][k]
      BY <2>5, <3>1 DEF Queued
    <3>2. CASE /\ i \in DOMAIN queue[q] /\ queue'[q][i] = queue[q][i]
               /\ queue'[r][k] = s
      BY <1>1, <3>2, InWaiting DEF Before
    <3>3. CASE /\ q = d /\ i = Len(queue[d]) + 1 /\ queue'[q][i] = s
               /\ k \in DOMAIN queue[r] /\ queue'[r][k] = queue[r][k]
      <4>1. q # r
        <5>1. ASSUME r = d PROVE FALSE
          <6>1. k < i /\ i < k
            BY <2>2, <2>5, <3>3, <5>1
          <6>2. k \in Nat /\ i \in Nat
            BY <1>1, <3>3, <5>1 DEF QueueTyped
          <6>3. QED
            BY <6>1, <6>2
        <5>2. QED
          BY <3>3, <5>1
      <4>2. /\ queue[r][k] \in Seq(Packet) /\ Item(queue[r][k], r)
            /\ Packets(queue[r][k]) \subseteq Waiting
        BY <1>1, <3>3, InWaiting DEF Queued
      <4>3. \A x \in Packets(s), y \in Packets(queue[r][k]) : Apart(y, x)
        BY <4>2 DEF Before
      <4>4. QED
        BY <1>1, <2>3, <3>3, <4>1, <4>2, <4>3, Elsewhere
    <3>4. CASE /\ q = d /\ i = Len(queue[d]) + 1
               /\ r = d /\ k = Len(queue[d]) + 1
      <4>1. Len(queue[d]) + 1 \in Nat
        BY <1>1 DEF QueueTyped
      <4>2. QED
        BY <2>5, <3>4, <4>1
    <3>5. QED
      BY <2>2, <3>1, <3>2, <3>3, <3>4
  <2>6. QED
    BY <1>f, <2>2, <2>4, <2>5 DEF Queued, Before, Apart, InTurn
<1>5. QED
  BY <1>3, <1>4

-----------------------------------------------------------------------------
(* Every step keeps the order                                              *)

\* The packets of the open transaction, and a packet that is made now, come
\* after all the others.
LEMMA NewIsLast ==
  ASSUME TInv, Made, NEW S,
         \A y \in S : \/ ~Alone(y) /\ y.of = begun /\ open
                      \/ Alone(y) /\ y.id = made + 1
  PROVE  Before(Packets(wire), S) /\ Before(InHand, S) /\ Before(Waiting, S)
<1>1. ASSUME NEW x \in Packets(wire) \cup InHand \cup Waiting, NEW y \in S
      PROVE  Apart(x, y) /\ InTurn(x, y)
  <2>1. x \in Packet /\ Past(x)
    BY HandPackets DEF Made
  <2>2. x.id \in Nat /\ x.of \in Nat /\ made \in Nat /\ begun \in Nat
    BY <2>1, HandPackets
  <2>3. CASE ~Alone(y) /\ y.of = begun /\ open
    BY <2>1, <2>2, <2>3 DEF Past, Apart, InTurn
  <2>4. CASE Alone(y) /\ y.id = made + 1
    BY <2>1, <2>2, <2>4 DEF Past, Apart, InTurn, Alone
  <2>5. QED
    BY <2>3, <2>4
<1>2. QED
  BY <1>1 DEF Before

\* A step that leaves alone what is in hand and on the wire
LEMMA OrderFrame ==
  ASSUME TInv, Order, Queued', Made', NEW S,
         UNCHANGED <<Packet, current, hold, wire>>,
         (opc = "packet") = (opc' = "packet"),
         Waiting' \subseteq Waiting \cup S,
         Before(Packets(wire), S), Before(InHand, S)
  PROVE  Order'
<1>1. UNCHANGED InHand
  BY DEF InHand
<1>2. UNCHANGED Packets(wire)
  BY DEF Packets
<1>3. Before(InHand, Waiting)' /\ Before(Packets(wire), Waiting)'
  BY <1>1, <1>2 DEF Order, Handed, Wired, Before, Apart, InTurn
<1>4. Handed'
  BY <1>1, <1>3 DEF Order, Handed
<1>5. Wired'
  BY <1>1, <1>2, <1>3 DEF Order, Wired, Last, InTurn
<1>6. TransactionsWhole' /\ (NoLimit => NoOvertaking)'
  BY DEF Order, TransactionsWhole, NoOvertaking, NoLimit
<1>7. QED
  BY <1>4, <1>5, <1>6 DEF Order

\* What a step changes neither in the queues, in hand nor on the wire
LEMMA OrderStays ==
  ASSUME Order, (opc = "packet") = (opc' = "packet"),
         UNCHANGED <<Packet, queue, current, hold, wire, pending, open, begun,
                     made>>
  PROVE  Order'
<1>1. UNCHANGED <<InHand, Waiting>>
  BY DEF InHand, Waiting
<1>2. Queued'
  BY DEF Order, Queued, Item, Single, Together, Before, Apart, InTurn
<1>3. Handed' /\ Wired'
  BY <1>1 DEF Order, Handed, Wired, Last, Before, Apart, InTurn
<1>4. Made'
  BY <1>1 DEF Order, Made, Past
<1>5. TransactionsWhole' /\ (NoLimit => NoOvertaking)'
  BY DEF Order, TransactionsWhole, NoOvertaking, NoLimit
<1>6. QED
  BY <1>2, <1>3, <1>4, <1>5 DEF Order

\* What is in hand changes, and nothing is sent.
LEMMA HandMoves ==
  ASSUME Order, Queued', Handed',
         UNCHANGED <<Packet, wire, pending, open, begun, made>>,
         InHand' \subseteq InHand \cup Waiting, Waiting' \subseteq Waiting
  PROVE  Order'
<1>1. \A x \in Packets(wire), y \in InHand' : InTurn(x, y)
  BY DEF Order, Wired, Before
<1>2. ASSUME NEW y \in InHand' PROVE Last(y.of)
  <2>1. CASE y \in InHand
    BY <2>1 DEF Order, Wired
  <2>2. CASE y \in Waiting
    <3>1. \A i \in DOMAIN wire : Apart(wire[i], y)
      BY <2>2 DEF Order, Wired, Before, Packets
    <3>2. QED
      BY <3>1 DEF Last, Apart, Alone
  <2>3. QED
    BY <1>2, <2>1, <2>2
<1>3. Before(Packets(wire), Waiting')
  BY DEF Order, Wired, Before
<1>4. Wired'
  BY <1>1, <1>2, <1>3 DEF Wired, Last, Before, InTurn, Apart
<1>5. Made'
  BY DEF Order, Made, Past
<1>6. TransactionsWhole' /\ (NoLimit => NoOvertaking)'
  BY DEF Order, TransactionsWhole, NoOvertaking, NoLimit
<1>7. QED
  BY <1>4, <1>5, <1>6 DEF Order

\* The first transaction of a queue comes before all that is left there.
LEMMA FirstOfQueue ==
  ASSUME TInv, Queued, UNCHANGED <<Packet, begun>>, queue[level] # <<>>,
         queue' = [queue EXCEPT ![level] = Tail(@)]
  PROVE  /\ Queued' /\ Waiting' \subseteq Waiting
         /\ Head(queue[level]) \in Seq(Packet)
         /\ Item(Head(queue[level]), level)
         /\ Packets(Head(queue[level])) \subseteq Waiting
         /\ Before(Packets(Head(queue[level])), Waiting')
<1> DEFINE first == Head(queue[level])
<1>1. QueueTyped /\ level \in Priorities /\ UNCHANGED Packet
  BY Parts DEF TInv, PlaceTyped
<1> DEFINE d == level
<1>d. /\ d \in Priorities /\ queue[d] # <<>>
      /\ queue' = [queue EXCEPT ![d] = Tail(@)]
  BY <1>1
<1> HIDE DEF d
<1>s. /\ \A p \in Priorities : \A i \in DOMAIN queue'[p] :
            \/ p # d /\ i \in DOMAIN queue[p] /\ queue'[p][i] = queue[p][i]
            \/ /\ p = d /\ i \in Nat /\ i + 1 \in DOMAIN queue[d]
               /\ i + 1 > 1 /\ queue'[p][i] = queue[d][i + 1]
      /\ 1 \in DOMAIN queue[d] /\ Head(queue[d]) = queue[d][1]
      /\ Waiting' \subseteq Waiting
  BY <1>1, <1>d, Shrinks
<1>2. /\ \A p \in Priorities : \A i \in DOMAIN queue'[p] :
            \/ p # level /\ i \in DOMAIN queue[p] /\ queue'[p][i] = queue[p][i]
            \/ /\ p = level /\ i \in Nat /\ i + 1 \in DOMAIN queue[level]
               /\ i + 1 > 1 /\ queue'[p][i] = queue[level][i + 1]
      /\ 1 \in DOMAIN queue[level] /\ first = queue[level][1]
      /\ Waiting' \subseteq Waiting
  BY <1>s DEF d
<1>3. /\ first \in Seq(Packet) /\ Item(first, level)
      /\ Packets(first) \subseteq Waiting
  BY <1>1, <1>2, InWaiting DEF Queued
<1>4. ASSUME NEW p \in Priorities, NEW i \in DOMAIN queue'[p]
      PROVE  /\ Item(queue'[p][i], p)
             /\ Before(Packets(first), Packets(queue'[p][i]))
  <2>1. CASE p # level /\ i \in DOMAIN queue[p] /\ queue'[p][i] = queue[p][i]
    BY <1>1, <1>2, <2>1 DEF Queued
  <2>2. CASE /\ p = level /\ i \in Nat /\ i + 1 \in DOMAIN queue[level]
             /\ i + 1 > 1 /\ queue'[p][i] = queue[level][i + 1]
    BY <1>1, <1>2, <2>2 DEF Queued
  <2>3. QED
    BY <1>2, <1>4, <2>1, <2>2
<1>5. ASSUME NEW p \in Priorities, NEW q \in Priorities,
             NEW i \in DOMAIN queue'[p], NEW k \in DOMAIN queue'[q],
             p # q \/ i < k
      PROVE  Before(Packets(queue'[p][i]), Packets(queue'[q][k]))
  <2>1. PICK j \in DOMAIN queue[p] :
           /\ queue'[p][i] = queue[p][j]
           /\ p # level => j = i
           /\ p = level => i \in Nat /\ j = i + 1
    BY <1>1, <1>2, <1>5
  <2>2. PICK l \in DOMAIN queue[q] :
           /\ queue'[q][k] = queue[q][l]
           /\ q # level => l = k
           /\ q = level => k \in Nat /\ l = k + 1
    BY <1>1, <1>2, <1>5
  <2>3. p # q \/ j < l
    <3>1. CASE p = q /\ p = level
      BY <1>5, <2>1, <2>2, <3>1
    <3>2. CASE p = q /\ p # level
      BY <1>5, <2>1, <2>2, <3>2
    <3>3. QED
      BY <3>1, <3>2
  <2>4. QED
    BY <2>1, <2>2, <2>3 DEF Queued
<1>6. Queued'
  BY <1>4, <1>5 DEF Queued, Item, Single, Together, Before, Apart, InTurn
<1>7. Before(Packets(first), Waiting')
  <2>1. ASSUME NEW x \in Packets(first), NEW y \in Waiting'
        PROVE  Apart(x, y) /\ InTurn(x, y)
    <3>1. PICK p \in Priorities : \E i \in DOMAIN queue'[p] :
             y \in Packets(queue'[p][i])
      BY <2>1 DEF Waiting
    <3>2. QED
      BY <1>4, <2>1, <3>1 DEF Before
  <2>2. QED
    BY <2>1 DEF Before
<1>8. QED
  BY <1>2, <1>3, <1>6, <1>7

\* TakePacket keeps the order.
LEMMA TakeKeeps ==
  ASSUME TInv, Order, UNCHANGED Packet, TakePacket
  PROVE  Order'
<1> DEFINE next == NextTransaction
<1>1. /\ opc = "queue" /\ UNCHANGED <<wire, pending, open, begun, made>>
      /\ \/ current # <<>> /\ UNCHANGED queue
         \/ /\ current = <<>> /\ queue[level] # <<>>
            /\ queue' = [queue EXCEPT ![level] = Tail(@)]
      /\ \/ next = <<>> /\ opc' = "broken" /\ UNCHANGED current
         \/ /\ next # <<>> /\ current' = Tail(next)
            /\ \/ opc' = "packet" /\ hold' = Head(next)
               \/ opc' = "queue"
  BY DEF TakePacket, More, pendingVars, mainVars
<1>2. InHand = Packets(current)
  BY <1>1 DEF InHand
<1>3. /\ Queued' /\ Waiting' \subseteq Waiting /\ next \in Seq(Packet)
      /\ Packets(next) \subseteq InHand \cup Waiting
      /\ \A x, y \in Packets(next) : x.of = y.of
      /\ \A x \in Packets(next) : Alone(x) => Len(next) <= 1
      /\ Before(Packets(next), Waiting')
  <2>1. CASE current # <<>>
    <3>1. next = current /\ UNCHANGED <<queue, Waiting>>
      BY <1>1, <2>1 DEF NextTransaction, Waiting
    <3>2. Queued'
      BY <1>1, <3>1
         DEF Order, Queued, Item, Single, Together, Before, Apart, InTurn
    <3>3. current \in Seq(Packet)
      BY Parts DEF TInv, HandTyped
    <3>4. /\ \A x, y \in InHand : x.of = y.of
          /\ \A x \in InHand : Alone(x) => Len(current) <= 1
          /\ Before(InHand, Waiting)
      BY <1>1 DEF Order, Handed
    <3>5. QED
      BY <1>2, <3>1, <3>2, <3>3, <3>4
  <2>2. CASE current = <<>>
    <3>1. next = Head(queue[level])
      BY <2>2 DEF NextTransaction
    <3>2. /\ Queued' /\ Waiting' \subseteq Waiting
          /\ next \in Seq(Packet) /\ Item(next, level)
          /\ Packets(next) \subseteq Waiting
          /\ Before(Packets(next), Waiting')
      BY <1>1, <2>2, <3>1, FirstOfQueue DEF Order
    <3>3. /\ \A x, y \in Packets(next) : x.of = y.of
          /\ \A x \in Packets(next) : Alone(x) => Len(next) <= 1
      <4>1. CASE Single(next, level)
        <5>1. DOMAIN next = {1}
          BY <3>2, <4>1 DEF Single
        <5>2. QED
          BY <4>1, <5>1 DEF Single, Packets
      <4>2. CASE Together(next)
        <5>1. begun \in Nat
          BY HandPackets
        <5>2. PICK b \in 1..begun : \A x \in Packets(next) : x.of = b
          BY <4>2 DEF Together
        <5>3. QED
          BY <5>1, <5>2 DEF Alone
      <4>3. QED
        BY <3>2, <4>1, <4>2 DEF Item
    <3>4. QED
      BY <3>2, <3>3
  <2>3. QED
    BY <2>1, <2>2
<1> HIDE DEF next
<1>4. CASE next = <<>>
  <2>1. UNCHANGED InHand
    BY <1>1, <1>4 DEF InHand
  <2>2. Packets(next) = {}
    BY <1>4, NonePacked
  <2>3. Handed'
    BY <1>1, <1>3, <1>4, <2>1 DEF Order, Handed, Before
  <2>4. QED
    BY <1>1, <1>3, <2>1, <2>3, HandMoves
<1>5. CASE next # <<>>
  <2>1. /\ Packets(next) = {Head(next)} \cup Packets(Tail(next))
        /\ Len(next) <= 1 => Tail(next) = <<>>
    BY <1>3, <1>5, PacketsMove
  <2>2. InHand' \subseteq Packets(next)
    BY <1>1, <1>5, <2>1 DEF InHand
  <2>3. \A x \in InHand' : Alone(x) => current' = <<>>
    BY <1>1, <1>3, <1>5, <2>1, <2>2
  <2>4. Len(<<>>) <= 1
    OBVIOUS
  <2>5. Before(InHand', Waiting')
    BY <1>3, <2>2 DEF Before
  <2>6. Handed'
    BY <1>3, <2>2, <2>3, <2>4, <2>5 DEF Handed, Alone, Before, Apart, InTurn
  <2>7. QED
    BY <1>1, <1>3, <2>2, <2>6, HandMoves
<1>6. QED
  BY <1>4, <1>5

\* SendPacket keeps the order.
LEMMA SendKeeps ==
  ASSUME TInv, Order, UNCHANGED Packet, SendPacket
  PROVE  Order'
<1>1. /\ opc = "packet" /\ opc' = "queue" /\ wire' = Append(wire, hold)
      /\ UNCHANGED <<queue, current, pending, open, begun, made>>
  BY DEF SendPacket, pendingVars, mainVars
<1>2. wire \in Seq(Packet) /\ hold \in Packet
  BY <1>1, Parts DEF TInv, HandTyped, HandsTyped
<1>3. /\ InHand = Packets(current) \cup {hold} /\ InHand' = Packets(current)
      /\ Packets(wire') = Packets(wire) \cup {hold}
      /\ UNCHANGED Waiting
  BY <1>1, <1>2, Appended DEF InHand, Waiting
<1>4. Queued'
  BY <1>1 DEF Order, Queued, Item, Single, Together, Before, Apart, InTurn
<1>5. \A x \in InHand : Alone(x) => current = <<>>
  BY <1>1 DEF Order, Handed
<1>6. Before(InHand', Waiting') /\ Before(Packets(wire'), Waiting')
  BY <1>3 DEF Order, Handed, Wired, Before
<1>7. Handed'
  <2>1. Len(<<>>) <= 1
    OBVIOUS
  <2>2. QED
    BY <1>1, <1>3, <1>5, <1>6, <2>1
       DEF Order, Handed, Alone, Before, Apart, InTurn
<1>8. /\ DOMAIN wire = 1..Len(wire) /\ Len(wire) \in Nat
      /\ DOMAIN wire' = 1..(Len(wire) + 1)
      /\ wire'[Len(wire) + 1] = hold
      /\ \A i \in 1..Len(wire) : wire'[i] = wire[i]
  BY <1>1, <1>2
<1>9. ASSUME NEW b, b = hold.of, NEW i \in DOMAIN wire', NEW j \in DOMAIN wire',
             b # 0, wire'[i].of = b, i <= j
      PROVE  wire'[j].of = b
  <2>1. CASE j = Len(wire) + 1
    BY <1>8, <1>9, <2>1
  <2>2. CASE j # Len(wire) + 1
    <3>1. i \in DOMAIN wire /\ j \in DOMAIN wire
      BY <1>8, <1>9, <2>2
    <3>2. Last(b)
      BY <1>3, <1>9 DEF Order, Wired
    <3>3. QED
      BY <1>8, <1>9, <3>1, <3>2 DEF Last
  <2>3. QED
    BY <2>1, <2>2
<1>10. Wired'
  <2>1. ASSUME NEW x \in Packets(wire'), NEW y \in InHand' PROVE InTurn(x, y)
    <3>1. CASE x = hold
      <4>1. current # <<>>
        BY <1>3, <2>1, NonePacked
      <4>2. ~Alone(x)
        BY <1>3, <1>5, <3>1, <4>1
      <4>3. QED
        BY <4>2 DEF InTurn
    <3>2. CASE x \in Packets(wire)
      BY <1>3, <2>1, <3>2 DEF Order, Wired
    <3>3. QED
      BY <1>3, <2>1, <3>1, <3>2
  <2>2. \A y \in InHand' : y.of = hold.of
    BY <1>3 DEF Order, Handed
  <2>3. QED
    BY <1>6, <1>9, <2>1, <2>2 DEF Wired, Last, Before, InTurn, Apart
<1>11. Made'
  BY <1>1, <1>3 DEF Order, Made, Past
<1>12. TransactionsWhole'
  <2>1. ASSUME NEW i \in DOMAIN wire', NEW k \in DOMAIN wire',
               ~Alone(wire'[i]), wire'[i].of = wire'[k].of, NEW j \in i..k
        PROVE  wire'[j].of = wire'[i].of
    <3>1. j \in DOMAIN wire' /\ i <= j /\ j <= k
      BY <1>8, <2>1
    <3>2. CASE k = Len(wire) + 1
      BY <1>8, <1>9, <2>1, <3>1, <3>2 DEF Alone
    <3>3. CASE k # Len(wire) + 1
      <4>1. i \in DOMAIN wire /\ k \in DOMAIN wire /\ j \in DOMAIN wire
        BY <1>8, <2>1, <3>1, <3>3
      <4>2. QED
        BY <1>8, <2>1, <4>1 DEF Order, TransactionsWhole, Alone
    <3>4. QED
      BY <3>2, <3>3
  <2>2. QED
    BY <2>1 DEF TransactionsWhole, Alone
<1>13. ASSUME NoLimit PROVE NoOvertaking'
  <2>1. ASSUME NEW i \in DOMAIN wire', NEW j \in DOMAIN wire', i < j,
               wire'[i].asked = wire'[j].asked,
               Alone(wire'[i]), Alone(wire'[j])
        PROVE  wire'[i].id < wire'[j].id
    <3>1. i \in DOMAIN wire
      BY <1>8, <2>1
    <3>2. CASE j = Len(wire) + 1
      <4>1. InTurn(wire[i], hold)
        BY <1>3, <3>1 DEF Order, Wired, Packets
      <4>2. QED
        BY <1>8, <1>13, <2>1, <3>1, <3>2, <4>1 DEF InTurn
    <3>3. CASE j # Len(wire) + 1
      <4>1. j \in DOMAIN wire
        BY <1>8, <2>1, <3>3
      <4>2. QED
        BY <1>8, <1>13, <2>1, <3>1, <4>1 DEF Order, NoOvertaking
    <3>4. QED
      BY <3>2, <3>3
  <2>2. QED
    BY <2>1 DEF NoOvertaking, Alone
<1>14. QED
  BY <1>4, <1>7, <1>10, <1>11, <1>12, <1>13 DEF Order, NoLimit

\* SendPacketFails keeps the order.
LEMMA FailureKeeps ==
  ASSUME TInv, Order, UNCHANGED Packet, SendPacketFails
  PROVE  Order'
<1>1. /\ opc = "packet" /\ opc' = "queue"
      /\ queue' = [p \in Priorities |-> <<>>]
      /\ UNCHANGED <<current, wire, pending, open, begun, made>>
  BY DEF SendPacketFails, pendingVars, mainVars
<1>2. \A p \in Priorities : DOMAIN queue'[p] = {}
  BY <1>1
<1>3. Queued' /\ Waiting' = {}
  BY <1>2 DEF Queued, Waiting
<1>4. InHand' \subseteq InHand
  BY <1>1 DEF InHand
<1>5. Handed'
  <2>1. \A x \in InHand : Alone(x) => current = <<>>
    BY <1>1 DEF Order, Handed
  <2>2. Len(<<>>) <= 1
    OBVIOUS
  <2>3. QED
    BY <1>1, <1>3, <1>4, <2>1, <2>2 DEF Order, Handed, Alone, Before
<1>6. QED
  BY <1>1, <1>3, <1>4, <1>5, HandMoves

\* QueuePacket puts a packet into the open transaction or queues it alone.
LEMMA QueuedHow ==
  ASSUME TInv, NEW p \in Priorities, NEW append \in BOOLEAN,
         QueuePacket(p, append)
  PROVE  \/ /\ open
            /\ pending' = Append(pending, [id |-> made + 1, asked |-> p,
                                           pri |-> p, of |-> begun])
            /\ UNCHANGED <<queue, urgent>>
         \/ /\ QueuePacketTransaction(<<[id |-> made + 1, asked |-> p,
                                         pri |-> Demoted(p), of |-> 0]>>, p)
            /\ urgent' = IF p = HIGHEST /\ ~writeClosed
                         THEN urgent \cup {made + 1} ELSE urgent
            /\ UNCHANGED pending
<1> DEFINE n == IF open /\ append THEN begun ELSE 0
           packet == [id |-> made + 1, asked |-> p, pri |-> p, of |-> n]
           alone == [id |-> made + 1, asked |-> p, pri |-> Demoted(p), of |-> n]
<1>2. IF open /\ append
      THEN /\ pending' = Append(pending, packet)
           /\ UNCHANGED <<queue, urgent>>
      ELSE /\ QueuePacketTransaction(<<alone>>, p)
           /\ urgent' = IF p = HIGHEST /\ ~writeClosed
                        THEN urgent \cup {made + 1} ELSE urgent
           /\ UNCHANGED pending
  BY DEF QueuePacket
<1>3. CASE open /\ append
  BY <1>2, <1>3
<1>4. CASE ~(open /\ append)
  <2>1. n = 0
    BY <1>4
  <2> HIDE DEF n
  <2>2. QED
    BY <1>2, <1>4, <2>1
<1>5. QED
  BY <1>3, <1>4

\* QueuePacket keeps the order.
LEMMA QueuePacketKeeps ==
  ASSUME TInv, Order, UNCHANGED Packet, UNCHANGED setup,
         NEW p \in Priorities, NEW append \in BOOLEAN,
         QueuePacket(p, append)
  PROVE  Order'
<1>a. PICK alone : alone = [id |-> made + 1, asked |-> p, pri |-> Demoted(p),
                            of |-> 0]
  OBVIOUS
<1>m. PICK member : member = [id |-> made + 1, asked |-> p, pri |-> p,
                              of |-> begun]
  OBVIOUS
<1>1. /\ made' = made + 1 /\ made < MaxPackets
      /\ UNCHANGED <<current, opc, hold, wire, open, begun>>
  BY DEF QueuePacket
<1>2. made \in Nat /\ begun \in 0..setup.transactions /\ pending \in Seq(Packet)
  BY Parts, HandPackets DEF TInv, PendingTyped
<1>3. open => begun > 0
  BY DEF TInv, HandsTyped
<1>4. made + 1 \in 1..MaxPackets
  BY <1>1, <1>2, BoundsAssumption
<1>5. alone \in Packet /\ member \in Packet
  <2>1. setup \in [threaded : BOOLEAN, used : SUBSET Priorities,
                    transactions : Nat]
    BY SetupsAssumption, Parts DEF TInv, PlaceTyped
  <2>2. QED
    BY <1>a, <1>m, <1>2, <1>4, <2>1, DemotedTyped DEF Packet
<1>6. alone.of = 0 /\ alone.id = made + 1 /\ alone.asked = p
      /\ member.of = begun /\ member.id = made + 1
  BY <1>a, <1>m
<1>7. \/ /\ open /\ pending' = Append(pending, member)
         /\ UNCHANGED queue
      \/ /\ QueuePacketTransaction(<<alone>>, p) /\ UNCHANGED pending
  BY <1>a, <1>m, QueuedHow
<1>8. ASSUME NEW x, Past(x), x \in Packet PROVE Past(x)'
  BY <1>1, <1>2, <1>8, HandPackets DEF Past
<1>9. InHand' = InHand /\ Packets(wire') = Packets(wire)
  BY <1>1 DEF InHand
<1>10. CASE /\ open /\ pending' = Append(pending, member)
            /\ UNCHANGED queue
  <2>1. UNCHANGED Waiting
    BY <1>10 DEF Waiting
  <2>2. Queued'
    BY <1>1, <1>10
       DEF Order, Queued, Item, Single, Together, Before, Apart, InTurn
  <2>3. Packets(pending') = Packets(pending) \cup {member}
    BY <1>2, <1>5, <1>10, Appended
  <2>4. Made'
    <3>1. \A x \in Packets(wire) \cup InHand \cup Waiting : Past(x)'
      BY <1>8, HandPackets DEF Order, Made
    <3>2. \A x \in Packets(pending') : x.of = begun' /\ x.id <= made'
      BY <1>1, <1>2, <1>6, <2>3, HandPackets DEF Order, Made
    <3>3. QED
      BY <1>9, <2>1, <3>1, <3>2 DEF Made, Past
  <2>5. Before(Packets(wire), {}) /\ Before(InHand, {})
    BY DEF Before
  <2>6. QED
    BY <1>1, <2>1, <2>2, <2>4, <2>5, OrderFrame
<1>11. CASE QueuePacketTransaction(<<alone>>, p) /\ UNCHANGED pending
  <2>1. Alone(alone)
    BY <1>6 DEF Alone
  <2>2. <<alone>> \in Seq(Packet) /\ Packets(<<alone>>) = {alone}
    BY <1>5, Sequenced, PacketsMove
  <2>3. Item(<<alone>>, Demoted(p))
    BY <1>6, <2>1, DemotedTyped DEF Item, Single
  <2>4. /\ Before(Packets(wire), {alone}) /\ Before(InHand, {alone})
        /\ Before(Waiting, {alone})
    BY <1>6, <2>1, NewIsLast DEF Order
  <2>5. Queued' /\ Waiting' \subseteq Waiting \cup {alone}
    BY <1>1, <1>11, <2>2, <2>3, <2>4, Enqueues DEF Order
  <2>6. Past(alone)'
    BY <1>1, <1>2, <1>3, <1>6 DEF Past
  <2>7. Made'
    <3>1. \A x \in Packets(wire) \cup InHand \cup Waiting : Past(x)'
      BY <1>8, HandPackets DEF Order, Made
    <3>2. \A x \in Packets(pending) : x.of = begun' /\ x.id <= made'
      BY <1>1, <1>2, HandPackets DEF Order, Made
    <3>3. QED
      BY <1>9, <1>11, <2>5, <2>6, <3>1, <3>2 DEF Made, Past
  <2>8. QED
    BY <1>1, <2>4, <2>5, <2>7, OrderFrame
<1>12. QED
  BY <1>7, <1>10, <1>11

\* The pending transaction can be put at the end of a queue.
LEMMA PendingFits ==
  ASSUME TInv, Order, open
  PROVE  /\ pending \in Seq(Packet) /\ openPri \in Priorities
         /\ Item(pending, Demoted(openPri))
         /\ Before(Packets(wire), Packets(pending))
         /\ Before(InHand, Packets(pending))
         /\ Before(Waiting, Packets(pending))
<1>1. /\ pending \in Seq(Packet) /\ openPri \in Priorities
      /\ begun \in Nat /\ begun > 0
  BY Parts, HandPackets DEF TInv, PendingTyped, HandsTyped
<1>2. \A x \in Packets(pending) : x.of = begun /\ ~Alone(x)
  BY <1>1 DEF Order, Made, Alone
<1>3. Item(pending, Demoted(openPri))
  BY <1>1, <1>2, begun \in 1..begun DEF Item, Together
<1>4. QED
  BY <1>1, <1>2, <1>3, NewIsLast DEF Order

\* BeginTransaction keeps the order.
LEMMA BeginKeeps ==
  ASSUME TInv, Order, UNCHANGED Packet, NEW p \in Priorities,
         BeginTransaction(p)
  PROVE  Order'
<1>1. /\ begun' = begun + 1 /\ open' = TRUE /\ pending' = <<>>
      /\ UNCHANGED <<current, opc, hold, wire, made>>
      /\ \/ open /\ QueuePacketTransaction(pending, openPri)
         \/ ~open /\ UNCHANGED queue
  BY DEF BeginTransaction
<1>2. made \in Nat /\ begun \in Nat
  BY HandPackets
<1>3. Packets(pending') = {}
  BY <1>1, NonePacked
<1>4. InHand' = InHand /\ Packets(wire') = Packets(wire)
  BY <1>1 DEF InHand
<1>5. ASSUME NEW x \in Packet, x.id <= made, x.of <= begun PROVE Past(x)'
  BY <1>1, <1>2, <1>5, HandPackets DEF Past
<1>6. \A x \in Packets(wire) \cup InHand \cup Waiting : Past(x)'
  BY <1>5, HandPackets DEF Order, Made, Past
<1>7. CASE open /\ QueuePacketTransaction(pending, openPri)
  <2>1. Queued' /\ Waiting' \subseteq Waiting \cup Packets(pending)
    BY <1>1, <1>7, PendingFits, Enqueues DEF Order
  <2>2. \A x \in Packets(pending) : Past(x)'
    BY <1>2, <1>5, HandPackets DEF Order, Made
  <2>3. Made'
    BY <1>3, <1>4, <1>6, <2>1, <2>2 DEF Made, Past
  <2>4. QED
    BY <1>1, <1>7, <2>1, <2>3, PendingFits, OrderFrame
<1>8. CASE ~open /\ UNCHANGED queue
  <2>1. UNCHANGED Waiting
    BY <1>8 DEF Waiting
  <2>2. Queued'
    <3>1. \A u : Together(u)
             => \E b \in 1..begun' : \A x \in Packets(u) : x.of = b
      BY <1>1, <1>2 DEF Together
    <3>2. \A q \in Priorities : \A i \in DOMAIN queue'[q] :
             \/ Single(queue'[q][i], q)
             \/ \E b \in 1..begun' : \A x \in Packets(queue'[q][i]) : x.of = b
      BY <1>8, <3>1 DEF Order, Queued, Item
    <3>3. \A q \in Priorities : \A i \in DOMAIN queue'[q] :
             Item(queue[q][i], q)'
      BY <3>2 DEF Item, Single, Together
    <3>4. QED
      BY <1>8, <3>3 DEF Order, Queued, Before, Apart, InTurn
  <2>3. Made'
    BY <1>3, <1>4, <1>6, <2>1 DEF Made, Past
  <2>4. Before(Packets(wire), {}) /\ Before(InHand, {})
    BY DEF Before
  <2>5. QED
    BY <1>1, <2>1, <2>2, <2>3, <2>4, OrderFrame
<1>9. QED
  BY <1>1, <1>7, <1>8

\* EndTransaction keeps the order.
LEMMA EndKeeps ==
  ASSUME TInv, Order, UNCHANGED Packet, EndTransaction
  PROVE  Order'
<1>1. /\ open /\ open' = FALSE /\ pending' = <<>>
      /\ UNCHANGED <<current, opc, hold, wire, made, begun>>
      /\ QueuePacketTransaction(pending, openPri)
  BY DEF EndTransaction
<1>2. Packets(pending') = {}
  BY <1>1, NonePacked
<1>3. InHand' = InHand /\ Packets(wire') = Packets(wire)
  BY <1>1 DEF InHand
<1>4. begun \in Nat
  BY HandPackets
<1>5. Queued' /\ Waiting' \subseteq Waiting \cup Packets(pending)
  BY <1>1, PendingFits, Enqueues DEF Order
<1>6. \A x \in Packets(wire) \cup InHand \cup Waiting \cup Packets(pending) :
         Past(x)'
  BY <1>1, <1>4 DEF Order, Made, Past
<1>7. Made'
  BY <1>2, <1>3, <1>5, <1>6 DEF Made, Past
<1>8. QED
  BY <1>1, <1>5, <1>7, PendingFits, OrderFrame

-----------------------------------------------------------------------------
(* Every step keeps the last words                                         *)

\* With one thread a client does not begin to close while a packet for it is in
\* hand.
LEMMA ReceivableKept ==
  ASSUME ~Threaded, Receivable, Next
  PROVE  Receivable'
<1> USE DEF Receivable, CanReceive, IsClosing, MainTurn, sendVars,
            pendingVars, mainVars, closeVars
<1>1. CASE StartTick
  BY <1>1 DEF StartTick
<1>2. CASE CheckFlush
  BY <1>2 DEF CheckFlush
<1>3. CASE CheckClosing
  BY <1>3 DEF CheckClosing
<1>4. CASE MarkWriteClosed
  BY <1>4 DEF MarkWriteClosed
<1>5. CASE TakePacket
  BY <1>5 DEF TakePacket
<1>6. CASE SendPacket
  BY <1>6 DEF SendPacket
<1>7. CASE SendPacketFails
  BY <1>7 DEF SendPacketFails
<1>8. CASE EndPass
  BY <1>8 DEF EndPass
<1>9. CASE MarkReadClosed
  BY <1>9 DEF MarkReadClosed
<1>10. CASE Flush
  BY <1>10 DEF Flush
<1>11. ASSUME NEW p \in setup.used, NEW append \in BOOLEAN, QueuePacket(p,
            append)
      PROVE  Receivable'
  BY <1>11 DEF QueuePacket
<1>12. ASSUME NEW p \in setup.used, BeginTransaction(p) PROVE Receivable'
  BY <1>12 DEF BeginTransaction
<1>13. CASE NextLevel \/ EndTransaction
  BY <1>13 DEF NextLevel, EndTransaction
<1>14. QED
  BY <1>1, <1>2, <1>3, <1>4, <1>5, <1>6, <1>7, <1>8, <1>9, <1>10, <1>11,
     <1>12, <1>13 DEF Next, ProcessOutput, Main

\* With one thread nothing is queued between hasPendingData() and
\* markWriteClosed().
LEMMA EmptiedKept ==
  ASSUME ~Threaded, Emptied, Next
  PROVE  Emptied'
<1> USE DEF Emptied, MainTurn, sendVars, pendingVars, mainVars, closeVars
<1>1. CASE StartTick
  BY <1>1 DEF StartTick
<1>2. CASE CheckFlush
  BY <1>2 DEF CheckFlush
<1>3. CASE CheckClosing
  BY <1>3 DEF CheckClosing, HasPendingData, Priorities, HIGHEST
<1>4. CASE MarkWriteClosed
  BY <1>4 DEF MarkWriteClosed
<1>5. CASE TakePacket
  BY <1>5 DEF TakePacket
<1>6. CASE SendPacket
  BY <1>6 DEF SendPacket
<1>7. CASE SendPacketFails
  BY <1>7 DEF SendPacketFails
<1>8. CASE EndPass
  BY <1>8 DEF EndPass
<1>9. ASSUME NEW p \in setup.used, NEW append \in BOOLEAN, QueuePacket(p,
            append)
      PROVE  Emptied'
  BY <1>9 DEF QueuePacket, QueuePacketTransaction
<1>10. ASSUME NEW p \in setup.used, BeginTransaction(p) PROVE Emptied'
  BY <1>10 DEF BeginTransaction, QueuePacketTransaction
<1>11. CASE EndTransaction
  BY <1>11 DEF EndTransaction, QueuePacketTransaction
<1>12. CASE Flush
  BY <1>12 DEF Flush
<1>13. CASE NextLevel \/ MarkReadClosed
  BY <1>13 DEF NextLevel, MarkReadClosed
<1>14. QED
  BY <1>1, <1>2, <1>3, <1>4, <1>5, <1>6, <1>7, <1>8, <1>9, <1>10, <1>11,
     <1>12, <1>13 DEF Next, ProcessOutput, Main

\* What is on its way stays on its way when something is put into a queue; so
\* does what is put into the queue of the highest priority.
LEMMA HeardWhenQueued ==
  ASSUME TInv, NoLimit, NEW s, NEW p \in Priorities,
         QueuePacketTransaction(s, p),
         UNCHANGED <<opc, current, hold>>
  PROVE  /\ \A n : OnItsWay(n) => OnItsWay(n)'
         /\ \A x \in Packets(s) :
               ~writeClosed /\ p = HIGHEST /\ x.pri = HIGHEST
                  => OnItsWay(x.id)'
<1>1. /\ queue \in [Priorities -> Seq(Seq(Packet))]
      /\ HIGHEST \in Priorities /\ Demoted(p) = p
  BY Parts, DemotedTyped DEF TInv, QueueTyped, HIGHEST, Priorities
<1>2. UNCHANGED InHand
  BY DEF InHand
<1>3. \/ UNCHANGED queue
      \/ queue' = [queue EXCEPT ![p] = Append(queue[p], s)]
  BY <1>1 DEF QueuePacketTransaction
<1>4. /\ \A i \in DOMAIN queue[HIGHEST] :
            /\ i \in DOMAIN queue'[HIGHEST]
            /\ queue'[HIGHEST][i] = queue[HIGHEST][i]
      /\ ~writeClosed /\ p = HIGHEST
            => \E i \in DOMAIN queue'[HIGHEST] : queue'[HIGHEST][i] = s
  <2>1. PICK q \in Seq(Seq(Packet)) : q = queue[HIGHEST]
    BY <1>1
  <2>2. /\ \A i \in DOMAIN q : /\ i \in DOMAIN Append(q, s)
                               /\ Append(q, s)[i] = q[i]
        /\ Len(q) + 1 \in DOMAIN Append(q, s)
        /\ Append(q, s)[Len(q) + 1] = s
    OBVIOUS
  <2>3. CASE p = HIGHEST /\ ~writeClosed
    <3>1. queue'[HIGHEST] = Append(q, s)
      BY <1>1, <2>1, <2>3 DEF QueuePacketTransaction
    <3>2. QED
      BY <2>1, <2>2, <3>1
  <2>4. CASE ~(p = HIGHEST /\ ~writeClosed)
    <3>1. queue'[HIGHEST] = queue[HIGHEST]
      BY <1>1, <2>4 DEF QueuePacketTransaction
    <3>2. QED
      BY <2>4, <3>1
  <2>5. QED
    BY <2>3, <2>4
<1>5. QED
  BY <1>2, <1>4 DEF OnItsWay

\* TakePacket drops no packet of the highest priority.
LEMMA HeardOnTaking ==
  ASSUME TInv, Heard, UNCHANGED Packet, TakePacket
  PROVE  Heard'
<1> DEFINE next == NextTransaction
<1>1. /\ opc = "queue" /\ UNCHANGED <<wire, urgent, writeClosed>>
      /\ \/ current # <<>> /\ UNCHANGED queue
         \/ /\ current = <<>> /\ queue[level] # <<>>
            /\ queue' = [queue EXCEPT ![level] = Tail(@)]
      /\ \/ next = <<>> /\ opc' = "broken" /\ UNCHANGED current
         \/ /\ next # <<>> /\ current' = Tail(next)
            /\ \/ opc' = "packet" /\ hold' = Head(next)
               \/ opc' = "queue" /\ ~CanReceive(Head(next))
  BY DEF TakePacket, More, pendingVars, mainVars, closeVars
<1>2. InHand = Packets(current)
  BY <1>1 DEF InHand
<1>3. /\ queue \in [Priorities -> Seq(Seq(Packet))] /\ level \in Priorities
      /\ HIGHEST \in Priorities /\ current \in Seq(Packet)
  BY Parts
     DEF TInv, QueueTyped, PlaceTyped, HandTyped, HIGHEST, Priorities
<1>4. next \in Seq(Packet)
  BY <1>1, <1>3, Sequenced DEF NextTransaction
<1>5. ASSUME NEW i \in DOMAIN queue[HIGHEST]
      PROVE  \/ \E k \in DOMAIN queue'[HIGHEST] :
                   queue'[HIGHEST][k] = queue[HIGHEST][i]
             \/ queue[HIGHEST][i] = next
  <2>1. CASE UNCHANGED queue
    BY <2>1
  <2>2. CASE ~UNCHANGED queue
    <3>1. /\ queue' = [queue EXCEPT ![level] = Tail(@)]
          /\ next = Head(queue[level]) /\ queue[level] # <<>>
      BY <1>1, <2>2 DEF NextTransaction
    <3>2. CASE level = HIGHEST
      <4>1. PICK q \in Seq(Seq(Packet)) : q = queue[HIGHEST]
        BY <1>3
      <4>2. /\ i \in 1..Len(q) /\ q # <<>>
            /\ DOMAIN Tail(q) = 1..(Len(q) - 1)
            /\ \A k \in 1..(Len(q) - 1) : Tail(q)[k] = q[k + 1]
            /\ Head(q) = q[1]
        BY <3>1, <3>2, <4>1
      <4>3. CASE i = 1
        BY <3>1, <3>2, <4>1, <4>2, <4>3
      <4>4. CASE i # 1
        <5>1. i - 1 \in DOMAIN Tail(q) /\ Tail(q)[i - 1] = q[i]
          BY <4>1, <4>2, <4>4
        <5>2. queue'[HIGHEST] = Tail(q)
          BY <1>3, <3>1, <3>2, <4>1
        <5>3. QED
          BY <4>1, <5>1, <5>2
      <4>5. QED
        BY <4>3, <4>4
    <3>3. CASE level # HIGHEST
      <4>1. queue'[HIGHEST] = queue[HIGHEST]
        BY <1>3, <3>1, <3>3
      <4>2. QED
        BY <4>1
    <3>4. QED
      BY <3>2, <3>3
  <2>3. QED
    BY <2>1, <2>2
<1>6. current # <<>> => next = current
  BY DEF NextTransaction
<1> HIDE DEF next
<1>7. ASSUME NEW x \in Packets(next), x.pri = HIGHEST
      PROVE  x \in InHand'
  <2>1. next # <<>>
    BY <1>7, NonePacked
  <2>2. Packets(next) = {Head(next)} \cup Packets(Tail(next))
    BY <1>4, <2>1, PacketsMove
  <2>3. CASE opc' = "packet" /\ hold' = Head(next)
    BY <1>1, <1>7, <2>1, <2>2, <2>3 DEF InHand
  <2>4. CASE opc' = "queue" /\ ~CanReceive(Head(next))
    <3>1. x # Head(next)
      BY <1>7, <2>4 DEF CanReceive, HIGHEST
    <3>2. QED
      BY <1>1, <1>7, <2>1, <2>2, <2>4, <3>1 DEF InHand
  <2>5. QED
    BY <1>1, <2>1, <2>3, <2>4
<1>8. \A x \in InHand : x \in Packets(next)
  BY <1>2, <1>6, NonePacked
<1>9. ASSUME NEW n, OnItsWay(n) PROVE OnItsWay(n)'
  <2>1. CASE \E x \in InHand : x.id = n /\ x.pri = HIGHEST
    BY <1>7, <1>8, <2>1 DEF OnItsWay
  <2>2. CASE \E i \in DOMAIN queue[HIGHEST] :
                \E x \in Packets(queue[HIGHEST][i]) :
                   x.id = n /\ x.pri = HIGHEST
    BY <1>5, <1>7, <2>2 DEF OnItsWay
  <2>3. QED
    BY <1>9, <2>1, <2>2 DEF OnItsWay
<1>10. QED
  BY <1>1, <1>9 DEF Heard, Sent

\* So nothing that was queued at the highest priority is lost.
LEMMA HeardKept ==
  ASSUME TInv, NoLimit, ~Threaded, Heard, Receivable, Emptied, Next
  PROVE  Heard'
<1>f. ASSUME UNCHANGED <<queue, current, hold, wire, urgent, writeClosed>>,
             (opc = "packet") = (opc' = "packet")
      PROVE  Heard'
  <2>1. UNCHANGED InHand
    BY <1>f DEF InHand
  <2>2. QED
    BY <1>f, <2>1 DEF Heard, Sent, OnItsWay
<1>p. UNCHANGED Packet
  BY SetupStays DEF TInv
<1> USE <1>p DEF sendVars, pendingVars, mainVars, closeVars
<1>1. CASE StartTick
  BY <1>1, <1>f DEF StartTick
<1>2. CASE CheckFlush
  BY <1>2, <1>f DEF CheckFlush
<1>3. CASE CheckClosing
  BY <1>3, <1>f DEF CheckClosing
<1>4. CASE MarkWriteClosed
  <2>1. CASE writeClosed
    BY <1>4, <1>f, <2>1 DEF MarkWriteClosed
  <2>2. CASE queue[HIGHEST] = <<>> /\ current = <<>>
    <3>1. InHand = {}
      BY <1>4, <2>2, NonePacked DEF MarkWriteClosed, InHand
    <3>2. \A n : ~OnItsWay(n)
      BY <2>2, <3>1 DEF OnItsWay
    <3>3. QED
      BY <1>4, <3>2 DEF MarkWriteClosed, Heard, Sent
  <2>3. QED
    BY <1>4, <2>1, <2>2 DEF MarkWriteClosed, Emptied
<1>5. CASE TakePacket
  BY <1>5, HeardOnTaking
<1>6. CASE SendPacket
  <2>1. /\ wire \in Seq(Packet) /\ hold \in Packet
        /\ opc = "packet" /\ opc' = "queue" /\ wire' = Append(wire, hold)
        /\ UNCHANGED <<queue, current, urgent, writeClosed>>
    BY <1>6, Parts
       DEF TInv, HandTyped, HandsTyped, SendPacket, mainVars, closeVars
  <2>2. Packets(wire') = Packets(wire) \cup {hold}
    BY <2>1, Appended
  <2>3. Sent' = Sent \cup {hold.id}
    BY <2>2 DEF Sent, Packets
  <2>4. \A n : OnItsWay(n) => n = hold.id \/ OnItsWay(n)'
    BY <2>1 DEF OnItsWay, InHand
  <2>5. QED
    BY <2>1, <2>3, <2>4 DEF Heard
<1>7. CASE SendPacketFails
  BY <1>7 DEF SendPacketFails, Receivable
<1>8. CASE NextLevel
  BY <1>8, <1>f DEF NextLevel
<1>9. CASE EndPass
  BY <1>9, <1>f DEF EndPass
<1>10. ASSUME NEW p \in setup.used, NEW append \in BOOLEAN, QueuePacket(p,
            append)
      PROVE  Heard'
  <2>1. p \in Priorities
    BY SetupStays DEF TInv
  <2>2. UNCHANGED <<opc, current, hold, wire, writeClosed>>
    BY <1>10 DEF QueuePacket, closeVars
  <2>3. \/ UNCHANGED <<queue, urgent>>
        \/ /\ QueuePacketTransaction(<<[id |-> made + 1, asked |-> p,
                                        pri |-> Demoted(p), of |-> 0]>>, p)
           /\ urgent' = IF p = HIGHEST /\ ~writeClosed
                        THEN urgent \cup {made + 1} ELSE urgent
    BY <1>10, <2>1, QueuedHow
  <2>4. PICK alone : alone = [id |-> made + 1, asked |-> p,
                              pri |-> Demoted(p), of |-> 0]
    OBVIOUS
  <2>5. alone.id = made + 1 /\ (p = HIGHEST => alone.pri = HIGHEST)
    BY <2>1, <2>4, DemotedTyped
  <2>6. CASE UNCHANGED <<queue, urgent>>
    BY <1>f, <2>2, <2>6
  <2>7. CASE /\ QueuePacketTransaction(<<alone>>, p)
             /\ urgent' = IF p = HIGHEST /\ ~writeClosed
                          THEN urgent \cup {made + 1} ELSE urgent
    <3>1. alone \in Packets(<<alone>>)
      BY DEF Packets
    <3>2. /\ \A n : OnItsWay(n) => OnItsWay(n)'
          /\ ~writeClosed /\ p = HIGHEST => OnItsWay(alone.id)'
      BY <2>1, <2>2, <2>5, <2>7, <3>1, HeardWhenQueued
    <3>3. QED
      BY <2>2, <2>5, <2>7, <3>2 DEF Heard, Sent
  <2>8. QED
    BY <2>3, <2>4, <2>6, <2>7
<1>11. ASSUME NEW p \in setup.used, BeginTransaction(p) PROVE Heard'
  <2>1. /\ UNCHANGED <<opc, current, hold, wire, writeClosed, urgent>>
        /\ UNCHANGED queue \/ QueuePacketTransaction(pending, openPri)
    BY <1>11 DEF BeginTransaction, closeVars
  <2>2. openPri \in Priorities
    BY Parts DEF TInv, PendingTyped
  <2>3. CASE UNCHANGED queue
    BY <1>f, <2>1, <2>3
  <2>4. CASE QueuePacketTransaction(pending, openPri)
    <3>1. \A n : OnItsWay(n) => OnItsWay(n)'
      BY <2>1, <2>2, <2>4, HeardWhenQueued
    <3>2. QED
      BY <2>1, <3>1 DEF Heard, Sent
  <2>5. QED
    BY <2>1, <2>3, <2>4
<1>12. CASE EndTransaction
  <2>1. /\ UNCHANGED <<opc, current, hold, wire, writeClosed, urgent>>
        /\ QueuePacketTransaction(pending, openPri)
    BY <1>12 DEF EndTransaction, closeVars
  <2>2. openPri \in Priorities
    BY Parts DEF TInv, PendingTyped
  <2>3. \A n : OnItsWay(n) => OnItsWay(n)'
    BY <2>1, <2>2, HeardWhenQueued
  <2>4. QED
    BY <2>1, <2>3 DEF Heard, Sent
<1>13. CASE MarkReadClosed
  BY <1>13, <1>f DEF MarkReadClosed
<1>14. CASE Flush
  BY <1>14, <1>f DEF Flush, MainTurn
<1>15. QED
  BY <1>1, <1>2, <1>3, <1>4, <1>5, <1>6, <1>7, <1>8, <1>9, <1>10, <1>11,
     <1>12, <1>13, <1>14 DEF Next, ProcessOutput, Main

-----------------------------------------------------------------------------
(* The inductive invariant                                                 *)

\* Every step keeps the types.
LEMMA TInvKept ==
  ASSUME TInv, [Next]_vars PROVE TInv'
<1>1. CASE Next
  <2>1. FlagsTyped' /\ PlaceTyped' /\ QueueTyped'
    BY <1>1, FlagsKept, PlaceKept, QueueKept DEF TInv
  <2>2. HandTyped' /\ PendingTyped' /\ HandsTyped'
    BY <1>1, HandKept, PendingKept, HandsTypedKept DEF TInv
  <2>3. TypeOK'
    BY <2>1, <2>2 DEF TypeOK, QueueTyped, HandTyped, PendingTyped, FlagsTyped,
       PlaceTyped
  <2>4. QED
    BY <2>2, <2>3 DEF TInv
<1>2. CASE UNCHANGED vars
  <2>1. UNCHANGED Packet
    BY <1>2 DEF vars, Packet
  <2>2. QED
    BY <1>2, <2>1 DEF TInv, TypeOK, HandsTyped, vars, sendVars, mainVars,
       pendingVars, closeVars, Nobody
<1>3. QED
  BY <1>1, <1>2

\* Every step keeps the order.
LEMMA OrderKept ==
  ASSUME TInv, Order, Next PROVE Order'
<1>1. /\ UNCHANGED <<setup, Packet>>
      /\ setup.used \subseteq Priorities
  BY SetupStays DEF TInv
<1>2. CASE TakePacket
  BY <1>1, <1>2, TakeKeeps
<1>3. CASE SendPacket
  BY <1>1, <1>3, SendKeeps
<1>4. CASE SendPacketFails
  BY <1>1, <1>4, FailureKeeps
<1>5. ASSUME NEW p \in setup.used, NEW append \in BOOLEAN,
             QueuePacket(p, append)
      PROVE  Order'
  BY <1>1, <1>5, QueuePacketKeeps
<1>6. ASSUME NEW p \in setup.used, BeginTransaction(p) PROVE Order'
  BY <1>1, <1>6, BeginKeeps
<1>7. CASE EndTransaction
  BY <1>1, <1>7, EndKeeps
<1>8. CASE StartTick \/ CheckFlush \/ CheckClosing \/ MarkWriteClosed
           \/ NextLevel \/ EndPass \/ MarkReadClosed \/ Flush
  <2>1. /\ UNCHANGED <<queue, current, hold, wire, pending, open, begun, made>>
        /\ (opc = "packet") = (opc' = "packet")
    BY <1>8 DEF StartTick, CheckFlush, CheckClosing, MarkWriteClosed, NextLevel,
       EndPass, MarkReadClosed, Flush, MainTurn, sendVars, pendingVars, mainVars
  <2>2. QED
    BY <1>1, <2>1, OrderStays
<1>9. QED
  BY <1>2, <1>3, <1>4, <1>5, <1>6, <1>7, <1>8 DEF Next, ProcessOutput, Main

\* Every step keeps the last words.
LEMMA WordsKept ==
  ASSUME TInv, Words, Next PROVE Words'
<1>1. UNCHANGED Threaded
  BY SetupStays DEF TInv, Threaded
<1>2. QED
  BY <1>1, HeardKept, ReceivableKept, EmptiedKept DEF Words, NoLimit

\* The three facts that make the invariant inductive
LEMMA Initially == Init => IInv
<1> SUFFICES ASSUME Init PROVE IInv
  OBVIOUS
<1>1. Packets(<<>>) = {} /\ DOMAIN <<>> = {}
  BY DEF Packets
<1>2. TInv
  <2>1. setup \in [threaded : BOOLEAN, used : SUBSET Priorities,
                   transactions : Nat]
    BY SetupsAssumption DEF Init
  <2>2. \A S : <<>> \in Seq(S)
    OBVIOUS
  <2>3. QueueTyped /\ HandTyped
    BY <2>2 DEF Init, QueueTyped, HandTyped
  <2>4. PendingTyped
    <3>1. setup.transactions \in Nat /\ MaxPackets \in Nat
      BY <2>1, BoundsAssumption
    <3>2. 0 \in 0..setup.transactions /\ 0 \in 0..MaxPackets
      BY <3>1
    <3>3. QED
      BY <2>2, <3>2 DEF Init, PendingTyped, Priorities, IDLE
  <2>5. FlagsTyped
    BY DEF Init, FlagsTyped
  <2>6. PlaceTyped
    BY BoundsAssumption DEF Init, PlaceTyped, Priorities, HIGHEST
  <2>7. HandsTyped
    BY DEF Init, HandsTyped
  <2>8. QED
    BY <2>3, <2>4, <2>5, <2>6, <2>7, Parts DEF TInv
<1>3. InHand = {} /\ Waiting = {} /\ Packets(wire) = {} /\ Packets(pending) = {}
  BY <1>1 DEF Init, InHand, Waiting
<1>4. Order
  <2>1. Queued
    BY <1>1 DEF Init, Queued
  <2>2. Handed /\ Wired /\ Made
    BY <1>3 DEF Handed, Wired, Made, Before
  <2>3. TransactionsWhole /\ NoOvertaking
    BY <1>1 DEF Init, TransactionsWhole, NoOvertaking
  <2>4. QED
    BY <2>1, <2>2, <2>3 DEF Order
<1>5. Words
  BY DEF Init, Words, Heard, Receivable, Emptied
<1>6. QED
  BY <1>2, <1>4, <1>5 DEF IInv

LEMMA Inductive == IInv /\ [Next]_vars => IInv'
<1> SUFFICES ASSUME IInv, [Next]_vars PROVE IInv'
  OBVIOUS
<1>1. CASE Next
  BY <1>1, TInvKept, OrderKept, WordsKept DEF IInv
<1>2. CASE UNCHANGED vars
  <2>1. UNCHANGED <<Packet, Threaded, CanReceive(hold), InHand>>
    BY <1>2 DEF vars, sendVars, closeVars, Packet, Threaded, CanReceive,
       IsClosing, InHand
  <2>2. Order'
    BY <1>2, <2>1, OrderStays
       DEF IInv, vars, sendVars, pendingVars, mainVars
  <2>3. Heard => Heard'
    BY <1>2, <2>1 DEF vars, sendVars, mainVars, closeVars, Heard, Sent, OnItsWay
  <2>4. Words'
    BY <1>2, <2>1, <2>3 DEF IInv, vars, sendVars, closeVars, Words, Receivable,
       Emptied, NoLimit
  <2>5. QED
    BY <2>2, <2>4, TInvKept DEF IInv
<1>3. QED
  BY <1>1, <1>2

LEMMA Invariance == Spec => []IInv
  BY Initially, Inductive, PTL DEF Spec

-----------------------------------------------------------------------------
\* Every variable keeps its type: processPacketQueue() and the transactions
\* make nothing but queues of packets, and no batch exceeds its limit.
THEOREM TypeCorrect == Spec => []TypeOK
<1>1. IInv => TypeOK
  BY DEF IInv, TInv
<1>2. QED
  BY <1>1, Invariance, PTL

\* Nothing is sent between two packets of a transaction, however full the
\* queues are and with threads or without: what processPacketQueue() has in
\* hand is of one transaction, which is in no queue any more.
THEOREM SentWhole == Spec => []TransactionsWhole
<1>1. IInv => TransactionsWhole
  BY DEF IInv, Order
<1>2. QED
  BY <1>1, Invariance, PTL

\* Where no queue has a limit, packets of one priority outside transactions
\* are sent in the order they were made: QueuePacketTransaction() puts them
\* into one queue, and what is in hand or sent was before them.
THEOREM SentInTurn == NoLimit => (Spec => []NoOvertaking)
<1> SUFFICES ASSUME NoLimit PROVE Spec => []NoOvertaking
  OBVIOUS
<1>1. IInv => NoOvertaking
  BY DEF IInv, Order
<1>2. QED
  BY <1>1, Invariance, PTL

\* Where no queue has a limit, a server of one thread sends everything that
\* it queued at the highest priority before markWriteClosed().
THEOREM LastWordsSent == NoLimit => (Spec => []LastWordsOfOneThread)
<1> SUFFICES ASSUME NoLimit PROVE Spec => []LastWordsOfOneThread
  OBVIOUS
<1>1. IInv => LastWordsOfOneThread
  BY DEF IInv, Words, Heard, LastWordsOfOneThread, LastWords
<1>2. QED
  BY <1>1, Invariance, PTL
=============================================================================
