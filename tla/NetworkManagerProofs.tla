------------------------- MODULE NetworkManagerProofs -------------------------
(***************************************************************************)
(* For every number of slots, connections, packets, and, where it is said, *)
(* for one network thread: a slot in use is in that thread's hands, has a  *)
(* client as long as the thread holds a packet for it, and no packet or    *)
(* byte of one connection reaches the next one in the same slot.           *)
(***************************************************************************)
EXTENDS NetworkManager, WellFoundedInduction, SequenceTheorems, TLAPS

\* The default of NETWORKTHREADS, 1
SingleThread == \A t, u \in Threads : t = u

\* A thread that holds a packet, and one that works on the state at its place
Holding == {"store", "flushPacket", "outputPacket"}
AtState == Holding \cup {"orphan", "flushSend", "flushBytes", "flushDone",
                         "flushEnd", "outputBytes"}

\* The iterator of a loop over m_states is followed only before its end, and
\* a packet is taken below the limit.
InPlace ==
    \A t \in Threads :
        /\ at[t] >= 1
        /\ pc[t] \in AtState => InList(t)
        /\ pc[t] \in Holding => hold[t] # None
        /\ pc[t] \in {"flushPacket", "outputPacket"} => batch[t] < MaxPerTick

\* init() makes a slot writable before it is in use.
Initialising(s) == slot = s /\ mpc \in {"initRead", "initUse"}

\* A slot that can be written to has a client, and is not free.
WritableHasClient ==
    \A s \in Slots :
        ~writeClosed[s] => client[s] # None /\ (inUse[s] \/ Initialising(s))

TInv == TypeOK /\ InPlace /\ WritableHasClient

\* Only the one thread closes the write side, and not while it holds a packet,
\* and the main thread clears a slot when both sides are closed.
HoldsOwn ==
    \A t \in Threads :
        pc[t] \in Holding => /\ ~writeClosed[Current(t)]
                             /\ hold[t] = client[Current(t)]

\* What waits in the queues of a slot is for its client, or from it.
Only(seq, c) == \A i \in 1..Len(seq) : seq[i] = c

QueuesOwn ==
    \A s \in Slots : /\ Only(out[s], client[s])
                     /\ Only(bytes[s], client[s])
                     /\ Only(raw[s], client[s])

\* Assigned to a thread that has not taken it, or about to be
Assigned(s, t) == s \in Elements(assignQueue[t]) \/ (slot = s /\ mpc = "assign")

\* A slot that is used again before the thread lets go of it is in its queue.
OrphanAssigned ==
    \A t \in Threads :
        pc[t] = "orphan" /\ inUse[Current(t)] => Assigned(Current(t), t)

IInv == TInv /\ HoldsOwn /\ QueuesOwn /\ NoCrossTalk /\ OrphanAssigned
        /\ InUseIsOwned

-----------------------------------------------------------------------------
\* A set of numbers that is not empty has a least one, as findFreeSlot() needs.
LEMMA Least ==
  ASSUME NEW S \in SUBSET Nat, S # {}
  PROVE  \E s \in S : \A r \in S : s <= r
<1> DEFINE R == OpToRel(<, Nat)
<1>1. IsWellFoundedOn(R, Nat)
  BY NatLessThanWellFounded
<1>2. \A r, q \in Nat : r < q => <<r, q>> \in R
  BY DEF OpToRel
<1> HIDE DEF R
<1>3. PICK s \in S : \A r \in S : ~(<<r, s>> \in R)
  BY <1>1, WFMin
<1>4. ASSUME NEW r \in S PROVE s <= r
  <2>1. ~(r < s)
    BY <1>2, <1>3
  <2>2. QED
    BY <2>1
<1>5. QED
  BY <1>4

\* m_states.erase() loses nothing but the slot at its place.
LEMMA RemoveAtKeeps ==
  ASSUME NEW S, NEW seq \in Seq(S), NEW i \in 1..Len(seq)
  PROVE  /\ RemoveAt(seq, i) \in Seq(S)
         /\ \A r \in Elements(seq) :
               r # seq[i] => r \in Elements(RemoveAt(seq, i))
<1> DEFINE a == SubSeq(seq, 1, i - 1)
           b == SubSeq(seq, i + 1, Len(seq))
<1>1. /\ a \in Seq(S) /\ Len(a) = i - 1
      /\ \A k \in 1..(i - 1) : a[k] = seq[k]
  BY SubSeqProperties
<1>2. /\ b \in Seq(S) /\ Len(b) = Len(seq) - i
      /\ \A k \in 1..(Len(seq) - i) : b[k] = seq[i + k]
  <2>1. \A k \in 1..(Len(seq) - i) : (i + 1) + k - 1 = i + k
    OBVIOUS
  <2>2. QED BY <2>1, SubSeqProperties
<1> HIDE DEF a, b
<1>3. /\ a \o b \in Seq(S)
      /\ Len(a \o b) = Len(seq) - 1
      /\ \A k \in 1..(i - 1) : (a \o b)[k] = a[k]
      /\ \A k \in 1..(Len(seq) - i) : (a \o b)[i - 1 + k] = b[k]
  BY <1>1, <1>2, ConcatProperties
<1>4. ASSUME NEW j \in 1..Len(seq), j # i
      PROVE  \E k \in 1..Len(a \o b) : (a \o b)[k] = seq[j]
  <2>1. CASE j < i
    BY <2>1, <1>1, <1>3
  <2>2. CASE j > i
    <3>1. /\ j - i \in 1..(Len(seq) - i)
          /\ i + (j - i) = j /\ i - 1 + (j - i) = j - 1
      BY <2>2
    <3>2. (a \o b)[j - 1] = seq[j]
      BY <3>1, <1>2, <1>3
    <3>3. j - 1 \in 1..Len(a \o b)
      BY <2>2, <1>3
    <3>4. QED
      BY <3>2, <3>3
  <2>3. QED
    BY <2>1, <2>2, <1>4
<1>5. RemoveAt(seq, i) = a \o b
  BY DEF RemoveAt, a, b
<1>6. DOMAIN seq = 1..Len(seq) /\ DOMAIN (a \o b) = 1..Len(a \o b)
  BY <1>3
<1>7. QED
  <2>1. RemoveAt(seq, i) \in Seq(S)
    BY <1>3, <1>5
  <2>2. ASSUME NEW j \in 1..Len(seq), seq[j] # seq[i]
        PROVE  seq[j] \in Elements(a \o b)
    BY <1>4, <1>6, <2>2 DEF Elements
  <2>3. QED
    BY <1>5, <1>6, <2>1, <2>2 DEF Elements

\* What the steps do to a slot's queues
LEMMA Queues ==
  /\ <<>> \in Seq(Conns)
  /\ \A q \in Seq(Conns), c \in Conns : Append(q, c) \in Seq(Conns)
  /\ \A q \in Seq(Conns) :
        q # <<>> => Tail(q) \in Seq(Conns) /\ Head(q) \in Conns
  OBVIOUS

LEMMA Lists ==
  /\ \A q \in Seq(Slots), s \in Slots : Append(q, s) \in Seq(Slots)
  /\ \A q \in Seq(Slots) :
        q # <<>> => Tail(q) \in Seq(Slots) /\ Head(q) \in Slots
  OBVIOUS

\* Slots that go through the queue of a thread
LEMMA ElementsMove ==
  ASSUME NEW S, NEW seq \in Seq(S)
  PROVE  /\ \A e \in S : /\ e \in Elements(Append(seq, e))
                         /\ Elements(seq) \subseteq Elements(Append(seq, e))
         /\ seq # <<>> => \A r \in Elements(seq) :
                             r = Head(seq) \/ r \in Elements(Tail(seq))
<1>1. ASSUME NEW e \in S
      PROVE  /\ e \in Elements(Append(seq, e))
             /\ Elements(seq) \subseteq Elements(Append(seq, e))
  <2>1. /\ DOMAIN Append(seq, e) = 1..(Len(seq) + 1)
        /\ Append(seq, e)[Len(seq) + 1] = e
        /\ \A i \in 1..Len(seq) : Append(seq, e)[i] = seq[i]
    OBVIOUS
  <2>2. DOMAIN seq = 1..Len(seq) /\ Len(seq) \in Nat
    OBVIOUS
  <2>3. QED
    BY <2>1, <2>2 DEF Elements
<1>2. ASSUME seq # <<>>, NEW i \in 1..Len(seq), seq[i] # Head(seq)
      PROVE  seq[i] \in Elements(Tail(seq))
  <2>1. i # 1 /\ Head(seq) = seq[1]
    BY <1>2
  <2>2. /\ i - 1 \in DOMAIN Tail(seq)
        /\ Tail(seq)[i - 1] = seq[i]
    BY <1>2, <2>1
  <2>3. QED
    BY <2>2 DEF Elements
<1>3. QED
  <2>1. DOMAIN seq = 1..Len(seq)
    OBVIOUS
  <2>2. ASSUME seq # <<>>, NEW r \in Elements(seq), r # Head(seq)
        PROVE  r \in Elements(Tail(seq))
    <3>1. PICK i \in 1..Len(seq) : r = seq[i]
      BY <2>1, <2>2 DEF Elements
    <3>2. QED
      BY <1>2, <2>2, <3>1
  <2>3. QED
    BY <1>1, <2>2

\* Packets of one connection that go through a queue
LEMMA OnlyMove ==
  ASSUME NEW S, NEW seq \in Seq(S), NEW c \in S, Only(seq, c)
  PROVE  /\ Only(Append(seq, c), c)
         /\ seq # <<>> => Only(Tail(seq), c) /\ Head(seq) = c
<1>1. Only(Append(seq, c), c)
  <2>1. /\ Len(Append(seq, c)) = Len(seq) + 1
        /\ Append(seq, c)[Len(seq) + 1] = c
        /\ \A i \in 1..Len(seq) : Append(seq, c)[i] = seq[i]
    OBVIOUS
  <2>2. Len(seq) \in Nat
    OBVIOUS
  <2>3. QED
    BY <2>1, <2>2 DEF Only
<1>2. ASSUME seq # <<>> PROVE Only(Tail(seq), c) /\ Head(seq) = c
  <2>1. /\ Len(Tail(seq)) = Len(seq) - 1 /\ 1 \in 1..Len(seq)
        /\ \A i \in 1..(Len(seq) - 1) :
              Tail(seq)[i] = seq[i + 1] /\ i + 1 \in 1..Len(seq)
        /\ Head(seq) = seq[1]
    BY <1>2
  <2>2. QED
    BY <2>1 DEF Only
<1>3. QED
  BY <1>1, <1>2

LEMMA OnlyNothing ==
  ASSUME NEW c
  PROVE  Only(<<>>, c)
  BY DEF Only

LEMMA OnlyIsNotMisdirected ==
  ASSUME NEW s, NEW seq \in Seq(Conns), Only(seq, client[s])
  PROVE  Misdirected(seq, s) = {}
  BY DEF Only, Misdirected

-----------------------------------------------------------------------------
(* The types, and what holds for any number of threads *)

\* TypeOK in parts
FlagsTyped ==
    /\ inUse \in [Slots -> BOOLEAN] /\ needsFlush \in [Slots -> BOOLEAN]
    /\ readClosed \in [Slots -> BOOLEAN] /\ writeClosed \in [Slots -> BOOLEAN]
OwnersTyped ==
    /\ client \in [Slots -> Conns \cup {None}]
    /\ parent \in [Slots -> Threads \cup {NoThread}]
QueuesTyped ==
    /\ out \in [Slots -> Seq(Conns)] /\ bytes \in [Slots -> Seq(Conns)]
    /\ raw \in [Slots -> Seq(Conns)]
ListsTyped ==
    /\ assignQueue \in [Threads -> Seq(Slots)]
    /\ states \in [Threads -> Seq(Slots)]
PlacesTyped == pc \in [Threads -> ThreadPC] /\ at \in [Threads -> Nat]
HandsTyped ==
    /\ hold \in [Threads -> Conns \cup {None}]
    /\ batch \in [Threads -> 0..MaxPerTick]
    /\ sent \in [Threads -> BOOLEAN] /\ signalled \in [Threads -> BOOLEAN]
MainTyped ==
    /\ mpc \in MainPC /\ slot \in Slots /\ lastGiven \in Slots
    /\ accepted \in 0..MaxConn
OutsideTyped ==
    /\ peer \in [Conns -> {"none", "quiet", "data", "gone"}]
    /\ late \subseteq Conns
    /\ strays \in SUBSET (Conns \X (Conns \cup {None}))

LEMMA Parts ==
  TypeOK <=> /\ FlagsTyped /\ OwnersTyped /\ QueuesTyped /\ ListsTyped
             /\ PlacesTyped /\ HandsTyped /\ MainTyped /\ OutsideTyped
  BY DEF TypeOK, FlagsTyped, OwnersTyped, QueuesTyped, ListsTyped, PlacesTyped,
         HandsTyped, MainTyped, OutsideTyped

LEMMA Domains ==
  /\ Slots \subseteq Nat \ {0} /\ Conns \subseteq Nat \ {0}
  /\ SlotCount \in Slots /\ MaxConn \in Nat /\ MaxPerTick \in Nat
  /\ 1 \in Slots /\ None \notin Conns
  BY BoundsAssumption DEF Slots, Conns, None

\* Followed in its place, the iterator gives a slot.
LEMMA CurrentIsSlot ==
  ASSUME ListsTyped, PlacesTyped, NEW t \in Threads, at[t] >= 1, InList(t)
  PROVE  Current(t) \in Slots
  BY DEF ListsTyped, PlacesTyped, Current, InList

\* The state a thread works on is a slot.
LEMMA AtStateIsSlot ==
  ASSUME TypeOK, InPlace, NEW t \in Threads, pc[t] \in AtState
  PROVE  Current(t) \in Slots
  BY Parts, CurrentIsSlot DEF InPlace

\* findFreeSlot() finds a slot that is free, whenever there is one.
LEMMA FindsFreeSlot ==
  ASSUME OwnersTyped, FlagsTyped, \E s \in Slots : ~inUse[s]
  PROVE  FindFreeSlot \in Slots /\ ~inUse[FindFreeSlot]
<1> DEFINE free == {s \in Slots : ~inUse[s]}
           after == {s \in free : s > lastGiven}
           range == IF after = {} THEN free ELSE after
<1>1. range # {} /\ range \in SUBSET Nat
  BY Domains
<1>2. \E s \in range : \A r \in range : s <= r
  BY <1>1, Least
<1>3. FindFreeSlot \in range
  BY <1>2 DEF FindFreeSlot
<1>4. QED
  BY <1>3

LEMMA FlagsKept ==
  ASSUME TypeOK, Next
  PROVE  FlagsTyped'
<1> USE Parts, Domains
    DEF FlagsTyped, slotVars, queueVars, listVars, sendVars, threadVars,
        mainVars, outsideVars
<1>1. ASSUME NEW t \in Threads, ReceiveFails(t) PROVE FlagsTyped'
  BY <1>1 DEF ReceiveFails, NextState, Current, Awaken
<1>2. ASSUME NEW t \in Threads, FlushDone(t) PROVE FlagsTyped'
  BY <1>2 DEF FlushDone, Goto, Current
<1>3. ASSUME NEW t \in Threads, CheckClosing(t) PROVE FlagsTyped'
  BY <1>3 DEF CheckClosing, Goto, NextState, Current
<1>4. ASSUME NEW t \in Threads, SendBytesFails(t) PROVE FlagsTyped'
  BY <1>4 DEF SendBytesFails, AfterBytes, Goto, NextState, Current
<1>5. CASE AcceptNewConnection
  BY <1>5 DEF AcceptNewConnection, MainGoto
<1>6. CASE InitRead
  BY <1>6 DEF InitRead, MainGoto
<1>7. CASE InitUse
  BY <1>7 DEF InitUse, MainGoto
<1>8. CASE MarkReadClosed
  BY <1>8 DEF MarkReadClosed, MainGoto, NextSlot, Awaken
<1>9. CASE TickFlush
  BY <1>9 DEF TickFlush, MainGoto, NextSlot, Awaken
<1>10. CASE TickClosing
  BY <1>10 DEF TickClosing, MainGoto, Awaken
<1>11. CASE Clear
  BY <1>11 DEF Clear, MainGoto, NextSlot, ClearSlot
<1>12. ASSUME NEW t \in Threads, Sleep(t) \/ CheckNewStates(t) \/
            DropInvalidStates(t) \/ Orphan(t) \/ EndDrop(t) \/
            ReceiveNothing(t) \/ Receive(t) \/ Store(t) \/ EndReceive(t) \/
            CheckFlush(t) \/ EndFlush(t) \/ TakePacket(t) \/ SendPacket(t) \/
            EndPackets(t) \/ SendNoBytes(t) \/ SendBytes(t) \/
            SendBytesLater(t) \/ EndOutput(t) \/ SpuriousWakeup(t)
        PROVE  FlagsTyped'
  BY <1>12 DEF Sleep, CheckNewStates, DropInvalidStates, Orphan, EndDrop,
     ReceiveNothing, Receive, Store, EndReceive, CheckFlush, EndFlush,
     TakePacket, SendPacket, EndPackets, SendNoBytes, SendBytes,
     SendBytesLater, EndOutput, SpuriousWakeup
<1>13. ASSUME NoConnection \/ AssignNetworkState \/ CheckForData \/
            ProcessData \/ NoReaction \/ QueuePacketTransaction \/ TickOpen
        PROVE  FlagsTyped'
  BY <1>13 DEF NoConnection, AssignNetworkState, CheckForData, ProcessData,
     NoReaction, QueuePacketTransaction, TickOpen
<1>14. ASSUME NEW c \in Conns, PeerSends(c) \/ PeerLeaves(c)
        PROVE  FlagsTyped'
  BY <1>14 DEF PeerSends, PeerLeaves
<1>15. QED
  BY <1>1, <1>2, <1>3, <1>4, <1>5, <1>6, <1>7, <1>8, <1>9, <1>10, <1>11,
     <1>12, <1>13, <1>14 DEF Next, ThreadStep, MainStep

LEMMA OwnersKept ==
  ASSUME TypeOK, Next
  PROVE  OwnersTyped'
<1> USE Parts, Domains
    DEF OwnersTyped, slotVars, queueVars, listVars, sendVars, threadVars,
        mainVars, outsideVars
<1>1. ASSUME NEW t \in Threads, CheckNewStates(t) PROVE OwnersTyped'
  BY <1>1 DEF CheckNewStates, Goto, FirstState
<1>2. ASSUME NEW t \in Threads, Orphan(t) PROVE OwnersTyped'
  BY <1>2 DEF Orphan, Goto, Current
<1>3. CASE AcceptNewConnection
  <2>1. /\ accepted + 1 \in Conns
        /\ client' = [client EXCEPT ![FindFreeSlot] = accepted + 1]
        /\ UNCHANGED parent
    BY <1>3, BoundsAssumption DEF AcceptNewConnection, MainTyped, Conns
  <2>2. QED
    BY <2>1
<1>4. CASE Clear
  BY <1>4 DEF Clear, MainGoto, NextSlot, ClearSlot
<1>5. ASSUME NEW t \in Threads, Sleep(t) \/ DropInvalidStates(t) \/ EndDrop(t)
            \/ ReceiveNothing(t) \/ Receive(t) \/ Store(t) \/ ReceiveFails(t)
            \/ EndReceive(t) \/ CheckFlush(t) \/ FlushDone(t) \/
            CheckClosing(t) \/ EndFlush(t) \/ TakePacket(t) \/ SendPacket(t)
            \/ EndPackets(t) \/ SendNoBytes(t) \/ SendBytes(t) \/
            SendBytesLater(t) \/ SendBytesFails(t) \/ EndOutput(t) \/
            SpuriousWakeup(t)
        PROVE  OwnersTyped'
  BY <1>5 DEF Sleep, DropInvalidStates, EndDrop, ReceiveNothing, Receive,
     Store, ReceiveFails, EndReceive, CheckFlush, FlushDone, CheckClosing,
     EndFlush, TakePacket, SendPacket, EndPackets, SendNoBytes, SendBytes,
     SendBytesLater, SendBytesFails, EndOutput, SpuriousWakeup
<1>6. ASSUME NoConnection \/ InitRead \/ InitUse \/ AssignNetworkState \/
            CheckForData \/ ProcessData \/ NoReaction \/
            QueuePacketTransaction \/ MarkReadClosed \/ TickOpen \/ TickFlush
            \/ TickClosing
        PROVE  OwnersTyped'
  BY <1>6 DEF NoConnection, InitRead, InitUse, AssignNetworkState,
     CheckForData, ProcessData, NoReaction, QueuePacketTransaction,
     MarkReadClosed, TickOpen, TickFlush, TickClosing
<1>7. ASSUME NEW c \in Conns, PeerSends(c) \/ PeerLeaves(c)
        PROVE  OwnersTyped'
  BY <1>7 DEF PeerSends, PeerLeaves
<1>8. QED
  BY <1>1, <1>2, <1>3, <1>4, <1>5, <1>6, <1>7 DEF Next, ThreadStep, MainStep

LEMMA QueuesKept ==
  ASSUME TypeOK, InPlace, Next
  PROVE  QueuesTyped'
<1> DEFINE Q == Seq(Conns)
           Typed == /\ out \in [Slots -> Q] /\ bytes \in [Slots -> Q]
                    /\ raw \in [Slots -> Q]
<1>q. /\ <<>> \in Q
      /\ \A q \in Q, c \in Conns : Append(q, c) \in Q
      /\ \A q \in Q : q # <<>> => Tail(q) \in Q /\ Head(q) \in Conns
  BY Queues
<1>i. Typed
  BY Parts DEF QueuesTyped
<1>g. SUFFICES Typed'
  BY DEF QueuesTyped
<1>s. \A s \in Slots : client[s] \in Conns \cup {None}
  BY Parts DEF OwnersTyped
<1>h. \A t \in Threads : pc[t] \in Holding => hold[t] \in Conns
  BY Parts, Domains DEF InPlace, HandsTyped
<1> HIDE DEF Q
<1> USE <1>q, <1>i DEF slotVars, queueVars, listVars, sendVars, threadVars,
        mainVars, outsideVars
<1>1. ASSUME NEW t \in Threads, Store(t) PROVE Typed'
  <2>1. Current(t) \in Slots /\ hold[t] \in Conns
    BY <1>1, <1>h, AtStateIsSlot DEF Store, Holding, AtState
  <2>2. QED
    BY <1>1, <2>1 DEF Store
<1>2. ASSUME NEW t \in Threads, TakePacket(t) PROVE Typed'
  BY <1>2 DEF TakePacket
<1>3. ASSUME NEW t \in Threads, SendPacket(t) PROVE Typed'
  <2>1. Current(t) \in Slots /\ hold[t] \in Conns
    BY <1>3, <1>h, AtStateIsSlot DEF SendPacket, Holding, AtState
  <2>2. QED
    <3>1. CASE inUse[Current(t)] /\ client[Current(t)] # None
      <4>1. /\ bytes' = [bytes EXCEPT ![Current(t)] = Append(@, hold[t])]
            /\ UNCHANGED <<out, raw>>
        BY <1>3, <3>1 DEF SendPacket
      <4>2. QED
        BY <4>1, <2>1
    <3>2. CASE ~(inUse[Current(t)] /\ client[Current(t)] # None)
      BY <1>3, <3>2 DEF SendPacket
    <3>3. QED
      BY <3>1, <3>2
<1>4. ASSUME NEW t \in Threads, SendBytes(t) PROVE Typed'
  BY <1>4 DEF SendBytes
<1>5. ASSUME NEW t \in Threads, SendBytesFails(t) PROVE Typed'
  BY <1>5 DEF SendBytesFails
<1>6. CASE AcceptNewConnection
  BY <1>6 DEF AcceptNewConnection
<1>7. CASE ProcessData
  BY <1>7 DEF ProcessData
<1>8. CASE QueuePacketTransaction
  <2>1. PICK s \in Slots :
          client[s] # None /\ out' = [out EXCEPT ![s] = Append(@, client[s])]
    BY <1>8 DEF QueuePacketTransaction
  <2>2. client[s] \in Conns
    BY <2>1, <1>s
  <2>3. QED
    BY <1>8, <2>1, <2>2 DEF QueuePacketTransaction
<1>9. CASE Clear
  BY <1>9 DEF Clear, ClearSlot
<1>10. ASSUME NEW t \in Threads, Sleep(t) \/ CheckNewStates(t) \/
            DropInvalidStates(t) \/ Orphan(t) \/ EndDrop(t) \/
            ReceiveNothing(t) \/ Receive(t) \/ ReceiveFails(t) \/
            EndReceive(t) \/ CheckFlush(t) \/ FlushDone(t) \/ CheckClosing(t)
            \/ EndFlush(t) \/ EndPackets(t) \/ SendNoBytes(t) \/
            SendBytesLater(t) \/ EndOutput(t) \/ SpuriousWakeup(t)
        PROVE  Typed'
  BY <1>10 DEF Sleep, CheckNewStates, DropInvalidStates, Orphan, EndDrop,
     ReceiveNothing, Receive, ReceiveFails, EndReceive, CheckFlush, FlushDone,
     CheckClosing, EndFlush, EndPackets, SendNoBytes, SendBytesLater,
     EndOutput, SpuriousWakeup
<1>11. ASSUME NoConnection \/ InitRead \/ InitUse \/ AssignNetworkState \/
            CheckForData \/ NoReaction \/ MarkReadClosed \/ TickOpen \/
            TickFlush \/ TickClosing
        PROVE  Typed'
  BY <1>11 DEF NoConnection, InitRead, InitUse, AssignNetworkState,
     CheckForData, NoReaction, MarkReadClosed, TickOpen, TickFlush,
     TickClosing
<1>12. ASSUME NEW c \in Conns, PeerSends(c) \/ PeerLeaves(c)
        PROVE  Typed'
  BY <1>12 DEF PeerSends, PeerLeaves
<1>13. QED
  BY <1>1, <1>2, <1>3, <1>4, <1>5, <1>6, <1>7, <1>8, <1>9, <1>10, <1>11, <1>12
     DEF Next, ThreadStep, MainStep

LEMMA ListsKept ==
  ASSUME TypeOK, InPlace, Next
  PROVE  ListsTyped'
<1> USE Parts, Domains
    DEF ListsTyped, slotVars, queueVars, listVars, sendVars, threadVars,
        mainVars, outsideVars
<1>1. ASSUME NEW t \in Threads, CheckNewStates(t) PROVE ListsTyped'
  <2>1. CASE assignQueue[t] # <<>>
    <3>1. /\ states' = [states EXCEPT ![t] =
                           Append(@, Head(assignQueue[t]))]
          /\ assignQueue' = [assignQueue EXCEPT ![t] = Tail(@)]
      BY <1>1, <2>1 DEF CheckNewStates
    <3>2. QED
      BY <2>1, <3>1, Lists
  <2>2. CASE assignQueue[t] = <<>>
    BY <1>1, <2>2 DEF CheckNewStates
  <2>3. QED
    BY <2>1, <2>2
<1>2. ASSUME NEW t \in Threads, DropInvalidStates(t) PROVE ListsTyped'
  <2>1. at[t] \in 1..Len(states[t])
    BY <1>2 DEF DropInvalidStates, InList, InPlace, PlacesTyped
  <2>2. RemoveAt(states[t], at[t]) \in Seq(Slots)
    BY <2>1, RemoveAtKeeps
  <2>3. QED
    BY <1>2, <2>2 DEF DropInvalidStates
<1>3. ASSUME NEW t \in Threads, Orphan(t) PROVE ListsTyped'
  <2>1. at[t] \in 1..Len(states[t])
    BY <1>3 DEF Orphan, InList, InPlace, AtState, PlacesTyped
  <2>2. RemoveAt(states[t], at[t]) \in Seq(Slots)
    BY <2>1, RemoveAtKeeps
  <2>3. QED
    BY <1>3, <2>2 DEF Orphan
<1>4. CASE AssignNetworkState
  <2>1. PICK t \in Threads :
          assignQueue' = [assignQueue EXCEPT ![t] = Append(@, slot)]
    BY <1>4 DEF AssignNetworkState
  <2>2. QED
    BY <1>4, <2>1, Lists DEF AssignNetworkState, MainTyped
<1>5. ASSUME NEW t \in Threads, Sleep(t) \/ EndDrop(t) \/ ReceiveNothing(t) \/
            Receive(t) \/ Store(t) \/ ReceiveFails(t) \/ EndReceive(t) \/
            CheckFlush(t) \/ FlushDone(t) \/ CheckClosing(t) \/ EndFlush(t) \/
            TakePacket(t) \/ SendPacket(t) \/ EndPackets(t) \/ SendNoBytes(t)
            \/ SendBytes(t) \/ SendBytesLater(t) \/ SendBytesFails(t) \/
            EndOutput(t) \/ SpuriousWakeup(t)
        PROVE  ListsTyped'
  BY <1>5 DEF Sleep, EndDrop, ReceiveNothing, Receive, Store, ReceiveFails,
     EndReceive, CheckFlush, FlushDone, CheckClosing, EndFlush, TakePacket,
     SendPacket, EndPackets, SendNoBytes, SendBytes, SendBytesLater,
     SendBytesFails, EndOutput, SpuriousWakeup
<1>6. ASSUME NoConnection \/ AcceptNewConnection \/ InitRead \/ InitUse \/
            CheckForData \/ ProcessData \/ NoReaction \/
            QueuePacketTransaction \/ MarkReadClosed \/ TickOpen \/ TickFlush
            \/ TickClosing \/ Clear
        PROVE  ListsTyped'
  BY <1>6 DEF NoConnection, AcceptNewConnection, InitRead, InitUse,
     CheckForData, ProcessData, NoReaction, QueuePacketTransaction,
     MarkReadClosed, TickOpen, TickFlush, TickClosing, Clear
<1>7. ASSUME NEW c \in Conns, PeerSends(c) \/ PeerLeaves(c)
        PROVE  ListsTyped'
  BY <1>7 DEF PeerSends, PeerLeaves
<1>8. QED
  BY <1>1, <1>2, <1>3, <1>4, <1>5, <1>6, <1>7 DEF Next, ThreadStep, MainStep

LEMMA PlacesKept ==
  ASSUME TypeOK, Next
  PROVE  PlacesTyped'
<1> USE Parts, Domains
    DEF PlacesTyped, ThreadPC, Flushing, Sending, MainGoto, slotVars,
        queueVars, listVars, sendVars, threadVars, mainVars, outsideVars
<1>1. ASSUME NEW t \in Threads, Sleep(t) PROVE PlacesTyped'
  BY <1>1 DEF Sleep
<1>2. ASSUME NEW t \in Threads, CheckNewStates(t) PROVE PlacesTyped'
  BY <1>2 DEF CheckNewStates, Goto, FirstState
<1>3. ASSUME NEW t \in Threads, DropInvalidStates(t) PROVE PlacesTyped'
  BY <1>3 DEF DropInvalidStates, Goto, NextState
<1>4. ASSUME NEW t \in Threads, Orphan(t) PROVE PlacesTyped'
  BY <1>4 DEF Orphan, Goto
<1>5. ASSUME NEW t \in Threads, EndDrop(t) PROVE PlacesTyped'
  BY <1>5 DEF EndDrop, Goto, FirstState
<1>6. ASSUME NEW t \in Threads, ReceiveNothing(t) PROVE PlacesTyped'
  BY <1>6 DEF ReceiveNothing, NextState
<1>7. ASSUME NEW t \in Threads, Receive(t) PROVE PlacesTyped'
  BY <1>7 DEF Receive, Goto
<1>8. ASSUME NEW t \in Threads, Store(t) PROVE PlacesTyped'
  BY <1>8 DEF Store, Goto, NextState
<1>9. ASSUME NEW t \in Threads, ReceiveFails(t) PROVE PlacesTyped'
  BY <1>9 DEF ReceiveFails, NextState, Awaken
<1>10. ASSUME NEW t \in Threads, EndReceive(t) PROVE PlacesTyped'
  BY <1>10 DEF EndReceive, Goto, FirstState
<1>11. ASSUME NEW t \in Threads, CheckFlush(t) PROVE PlacesTyped'
  BY <1>11 DEF CheckFlush, Goto, NextState
<1>12. ASSUME NEW t \in Threads, FlushDone(t) PROVE PlacesTyped'
  BY <1>12 DEF FlushDone, Goto
<1>13. ASSUME NEW t \in Threads, CheckClosing(t) PROVE PlacesTyped'
  BY <1>13 DEF CheckClosing, Goto, NextState
<1>14. ASSUME NEW t \in Threads, EndFlush(t) PROVE PlacesTyped'
  BY <1>14 DEF EndFlush, Goto, FirstState
<1>15. ASSUME NEW t \in Threads, TakePacket(t) PROVE PlacesTyped'
  BY <1>15 DEF TakePacket, Goto
<1>16. ASSUME NEW t \in Threads, SendPacket(t) PROVE PlacesTyped'
  BY <1>16 DEF SendPacket, Goto
<1>17. ASSUME NEW t \in Threads, EndPackets(t) PROVE PlacesTyped'
  BY <1>17 DEF EndPackets, Goto
<1>18. ASSUME NEW t \in Threads, SendNoBytes(t) PROVE PlacesTyped'
  BY <1>18 DEF SendNoBytes, AfterBytes, Goto, NextState
<1>19. ASSUME NEW t \in Threads, SendBytes(t) PROVE PlacesTyped'
  BY <1>19 DEF SendBytes, AfterBytes, Goto, NextState
<1>20. ASSUME NEW t \in Threads, SendBytesLater(t) PROVE PlacesTyped'
  BY <1>20 DEF SendBytesLater, AfterBytes, Goto, NextState
<1>21. ASSUME NEW t \in Threads, SendBytesFails(t) PROVE PlacesTyped'
  <2>1. AfterBytes(t)
    BY <1>21 DEF SendBytesFails
  <2>2. QED
    BY <2>1 DEF AfterBytes, Goto, NextState
<1>22. ASSUME NEW t \in Threads, EndOutput(t) PROVE PlacesTyped'
  BY <1>22 DEF EndOutput, FirstState, Awaken
<1>23. ASSUME NEW t \in Threads, SpuriousWakeup(t) PROVE PlacesTyped'
  BY <1>23 DEF SpuriousWakeup
<1>24. CASE AssignNetworkState
  BY <1>24 DEF AssignNetworkState, MainGoto, Awaken
<1>25. CASE CheckForData
  BY <1>25 DEF CheckForData, MainGoto, Awaken
<1>26. CASE QueuePacketTransaction
  BY <1>26 DEF QueuePacketTransaction, MainGoto, NextSlot, Awaken
<1>27. CASE MarkReadClosed
  BY <1>27 DEF MarkReadClosed, MainGoto, NextSlot, Awaken
<1>28. CASE TickOpen
  BY <1>28 DEF TickOpen, MainGoto, NextSlot, Awaken
<1>29. CASE TickFlush
  BY <1>29 DEF TickFlush, MainGoto, NextSlot, Awaken
<1>30. CASE TickClosing
  BY <1>30 DEF TickClosing, MainGoto, Awaken
<1>31. ASSUME NoConnection \/ AcceptNewConnection \/ InitRead \/ InitUse \/
            ProcessData \/ NoReaction \/ Clear
        PROVE  PlacesTyped'
  BY <1>31 DEF NoConnection, AcceptNewConnection, InitRead, InitUse,
     ProcessData, NoReaction, Clear
<1>32. ASSUME NEW c \in Conns, PeerSends(c) \/ PeerLeaves(c)
        PROVE  PlacesTyped'
  BY <1>32 DEF PeerSends, PeerLeaves
<1>33. QED
  BY <1>1, <1>2, <1>3, <1>4, <1>5, <1>6, <1>7, <1>8, <1>9, <1>10, <1>11,
     <1>12, <1>13, <1>14, <1>15, <1>16, <1>17, <1>18, <1>19, <1>20, <1>21,
     <1>22, <1>23, <1>24, <1>25, <1>26, <1>27, <1>28, <1>29, <1>30, <1>31,
     <1>32 DEF Next, ThreadStep, MainStep

LEMMA HandsKept ==
  ASSUME TypeOK, InPlace, Next
  PROVE  HandsTyped'
<1> USE Parts, Domains
    DEF HandsTyped, slotVars, queueVars, listVars, sendVars, threadVars,
        mainVars, outsideVars
<1>1. ASSUME NEW t \in Threads, Sleep(t) PROVE HandsTyped'
  BY <1>1 DEF Sleep
<1>2. ASSUME NEW t \in Threads, Receive(t) PROVE HandsTyped'
  <2>1. /\ InList(t)
        /\ hold' = [hold EXCEPT ![t] = client[Current(t)]]
        /\ UNCHANGED <<batch, sent, signalled>>
    BY <1>2 DEF Receive
  <2>2. client[Current(t)] \in Conns \cup {None}
    BY <2>1, CurrentIsSlot DEF InPlace, OwnersTyped
  <2>3. QED
    BY <2>1, <2>2
<1>3. ASSUME NEW t \in Threads, Store(t) PROVE HandsTyped'
  BY <1>3 DEF Store, Goto, NextState, Current
<1>4. ASSUME NEW t \in Threads, ReceiveFails(t) PROVE HandsTyped'
  BY <1>4 DEF ReceiveFails, NextState, Current, Awaken
<1>5. ASSUME NEW t \in Threads, TakePacket(t) PROVE HandsTyped'
  <2>1. InList(t)
    BY <1>5 DEF TakePacket, InPlace, AtState
  <2>2. out[Current(t)] \in Seq(Conns)
    BY <2>1, CurrentIsSlot DEF InPlace, QueuesTyped
  <2>3. /\ out[Current(t)] # <<>>
        /\ hold' = [hold EXCEPT ![t] = Head(out[Current(t)])]
        /\ UNCHANGED <<batch, sent, signalled>>
    BY <1>5 DEF TakePacket
  <2>4. Head(out[Current(t)]) \in Conns
    BY <2>2, <2>3, Queues
  <2>5. QED
    BY <2>3, <2>4
<1>6. ASSUME NEW t \in Threads, SendPacket(t) PROVE HandsTyped'
  <2>1. batch[t] \in 0..MaxPerTick /\ batch[t] < MaxPerTick
    BY <1>6 DEF SendPacket, InPlace
  <2>2. batch[t] + 1 \in 0..MaxPerTick
    BY <2>1
  <2>3. hold' = [hold EXCEPT ![t] = None] /\ UNCHANGED signalled
    BY <1>6 DEF SendPacket
  <2>4. CASE inUse[Current(t)] /\ client[Current(t)] # None
    <3>1. /\ batch' = [batch EXCEPT ![t] = batch[t] + 1]
          /\ sent' = [sent EXCEPT ![t] = sent[t] \/ pc[t] = "outputPacket"]
      BY <1>6, <2>4 DEF SendPacket
    <3>2. batch' \in [Threads -> 0..MaxPerTick]
      BY <2>2, <3>1
    <3>3. sent' \in [Threads -> BOOLEAN]
      BY <3>1
    <3>4. QED
      BY <2>3, <3>2, <3>3
  <2>5. CASE ~(inUse[Current(t)] /\ client[Current(t)] # None)
    <3>1. UNCHANGED <<batch, sent>>
      BY <1>6, <2>5 DEF SendPacket
    <3>2. QED
      BY <2>3, <3>1
  <2>6. QED
    BY <2>4, <2>5
<1>7. ASSUME NEW t \in Threads, EndPackets(t) PROVE HandsTyped'
  BY <1>7 DEF EndPackets, Goto, Current
<1>8. ASSUME NEW t \in Threads, SendBytes(t) PROVE HandsTyped'
  BY <1>8 DEF SendBytes, AfterBytes, Goto, NextState, Current
<1>9. ASSUME NEW t \in Threads, SendBytesLater(t) PROVE HandsTyped'
  BY <1>9 DEF SendBytesLater, AfterBytes, Goto, NextState
<1>10. ASSUME NEW t \in Threads, EndOutput(t) PROVE HandsTyped'
  BY <1>10 DEF EndOutput, FirstState, Awaken
<1>11. CASE AssignNetworkState
  BY <1>11 DEF AssignNetworkState, MainGoto, Awaken
<1>12. CASE CheckForData
  BY <1>12 DEF CheckForData, MainGoto, Awaken
<1>13. CASE QueuePacketTransaction
  BY <1>13 DEF QueuePacketTransaction, MainGoto, NextSlot, Awaken
<1>14. CASE MarkReadClosed
  BY <1>14 DEF MarkReadClosed, MainGoto, NextSlot, Awaken
<1>15. CASE TickOpen
  BY <1>15 DEF TickOpen, MainGoto, NextSlot, Awaken
<1>16. CASE TickFlush
  BY <1>16 DEF TickFlush, MainGoto, NextSlot, Awaken
<1>17. CASE TickClosing
  BY <1>17 DEF TickClosing, MainGoto, Awaken
<1>18. ASSUME NEW t \in Threads, CheckNewStates(t) \/ DropInvalidStates(t) \/
            Orphan(t) \/ EndDrop(t) \/ ReceiveNothing(t) \/ EndReceive(t) \/
            CheckFlush(t) \/ FlushDone(t) \/ CheckClosing(t) \/ EndFlush(t) \/
            SendNoBytes(t) \/ SendBytesFails(t) \/ SpuriousWakeup(t)
        PROVE  HandsTyped'
  BY <1>18 DEF CheckNewStates, DropInvalidStates, Orphan, EndDrop,
     ReceiveNothing, EndReceive, CheckFlush, FlushDone, CheckClosing,
     EndFlush, SendNoBytes, SendBytesFails, SpuriousWakeup
<1>19. ASSUME NoConnection \/ AcceptNewConnection \/ InitRead \/ InitUse \/
            ProcessData \/ NoReaction \/ Clear
        PROVE  HandsTyped'
  BY <1>19 DEF NoConnection, AcceptNewConnection, InitRead, InitUse,
     ProcessData, NoReaction, Clear
<1>20. ASSUME NEW c \in Conns, PeerSends(c) \/ PeerLeaves(c)
        PROVE  HandsTyped'
  BY <1>20 DEF PeerSends, PeerLeaves
<1>21. QED
  BY <1>1, <1>2, <1>3, <1>4, <1>5, <1>6, <1>7, <1>8, <1>9, <1>10, <1>11,
     <1>12, <1>13, <1>14, <1>15, <1>16, <1>17, <1>18, <1>19, <1>20 DEF Next,
     ThreadStep, MainStep

LEMMA MainKept ==
  ASSUME TypeOK, Next
  PROVE  MainTyped'
<1> USE Parts, Domains, BoundsAssumption
    DEF MainTyped, MainPC, Slots, slotVars, queueVars, listVars, sendVars,
        threadVars, mainVars, outsideVars
<1>1. CASE NoConnection
  BY <1>1 DEF NoConnection, MainGoto
<1>2. CASE AcceptNewConnection
  BY <1>2, FindsFreeSlot DEF AcceptNewConnection, MainGoto
<1>3. CASE InitRead
  BY <1>3 DEF InitRead, MainGoto
<1>4. CASE InitUse
  BY <1>4 DEF InitUse, MainGoto
<1>5. CASE AssignNetworkState
  BY <1>5 DEF AssignNetworkState, MainGoto
<1>6. CASE CheckForData
  BY <1>6 DEF CheckForData, MainGoto
<1>7. CASE ProcessData
  BY <1>7 DEF ProcessData, MainGoto
<1>8. CASE NoReaction
  BY <1>8 DEF NoReaction, MainGoto, NextSlot
<1>9. CASE QueuePacketTransaction
  BY <1>9 DEF QueuePacketTransaction, MainGoto, NextSlot
<1>10. CASE MarkReadClosed
  BY <1>10 DEF MarkReadClosed, MainGoto, NextSlot
<1>11. CASE TickOpen
  BY <1>11 DEF TickOpen, MainGoto, NextSlot
<1>12. CASE TickFlush
  BY <1>12 DEF TickFlush, MainGoto, NextSlot
<1>13. CASE TickClosing
  BY <1>13 DEF TickClosing, MainGoto
<1>14. CASE Clear
  BY <1>14 DEF Clear, MainGoto, NextSlot, ClearSlot
<1>15. ASSUME NEW t \in Threads, Sleep(t) \/ CheckNewStates(t) \/
            DropInvalidStates(t) \/ Orphan(t) \/ EndDrop(t) \/
            ReceiveNothing(t) \/ Receive(t) \/ Store(t) \/ ReceiveFails(t) \/
            EndReceive(t) \/ CheckFlush(t) \/ FlushDone(t) \/ CheckClosing(t)
            \/ EndFlush(t) \/ TakePacket(t) \/ SendPacket(t) \/ EndPackets(t)
            \/ SendNoBytes(t) \/ SendBytes(t) \/ SendBytesLater(t) \/
            SendBytesFails(t) \/ EndOutput(t) \/ SpuriousWakeup(t)
        PROVE  MainTyped'
  BY <1>15 DEF Sleep, CheckNewStates, DropInvalidStates, Orphan, EndDrop,
     ReceiveNothing, Receive, Store, ReceiveFails, EndReceive, CheckFlush,
     FlushDone, CheckClosing, EndFlush, TakePacket, SendPacket, EndPackets,
     SendNoBytes, SendBytes, SendBytesLater, SendBytesFails, EndOutput,
     SpuriousWakeup
<1>16. ASSUME NEW c \in Conns, PeerSends(c) \/ PeerLeaves(c)
        PROVE  MainTyped'
  BY <1>16 DEF PeerSends, PeerLeaves
<1>17. QED
  BY <1>1, <1>2, <1>3, <1>4, <1>5, <1>6, <1>7, <1>8, <1>9, <1>10, <1>11,
     <1>12, <1>13, <1>14, <1>15, <1>16 DEF Next, ThreadStep, MainStep

LEMMA MisdirectedTyped ==
  ASSUME QueuesTyped, OwnersTyped, NEW s \in Slots,
         NEW seq \in Seq(Conns)
  PROVE  Misdirected(seq, s) \in SUBSET (Conns \X (Conns \cup {None}))
  BY DEF OwnersTyped, Misdirected

LEMMA OutsideKept ==
  ASSUME TypeOK, InPlace, Next
  PROVE  OutsideTyped'
<1> USE Parts, Domains
    DEF OutsideTyped, slotVars, queueVars, listVars, sendVars, threadVars,
        mainVars, outsideVars
<1>1. ASSUME NEW t \in Threads, Receive(t) PROVE OutsideTyped'
  BY <1>1 DEF Receive
<1>2. ASSUME NEW t \in Threads, SendBytes(t) PROVE OutsideTyped'
  <2>1. Current(t) \in Slots
    BY <1>2, AtStateIsSlot DEF SendBytes, AtState
  <2>2. /\ strays' = strays \cup Misdirected(bytes[Current(t)], Current(t))
        /\ UNCHANGED <<peer, late>>
    BY <1>2 DEF SendBytes
  <2>3. QED
    BY <2>1, <2>2, MisdirectedTyped DEF QueuesTyped
<1>3. CASE AcceptNewConnection
  BY <1>3 DEF AcceptNewConnection
<1>4. CASE ProcessData
  <2>1. /\ UNCHANGED <<peer, late>>
        /\ \/ UNCHANGED strays
           \/ strays' = strays \cup Misdirected(raw[slot], slot)
    BY <1>4 DEF ProcessData
  <2>2. QED
    BY <2>1, MisdirectedTyped DEF QueuesTyped, MainTyped
<1>5. CASE QueuePacketTransaction
  <2>1. PICK s \in Slots :
          /\ client[s] # None
          /\ late' = IF IsClosing(s) THEN late \cup {client[s]} ELSE late
    BY <1>5 DEF QueuePacketTransaction
  <2>2. QED
    BY <1>5, <2>1 DEF QueuePacketTransaction, OwnersTyped
<1>6. ASSUME NEW c \in Conns, PeerSends(c) PROVE OutsideTyped'
  BY <1>6 DEF PeerSends
<1>7. ASSUME NEW c \in Conns, PeerLeaves(c) PROVE OutsideTyped'
  BY <1>7 DEF PeerLeaves
<1>8. ASSUME NEW t \in Threads, Sleep(t) \/ CheckNewStates(t) \/
            DropInvalidStates(t) \/ Orphan(t) \/ EndDrop(t) \/
            ReceiveNothing(t) \/ Store(t) \/ ReceiveFails(t) \/ EndReceive(t)
            \/ CheckFlush(t) \/ FlushDone(t) \/ CheckClosing(t) \/ EndFlush(t)
            \/ TakePacket(t) \/ SendPacket(t) \/ EndPackets(t) \/
            SendNoBytes(t) \/ SendBytesLater(t) \/ SendBytesFails(t) \/
            EndOutput(t) \/ SpuriousWakeup(t)
        PROVE  OutsideTyped'
  BY <1>8 DEF Sleep, CheckNewStates, DropInvalidStates, Orphan, EndDrop,
     ReceiveNothing, Store, ReceiveFails, EndReceive, CheckFlush, FlushDone,
     CheckClosing, EndFlush, TakePacket, SendPacket, EndPackets, SendNoBytes,
     SendBytesLater, SendBytesFails, EndOutput, SpuriousWakeup
<1>9. ASSUME NoConnection \/ InitRead \/ InitUse \/ AssignNetworkState \/
            CheckForData \/ NoReaction \/ MarkReadClosed \/ TickOpen \/
            TickFlush \/ TickClosing \/ Clear
        PROVE  OutsideTyped'
  BY <1>9 DEF NoConnection, InitRead, InitUse, AssignNetworkState,
     CheckForData, NoReaction, MarkReadClosed, TickOpen, TickFlush,
     TickClosing, Clear
<1>10. QED
  BY <1>1, <1>2, <1>3, <1>4, <1>5, <1>6, <1>7, <1>8, <1>9 DEF Next,
     ThreadStep, MainStep

LEMMA InPlaceKept ==
  ASSUME TypeOK, InPlace, Next
  PROVE  InPlace'
<1> USE Parts, Domains
    DEF InPlace, PlacesTyped, HandsTyped, ListsTyped, AtState, Holding,
        InList, slotVars, queueVars, listVars, sendVars, threadVars, mainVars,
        outsideVars
<1>1. ASSUME NEW t \in Threads, Sleep(t) PROVE InPlace'
  BY <1>1 DEF Sleep
<1>2. ASSUME NEW t \in Threads, CheckNewStates(t) PROVE InPlace'
  BY <1>2 DEF CheckNewStates, Goto, FirstState
<1>3. ASSUME NEW t \in Threads, DropInvalidStates(t) PROVE InPlace'
  BY <1>3 DEF DropInvalidStates, Goto, NextState, InList
<1>4. ASSUME NEW t \in Threads, Orphan(t) PROVE InPlace'
  BY <1>4 DEF Orphan, Goto
<1>5. ASSUME NEW t \in Threads, EndDrop(t) PROVE InPlace'
  BY <1>5 DEF EndDrop, Goto, FirstState
<1>6. ASSUME NEW t \in Threads, ReceiveNothing(t) PROVE InPlace'
  BY <1>6 DEF ReceiveNothing, NextState
<1>7. ASSUME NEW t \in Threads, Receive(t) PROVE InPlace'
  BY <1>7 DEF Receive, Goto, Readable
<1>8. ASSUME NEW t \in Threads, Store(t) PROVE InPlace'
  BY <1>8 DEF Store, Goto, NextState
<1>9. ASSUME NEW t \in Threads, ReceiveFails(t) PROVE InPlace'
  BY <1>9 DEF ReceiveFails, NextState, Awaken
<1>10. ASSUME NEW t \in Threads, EndReceive(t) PROVE InPlace'
  BY <1>10 DEF EndReceive, Goto, FirstState
<1>11. ASSUME NEW t \in Threads, CheckFlush(t) PROVE InPlace'
  <2>1. /\ InList(t) /\ pc[t] = "flush"
        /\ UNCHANGED <<states, hold, batch>>
        /\ \/ NextState(t) /\ UNCHANGED pc
           \/ \E l \in {"flushSend", "flushEnd"} : Goto(t, l) /\ UNCHANGED at
    BY <1>11 DEF CheckFlush
  <2>2. QED
    BY <2>1 DEF Goto, NextState
<1>12. ASSUME NEW t \in Threads, FlushDone(t) PROVE InPlace'
  BY <1>12 DEF FlushDone, Goto
<1>13. ASSUME NEW t \in Threads, CheckClosing(t) PROVE InPlace'
  BY <1>13 DEF CheckClosing, Goto, NextState
<1>14. ASSUME NEW t \in Threads, EndFlush(t) PROVE InPlace'
  BY <1>14 DEF EndFlush, Goto, FirstState
<1>15. ASSUME NEW t \in Threads, TakePacket(t) PROVE InPlace'
  <2>1. InList(t)
    BY <1>15 DEF TakePacket
  <2>2. out[Current(t)] \in Seq(Conns)
    BY <2>1, CurrentIsSlot DEF QueuesTyped
  <2>3. /\ out[Current(t)] # <<>> /\ batch[t] < MaxPerTick
        /\ hold' = [hold EXCEPT ![t] = Head(out[Current(t)])]
        /\ pc' = [pc EXCEPT ![t] = IF pc[t] = "output" THEN "outputPacket"
                                   ELSE "flushPacket"]
        /\ UNCHANGED <<at, states, batch>>
    BY <1>15 DEF TakePacket, Goto
  <2>4. Head(out[Current(t)]) # None
    BY <2>2, <2>3, Queues
  <2>5. QED
    BY <2>1, <2>3, <2>4
<1>16. ASSUME NEW t \in Threads, SendPacket(t) PROVE InPlace'
  BY <1>16 DEF SendPacket, Goto
<1>17. ASSUME NEW t \in Threads, EndPackets(t) PROVE InPlace'
  BY <1>17 DEF EndPackets, Goto
<1>18. ASSUME NEW t \in Threads, SendNoBytes(t) PROVE InPlace'
  BY <1>18 DEF SendNoBytes, AfterBytes, Goto, NextState
<1>19. ASSUME NEW t \in Threads, SendBytes(t) PROVE InPlace'
  BY <1>19 DEF SendBytes, AfterBytes, Goto, NextState
<1>20. ASSUME NEW t \in Threads, SendBytesLater(t) PROVE InPlace'
  BY <1>20 DEF SendBytesLater, AfterBytes, Goto, NextState
<1>21. ASSUME NEW t \in Threads, SendBytesFails(t) PROVE InPlace'
  BY <1>21 DEF SendBytesFails, AfterBytes, Goto, NextState
<1>22. ASSUME NEW t \in Threads, EndOutput(t) PROVE InPlace'
  BY <1>22 DEF EndOutput, FirstState, Awaken
<1>23. ASSUME NEW t \in Threads, SpuriousWakeup(t) PROVE InPlace'
  BY <1>23 DEF SpuriousWakeup
<1>24. CASE AssignNetworkState
  BY <1>24 DEF AssignNetworkState, MainGoto, Awaken
<1>25. CASE CheckForData
  BY <1>25 DEF CheckForData, MainGoto, Awaken
<1>26. CASE QueuePacketTransaction
  BY <1>26 DEF QueuePacketTransaction, MainGoto, NextSlot, Awaken
<1>27. CASE MarkReadClosed
  BY <1>27 DEF MarkReadClosed, MainGoto, NextSlot, Awaken
<1>28. CASE TickOpen
  BY <1>28 DEF TickOpen, MainGoto, NextSlot, Awaken
<1>29. CASE TickFlush
  BY <1>29 DEF TickFlush, MainGoto, NextSlot, Awaken
<1>30. CASE TickClosing
  BY <1>30 DEF TickClosing, MainGoto, Awaken
<1>31. ASSUME NoConnection \/ AcceptNewConnection \/ InitRead \/ InitUse \/
            ProcessData \/ NoReaction \/ Clear
        PROVE  InPlace'
  BY <1>31 DEF NoConnection, AcceptNewConnection, InitRead, InitUse,
     ProcessData, NoReaction, Clear
<1>32. ASSUME NEW c \in Conns, PeerSends(c) \/ PeerLeaves(c)
        PROVE  InPlace'
  BY <1>32 DEF PeerSends, PeerLeaves
<1>33. QED
  BY <1>1, <1>2, <1>3, <1>4, <1>5, <1>6, <1>7, <1>8, <1>9, <1>10, <1>11,
     <1>12, <1>13, <1>14, <1>15, <1>16, <1>17, <1>18, <1>19, <1>20, <1>21,
     <1>22, <1>23, <1>24, <1>25, <1>26, <1>27, <1>28, <1>29, <1>30, <1>31,
     <1>32 DEF Next, ThreadStep, MainStep

LEMMA WritableHasClientKept ==
  ASSUME TypeOK, InPlace, WritableHasClient, Next
  PROVE  WritableHasClient'
<1> USE Parts, Domains
    DEF WritableHasClient, Initialising, FlagsTyped, OwnersTyped, MainTyped,
        slotVars, queueVars, listVars, sendVars, threadVars, mainVars,
        outsideVars
<1>1. ASSUME NEW t \in Threads, CheckClosing(t) PROVE WritableHasClient'
  BY <1>1 DEF CheckClosing, Goto, NextState
<1>2. ASSUME NEW t \in Threads, SendBytesFails(t) PROVE WritableHasClient'
  BY <1>2 DEF SendBytesFails, AfterBytes, Goto, NextState
<1>3. CASE NoConnection
  BY <1>3 DEF NoConnection, MainGoto
<1>4. CASE AcceptNewConnection
  <2>1. FindFreeSlot \in Slots /\ accepted + 1 # None
    BY <1>4, FindsFreeSlot DEF AcceptNewConnection, None
  <2>2. QED
    BY <1>4, <2>1 DEF AcceptNewConnection, MainGoto
<1>5. CASE InitRead
  BY <1>5 DEF InitRead, MainGoto
<1>6. CASE InitUse
  BY <1>6 DEF InitUse, MainGoto
<1>7. CASE AssignNetworkState
  BY <1>7 DEF AssignNetworkState, MainGoto
<1>8. CASE CheckForData
  BY <1>8 DEF CheckForData, MainGoto
<1>9. CASE ProcessData
  BY <1>9 DEF ProcessData, MainGoto
<1>10. CASE NoReaction
  BY <1>10 DEF NoReaction, MainGoto, NextSlot
<1>11. CASE QueuePacketTransaction
  BY <1>11 DEF QueuePacketTransaction, MainGoto, NextSlot
<1>12. CASE MarkReadClosed
  BY <1>12 DEF MarkReadClosed, MainGoto, NextSlot
<1>13. CASE TickOpen
  BY <1>13 DEF TickOpen, MainGoto, NextSlot
<1>14. CASE TickFlush
  BY <1>14 DEF TickFlush, MainGoto, NextSlot
<1>15. CASE TickClosing
  BY <1>15 DEF TickClosing, MainGoto
<1>16. CASE Clear
  BY <1>16 DEF Clear, MainGoto, NextSlot, ClearSlot
<1>17. ASSUME NEW t \in Threads, Sleep(t) \/ CheckNewStates(t) \/
            DropInvalidStates(t) \/ Orphan(t) \/ EndDrop(t) \/
            ReceiveNothing(t) \/ Receive(t) \/ Store(t) \/ ReceiveFails(t) \/
            EndReceive(t) \/ CheckFlush(t) \/ FlushDone(t) \/ EndFlush(t) \/
            TakePacket(t) \/ SendPacket(t) \/ EndPackets(t) \/ SendNoBytes(t)
            \/ SendBytes(t) \/ SendBytesLater(t) \/ EndOutput(t) \/
            SpuriousWakeup(t)
        PROVE  WritableHasClient'
  BY <1>17 DEF Sleep, CheckNewStates, DropInvalidStates, Orphan, EndDrop,
     ReceiveNothing, Receive, Store, ReceiveFails, EndReceive, CheckFlush,
     FlushDone, EndFlush, TakePacket, SendPacket, EndPackets, SendNoBytes,
     SendBytes, SendBytesLater, EndOutput, SpuriousWakeup
<1>18. ASSUME NEW c \in Conns, PeerSends(c) \/ PeerLeaves(c)
        PROVE  WritableHasClient'
  BY <1>18 DEF PeerSends, PeerLeaves
<1>19. QED
  BY <1>1, <1>2, <1>3, <1>4, <1>5, <1>6, <1>7, <1>8, <1>9, <1>10, <1>11,
     <1>12, <1>13, <1>14, <1>15, <1>16, <1>17, <1>18 DEF Next, ThreadStep,
     MainStep

LEMMA TInvInit == Init => TInv
<1> SUFFICES ASSUME Init PROVE TInv
  OBVIOUS
<1>1. FlagsTyped /\ OwnersTyped
  BY DEF Init, FlagsTyped, OwnersTyped
<1>2. QueuesTyped /\ ListsTyped
  BY DEF Init, QueuesTyped, ListsTyped
<1>3. PlacesTyped /\ HandsTyped
  BY Domains DEF Init, PlacesTyped, ThreadPC, HandsTyped
<1>4. MainTyped /\ OutsideTyped
  BY Domains DEF Init, MainTyped, MainPC, OutsideTyped
<1>5. InPlace
  <2>1. \A t \in Threads : pc[t] = "new"
    BY DEF Init
  <2>2. ASSUME NEW t \in Threads PROVE at[t] >= 1
    <3>1. at[t] = 1
      BY DEF Init
    <3>2. QED
      BY <3>1
  <2>3. QED
    BY <2>1, <2>2 DEF InPlace, AtState, Holding
<1>6. WritableHasClient
  BY DEF Init, WritableHasClient
<1>7. QED
  BY <1>1, <1>2, <1>3, <1>4, <1>5, <1>6, Parts DEF TInv

LEMMA TInvKept == TInv /\ [Next]_vars => TInv'
<1> SUFFICES ASSUME TInv, [Next]_vars PROVE TInv'
  OBVIOUS
<1>1. CASE Next
  <2>1. /\ FlagsTyped' /\ OwnersTyped' /\ QueuesTyped' /\ ListsTyped'
        /\ PlacesTyped' /\ HandsTyped' /\ MainTyped' /\ OutsideTyped'
    BY <1>1, FlagsKept, OwnersKept, QueuesKept, ListsKept, PlacesKept,
       HandsKept, MainKept, OutsideKept DEF TInv
  <2>2. TypeOK'
    BY <2>1 DEF TypeOK, FlagsTyped, OwnersTyped, QueuesTyped, ListsTyped,
                PlacesTyped, HandsTyped, MainTyped, OutsideTyped
  <2>3. InPlace' /\ WritableHasClient'
    BY <1>1, InPlaceKept, WritableHasClientKept DEF TInv
  <2>4. QED
    BY <2>2, <2>3 DEF TInv
<1>2. CASE UNCHANGED vars
  BY <1>2 DEF vars, slotVars, queueVars, listVars, threadVars, sendVars,
              mainVars, outsideVars, TInv, TypeOK, InPlace, InList,
              WritableHasClient, Initialising
<1>3. QED
  BY <1>1, <1>2

LEMMA TInvAlways == Spec => []TInv
  BY TInvInit, TInvKept, PTL DEF Spec

\* The variables keep their types: no thread ever follows the iterator of a
\* loop over m_states past its end, and no packet is taken from an empty queue,
\* for any number of threads.
THEOREM TypeCorrect == Spec => []TypeOK
<1>1. TInv => TypeOK
  BY DEF TInv
<1>2. QED
  BY <1>1, TInvAlways, PTL

-----------------------------------------------------------------------------
(* One network thread *)

\* Only Receive and TakePacket put a packet into a thread's hands.
LEMMA TakesNothing ==
  ASSUME TypeOK, NEW t \in Threads, ThreadStep(t) \/ SpuriousWakeup(t),
         ~Receive(t), ~TakePacket(t)
  PROVE  pc'[t] \notin Holding
<1> USE Parts DEF PlacesTyped, Holding, slotVars, queueVars, listVars, sendVars,
        threadVars, mainVars, outsideVars
<1>1. ASSUME Sleep(t) \/ CheckNewStates(t) \/ DropInvalidStates(t) \/
            Orphan(t) \/ EndDrop(t) \/ ReceiveNothing(t) \/ Store(t) \/
            EndReceive(t) \/ CheckFlush(t) \/ FlushDone(t) \/
            CheckClosing(t) \/ EndFlush(t) \/ SendPacket(t) \/
            EndPackets(t) \/ SpuriousWakeup(t)
      PROVE  pc'[t] \notin Holding
  BY <1>1 DEF Sleep, CheckNewStates, DropInvalidStates, Orphan, EndDrop,
     ReceiveNothing, Store, EndReceive, CheckFlush, FlushDone, CheckClosing,
     EndFlush, SendPacket, EndPackets, SpuriousWakeup, Goto
<1>2. ASSUME SendNoBytes(t) \/ SendBytes(t) \/ SendBytesLater(t) \/
            SendBytesFails(t)
      PROVE  pc'[t] \notin Holding
  BY <1>2 DEF SendNoBytes, SendBytes, SendBytesLater, SendBytesFails,
     AfterBytes, Goto
<1>3. ASSUME EndOutput(t) \/ ReceiveFails(t)
      PROVE  pc'[t] \notin Holding
  BY <1>3 DEF EndOutput, ReceiveFails, Awaken
<1>4. QED
  BY <1>1, <1>2, <1>3 DEF ThreadStep

\* What the main thread and the clients leave alone
LEMMA Frame ==
  ASSUME TypeOK, \/ MainStep
                 \/ \E c \in Conns : PeerSends(c) \/ PeerLeaves(c)
  PROVE  /\ UNCHANGED <<states, at, hold, parent>>
         /\ \A t \in Threads : pc'[t] \in {pc[t], "new"}
<1> DEFINE Kept == /\ UNCHANGED <<states, at, hold, parent>>
                   /\ \A t \in Threads : pc'[t] \in {pc[t], "new"}
<1> USE Parts DEF PlacesTyped, slotVars, queueVars, listVars, sendVars,
        threadVars, mainVars, outsideVars
<1> SUFFICES Kept
  OBVIOUS
<1>1. ASSUME NoConnection \/ AcceptNewConnection \/ InitRead \/ InitUse \/
            ProcessData \/ NoReaction \/ Clear
      PROVE  Kept
  BY <1>1 DEF NoConnection, AcceptNewConnection, InitRead, InitUse,
     ProcessData, NoReaction, Clear
<1>2. CASE AssignNetworkState
  BY <1>2 DEF AssignNetworkState, Awaken
<1>3. CASE CheckForData
  BY <1>3 DEF CheckForData, Awaken
<1>4. CASE QueuePacketTransaction
  BY <1>4 DEF QueuePacketTransaction, Awaken
<1>5. CASE MarkReadClosed
  BY <1>5 DEF MarkReadClosed, Awaken
<1>6. CASE TickOpen
  BY <1>6 DEF TickOpen, Awaken
<1>7. CASE TickFlush
  BY <1>7 DEF TickFlush, Awaken
<1>8. CASE TickClosing
  BY <1>8 DEF TickClosing, Awaken
<1>9. ASSUME NEW c \in Conns, PeerSends(c) \/ PeerLeaves(c) PROVE Kept
  BY <1>9 DEF PeerSends, PeerLeaves
<1>10. QED
  BY <1>1, <1>2, <1>3, <1>4, <1>5, <1>6, <1>7, <1>8, <1>9 DEF MainStep

\* The packet in hand stays for the client of the slot: neither accept nor
\* clear() touches a slot whose write side is open.
LEMMA HoldsOwnKept ==
  ASSUME SingleThread, TInv, HoldsOwn, QueuesOwn, Next
  PROVE  HoldsOwn'
<1> USE Parts DEF TInv
<1>1. ASSUME NEW t \in Threads, pc'[t] \notin Holding PROVE HoldsOwn'
  BY <1>1 DEF HoldsOwn, SingleThread
<1>2. ASSUME NEW t \in Threads, Receive(t) PROVE HoldsOwn'
  <2> DEFINE s == Current(t)
  <2>1. /\ ~writeClosed[s]
        /\ hold'[t] = client[s]
        /\ UNCHANGED <<states, at, writeClosed, client>>
    BY <1>2 DEF Receive, Readable, IsClosing, HandsTyped, slotVars, listVars
  <2>2. QED
    BY <2>1 DEF HoldsOwn, SingleThread, Current
<1>3. ASSUME NEW t \in Threads, TakePacket(t) PROVE HoldsOwn'
  <2> DEFINE s == Current(t)
  <2>1. s \in Slots
    BY <1>3, AtStateIsSlot, CurrentIsSlot DEF TakePacket, AtState, InPlace
  <2>2. /\ ~writeClosed[s] /\ out[s] # <<>>
        /\ hold'[t] = Head(out[s])
        /\ UNCHANGED <<states, at, writeClosed, client>>
    BY <1>3 DEF TakePacket, HandsTyped, slotVars, listVars
  <2>3. Head(out[s]) = client[s]
    <3>1. out[s] \in Seq(Conns) /\ client[s] \in Conns
      BY <2>1, <2>2 DEF QueuesTyped, WritableHasClient, OwnersTyped
    <3>2. QED
      BY <2>1, <2>2, <3>1, OnlyMove DEF QueuesOwn
  <2>4. QED
    BY <2>2, <2>3 DEF HoldsOwn, SingleThread, Current
<1>4. ASSUME MainStep \/ \E c \in Conns : PeerSends(c) \/ PeerLeaves(c)
      PROVE  HoldsOwn'
  <2>1. SUFFICES ASSUME NEW t \in Threads, pc'[t] \in Holding
                 PROVE  /\ ~writeClosed'[Current(t)]
                        /\ hold[t] = client'[Current(t)]
    BY <1>4, Frame DEF HoldsOwn, Current
  <2>2. pc[t] \in Holding
    BY <1>4, <2>1, Frame DEF Holding
  <2> DEFINE s == Current(t)
  <2>3. s \in Slots /\ ~writeClosed[s] /\ hold[t] = client[s]
    BY <2>2, AtStateIsSlot DEF HoldsOwn, AtState
  <2> HIDE DEF s
  <2>4. CASE AcceptNewConnection
    <3>1. FindFreeSlot # s
      <4>1. inUse[s]
        BY <2>3, <2>4 DEF WritableHasClient, Initialising, AcceptNewConnection
      <4>2. QED
        BY <2>4, <4>1, FindsFreeSlot DEF AcceptNewConnection
    <3>2. QED
      BY <2>3, <2>4, <3>1 DEF AcceptNewConnection, s, FlagsTyped, OwnersTyped
  <2>5. CASE Clear
    BY <2>3, <2>5 DEF Clear, ClearSlot, IsClosed, s, FlagsTyped, OwnersTyped
  <2>6. ASSUME ~AcceptNewConnection, ~Clear
        PROVE  UNCHANGED <<writeClosed, client>>
    BY <1>4, <2>6 DEF MainStep, NoConnection, InitRead, InitUse,
       AssignNetworkState, CheckForData, ProcessData, NoReaction,
       QueuePacketTransaction, MarkReadClosed, TickOpen, TickFlush, TickClosing,
       PeerSends, PeerLeaves, slotVars
  <2>7. QED
    BY <2>3, <2>4, <2>5, <2>6 DEF s
<1>5. QED
  BY <1>1, <1>2, <1>3, <1>4, TakesNothing DEF Next

\* The queues are emptied whenever the client changes.
LEMMA QueuesOwnKept ==
  ASSUME SingleThread, TInv, HoldsOwn, QueuesOwn, Next
  PROVE  QueuesOwn'
<1> USE DEF slotVars, queueVars, listVars, threadVars, mainVars
<1>t. /\ \A s \in Slots : /\ out[s] \in Seq(Conns)
                          /\ bytes[s] \in Seq(Conns)
                          /\ raw[s] \in Seq(Conns)
      /\ out \in [Slots -> Seq(Conns)] /\ bytes \in [Slots -> Seq(Conns)]
      /\ raw \in [Slots -> Seq(Conns)]
      /\ client \in [Slots -> Conns \cup {None}]
  BY Parts DEF TInv, QueuesTyped, OwnersTyped
<1>o. \A s \in Slots : /\ Only(out[s], client[s])
                       /\ Only(bytes[s], client[s])
                       /\ Only(raw[s], client[s])
  BY DEF QueuesOwn
<1>n. \A s \in Slots : Only(<<>>, client[s]) /\ Only(<<>>, client'[s])
  BY OnlyNothing
<1>h. ASSUME NEW t \in Threads, pc[t] \in Holding
      PROVE  /\ Current(t) \in Slots /\ hold[t] = client[Current(t)]
             /\ client[Current(t)] \in Conns
  <2>1. /\ Current(t) \in Slots /\ hold[t] = client[Current(t)]
        /\ ~writeClosed[Current(t)]
    BY <1>h, AtStateIsSlot DEF TInv, HoldsOwn, AtState
  <2>2. QED
    BY <2>1, <1>t DEF TInv, WritableHasClient
<1>1. ASSUME NEW t \in Threads, Store(t) PROVE QueuesOwn'
  <2> DEFINE s == Current(t)
  <2>1. s \in Slots /\ hold[t] = client[s] /\ client[s] \in Conns
    BY <1>1, <1>h DEF Store, Holding
  <2>2. Only(Append(raw[s], hold[t]), client[s])
    BY <2>1, <1>t, <1>o, OnlyMove
  <2>3. /\ UNCHANGED <<client, out, bytes>>
        /\ raw' = [raw EXCEPT ![s] = Append(raw[s], hold[t])]
    BY <1>1 DEF Store
  <2> HIDE DEF s
  <2>4. QED
    BY <1>t, <1>o, <2>1, <2>2, <2>3 DEF QueuesOwn
<1>2. ASSUME NEW t \in Threads, TakePacket(t) PROVE QueuesOwn'
  <2> DEFINE s == Current(t)
  <2>1. s \in Slots
    BY <1>2, AtStateIsSlot, CurrentIsSlot, Parts
       DEF TakePacket, AtState, TInv, InPlace
  <2>2. /\ ~writeClosed[s] /\ out[s] # <<>>
        /\ UNCHANGED <<client, raw, bytes>>
        /\ out' = [out EXCEPT ![s] = Tail(out[s])]
    BY <1>2 DEF TakePacket
  <2>3. Only(Tail(out[s]), client[s])
    <3>1. client[s] \in Conns
      BY <1>t, <2>1, <2>2 DEF TInv, WritableHasClient
    <3>2. QED
      BY <1>t, <1>o, <2>1, <2>2, <3>1, OnlyMove
  <2> HIDE DEF s
  <2>4. QED
    BY <1>t, <1>o, <2>1, <2>2, <2>3 DEF QueuesOwn
<1>3. ASSUME NEW t \in Threads, SendPacket(t) PROVE QueuesOwn'
  <2> DEFINE s == Current(t)
  <2>1. s \in Slots /\ hold[t] = client[s] /\ client[s] \in Conns
    BY <1>3, <1>h DEF SendPacket, Holding
  <2>2. Only(Append(bytes[s], hold[t]), client[s])
    BY <2>1, <1>t, <1>o, OnlyMove
  <2>3. /\ UNCHANGED <<client, out, raw>>
        /\ \/ UNCHANGED bytes
           \/ bytes' = [bytes EXCEPT ![s] = Append(bytes[s], hold[t])]
    BY <1>3 DEF SendPacket
  <2> HIDE DEF s
  <2>4. QED
    BY <1>t, <1>o, <2>1, <2>2, <2>3 DEF QueuesOwn
<1>4. ASSUME NEW t \in Threads, SendBytes(t) \/ SendBytesFails(t)
      PROVE  QueuesOwn'
  <2>1. /\ UNCHANGED client
        /\ UNCHANGED out \/ out' = [out EXCEPT ![Current(t)] = <<>>]
        /\ bytes' = [bytes EXCEPT ![Current(t)] = <<>>]
        /\ UNCHANGED raw \/ raw' = [raw EXCEPT ![Current(t)] = <<>>]
    BY <1>4 DEF SendBytes, SendBytesFails
  <2>2. QED
    BY <1>t, <1>o, <1>n, <2>1 DEF QueuesOwn
<1>5. CASE AcceptNewConnection
  <2> DEFINE s == FindFreeSlot
  <2>1. /\ client' = [client EXCEPT ![s] = accepted + 1]
        /\ out' = [out EXCEPT ![s] = <<>>]
        /\ bytes' = [bytes EXCEPT ![s] = <<>>]
        /\ raw' = [raw EXCEPT ![s] = <<>>]
    BY <1>5 DEF AcceptNewConnection
  <2> HIDE DEF s
  <2>2. QED
    BY <1>t, <1>o, <1>n, <2>1 DEF QueuesOwn
<1>6. CASE ProcessData
  <2>1. /\ UNCHANGED <<client, out, bytes>>
        /\ UNCHANGED raw \/ raw' = [raw EXCEPT ![slot] = <<>>]
    BY <1>6 DEF ProcessData
  <2>2. QED
    BY <1>t, <1>o, <1>n, <2>1 DEF QueuesOwn
<1>7. CASE QueuePacketTransaction
  <2>1. PICK s \in Slots : /\ client[s] # None
                           /\ out' = [out EXCEPT ![s] = Append(@, client[s])]
    BY <1>7 DEF QueuePacketTransaction
  <2>2. Only(Append(out[s], client[s]), client[s])
    BY <1>t, <1>o, <2>1, OnlyMove
  <2>3. UNCHANGED <<client, bytes, raw>>
    BY <1>7 DEF QueuePacketTransaction
  <2>4. QED
    BY <1>t, <1>o, <2>1, <2>2, <2>3 DEF QueuesOwn
<1>8. CASE Clear
  <2>1. \/ UNCHANGED <<client, out, bytes, raw>>
        \/ /\ client' = [client EXCEPT ![slot] = None]
           /\ out' = [out EXCEPT ![slot] = <<>>]
           /\ bytes' = [bytes EXCEPT ![slot] = <<>>]
           /\ raw' = [raw EXCEPT ![slot] = <<>>]
    BY <1>8 DEF Clear, ClearSlot
  <2>2. QED
    BY <1>t, <1>o, <1>n, <2>1 DEF QueuesOwn
<1>f. ASSUME UNCHANGED <<client, out, bytes, raw>> PROVE QueuesOwn'
  BY <1>f, <1>o DEF QueuesOwn
<1>9. ASSUME NEW t \in Threads, Sleep(t) \/ CheckNewStates(t) \/
            DropInvalidStates(t) \/ Orphan(t) \/ EndDrop(t) \/
            ReceiveNothing(t) \/ Receive(t) \/ ReceiveFails(t) \/
            EndReceive(t) \/ CheckFlush(t) \/ FlushDone(t) \/ CheckClosing(t)
            \/ EndFlush(t) \/ EndPackets(t) \/ SendNoBytes(t) \/
            SendBytesLater(t) \/ EndOutput(t) \/ SpuriousWakeup(t)
      PROVE  UNCHANGED <<client, out, bytes, raw>>
  BY <1>9 DEF Sleep, CheckNewStates, DropInvalidStates, Orphan, EndDrop,
     ReceiveNothing, Receive, ReceiveFails, EndReceive, CheckFlush, FlushDone,
     CheckClosing, EndFlush, EndPackets, SendNoBytes, SendBytesLater,
     EndOutput, SpuriousWakeup
<1>10. ASSUME NoConnection \/ InitRead \/ InitUse \/ AssignNetworkState \/
            CheckForData \/ NoReaction \/ MarkReadClosed \/ TickOpen \/
            TickFlush \/ TickClosing
      PROVE  UNCHANGED <<client, out, bytes, raw>>
  BY <1>10 DEF NoConnection, InitRead, InitUse, AssignNetworkState,
     CheckForData, NoReaction, MarkReadClosed, TickOpen, TickFlush,
     TickClosing
<1>11. ASSUME NEW c \in Conns, PeerSends(c) \/ PeerLeaves(c)
      PROVE  UNCHANGED <<client, out, bytes, raw>>
  BY <1>11 DEF PeerSends, PeerLeaves
<1>12. QED
  BY <1>1, <1>2, <1>3, <1>4, <1>5, <1>6, <1>7, <1>8, <1>9, <1>10, <1>11,
     <1>f DEF Next, ThreadStep, MainStep

LEMMA NoCrossTalkKept ==
  ASSUME TInv, QueuesOwn, NoCrossTalk, Next
  PROVE  NoCrossTalk'
<1> USE DEF outsideVars
<1>1. ASSUME NEW t \in Threads, SendBytes(t) PROVE NoCrossTalk'
  <2>1. Current(t) \in Slots
    BY <1>1, AtStateIsSlot DEF TInv, SendBytes, AtState
  <2>2. Misdirected(bytes[Current(t)], Current(t)) = {}
    BY <2>1, OnlyIsNotMisdirected, Parts DEF TInv, QueuesTyped, QueuesOwn
  <2>3. QED
    BY <1>1, <2>2 DEF SendBytes, NoCrossTalk
<1>2. CASE ProcessData
  <2>1. Misdirected(raw[slot], slot) = {}
    BY OnlyIsNotMisdirected, Parts DEF TInv, QueuesTyped, QueuesOwn, MainTyped
  <2>2. QED
    BY <1>2, <2>1 DEF ProcessData, NoCrossTalk
<1>f. ASSUME UNCHANGED strays PROVE NoCrossTalk'
  BY <1>f DEF NoCrossTalk
<1>3. ASSUME NEW t \in Threads, Sleep(t) \/ CheckNewStates(t) \/
            DropInvalidStates(t) \/ Orphan(t) \/ EndDrop(t) \/
            ReceiveNothing(t) \/ Receive(t) \/ Store(t) \/ ReceiveFails(t) \/
            EndReceive(t) \/ CheckFlush(t) \/ FlushDone(t) \/ CheckClosing(t)
            \/ EndFlush(t) \/ TakePacket(t) \/ SendPacket(t) \/ EndPackets(t)
            \/ SendNoBytes(t) \/ SendBytesLater(t) \/ SendBytesFails(t) \/
            EndOutput(t) \/ SpuriousWakeup(t)
      PROVE  UNCHANGED strays
  BY <1>3 DEF Sleep, CheckNewStates, DropInvalidStates, Orphan, EndDrop,
     ReceiveNothing, Receive, Store, ReceiveFails, EndReceive, CheckFlush,
     FlushDone, CheckClosing, EndFlush, TakePacket, SendPacket, EndPackets,
     SendNoBytes, SendBytesLater, SendBytesFails, EndOutput, SpuriousWakeup
<1>4. ASSUME NoConnection \/ AcceptNewConnection \/ InitRead \/ InitUse \/
            AssignNetworkState \/ CheckForData \/ NoReaction \/
            QueuePacketTransaction \/ MarkReadClosed \/ TickOpen \/ TickFlush
            \/ TickClosing \/ Clear
      PROVE  UNCHANGED strays
  BY <1>4 DEF NoConnection, AcceptNewConnection, InitRead, InitUse,
     AssignNetworkState, CheckForData, NoReaction, QueuePacketTransaction,
     MarkReadClosed, TickOpen, TickFlush, TickClosing, Clear
<1>5. ASSUME NEW c \in Conns, PeerSends(c) \/ PeerLeaves(c)
      PROVE  UNCHANGED strays
  BY <1>5 DEF PeerSends, PeerLeaves
<1>6. QED
  BY <1>1, <1>2, <1>3, <1>4, <1>5, <1>f DEF Next, ThreadStep, MainStep

\* Only dropInvalidStates() comes to the orphan's step, for a slot not in use.
LEMMA OrphansUnused ==
  ASSUME TypeOK, NEW t \in Threads, ThreadStep(t) \/ SpuriousWakeup(t),
         pc'[t] = "orphan"
  PROVE  DropInvalidStates(t) /\ ~inUse[Current(t)]'
<1> USE Parts DEF PlacesTyped
<1>1. ASSUME Sleep(t) \/ CheckNewStates(t) \/ Orphan(t) \/ EndDrop(t) \/
            ReceiveNothing(t) \/ Receive(t) \/ Store(t) \/ EndReceive(t) \/
            CheckFlush(t) \/ FlushDone(t) \/ CheckClosing(t) \/ EndFlush(t) \/
            TakePacket(t) \/ SendPacket(t) \/ EndPackets(t) \/
            SpuriousWakeup(t)
      PROVE  FALSE
  BY <1>1 DEF Sleep, CheckNewStates, Orphan, EndDrop, ReceiveNothing, Receive,
     Store, EndReceive, CheckFlush, FlushDone, CheckClosing, EndFlush,
     TakePacket, SendPacket, EndPackets, SpuriousWakeup, Goto, threadVars
<1>2. ASSUME SendNoBytes(t) \/ SendBytes(t) \/ SendBytesLater(t) \/
            SendBytesFails(t)
      PROVE  FALSE
  BY <1>2 DEF SendNoBytes, SendBytes, SendBytesLater, SendBytesFails,
     AfterBytes, Goto, threadVars
<1>3. ASSUME EndOutput(t) \/ ReceiveFails(t)
      PROVE  FALSE
  BY <1>3 DEF EndOutput, ReceiveFails, Awaken, threadVars
<1>4. DropInvalidStates(t)
  BY <1>1, <1>2, <1>3 DEF ThreadStep
<1>5. ~inUse[Current(t)] /\ UNCHANGED <<inUse, states, at>>
  BY <1>4 DEF DropInvalidStates, Goto, slotVars
<1>6. QED
  BY <1>4, <1>5 DEF Current

LEMMA OrphanAssignedKept ==
  ASSUME SingleThread, TInv, OrphanAssigned, Next
  PROVE  OrphanAssigned'
<1> USE Parts DEF TInv
<1>1. ASSUME NEW t \in Threads, ThreadStep(t) \/ SpuriousWakeup(t)
      PROVE  OrphanAssigned'
  <2>1. pc'[t] = "orphan" => ~inUse[Current(t)]'
    BY <1>1, OrphansUnused
  <2>2. \A u \in Threads : u = t
    BY DEF SingleThread
  <2>3. QED
    BY <2>1, <2>2 DEF OrphanAssigned
<1>2. ASSUME MainStep \/ \E c \in Conns : PeerSends(c) \/ PeerLeaves(c)
      PROVE  OrphanAssigned'
  <2>1. SUFFICES ASSUME NEW t \in Threads, pc'[t] = "orphan",
                        inUse'[Current(t)]
                 PROVE  Assigned(Current(t), t)'
    BY <1>2, Frame DEF OrphanAssigned, Current
  <2> DEFINE s == Current(t)
  <2>2. /\ pc[t] = "orphan" /\ s \in Slots
        /\ UNCHANGED <<states, at>>
    BY <1>2, <2>1, Frame, AtStateIsSlot DEF AtState
  <2>3. inUse[s] => \/ s \in Elements(assignQueue[t])
                    \/ slot = s /\ mpc = "assign"
    BY <2>2 DEF OrphanAssigned, Assigned
  <2>4. SUFFICES \/ s \in Elements(assignQueue'[t])
                 \/ slot' = s /\ mpc' = "assign"
    BY <2>2 DEF Assigned, Current
  <2> HIDE DEF s
  <2> USE <2>1, <2>2, <2>3 DEF FlagsTyped, MainTyped
  <2>5. inUse'[s]
    BY DEF s, Current
  <2>6. CASE InitUse
    BY <2>5, <2>6 DEF InitUse, MainGoto, listVars
  <2>7. CASE AssignNetworkState
    <3>1. PICK u \in Threads :
            assignQueue' = [assignQueue EXCEPT ![u] = Append(@, slot)]
      BY <2>7 DEF AssignNetworkState
    <3>2. assignQueue'[t] = Append(assignQueue[t], slot)
      BY <3>1 DEF SingleThread, ListsTyped
    <3>3. inUse[s]
      BY <2>5, <2>7 DEF AssignNetworkState, slotVars
    <3>4. /\ slot \in Elements(assignQueue'[t])
          /\ Elements(assignQueue[t]) \subseteq Elements(assignQueue'[t])
      BY <3>2, ElementsMove DEF ListsTyped
    <3>5. QED
      BY <3>3, <3>4
  <2>8. CASE Clear
    BY <2>5, <2>8 DEF Clear, ClearSlot, listVars
  <2>9. ASSUME NoConnection \/ AcceptNewConnection \/ InitRead \/ CheckForData
              \/ ProcessData \/ NoReaction \/ QueuePacketTransaction \/
              MarkReadClosed \/ TickOpen \/ TickFlush \/ TickClosing
        PROVE  UNCHANGED <<inUse, assignQueue>> /\ mpc # "assign"
    BY <2>9 DEF NoConnection, AcceptNewConnection, InitRead, CheckForData,
       ProcessData, NoReaction, QueuePacketTransaction, MarkReadClosed,
       TickOpen, TickFlush, TickClosing, slotVars, listVars
  <2>10. ASSUME NEW c \in Conns, PeerSends(c) \/ PeerLeaves(c)
         PROVE  UNCHANGED <<inUse, assignQueue, mpc, slot>>
    BY <2>10 DEF PeerSends, PeerLeaves, slotVars, listVars, mainVars
  <2>11. QED
    BY <1>2, <2>5, <2>6, <2>7, <2>8, <2>9, <2>10 DEF MainStep
<1>3. QED
  BY <1>1, <1>2 DEF Next

\* What orphan() drops is in the queue if it is in use again.
LEMMA InUseIsOwnedKept ==
  ASSUME SingleThread, TInv, OrphanAssigned, InUseIsOwned, Next
  PROVE  InUseIsOwned'
<1> DEFINE Served(s, t) == \/ s \in Elements(assignQueue[t])
                           \/ s \in Elements(states[t]) /\ parent[s] = t
                           \/ slot = s /\ mpc = "assign"
<1> USE Parts DEF TInv, slotVars, listVars, mainVars
<1>1. PICK t \in Threads : \A u \in Threads : u = t
  BY ThreadsAssumption DEF SingleThread
<1>2. \A s \in Slots : inUse[s] => Served(s, t)
  BY <1>1 DEF InUseIsOwned, Owned
<1>3. SUFFICES ASSUME NEW s \in Slots, inUse'[s] PROVE Served(s, t)'
  BY DEF InUseIsOwned, Owned
<1>4. /\ assignQueue[t] \in Seq(Slots) /\ states[t] \in Seq(Slots)
      /\ at[t] \in Nat /\ at[t] >= 1
  BY DEF ListsTyped, PlacesTyped, InPlace
<1>5. CASE CheckNewStates(t)
  <2>1. Served(s, t)
    BY <1>2, <1>3, <1>5 DEF CheckNewStates
  <2>2. UNCHANGED <<mpc, slot>>
    BY <1>5 DEF CheckNewStates
  <2>3. CASE assignQueue[t] # <<>>
    <3> DEFINE h == Head(assignQueue[t])
    <3>1. h \in Slots
      BY <1>4, <2>3
    <3>2. /\ parent' = [parent EXCEPT ![h] = t]
          /\ states'[t] = Append(states[t], h)
          /\ assignQueue'[t] = Tail(assignQueue[t])
      BY <1>5, <2>3 DEF CheckNewStates, ListsTyped
    <3>3. /\ h \in Elements(states'[t])
          /\ Elements(states[t]) \subseteq Elements(states'[t])
          /\ \A r \in Elements(assignQueue[t]) :
                r = h \/ r \in Elements(assignQueue'[t])
      BY <1>4, <2>3, <3>1, <3>2, ElementsMove
    <3> HIDE DEF h
    <3>4. s = h \/ parent[s] = t => parent'[s] = t
      BY <3>2 DEF OwnersTyped
    <3>5. QED
      BY <2>1, <2>2, <3>3, <3>4
  <2>4. CASE assignQueue[t] = <<>>
    BY <1>5, <2>1, <2>2, <2>4 DEF CheckNewStates
  <2>5. QED
    BY <2>3, <2>4
<1>6. CASE DropInvalidStates(t)
  <2>1. /\ Served(s, t)
        /\ UNCHANGED <<mpc, slot, assignQueue, parent>>
    BY <1>2, <1>3, <1>6 DEF DropInvalidStates
  <2>2. \/ UNCHANGED states
        \/ /\ parent[Current(t)] # t
           /\ states'[t] = RemoveAt(states[t], at[t])
    BY <1>6 DEF DropInvalidStates, ListsTyped
  <2>3. at[t] \in 1..Len(states[t])
    BY <1>4, <1>6 DEF DropInvalidStates, InList
  <2>4. \A r \in Elements(states[t]) :
           r # Current(t) => r \in Elements(RemoveAt(states[t], at[t]))
    BY <1>4, <2>3, RemoveAtKeeps DEF Current
  <2>5. QED
    BY <2>1, <2>2, <2>4
<1>7. CASE Orphan(t)
  <2>1. /\ Served(s, t) /\ inUse[s]
        /\ UNCHANGED <<mpc, slot, assignQueue>>
    BY <1>2, <1>3, <1>7 DEF Orphan
  <2>2. /\ states'[t] = RemoveAt(states[t], at[t])
        /\ s # Current(t) => parent'[s] = parent[s]
    BY <1>7 DEF Orphan, ListsTyped, OwnersTyped
  <2>3. at[t] \in 1..Len(states[t])
    BY <1>4, <1>7 DEF Orphan, InPlace, AtState, InList
  <2>4. \A r \in Elements(states[t]) :
           r # Current(t) => r \in Elements(RemoveAt(states[t], at[t]))
    BY <1>4, <2>3, RemoveAtKeeps DEF Current
  <2>5. CASE s = Current(t)
    BY <1>7, <2>1, <2>5 DEF Orphan, OrphanAssigned, Assigned
  <2>6. QED
    BY <2>1, <2>2, <2>4, <2>5
<1>8. CASE InitUse
  <2>1. /\ UNCHANGED <<slot, assignQueue, states, parent>>
        /\ inUse' = [inUse EXCEPT ![slot] = TRUE]
        /\ mpc = "initUse" /\ mpc' = "assign"
    BY <1>8 DEF InitUse, MainGoto
  <2>2. s = slot \/ inUse[s]
    BY <1>3, <2>1 DEF FlagsTyped
  <2>3. QED
    BY <1>2, <2>1, <2>2
<1>9. CASE AssignNetworkState
  <2>1. PICK u \in Threads :
          assignQueue' = [assignQueue EXCEPT ![u] = Append(@, slot)]
    BY <1>9 DEF AssignNetworkState
  <2>2. assignQueue'[t] = Append(assignQueue[t], slot)
    BY <1>1, <2>1 DEF ListsTyped
  <2>3. inUse[s] /\ UNCHANGED <<states, parent>>
    BY <1>3, <1>9 DEF AssignNetworkState
  <2>4. /\ slot \in Elements(assignQueue'[t])
        /\ Elements(assignQueue[t]) \subseteq Elements(assignQueue'[t])
    BY <1>4, <2>2, ElementsMove DEF MainTyped
  <2>5. QED
    BY <1>2, <2>3, <2>4
<1>10. CASE Clear
  <2>1. UNCHANGED <<states, assignQueue, parent>> /\ mpc # "assign"
    BY <1>10 DEF Clear
  <2>2. inUse[s]
    BY <1>3, <1>10 DEF Clear, ClearSlot, FlagsTyped, MainTyped
  <2>3. QED
    BY <1>2, <2>1, <2>2
<1>f. ASSUME UNCHANGED <<inUse, parent, states, assignQueue>>,
             mpc # "assign" \/ UNCHANGED <<mpc, slot>>
      PROVE  Served(s, t)'
  BY <1>f, <1>2, <1>3
<1>11. ASSUME NEW u \in Threads, Sleep(u) \/ EndDrop(u) \/ ReceiveNothing(u)
            \/ Receive(u) \/ Store(u) \/ ReceiveFails(u) \/ EndReceive(u) \/
            CheckFlush(u) \/ FlushDone(u) \/ CheckClosing(u) \/ EndFlush(u) \/
            TakePacket(u) \/ SendPacket(u) \/ EndPackets(u) \/ SendNoBytes(u)
            \/ SendBytes(u) \/ SendBytesLater(u) \/ SendBytesFails(u) \/
            EndOutput(u) \/ SpuriousWakeup(u)
      PROVE  UNCHANGED <<inUse, parent, states, assignQueue, mpc, slot>>
  BY <1>11 DEF Sleep, EndDrop, ReceiveNothing, Receive, Store, ReceiveFails,
     EndReceive, CheckFlush, FlushDone, CheckClosing, EndFlush, TakePacket,
     SendPacket, EndPackets, SendNoBytes, SendBytes, SendBytesLater,
     SendBytesFails, EndOutput, SpuriousWakeup
<1>12. ASSUME NoConnection \/ AcceptNewConnection \/ InitRead \/ CheckForData
            \/ ProcessData \/ NoReaction \/ QueuePacketTransaction \/
            MarkReadClosed \/ TickOpen \/ TickFlush \/ TickClosing
      PROVE  /\ UNCHANGED <<inUse, parent, states, assignQueue>>
             /\ mpc # "assign"
  BY <1>12 DEF NoConnection, AcceptNewConnection, InitRead, CheckForData,
     ProcessData, NoReaction, QueuePacketTransaction, MarkReadClosed,
     TickOpen, TickFlush, TickClosing
<1>13. ASSUME NEW c \in Conns, PeerSends(c) \/ PeerLeaves(c)
      PROVE  UNCHANGED <<inUse, parent, states, assignQueue, mpc, slot>>
  BY <1>13 DEF PeerSends, PeerLeaves
<1>14. QED
  BY <1>1, <1>5, <1>6, <1>7, <1>8, <1>9, <1>10, <1>11, <1>12, <1>13, <1>f
     DEF Next, ThreadStep, MainStep

LEMMA IInvInit == Init => IInv
<1> SUFFICES ASSUME Init PROVE IInv
  OBVIOUS
<1>1. HoldsOwn /\ OrphanAssigned
  BY DEF Init, HoldsOwn, Holding, OrphanAssigned
<1>2. QueuesOwn
  BY OnlyNothing DEF Init, QueuesOwn
<1>3. NoCrossTalk /\ InUseIsOwned
  BY DEF Init, NoCrossTalk, InUseIsOwned
<1>4. QED
  BY <1>1, <1>2, <1>3, TInvInit DEF IInv

LEMMA IInvKept == SingleThread /\ IInv /\ [Next]_vars => IInv'
<1> SUFFICES ASSUME SingleThread, IInv, [Next]_vars PROVE IInv'
  OBVIOUS
<1>1. TInv'
  BY TInvKept DEF IInv
<1>2. CASE Next
  BY <1>1, <1>2, HoldsOwnKept, QueuesOwnKept, NoCrossTalkKept,
     OrphanAssignedKept, InUseIsOwnedKept DEF IInv
<1>3. CASE UNCHANGED vars
  <2> USE <1>3 DEF IInv, vars, slotVars, queueVars, listVars, threadVars,
                   sendVars, mainVars, outsideVars
  <2>1. HoldsOwn' /\ QueuesOwn' /\ NoCrossTalk'
    BY DEF HoldsOwn, Current, QueuesOwn, NoCrossTalk
  <2>2. OrphanAssigned' /\ InUseIsOwned'
    BY DEF OrphanAssigned, Assigned, Current, InUseIsOwned, Owned
  <2>3. QED
    BY <1>1, <2>1, <2>2
<1>4. QED
  BY <1>2, <1>3

LEMMA IInvAlways == SingleThread => (Spec => []IInv)
<1> SUFFICES ASSUME SingleThread PROVE Spec => []IInv
  OBVIOUS
<1>1. IInv /\ [Next]_vars => IInv'
  BY IInvKept
<1>2. QED
  BY <1>1, IInvInit, PTL DEF Spec

\* No packet written for one connection is sent on another, and no bytes read
\* from one are handled as another's, although the slots are used again: the
\* write side is closed before clear(), and only by the thread itself.
THEOREM NothingStrays == SingleThread => (Spec => []NoCrossTalk)
<1> SUFFICES ASSUME SingleThread PROVE Spec => []NoCrossTalk
  OBVIOUS
<1>1. IInv => NoCrossTalk
  BY DEF IInv
<1>2. QED
  BY <1>1, IInvAlways, PTL

\* processPacketQueue()'s assertion: the slot whose packet the thread has in
\* its hands has a client.
THEOREM NeverClearedAtWork == SingleThread => (Spec => []ClientWhileWorking)
<1> SUFFICES ASSUME SingleThread PROVE Spec => []ClientWhileWorking
  OBVIOUS
<1>1. IInv => ClientWhileWorking
  <2> SUFFICES ASSUME IInv, NEW t \in Threads, pc[t] \in Holding
               PROVE  client[Current(t)] # None
    BY DEF ClientWhileWorking, Holding
  <2>1. Current(t) \in Slots /\ ~writeClosed[Current(t)]
    BY AtStateIsSlot DEF IInv, TInv, HoldsOwn, AtState
  <2>2. QED
    BY <2>1 DEF IInv, TInv, WritableHasClient
<1>2. QED
  BY <1>1, IInvAlways, PTL

\* A slot in use is served: it is in the thread's list, or on its way there.
\* One that is taken again while the thread still lets go of it is not lost.
THEOREM NeverForgotten == SingleThread => (Spec => []InUseIsOwned)
<1> SUFFICES ASSUME SingleThread PROVE Spec => []InUseIsOwned
  OBVIOUS
<1>1. IInv => InUseIsOwned
  BY DEF IInv
<1>2. QED
  BY <1>1, IInvAlways, PTL
===============================================================================
