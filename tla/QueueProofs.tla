------------------------------ MODULE QueueProofs ------------------------------
(***************************************************************************)
(* What two threads hand over to each other, in order.                     *)
(*                                                                         *)
(* With one reader, as sphere/containers.h requires, ThreadSafeQueue never *)
(* reads a freed node and implements the abstract queue Fifo, for every    *)
(* number of pushes.                                                       *)
(*                                                                         *)
(* For every number of queries and of links, whatever the server does to   *)
(* the link: the answers of the background queries come in the order of    *)
(* the queries, each at most once, and a link is closed before another is  *)
(* opened.                                                                 *)
(***************************************************************************)
EXTENDS ThreadSafeQueue, AsyncDatabase, TLAPS

-----------------------------------------------------------------------------
(* Queue without locks *)

Holding == {"emptyNext", "frontNext", "popNext"}

\* The positions are ordered as the nodes are: what is erased lies before
\* what m_head has left behind, and m_head never passes the last node.
Positions ==
    /\ first <= head
    /\ head <= last
    /\ stop <= head

\* A reader about to follow its copy of m_head holds the present m_head, and
\* one about to pop was given the value after it.
ReaderInStep ==
    \A r \in Readers :
        /\ rpc[r] \in Holding => at[r] = head
        /\ rpc[r] \in {"pop", "popNext"} => got[r] = head + 1

\* The loop bodies were given exactly the values up to m_head.
TakenUpToHead == taken = [i \in 1..head |-> i]

QueueInv == QueueTypeOK /\ Positions /\ ReaderInStep /\ TakenUpToHead

-----------------------------------------------------------------------------
LEMMA InitQueueInv == QueueInit => QueueInv
  BY MaxPushAssumption
  DEF QueueInit, QueueInv, QueueTypeOK, Positions, ReaderInStep,
      TakenUpToHead, ReaderPC, Holding

\* Steps of the writer leave m_head where it is.
LEMMA WriteQueueInv == QueueInv /\ Write => QueueInv'
<1> SUFFICES ASSUME QueueInv, Write PROVE QueueInv'
  OBVIOUS
<1> USE MaxPushAssumption
    DEF QueueInv, QueueTypeOK, Positions, ReaderInStep, TakenUpToHead,
        readerVars
<1>1. CASE Push
  BY <1>1 DEF Push
<1>2. CASE CallClean
  BY <1>2 DEF CallClean
<1>3. CASE Clean
  BY <1>3 DEF Clean
<1>4. CASE Erase
  BY <1>4 DEF Erase
<1>5. CASE EndErase
  BY <1>5 DEF EndErase
<1>6. QED
  BY <1>1, <1>2, <1>3, <1>4, <1>5 DEF Write

LEMMA AppendNext ==
  ASSUME NEW n \in Nat
  PROVE  Append([i \in 1..n |-> i], n + 1) = [i \in 1..(n + 1) |-> i]
  OBVIOUS

LEMMA LoadHeadQueueInv ==
  ASSUME QueueInv, NEW r \in Readers,
         NEW from \in {"empty", "front", "pop"}, NEW to \in ReaderPC,
         LoadHead(r, from, to), from = "pop" <=> to = "popNext", to # "pop"
  PROVE  QueueInv'
<1> USE DEF QueueInv, LoadHead, writerVars
<1>1. QueueTypeOK'
  BY DEF QueueTypeOK
<1>2. Positions'
  BY DEF Positions
<1>3. ReaderInStep'
  BY DEF ReaderInStep, QueueTypeOK, Holding
<1>4. TakenUpToHead'
  BY DEF TakenUpToHead
<1>5. QED
  BY <1>1, <1>2, <1>3, <1>4

\* With one reader, no other thread's copy goes stale when m_head moves.
LEMMA ReadQueueInv ==
  ASSUME SingleReader, QueueInv, NEW r \in Readers, Read(r)
  PROVE  QueueInv'
<1>1. CASE Empty(r)
  BY <1>1, LoadHeadQueueInv DEF Empty, ReaderPC
<1>2. CASE Front(r)
  BY <1>2, LoadHeadQueueInv DEF Front, ReaderPC
<1>3. CASE Pop(r)
  BY <1>3, LoadHeadQueueInv DEF Pop, ReaderPC
<1>4. CASE EmptyNext(r)
  BY <1>4 DEF EmptyNext, QueueInv, QueueTypeOK, Positions, ReaderInStep,
              TakenUpToHead, ReaderPC, Holding, writerVars
<1>5. CASE FrontNext(r)
  <2> USE <1>5 DEF FrontNext, QueueInv, writerVars
  <2>1. QueueTypeOK'
    BY MaxPushAssumption DEF QueueTypeOK, ReaderPC
  <2>2. Positions' /\ TakenUpToHead'
    BY DEF Positions, TakenUpToHead
  <2>3. ReaderInStep'
    BY DEF ReaderInStep, QueueTypeOK, ReaderPC, Holding
  <2>4. QED
    BY <2>1, <2>2, <2>3
<1>6. CASE PopNext(r)
  <2> USE <1>6 DEF PopNext, QueueInv, writerVars
  <2>1. CASE NoNext(r)
    BY <2>1 DEF QueueTypeOK, Positions, ReaderInStep, TakenUpToHead, ReaderPC,
                Holding
  <2>2. CASE ~NoNext(r)
    <3>1. at[r] = head /\ got[r] = head + 1 /\ head < last
      BY <2>2 DEF ReaderInStep, Holding, NoNext, Positions, QueueTypeOK
    <3>2. head' = head + 1 /\ taken' = Append(taken, head + 1)
      BY <2>2, <3>1
    <3>3. Positions'
      BY <3>1, <3>2 DEF Positions, QueueTypeOK
    <3>4. TakenUpToHead'
      BY <3>2, AppendNext DEF TakenUpToHead, QueueTypeOK
    <3>5. QueueTypeOK'
      BY <3>1, <3>2, MaxPushAssumption DEF QueueTypeOK, ReaderPC
    <3>6. ReaderInStep'
      BY SingleReader DEF ReaderInStep, QueueTypeOK, Holding, SingleReader
    <3>7. QED
      BY <3>3, <3>4, <3>5, <3>6
  <2>3. QED
    BY <2>1, <2>2
<1>7. QED
  BY <1>1, <1>2, <1>3, <1>4, <1>5, <1>6 DEF Read

\* QueueInv is an invariant of every behaviour with a single reader.
THEOREM QueueInvariance == SingleReader => (QueueSpec => []QueueInv)
<1> SUFFICES ASSUME SingleReader PROVE QueueSpec => []QueueInv
  OBVIOUS
<1>1. QueueInv /\ [QueueNext]_nodeVars => QueueInv'
  <2> SUFFICES ASSUME QueueInv, [QueueNext]_nodeVars PROVE QueueInv'
    OBVIOUS
  <2>1. CASE Write
    BY <2>1, WriteQueueInv
  <2>2. CASE \E r \in Readers : Read(r)
    BY <2>2, ReadQueueInv
  <2>3. CASE UNCHANGED nodeVars
    BY <2>3 DEF QueueInv, QueueTypeOK, Positions, ReaderInStep,
                TakenUpToHead, nodeVars, writerVars, readerVars
  <2>4. QED
    BY <2>1, <2>2, <2>3 DEF QueueNext
<1>2. QED
  BY <1>1, InitQueueInv, PTL DEF QueueSpec

\* Positions in the list stay within what was pushed.
THEOREM QueueTypeCorrect == SingleReader => (QueueSpec => []QueueTypeOK)
<1> SUFFICES ASSUME SingleReader PROVE QueueSpec => []QueueTypeOK
  OBVIOUS
<1>1. QueueInv => QueueTypeOK
  BY DEF QueueInv
<1>2. QED
  BY <1>1, QueueInvariance, PTL

\* Whatever clean() erases, no thread is left holding an erased node.
THEOREM NeverDangling == SingleReader => (QueueSpec => []NoDanglingNode)
<1> SUFFICES ASSUME SingleReader PROVE QueueSpec => []NoDanglingNode
  OBVIOUS
<1>1. QueueInv => NoDanglingNode
  BY DEF QueueInv, QueueTypeOK, Positions, ReaderInStep, Holding,
         NoDanglingNode
<1>2. QED
  BY <1>1, QueueInvariance, PTL

\* No value reaches two loop bodies.
THEOREM NeverTwice == SingleReader => (QueueSpec => []TakenOnce)
<1> SUFFICES ASSUME SingleReader PROVE QueueSpec => []TakenOnce
  OBVIOUS
<1>1. QueueInv => TakenOnce
  BY DEF QueueInv, QueueTypeOK, TakenUpToHead, TakenOnce
<1>2. QED
  BY <1>1, QueueInvariance, PTL

-----------------------------------------------------------------------------
(* Refinement: Push and PopNext are the steps of Fifo, the rest stutters.  *)

content == [i \in 1..(last - head) |-> head + i]

LEMMA AppendContent ==
  ASSUME NEW h \in Nat, NEW l \in Nat, h <= l
  PROVE  Append([i \in 1..(l - h) |-> h + i], l + 1)
            = [i \in 1..((l + 1) - h) |-> h + i]
<1>1. (l + 1) - h = (l - h) + 1 /\ l - h \in Nat
  OBVIOUS
<1>2. h + ((l - h) + 1) = l + 1
  OBVIOUS
<1>3. QED
  BY <1>1, <1>2

LEMMA TailContent ==
  ASSUME NEW h \in Nat, NEW l \in Nat, h < l
  PROVE  /\ [i \in 1..(l - h) |-> h + i] # <<>>
         /\ Head([i \in 1..(l - h) |-> h + i]) = h + 1
         /\ Tail([i \in 1..(l - h) |-> h + i])
               = [i \in 1..(l - (h + 1)) |-> (h + 1) + i]
<1>1. l - h \in Nat \ {0} /\ l - (h + 1) = (l - h) - 1
  OBVIOUS
<1> DEFINE s == [i \in 1..(l - h) |-> h + i]
<1>2. s \in Seq(Nat) /\ Len(s) = l - h
  BY <1>1
<1>3. s # <<>> /\ Head(s) = h + 1
  BY <1>1, <1>2
<1>4. Tail(s) = [i \in 1..((l - h) - 1) |-> s[i + 1]]
  BY <1>1, <1>2
<1>5. \A i \in 1..((l - h) - 1) : s[i + 1] = (h + 1) + i
  BY <1>1
<1>6. QED
  BY <1>1, <1>3, <1>4, <1>5

LEMMA InitRefines == QueueInit => Abstract!Init
  BY DEF QueueInit, Abstract!Init

LEMMA PushRefines ==
  ASSUME QueueInv, Push
  PROVE  Abstract!Push
<1> USE MaxPushAssumption DEF QueueInv, QueueTypeOK, Positions, TakenUpToHead
<1>1. last' = last + 1 /\ head' = head /\ taken' = taken
  BY DEF Push, readerVars
<1>2. content' = Append(content, last + 1)
  <2>1. content' = [i \in 1..((last + 1) - head) |-> head + i]
    BY <1>1, Zenon DEF content
  <2>2. head \in Nat /\ last \in Nat /\ head <= last
    OBVIOUS
  <2>3. QED
    BY <2>1, <2>2, AppendContent, Zenon DEF content
<1>3. Len(taken) + Len(content) + 1 = last + 1
  <2>1. Len(taken) = head /\ Len(content) = last - head
    BY DEF content
  <2>2. QED
    BY <2>1
<1>4. QED
  BY <1>1, <1>2, <1>3 DEF Abstract!Push, Abstract!Pushed, content

LEMMA PopRefines ==
  ASSUME QueueInv, NEW r \in Readers, PopNext(r), ~NoNext(r)
  PROVE  Abstract!Take
<1> USE DEF QueueInv, QueueTypeOK, Positions
<1>1. at[r] = head /\ got[r] = head + 1 /\ head < last
  BY DEF PopNext, ReaderInStep, Holding, NoNext
<1>2. head' = head + 1 /\ taken' = Append(taken, head + 1) /\ last' = last
  BY <1>1 DEF PopNext, writerVars
<1>3. head \in Nat /\ last \in Nat
  BY MaxPushAssumption
<1>4. content # <<>> /\ Head(content) = head + 1 /\ content' = Tail(content)
  <2>1. content' = [i \in 1..(last - (head + 1)) |-> (head + 1) + i]
    BY <1>2, Zenon DEF content
  <2>2. QED
    BY <1>1, <1>3, <2>1, TailContent, Zenon DEF content
<1>5. QED
  BY <1>2, <1>4 DEF Abstract!Take, content

LEMMA OtherStutters ==
  ASSUME UNCHANGED <<last, head, taken>>
  PROVE  UNCHANGED Abstract!vars
  BY DEF Abstract!vars

\* Seen from outside, the lock-free list is one first-in first-out queue.
THEOREM Implements == SingleReader => (QueueSpec => ImplementsFifo)
<1> SUFFICES ASSUME SingleReader PROVE QueueSpec => Abstract!Spec
  BY DEF ImplementsFifo
<1>1. QueueInv /\ [QueueNext]_nodeVars => [Abstract!Next]_Abstract!vars
  <2> SUFFICES ASSUME QueueInv, [QueueNext]_nodeVars
               PROVE  Abstract!Next \/ UNCHANGED Abstract!vars
    OBVIOUS
  <2>1. CASE Push
    BY <2>1, PushRefines DEF Abstract!Next
  <2>2. CASE CallClean \/ Clean \/ Erase \/ EndErase
    BY <2>2, OtherStutters DEF CallClean, Clean, Erase, EndErase, readerVars
  <2>3. ASSUME NEW r \in Readers, Read(r)
        PROVE  Abstract!Next \/ UNCHANGED Abstract!vars
    <3>1. CASE PopNext(r)
      BY <3>1, PopRefines, OtherStutters
      DEF PopNext, writerVars, Abstract!Next
    <3>2. CASE Empty(r) \/ Front(r) \/ Pop(r)
      BY <3>2, OtherStutters DEF Empty, Front, Pop, LoadHead, writerVars
    <3>3. CASE EmptyNext(r) \/ FrontNext(r)
      BY <3>3, OtherStutters DEF EmptyNext, FrontNext, writerVars
    <3>4. QED
      BY <2>3, <3>1, <3>2, <3>3 DEF Read
  <2>4. CASE UNCHANGED nodeVars
    BY <2>4, OtherStutters DEF nodeVars, writerVars, readerVars
  <2>5. QED
    BY <2>1, <2>2, <2>3, <2>4 DEF QueueNext, Write
<1>2. QED
  BY <1>1, InitRefines, QueueInvariance, PTL DEF QueueSpec, Abstract!Spec

-----------------------------------------------------------------------------
(* Database link *)

Rising(s) == \A i, j \in 1..Len(s) : i < j => s[i] < s[j]
AllBelow(s, n) == \A i \in 1..Len(s) : s[i] < n
AllAbove(s, n) == \A i \in 1..Len(s) : n < s[i]
Below(s, u) == \A i \in 1..Len(s), j \in 1..Len(u) : s[i] < u[j]

\* The helper holds a query from taking it until answering it.
Working == {"look", "query", "gone", "answer", "broken"}
HelperHolds == hpc \in Working <=> doing # None

\* Along its way a query meets only older ones before it: answered, results,
\* the helper's hands, todo, and the next to be asked.
InOrder ==
    /\ Rising(answered) /\ Rising(results) /\ Rising(todo)
    /\ Below(answered, results) /\ Below(answered, todo)
    /\ Below(results, todo)
    /\ doing # None => /\ AllBelow(answered, doing)
                       /\ AllBelow(results, doing)
                       /\ AllAbove(todo, doing)
    /\ doing <= asked
    /\ AllBelow(answered, asked + 1) /\ AllBelow(results, asked + 1)
    /\ AllBelow(todo, asked + 1)

\* The main thread connects only where there is no link.
Linked ==
    /\ alive \subseteq {link}
    /\ ~connected => alive = {}
    /\ mpc = "connect" => ~connected

\* The two halves of TypeOK
LinkTyped ==
    /\ link \in 0..MaxLinks /\ opened \in 0..MaxLinks
    /\ connected \in BOOLEAN
    /\ alive \subseteq 1..MaxLinks

RestTyped ==
    /\ todo \in Seq(Queries) /\ results \in Seq(Queries)
    /\ asked \in 0..MaxQueries /\ answered \in Seq(Queries)
    /\ exiting \in BOOLEAN
    /\ mpc \in {"run", "query", "ping", "close", "closeConnect", "connect",
                "gone", "clear", "closed", "broken"}
    /\ hpc \in {"off", "empty", "take", "look", "query", "gone", "answer",
                "ticked", "ended", "broken", "underflow"}
    /\ doing \in Queries \cup {None}

IInv == TypeOK /\ HelperHolds /\ InOrder /\ Linked

\* What the helper saw in todo stays there until the helper takes it, unless
\* the main thread empties todo, which it does on its way out.
SeenStays ==
    /\ mpc = "clear" => exiting
    /\ hpc = "take" => (todo # <<>> \/ exiting)
    /\ PopsEmptyOnlyAtExit

-----------------------------------------------------------------------------
(* Sequences of numbers *)

LEMMA RisingAppend ==
  ASSUME NEW s \in Seq(Nat), NEW n \in Nat, Rising(s), AllBelow(s, n)
  PROVE  Rising(Append(s, n))
  BY DEF Rising, AllBelow

LEMMA RisingTail ==
  ASSUME NEW s \in Seq(Nat), s # <<>>, Rising(s)
  PROVE  /\ Rising(Tail(s))
         /\ AllAbove(Tail(s), Head(s))
  BY DEF Rising, AllAbove

LEMMA BelowAppend ==
  ASSUME NEW s \in Seq(Nat), NEW u \in Seq(Nat), NEW n \in Nat, Below(s, u)
  PROVE  /\ AllBelow(s, n) => Below(s, Append(u, n))
         /\ AllAbove(u, n) => Below(Append(s, n), u)
  BY DEF Below, AllBelow, AllAbove

LEMMA BelowTail ==
  ASSUME NEW s \in Seq(Nat), NEW u \in Seq(Nat), Below(s, u)
  PROVE  /\ u # <<>> => Below(s, Tail(u)) /\ AllBelow(s, Head(u))
         /\ s # <<>> => Below(Tail(s), u) /\ AllAbove(u, Head(s))
<1>1. ASSUME u # <<>> PROVE Below(s, Tail(u)) /\ AllBelow(s, Head(u))
  <2>1. 1 \in 1..Len(u) /\ Head(u) = u[1]
    BY <1>1
  <2>2. \A j \in 1..Len(Tail(u)) :
            j + 1 \in 1..Len(u) /\ Tail(u)[j] = u[j + 1]
    BY <1>1
  <2>3. QED
    BY <2>1, <2>2 DEF Below, AllBelow
<1>2. ASSUME s # <<>> PROVE Below(Tail(s), u) /\ AllAbove(u, Head(s))
  BY <1>2 DEF Below, AllAbove
<1>3. QED
  BY <1>1, <1>2

LEMMA AllBelowAppend ==
  ASSUME NEW s \in Seq(Nat), NEW n \in Nat, NEW m \in Nat,
         AllBelow(s, m), n < m
  PROVE  AllBelow(Append(s, n), m)
  BY DEF AllBelow

LEMMA AllBelowTail ==
  ASSUME NEW s \in Seq(Nat), NEW m \in Nat, AllBelow(s, m), s # <<>>
  PROVE  AllBelow(Tail(s), m) /\ Head(s) < m
  BY DEF AllBelow

LEMMA AllAboveTail ==
  ASSUME NEW s \in Seq(Nat), NEW m \in Nat, AllAbove(s, m), s # <<>>
  PROVE  AllAbove(Tail(s), m)
  BY DEF AllAbove

LEMMA AllBelowUp ==
  ASSUME NEW s \in Seq(Nat), NEW m \in Nat, AllBelow(s, m)
  PROVE  AllBelow(s, m + 1)
  BY DEF AllBelow

LEMMA BoundsAreNats == MaxQueries \in Nat /\ MaxLinks \in Nat
  BY BoundsAssumption

LEMMA QueriesAreNats ==
  ASSUME NEW s \in Seq(Queries)
  PROVE  s \in Seq(Nat)
  BY BoundsAssumption DEF Queries

-----------------------------------------------------------------------------
LEMMA InitIInv == Init => IInv
<1> SUFFICES ASSUME Init PROVE IInv
  OBVIOUS
<1> USE BoundsAreNats DEF Init
<1>1. TypeOK
  <2>1. connected \in BOOLEAN /\ exiting \in BOOLEAN
    BY Zenon
  <2>2. LinkTyped
    BY <2>1 DEF LinkTyped, None
  <2>3. RestTyped
    BY <2>1 DEF RestTyped, Queries, None
  <2>4. QED
    BY <2>2, <2>3 DEF TypeOK, LinkTyped, RestTyped
<1>2. InOrder
  BY DEF InOrder, Rising, AllBelow, Below, None
<1>3. HelperHolds /\ Linked
  BY DEF HelperHolds, Working, Linked
<1>4. QED
  BY <1>1, <1>2, <1>3 DEF IInv

\* What InOrder says is a matter of the queues and of the helper's hands.
LEMMA SameOrder ==
  ASSUME InOrder, UNCHANGED <<queueVars, doing>>
  PROVE  InOrder'
  BY DEF InOrder, queueVars

LEMMA TwoHalves == TypeOK <=> LinkTyped /\ RestTyped
  BY DEF TypeOK, LinkTyped, RestTyped

LEMMA CloseLinked ==
  ASSUME LinkTyped, Linked, Close
  PROVE  LinkTyped' /\ Linked'
<1>1. alive' = {} /\ link' = None /\ ~connected' /\ opened' = opened
  BY DEF Close, Linked
<1>2. connected' \in BOOLEAN
  BY DEF Close
<1>3. QED
  BY <1>1, <1>2, BoundsAreNats DEF LinkTyped, Linked, None

LEMMA ConnectLinked ==
  ASSUME LinkTyped, Linked, alive = {}, Connect, mpc' # "connect"
  PROVE  LinkTyped' /\ Linked'
<1>1. CASE opened < MaxLinks /\ link' = opened' /\ opened' = opened + 1
           /\ alive' = alive \cup {opened'} /\ connected' = TRUE
  BY <1>1, BoundsAreNats DEF LinkTyped, Linked
<1>2. CASE link' = None /\ connected' = FALSE
           /\ UNCHANGED <<opened, alive>>
  <2>1. ~connected' /\ connected' \in BOOLEAN
    BY <1>2, Zenon
  <2>2. QED
    BY <1>2, <2>1, BoundsAreNats DEF LinkTyped, Linked, None
<1>3. QED
  BY <1>1, <1>2 DEF Connect

LEMMA ReattachLinked ==
  ASSUME LinkTyped, Linked, Reattach, mpc' # "connect"
  PROVE  LinkTyped' /\ Linked'
<1>1. CASE opened < MaxLinks /\ link' = opened' /\ opened' = opened + 1
           /\ alive' = (alive \ {link}) \cup {opened'} /\ connected' = TRUE
  BY <1>1, BoundsAreNats DEF LinkTyped, Linked
<1>2. CASE Close
  BY <1>2, CloseLinked
<1>3. QED
  BY <1>1, <1>2 DEF Reattach

LEMMA AddQueryIInv == IInv /\ AddQuery => IInv'
<1> SUFFICES ASSUME IInv, AddQuery PROVE IInv'
  OBVIOUS
<1> USE DEF IInv, AddQuery
<1>1. asked' \in Queries /\ asked' = asked + 1 /\ asked \in Nat
  BY BoundsAssumption DEF TypeOK, Queries
<1>2. TypeOK'
  BY <1>1 DEF TypeOK, linkVars, Queries
<1>3. HelperHolds' /\ Linked'
  BY DEF HelperHolds, Working, Linked, linkVars
<1>4. InOrder'
  <2>1. /\ answered \in Seq(Nat) /\ results \in Seq(Nat) /\ todo \in Seq(Nat)
        /\ doing \in Nat
    BY QueriesAreNats DEF TypeOK, Queries, None
  <2>2. Rising(todo') /\ Below(answered, todo') /\ Below(results, todo')
    BY <1>1, <2>1, RisingAppend, BelowAppend DEF InOrder
  <2>3. doing # None => AllAbove(todo', doing)
    BY <1>1, <2>1 DEF InOrder, AllAbove
  <2>4. /\ AllBelow(answered, asked' + 1) /\ AllBelow(results, asked' + 1)
        /\ AllBelow(todo', asked' + 1)
    BY <1>1, <2>1, AllBelowUp, AllBelowAppend DEF InOrder
  <2>5. QED
    BY <1>1, <2>1, <2>2, <2>3, <2>4 DEF InOrder
<1>5. QED
  BY <1>2, <1>3, <1>4

LEMMA DeliverIInv == IInv /\ Deliver => IInv'
<1> SUFFICES ASSUME IInv, Deliver PROVE IInv'
  OBVIOUS
<1> USE DEF IInv, Deliver
<1>1. /\ answered \in Seq(Nat) /\ results \in Seq(Nat) /\ todo \in Seq(Nat)
      /\ doing \in Nat /\ asked \in Nat
      /\ Head(results) \in Nat /\ Tail(results) \in Seq(Nat)
  BY QueriesAreNats, BoundsAssumption DEF TypeOK, Queries, None
<1>2. TypeOK'
  BY DEF TypeOK, linkVars, helperVars
<1>3. HelperHolds' /\ Linked'
  BY DEF HelperHolds, Working, Linked, linkVars, helperVars
<1>4. InOrder'
  <2>1. /\ Rising(Tail(results)) /\ AllAbove(Tail(results), Head(results))
        /\ AllBelow(answered, Head(results))
        /\ Below(answered, Tail(results))
        /\ Below(Tail(results), todo) /\ AllAbove(todo, Head(results))
    BY <1>1, RisingTail, BelowTail DEF InOrder
  <2>2. /\ Rising(answered') /\ Below(answered', results')
        /\ Below(answered', todo)
    BY <1>1, <2>1, RisingAppend, BelowAppend DEF InOrder
  <2>3. doing # None => AllBelow(answered', doing) /\ AllBelow(results', doing)
    BY <1>1, AllBelowTail, AllBelowAppend DEF InOrder
  <2>4. AllBelow(answered', asked + 1) /\ AllBelow(results', asked + 1)
    BY <1>1, AllBelowTail, AllBelowAppend DEF InOrder
  <2>5. QED
    BY <2>1, <2>2, <2>3, <2>4 DEF InOrder, helperVars
<1>5. QED
  BY <1>2, <1>3, <1>4

LEMMA TakeIInv == IInv /\ Take => IInv'
<1> SUFFICES ASSUME IInv, Take PROVE IInv'
  OBVIOUS
<1> USE DEF IInv, Take, HelperUnchanged
<1>1. CASE todo = <<>>
  <2>1. TypeOK' /\ HelperHolds' /\ Linked'
    BY <1>1 DEF TypeOK, HelperHolds, Working, Linked, linkVars
  <2>2. InOrder'
    BY <1>1, SameOrder DEF queueVars
  <2>3. QED
    BY <2>1, <2>2
<1>2. CASE todo # <<>>
  <2>1. /\ answered \in Seq(Nat) /\ results \in Seq(Nat) /\ todo \in Seq(Nat)
        /\ asked \in Nat
        /\ Head(todo) \in Queries /\ Head(todo) \in Nat \ {0}
        /\ Tail(todo) \in Seq(Queries)
    BY <1>2, QueriesAreNats, BoundsAssumption DEF TypeOK, Queries
  <2>2. doing' = Head(todo) /\ todo' = Tail(todo) /\ hpc' = "look"
    BY <1>2
  <2>3. TypeOK' /\ HelperHolds' /\ Linked'
    BY <2>1, <2>2 DEF TypeOK, HelperHolds, Working, Linked, linkVars, None
  <2>4. /\ Rising(todo') /\ AllAbove(todo', doing')
        /\ AllBelow(answered, doing') /\ AllBelow(results, doing')
        /\ Below(answered, todo') /\ Below(results, todo')
    BY <1>2, <2>1, <2>2, RisingTail, BelowTail DEF InOrder
  <2>5. AllBelow(todo', asked + 1) /\ doing' <= asked
    BY <1>2, <2>1, <2>2, AllBelowTail DEF InOrder
  <2>6. InOrder'
    BY <2>4, <2>5 DEF InOrder
  <2>7. QED
    BY <2>3, <2>6
<1>3. QED
  BY <1>1, <1>2

LEMMA AddQueryResultIInv == IInv /\ AddQueryResult => IInv'
<1> SUFFICES ASSUME IInv, AddQueryResult PROVE IInv'
  OBVIOUS
<1> USE DEF IInv, AddQueryResult
<1>1. doing \in Queries /\ doing # None
  BY DEF TypeOK, HelperHolds, Working
<1>2. /\ answered \in Seq(Nat) /\ results \in Seq(Nat) /\ todo \in Seq(Nat)
      /\ doing \in Nat /\ asked \in Nat
  BY <1>1, QueriesAreNats, BoundsAssumption DEF TypeOK, Queries
<1>3. TypeOK' /\ HelperHolds' /\ Linked'
  BY <1>1 DEF TypeOK, HelperHolds, Working, Linked, linkVars
<1>4. InOrder'
  <2>1. Rising(results') /\ Below(answered, results') /\ Below(results', todo)
    BY <1>1, <1>2, RisingAppend, BelowAppend DEF InOrder
  <2>2. AllBelow(results', asked + 1)
    BY <1>2, AllBelowAppend DEF InOrder
  <2>3. QED
    BY <1>2, <2>1, <2>2 DEF InOrder, None
<1>5. QED
  BY <1>3, <1>4

LEMMA ClearIInv == IInv /\ Clear => IInv'
<1> SUFFICES ASSUME IInv, Clear PROVE IInv'
  OBVIOUS
<1> USE DEF IInv, Clear
<1>1. TypeOK' /\ HelperHolds' /\ Linked'
  BY DEF TypeOK, HelperHolds, Working, Linked, linkVars, helperVars
<1>2. InOrder'
  BY DEF InOrder, Rising, Below, AllBelow, AllAbove, helperVars
<1>3. QED
  BY <1>1, <1>2

-----------------------------------------------------------------------------
(* The steps that leave the queues and the helper's hands alone *)

LEMMA MainLinkIInv ==
  ASSUME IInv, LookAtLink \/ CloseLink \/ ConnectLink \/ Query \/ QueryGone
               \/ Ping \/ Exit
  PROVE  IInv'
<1> USE DEF IInv
<1>1. UNCHANGED <<queueVars, doing, hpc>>
  BY DEF LookAtLink, CloseLink, ConnectLink, Query, QueryGone, Ping, Exit,
         MainUnchanged, helperVars
<1>2. InOrder' /\ HelperHolds'
  BY <1>1, SameOrder DEF HelperHolds
<1>3. CASE LookAtLink
  BY <1>1, <1>2, <1>3 DEF LookAtLink, MainUnchanged, TypeOK, Linked, linkVars,
                         queueVars
<1>4. CASE Query
  BY <1>1, <1>2, <1>4 DEF Query, MainUnchanged, TypeOK, Linked, linkVars,
                         queueVars
<1>5. CASE Exit
  BY <1>1, <1>2, <1>5 DEF Exit, TypeOK, Linked, linkVars, queueVars
<1>6. CASE CloseLink \/ QueryGone \/ ConnectLink \/ Ping
  <2>1. RestTyped'
    BY <1>1, <1>6, TwoHalves
    DEF CloseLink, QueryGone, ConnectLink, Ping, MainUnchanged, RestTyped,
        queueVars
  <2>2. LinkTyped /\ Linked
    BY TwoHalves
  <2>3. LinkTyped' /\ Linked'
    <3>1. CASE CloseLink \/ QueryGone
      BY <2>2, <3>1, CloseLinked DEF CloseLink, QueryGone
    <3>2. CASE ConnectLink
      BY <2>2, <3>2, ConnectLinked DEF ConnectLink, Linked
    <3>3. CASE Ping
      <4>1. mpc' # "connect"
        BY <3>3 DEF Ping
      <4>2. CASE Reattach
        BY <2>2, <4>1, <4>2, ReattachLinked
      <4>3. CASE UNCHANGED linkVars
        BY <2>2, <4>1, <4>3 DEF LinkTyped, Linked, linkVars
      <4>4. QED
        BY <3>3, <4>2, <4>3 DEF Ping
    <3>4. QED
      BY <1>6, <3>1, <3>2, <3>3
  <2>4. TypeOK'
    BY <2>1, <2>3 DEF TypeOK, LinkTyped, RestTyped
  <2>5. QED
    BY <1>2, <2>3, <2>4
<1>7. QED
  BY <1>3, <1>4, <1>5, <1>6

LEMMA HelperIInv ==
  ASSUME IInv, LookAtTodo \/ HelperLook \/ HelperQuery \/ HelperGone
               \/ EndTick
  PROVE  IInv'
<1> USE DEF IInv, HelperUnchanged
<1>1. UNCHANGED <<queueVars, doing, exiting, mpc>>
  BY DEF LookAtTodo, HelperLook, HelperQuery, HelperGone, EndTick, queueVars
<1>2. InOrder'
  BY <1>1, SameOrder
<1>3. HelperHolds'
  BY DEF LookAtTodo, HelperLook, HelperQuery, HelperGone, EndTick,
         HelperHolds, Working
<1>4. CASE HelperGone
  <2>1. LinkTyped' /\ Linked'
    BY <1>4, TwoHalves, CloseLinked DEF HelperGone
  <2>2. RestTyped'
    BY <1>1, <1>4, TwoHalves DEF HelperGone, RestTyped, queueVars
  <2>3. TypeOK'
    BY <2>1, <2>2 DEF TypeOK, LinkTyped, RestTyped
  <2>4. QED
    BY <1>2, <1>3, <2>1, <2>3
<1>5. CASE LookAtTodo \/ HelperLook \/ HelperQuery \/ EndTick
  <2>1. UNCHANGED linkVars
    BY <1>5 DEF LookAtTodo, HelperLook, HelperQuery, EndTick
  <2>2. hpc' \in {"ticked", "take", "query", "answer", "gone", "broken",
                  "ended", "empty"}
    BY <1>5 DEF LookAtTodo, HelperLook, HelperQuery, EndTick
  <2>3. LinkTyped' /\ Linked'
    BY <1>1, <2>1, TwoHalves DEF LinkTyped, Linked, linkVars
  <2>4. RestTyped'
    BY <1>1, <2>2, TwoHalves DEF RestTyped, queueVars
  <2>5. TypeOK'
    BY <2>3, <2>4 DEF TypeOK, LinkTyped, RestTyped
  <2>6. QED
    BY <1>2, <1>3, <2>3, <2>5
<1>6. QED
  BY <1>4, <1>5

LEMMA NextIInv == IInv /\ [Next]_vars => IInv'
<1> SUFFICES ASSUME IInv, [Next]_vars PROVE IInv'
  OBVIOUS
<1>1. CASE MainStep
  BY <1>1, MainLinkIInv, ClearIInv DEF MainStep
<1>2. CASE Helper
  BY <1>2, HelperIInv, TakeIInv, AddQueryResultIInv DEF Helper
<1>3. CASE AddQuery \/ Deliver \/ Exit
  BY <1>3, AddQueryIInv, DeliverIInv, MainLinkIInv
<1>4. CASE UNCHANGED vars
  BY <1>4, SameOrder
  DEF vars, queueVars, linkVars, helperVars, IInv, TypeOK, HelperHolds, Linked
<1>5. QED
  BY <1>1, <1>2, <1>3, <1>4 DEF Next

LEMMA Invariance == Spec => []IInv
  BY InitIInv, NextIInv, PTL DEF Spec

LEMMA SeenStaysKept == TypeOK /\ SeenStays /\ [Next]_vars => SeenStays'
<1> SUFFICES ASSUME TypeOK, SeenStays, [Next]_vars PROVE SeenStays'
  OBVIOUS
<1> USE DEF SeenStays, PopsEmptyOnlyAtExit
<1>1. CASE AddQuery
  <2>1. todo' # <<>>
    BY <1>1, BoundsAssumption DEF AddQuery, TypeOK, Queries
  <2>2. QED
    BY <1>1, <2>1 DEF AddQuery
<1>2. CASE Deliver
  BY <1>2 DEF Deliver, helperVars
<1>3. CASE Exit
  BY <1>3 DEF Exit, queueVars, helperVars
<1>4. CASE Clear
  BY <1>4 DEF Clear, helperVars
<1>5. CASE LookAtLink \/ CloseLink \/ ConnectLink \/ Query \/ QueryGone \/ Ping
  <2>1. UNCHANGED <<todo, hpc, exiting>> /\ mpc' # "clear"
    BY <1>5 DEF LookAtLink, CloseLink, ConnectLink, Query, QueryGone, Ping,
                MainUnchanged, queueVars, helperVars
  <2>2. QED
    BY <2>1
<1>6. CASE Take
  BY <1>6 DEF Take, HelperUnchanged
<1>7. CASE AddQueryResult
  BY <1>7 DEF AddQueryResult
<1>8. CASE LookAtTodo \/ HelperLook \/ HelperQuery \/ HelperGone \/ EndTick
  <2>1. UNCHANGED <<todo, exiting, mpc>> /\ hpc' # "underflow"
        /\ (hpc' = "take" => todo # <<>>)
    BY <1>8 DEF LookAtTodo, HelperLook, HelperQuery, HelperGone, EndTick,
                HelperUnchanged
  <2>2. QED
    BY <2>1
<1>9. CASE UNCHANGED vars
  BY <1>9 DEF vars, queueVars, helperVars
<1>10. QED
  BY <1>1, <1>2, <1>3, <1>4, <1>5, <1>6, <1>7, <1>8, <1>9
  DEF Next, MainStep, Helper

-----------------------------------------------------------------------------
\* Every variable keeps its type: m_queriesTodo and m_QueryArgs hold only
\* queries that were asked, and the helper answers none that it did not take.
THEOREM TypeCorrect == Spec => []TypeOK
<1>1. IInv => TypeOK
  BY DEF IInv
<1>2. QED
  BY <1>1, Invariance, PTL

\* The functions that scripts name in DB.AQUERY and DB.AEXECUTE are called in
\* the order of the queries, and once each, for any number of queries, however
\* the two threads interleave and whatever becomes of the link.
THEOREM OrderKept == Spec => []AnswersInOrder
<1>1. IInv => AnswersInOrder
  BY DEF IInv, TypeOK, InOrder, Rising, AnswersInOrder
<1>2. QED
  BY <1>1, Invariance, PTL

\* CDataBase never opens a link before it has closed the one it had, although
\* the helper may close a link between any two steps of the main thread.
THEOREM NeverTwoLinks == Spec => []OneLink
<1>1. IInv => OneLink
  BY DEF IInv, Linked, OneLink
<1>2. QED
  BY <1>1, Invariance, PTL

\* The helper looks whether there is a query before it locks the list, and
\* takes one without looking again: that it finds none there happens only
\* when Sphere_ExitServer() has begun, for any number of queries.
THEOREM NeverUnderflows == Spec => []PopsEmptyOnlyAtExit
<1>1. Init => SeenStays
  BY DEF Init, SeenStays, PopsEmptyOnlyAtExit
<1>2. IInv => TypeOK
  BY DEF IInv
<1>3. SeenStays => PopsEmptyOnlyAtExit
  BY DEF SeenStays
<1>4. QED
  BY <1>1, <1>2, <1>3, SeenStaysKept, Invariance, PTL DEF Spec
=============================================================================
