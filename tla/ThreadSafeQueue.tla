--------------------------- MODULE ThreadSafeQueue ---------------------------
(***************************************************************************)
(* ThreadSafeQueue<T> of sphere/containers.h: a std::list shared without   *)
(* locks by the thread that pushes and the thread that pops.  m_head is    *)
(* the node consumed last (a dummy at first), m_tail is m_list.end(), and  *)
(* consumed nodes are erased later, by the writer, in clean().             *)
(*                                                                         *)
(* A list node is known by its position in the list's whole history: node  *)
(* 0 is the dummy of the constructor, node i holds the i-th pushed value.  *)
(* The live list is first..last.  Each step is one access of a thread to   *)
(* memory the other may change.  The consumers run the loop that every     *)
(* caller of the class runs:                                               *)
(*     while (!q.empty()) { x = q.front(); q.pop(); use(x); }              *)
(***************************************************************************)
EXTENDS Naturals, Sequences

CONSTANTS
    Readers,    \* the threads that pop: the header allows one
    MaxPush     \* bound on the number of pushes

ASSUME MaxPushAssumption == MaxPush \in Nat

VARIABLES
    first,      \* m_list.begin()
    last,       \* the node before m_list.end()
    head,       \* m_head
    wpc,        \* where the writer is: "idle", "clean" or "erase"
    stop,       \* the copy of m_head that erase() was given
    rpc,        \* where each reader is
    at,         \* each reader's copy of m_head
    got,        \* what front() returned to each reader
    taken       \* the values given to the readers' loop bodies, in order

writerVars == <<first, last, wpc, stop>>
readerVars == <<head, rpc, at, got, taken>>
nodeVars == <<writerVars, readerVars>>

ReaderPC == {"empty", "emptyNext", "front", "frontNext", "pop", "popNext"}

QueueInit ==
    /\ first = 0 /\ last = 0 /\ head = 0
    /\ wpc = "idle" /\ stop = 0
    /\ rpc = [r \in Readers |-> "empty"]
    /\ at = [r \in Readers |-> 0]
    /\ got = [r \in Readers |-> 0]
    /\ taken = <<>>

-----------------------------------------------------------------------------
(* The writer *)

\* push(): the new node becomes reachable, then clean() runs
Push ==
    /\ wpc = "idle"
    /\ last < MaxPush
    /\ last' = last + 1
    /\ wpc' = "clean"
    /\ UNCHANGED <<first, stop, readerVars>>

\* clean() called on its own, as NetworkManager::tick does for every queue
CallClean ==
    /\ wpc = "idle"
    /\ wpc' = "clean"
    /\ UNCHANGED <<first, last, stop, readerVars>>

\* clean(): m_head is read once, as the end of the range to erase
Clean ==
    /\ wpc = "clean"
    /\ stop' = head
    /\ wpc' = "erase"
    /\ UNCHANGED <<first, last, readerVars>>

\* A variant for NoDanglingNode: the range includes m_head.
EraseHeadToo ==
    /\ wpc = "erase"
    /\ first <= stop
    /\ first' = first + 1
    /\ wpc' = IF first = stop THEN "idle" ELSE "erase"
    /\ UNCHANGED <<last, stop, readerVars>>

\* std::list::erase frees the nodes of the range one after the other
Erase ==
    /\ wpc = "erase"
    /\ first < stop
    /\ first' = first + 1
    /\ UNCHANGED <<last, wpc, stop, readerVars>>

EndErase ==
    /\ wpc = "erase"
    /\ first >= stop
    /\ wpc' = "idle"
    /\ UNCHANGED <<first, last, stop, readerVars>>

-----------------------------------------------------------------------------
(* A reader: empty(), front() and pop() each copy m_head and follow the    *)
(* copy to the next node, which is m_tail exactly when the copy is last.   *)

LoadHead(r, from, to) ==
    /\ rpc[r] = from
    /\ at' = [at EXCEPT ![r] = head]
    /\ rpc' = [rpc EXCEPT ![r] = to]
    /\ UNCHANGED <<writerVars, head, got, taken>>

NoNext(r) == at[r] = last

Empty(r) == LoadHead(r, "empty", "emptyNext")

EmptyNext(r) ==
    /\ rpc[r] = "emptyNext"
    /\ rpc' = [rpc EXCEPT ![r] = IF NoNext(r) THEN "empty" ELSE "front"]
    /\ UNCHANGED <<writerVars, head, at, got, taken>>

Front(r) == LoadHead(r, "front", "frontNext")

\* front() throws when it finds nothing, and the exception ends the loop
FrontNext(r) ==
    /\ rpc[r] = "frontNext"
    /\ got' = [got EXCEPT ![r] = IF NoNext(r) THEN @ ELSE at[r] + 1]
    /\ rpc' = [rpc EXCEPT ![r] = IF NoNext(r) THEN "empty" ELSE "pop"]
    /\ UNCHANGED <<writerVars, head, at, taken>>

Pop(r) == LoadHead(r, "pop", "popNext")

\* A variant for ImplementsFifo: pop() moves on from the m_head of now, not
\* from the copy it tested, and skips a node when the copy is old.
PopNextTwice(r) ==
    /\ rpc[r] = "popNext"
    /\ rpc' = [rpc EXCEPT ![r] = "empty"]
    /\ IF NoNext(r)
       THEN UNCHANGED <<head, taken>>
       ELSE /\ head' = last
            /\ taken' = Append(taken, got[r])
    /\ UNCHANGED <<writerVars, at, got>>

\* A variant for EveryPushTaken: pop() forgets to advance m_head.
PopNextStays(r) ==
    /\ rpc[r] = "popNext"
    /\ rpc' = [rpc EXCEPT ![r] = "empty"]
    /\ taken' = IF NoNext(r) \/ Len(taken) >= MaxPush THEN taken
                ELSE Append(taken, got[r])
    /\ UNCHANGED <<writerVars, head, at, got>>

\* pop() throws in the same way, otherwise the loop body gets the value
PopNext(r) ==
    /\ rpc[r] = "popNext"
    /\ rpc' = [rpc EXCEPT ![r] = "empty"]
    /\ IF NoNext(r)
       THEN UNCHANGED <<head, taken>>
       ELSE /\ head' = at[r] + 1
            /\ taken' = Append(taken, got[r])
    /\ UNCHANGED <<writerVars, at, got>>

Read(r) ==
    \/ Empty(r) \/ EmptyNext(r)
    \/ Front(r) \/ FrontNext(r)
    \/ Pop(r) \/ PopNext(r)

-----------------------------------------------------------------------------
Write == Push \/ CallClean \/ Clean \/ Erase \/ EndErase

QueueNext == Write \/ \E r \in Readers : Read(r)

QueueSpec == QueueInit /\ [][QueueNext]_nodeVars

\* Both threads run in loops that never stop polling.  clean() is called on
\* every tick of the main loop, but nothing has to be pushed.
QueueFairSpec ==
    /\ QueueSpec
    /\ WF_nodeVars(Clean \/ Erase \/ EndErase)
    /\ \A r \in Readers : WF_nodeVars(Read(r))

-----------------------------------------------------------------------------
\* The type invariant: every position is one that has been pushed.
QueueTypeOK ==
    /\ {first, last, head, stop} \subseteq 0..MaxPush
    /\ wpc \in {"idle", "clean", "erase"}
    /\ rpc \in [Readers -> ReaderPC]
    /\ at \in [Readers -> Nat]
    /\ got \in [Readers -> Nat]
    /\ taken \in Seq(Nat)

\* No thread follows a pointer into a node that clean() has already freed:
\* neither a reader's copy of m_head nor m_head itself.
NoDanglingNode ==
    /\ head >= first
    /\ \A r \in Readers :
          rpc[r] \in {"emptyNext", "frontNext", "popNext"} => at[r] >= first

\* The lock-free list behaves as one first-in first-out queue: its content
\* is what lies beyond m_head, and each value is given to one loop body.
Abstract == INSTANCE Fifo WITH
    queue <- [i \in 1..(last - head) |-> head + i]

ImplementsFifo == Abstract!Spec

\* What the header asks of its callers.
SingleReader == \A r, s \in Readers : r = s

\* The values a loop body received are all different: with two, the packet
\* both consumers were handed is deleted twice.
TakenOnce ==
    \A i, j \in DOMAIN taken : i # j => taken[i] # taken[j]

\* Every pushed value reaches a loop body as long as the readers poll.
EveryPushTaken ==
    \A i \in 1..MaxPush : (last >= i) ~> \E j \in DOMAIN taken : taken[j] = i
=============================================================================
