---------------------------- MODULE AsyncDatabase ----------------------------
(***************************************************************************)
(* The database link of the scripts (CDataBase, common/CDataBase.cpp), and *)
(* the helper thread that runs their DB.AQUERY and DB.AEXECUTE             *)
(* (CDataBaseAsyncHelper, sphere/asyncdb.cpp).  A query goes through       *)
(* m_queriesTodo to the helper and its answer through m_QueryArgs back to  *)
(* the main thread, which calls the function that the script has named.    *)
(*                                                                         *)
(* Whatever happens under a mutex is one step.  What m_bConnected said     *)
(* before the mutex was taken is a step of its own.  The model stops where *)
(* the behaviour of the code is undefined.                                 *)
(***************************************************************************)
EXTENDS Naturals, Sequences

CONSTANTS
    MaxQueries, \* bound on the number of queries in the background
    MaxLinks,   \* bound on the number of links ever opened
    CanLose     \* may the link be lost, or closed by a script?

ASSUME BoundsAssumption == {MaxQueries, MaxLinks} \subseteq Nat
ASSUME CanLoseAssumption == CanLose \in BOOLEAN

Queries == 1..MaxQueries
None == 0   \* _myData == NULL, or no query

VARIABLES
    todo,       \* m_queriesTodo
    results,    \* m_QueryArgs
    asked,      \* the number of queries scripts have asked for so far
    answered,   \* the queries whose function was called, in that order
    link,       \* _myData
    connected,  \* m_bConnected
    opened,     \* the number of links opened
    alive,      \* the links opened and not closed
    exiting,    \* SERVMODE_Exiting
    mpc,        \* what the main thread is doing
    hpc,        \* what the helper is doing
    doing       \* the query in the helper's hands

queueVars == <<todo, results, asked, answered>>
linkVars == <<link, connected, opened, alive>>
helperVars == <<hpc, doing>>
vars == <<queueVars, linkVars, exiting, mpc, helperVars>>

Init ==
    /\ todo = <<>> /\ results = <<>>
    /\ asked = 0 /\ answered = <<>>
    /\ link = None /\ connected = FALSE /\ opened = 0 /\ alive = {}
    /\ exiting = FALSE
    /\ mpc = "run"
    /\ hpc = "off" /\ doing = None

-----------------------------------------------------------------------------
(* The link *)

Close ==
    /\ alive' = alive \ {link}
    /\ link' = None
    /\ connected' = FALSE
    /\ UNCHANGED opened

\* Connect(), which may fail
Connect ==
    \/ /\ opened < MaxLinks
       /\ opened' = opened + 1
       /\ link' = opened'
       /\ alive' = alive \cup {opened'}
       /\ connected' = TRUE
    \/ /\ link' = None
       /\ connected' = FALSE
       /\ UNCHANGED <<opened, alive>>

\* mysql_ping() fails: Close(), Connect(), under one lock
Reattach ==
    \/ /\ opened < MaxLinks
       /\ opened' = opened + 1
       /\ link' = opened'
       /\ alive' = (alive \ {link}) \cup {opened'}
       /\ connected' = TRUE
    \/ Close

-----------------------------------------------------------------------------
(* The main thread *)

MainUnchanged == UNCHANGED <<queueVars, helperVars, exiting>>

\* DB.AQUERY and DB.AEXECUTE: CDataBase::addQuery(), which starts the helper
AddQuery ==
    /\ mpc = "run" /\ ~exiting
    /\ asked < MaxQueries
    /\ asked' = asked + 1
    /\ todo' = Append(todo, asked')
    /\ hpc' = IF hpc = "off" THEN "empty" ELSE hpc
    /\ UNCHANGED <<results, answered, linkVars, exiting, mpc, doing>>

\* DB.QUERY, DB.EXECUTE, DB.CLOSE and DB.CONNECT, OnTick() with its ping and
\* OnTickMySQL() begin with isConnected().
LookAtLink ==
    /\ mpc = "run" /\ ~exiting
    /\ \/ connected /\ mpc' \in {"query", "ping"}
       \/ connected /\ CanLose /\ mpc' \in {"close", "closeConnect"}
       \/ ~connected /\ mpc' = "connect"
    /\ MainUnchanged /\ UNCHANGED linkVars

\* A variant for OneLink: DB.CONNECT leaves the old link open.
CloseLinkIfAsked ==
    /\ mpc \in {"close", "closeConnect"}
    /\ IF mpc = "close" THEN Close ELSE UNCHANGED linkVars
    /\ mpc' = IF mpc = "close" THEN "run" ELSE "connect"
    /\ MainUnchanged

CloseLink ==
    /\ mpc \in {"close", "closeConnect"}
    /\ Close
    /\ mpc' = IF mpc = "close" THEN "run" ELSE "connect"
    /\ MainUnchanged

\* DB.CONNECT, or OnTickMySQL()
ConnectLink ==
    /\ mpc = "connect"
    /\ Connect
    /\ mpc' = "run"
    /\ MainUnchanged

\* query() and exec(), from the lock on
Query ==
    /\ mpc = "query"
    /\ mpc' \in IF link = None THEN {"broken"}
                ELSE IF CanLose THEN {"run", "gone"} ELSE {"run"}
    /\ MainUnchanged /\ UNCHANGED linkVars

\* ... and after it, for a result that says that the server is gone
QueryGone ==
    /\ mpc = "gone"
    /\ Close
    /\ mpc' = "run"
    /\ MainUnchanged

\* CDataBase::OnTick(), every 1000th time
Ping ==
    /\ mpc = "ping"
    /\ \/ link = None /\ mpc' = "broken" /\ UNCHANGED linkVars
       \/ link # None /\ mpc' = "run" /\ UNCHANGED linkVars
       \/ link # None /\ mpc' = "run" /\ CanLose /\ Reattach
    /\ MainUnchanged

\* CDataBase::OnTick(), every tenth time: the function of one answer is
\* called.
Deliver ==
    /\ mpc = "run" /\ ~exiting
    /\ results # <<>>
    /\ answered' = Append(answered, Head(results))
    /\ results' = Tail(results)
    /\ UNCHANGED <<todo, asked, linkVars, exiting, mpc, helperVars>>

\* Sphere_ExitServer()
Exit ==
    /\ mpc = "run" /\ ~exiting
    /\ exiting' = TRUE
    /\ mpc' = "clear"
    /\ UNCHANGED <<queueVars, linkVars, helperVars>>

\* CDataBaseAsyncHelper::waitForClose(): what is still to do is dropped.
Clear ==
    /\ mpc = "clear"
    /\ todo' = <<>>
    /\ mpc' = "closed"
    /\ UNCHANGED <<results, asked, answered, linkVars, exiting, helperVars>>

MainStep ==
    \/ LookAtLink \/ CloseLink \/ ConnectLink \/ Query \/ QueryGone \/ Ping
    \/ Clear

-----------------------------------------------------------------------------
(* CDataBaseAsyncHelper::tick(), again and again *)

HelperUnchanged == UNCHANGED <<results, asked, answered, exiting, mpc>>

\* A variant for PopsEmptyOnlyAtExit: the queue is not looked at.
NotLookAtTodo ==
    /\ hpc = "empty"
    /\ hpc' = "take"
    /\ HelperUnchanged /\ UNCHANGED <<todo, linkVars, doing>>

LookAtTodo ==
    /\ hpc = "empty"
    /\ hpc' = IF todo = <<>> THEN "ticked" ELSE "take"
    /\ HelperUnchanged /\ UNCHANGED <<todo, linkVars, doing>>

\* A variant for AnswersInOrder: the newest query first.
TakeNewest ==
    /\ hpc = "take"
    /\ IF todo = <<>>
       THEN hpc' = "underflow" /\ UNCHANGED <<todo, doing>>
       ELSE /\ doing' = todo[Len(todo)]
            /\ todo' = SubSeq(todo, 1, Len(todo) - 1)
            /\ hpc' = "look"
    /\ HelperUnchanged /\ UNCHANGED linkVars

\* The mutex is taken after the queue was looked at; front() and pop_front()
\* of an empty queue are undefined.
Take ==
    /\ hpc = "take"
    /\ IF todo = <<>>
       THEN hpc' = "underflow" /\ UNCHANGED <<todo, doing>>
       ELSE /\ doing' = Head(todo)
            /\ todo' = Tail(todo)
            /\ hpc' = "look"
    /\ HelperUnchanged /\ UNCHANGED linkVars

\* query() and exec() by the helper
HelperLook ==
    /\ hpc = "look"
    /\ hpc' = IF connected THEN "query" ELSE "answer"
    /\ HelperUnchanged /\ UNCHANGED <<todo, linkVars, doing>>

HelperQuery ==
    /\ hpc = "query"
    /\ hpc' \in IF link = None THEN {"broken"}
                ELSE IF CanLose THEN {"answer", "gone"} ELSE {"answer"}
    /\ HelperUnchanged /\ UNCHANGED <<todo, linkVars, doing>>

HelperGone ==
    /\ hpc = "gone"
    /\ Close
    /\ hpc' = "answer"
    /\ HelperUnchanged /\ UNCHANGED <<todo, doing>>

\* A variant for EveryQueryAnswered: only a query that had a link
\* is answered.
AddQueryResultIfConnected ==
    /\ hpc = "answer"
    /\ results' = IF connected THEN Append(results, doing) ELSE results
    /\ doing' = None
    /\ hpc' = "ticked"
    /\ UNCHANGED <<todo, asked, answered, linkVars, exiting, mpc>>

\* addQueryResult(): failed queries are answered too.
AddQueryResult ==
    /\ hpc = "answer"
    /\ results' = Append(results, doing)
    /\ doing' = None
    /\ hpc' = "ticked"
    /\ UNCHANGED <<todo, asked, answered, linkVars, exiting, mpc>>

\* AbstractThread::run() between two ticks: shouldExit(), and a sleep
EndTick ==
    /\ hpc = "ticked"
    /\ hpc' = IF exiting THEN "ended" ELSE "empty"
    /\ HelperUnchanged /\ UNCHANGED <<todo, linkVars, doing>>

Helper ==
    \/ LookAtTodo \/ Take \/ HelperLook \/ HelperQuery \/ HelperGone
    \/ AddQueryResult \/ EndTick

-----------------------------------------------------------------------------
Next == AddQuery \/ Deliver \/ Exit \/ MainStep \/ Helper

Spec == Init /\ [][Next]_vars

\* Both threads go on, and the main thread gets to its results.
FairSpec ==
    /\ Spec
    /\ WF_vars(Helper)
    /\ WF_vars(mpc # "run" /\ MainStep)
    /\ SF_vars(Deliver)

-----------------------------------------------------------------------------
Elements(seq) == {seq[i] : i \in DOMAIN seq}
Broken == "broken" \in {mpc, hpc}

\* The type invariant.
TypeOK ==
    /\ todo \in Seq(Queries) /\ results \in Seq(Queries)
    /\ asked \in 0..MaxQueries /\ answered \in Seq(Queries)
    /\ {link, opened} \subseteq 0..MaxLinks /\ connected \in BOOLEAN
    /\ alive \subseteq 1..MaxLinks
    /\ exiting \in BOOLEAN
    /\ mpc \in {"run", "query", "ping", "close", "closeConnect", "connect",
                "gone", "clear", "closed", "broken"}
    /\ hpc \in {"off", "empty", "take", "look", "query", "gone", "answer",
                "ticked", "ended", "broken", "underflow"}
    /\ doing \in Queries \cup {None}

\* The functions of the scripts are called in the order in which the queries
\* were asked, and once each, through two queues and two threads.
AnswersInOrder ==
    \A i, j \in DOMAIN answered : i < j => answered[i] < answered[j]

\* A link is closed before another is opened.
OneLink == alive \subseteq {link}

\* The helper takes a query from an empty queue only when the server closes
\* down: waitForClose() empties it between empty() and front().
PopsEmptyOnlyAtExit == hpc = "underflow" => exiting

\* A query is sent through an open link, whatever the other thread does.
QueriesOpenLink == ~exiting => ~Broken

\* Every query is answered, also when there is no link, unless the server
\* closes down.
EveryQueryAnswered ==
    \A q \in Queries :
        asked >= q ~> (q \in Elements(answered) \/ exiting \/ Broken)
=============================================================================
