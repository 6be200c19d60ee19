------------------------------ MODULE IPHistory ------------------------------
(***************************************************************************)
(* What the server remembers of the addresses that connect to it           *)
(* (IPHistoryManager and HistoryIP, network/network.cpp), and the life of  *)
(* the CClient objects that count themselves there: made when a connection *)
(* is accepted, in the slot (NetState) it is given, put on                 *)
(* g_World.m_ObjDelete when the slot is cleared, and deleted by a later    *)
(* tick of the world.  All of it runs in the main thread.                  *)
(***************************************************************************)
EXTENDS Integers, FiniteSetsExt, Loops

CONSTANTS
    IPs,            \* addresses
    NoIP,           \* the address of a slot never used
    SlotCount,      \* m_stateCount
    MaxTries,       \* bound on the attempts to connect
    MaxRelays,      \* bound on the servers that a client selects once it is
                    \* in game
    MaxPings,       \* NETHISTORY_MAXPINGS
    ConnectingMaxIP, ClientMaxIP,   \* m_iConnectingMaxIP, m_iClientsMaxIP
    TTL,            \* NETHISTORY_TTL
    PingDecay,      \* NETHISTORY_PINGDECAY
    Timeout         \* the time an address is blocked for, when not for ever

ASSUME AddressAssumption == NoIP \notin IPs
ASSUME BoundsAssumption ==
    {SlotCount, MaxTries, MaxRelays, MaxPings, ConnectingMaxIP, ClientMaxIP,
     TTL, PingDecay, Timeout} \subseteq Nat

Slots == 1..SlotCount
Clients == 1..MaxTries
None == 0
Forever == -1       \* m_blockExpire is not valid

VARIABLES
    ips,        \* m_ips
    peer,       \* m_peerAddress of each slot
    client,     \* m_client of each slot
    lastGiven,  \* m_lastGivenSlot
    dying,      \* the clients on m_ObjDelete
    of, net,    \* the address each client came from, and its m_net
    game,       \* the clients whose type is CONNECT_GAME
    relays,     \* the servers each client has selected when it was in game
    tries       \* the number of attempts to connect

clientVars == <<peer, client, lastGiven, dying, of, net, game, relays>>
ipVars == <<ips, clientVars, tries>>

HistoryIP == [ip : IPs, pings : Nat, connecting : Int, connected : Int,
              blocked : BOOLEAN, expire : {Forever} \cup Nat,
              ttl : {-1} \cup Nat, pingDecay : Nat]

NewHistory(ip) == [ip |-> ip, pings |-> 0, connecting |-> 0, connected |-> 0,
                   blocked |-> FALSE, expire |-> Forever,
                   ttl |-> TTL, pingDecay |-> PingDecay]

IPInit ==
    /\ ips = <<>>
    /\ peer = [s \in Slots |-> NoIP]
    /\ client = [s \in Slots |-> None]
    /\ lastGiven = SlotCount
    /\ dying = {}
    /\ of = [c \in Clients |-> NoIP]
    /\ net = [c \in Clients |-> None]
    /\ game = {}
    /\ relays = [c \in Clients |-> 0]
    /\ tries = 0

-----------------------------------------------------------------------------
(* IPHistoryManager *)

Place(list, ip) == {i \in DOMAIN list : list[i].ip = ip}

\* getHistoryForIP(): the entry of the address, which may be a new one
Entry(list, ip) ==
    LET at == Place(list, ip)
    IN IF at = {} THEN NewHistory(ip) ELSE list[CHOOSE i \in at : TRUE]

\* ... and the list when that has become e
Update(list, e) ==
    LET at == Place(list, e.ip)
    IN IF at = {} THEN Append(list, e)
       ELSE [i \in DOMAIN list |-> IF i \in at THEN e ELSE list[i]]

\* HistoryIP::checkPing(): does it refuse, and what it makes of the entry
CheckPing(e) == e.blocked \/ e.pings >= MaxPings
Pinged(e) == [e EXCEPT !.ttl = TTL,
                       !.pings = IF e.blocked THEN @ ELSE @ + 1]

\* CClient::CClient(), CClient::SetConnectType(CONNECT_GAME)
Joined(e) == [e EXCEPT !.connecting = @ + 1, !.connected = @ + 1]
InGame(e) == [e EXCEPT !.connecting = @ - 1]

\* CClient::~CClient(), of a client that is in game, or is not
LeftGame(e) == [e EXCEPT !.connected = @ - 1]
LeftEarly(e) == [e EXCEPT !.connecting = @ - 1, !.connected = @ - 1]

\* HistoryIP::setBlocked()
Blocked(e, timeout) == [e EXCEPT !.blocked = TRUE, !.expire = timeout]
Unblocked(e) == [e EXCEPT !.blocked = FALSE, !.expire = Forever]

\* A variant for AddressForgotten: the connections are forgotten, not awaited.
DecayedTooLate(e) ==
    LET pingOver == e.pings > 0 /\ e.pingDecay = 0 IN
    [e EXCEPT
        !.ttl = IF e.connected = 0 /\ e.connecting = 0 /\ @ > 0 THEN @ - 1
                ELSE @,
        !.pings = IF pingOver THEN @ - 1 ELSE @,
        !.pingDecay = IF pingOver THEN PingDecay
                      ELSE IF e.pings > 0 THEN @ - 1 ELSE @]

\* IPHistoryManager::tick(), once a second, an entry that is not blocked
Decayed(e) ==
    LET pingOver == e.pings > 0 /\ e.pingDecay = 0 IN
    [e EXCEPT
        !.ttl = IF e.connected = 0 /\ e.connecting = 0 /\ @ >= 0 THEN @ - 1
                ELSE @,
        !.pings = IF pingOver THEN @ - 1 ELSE @,
        !.pingDecay = IF pingOver THEN PingDecay
                      ELSE IF e.pings > 0 THEN @ - 1 ELSE @]

\* ... and one that is: time passes for its block, which ends after that.
Expired(e) ==
    IF e.expire = Forever THEN e
    ELSE IF e.expire = 0 THEN Unblocked(e)
    ELSE [e EXCEPT !.expire = @ - 1]

\* The first entry whose time is over is erased, and no other.
EraseOld(list) ==
    LET old == {i \in DOMAIN list : list[i].ttl < 0}
        first == CHOOSE i \in old : \A j \in old : i <= j
    IN IF old = {} THEN list
       ELSE SubSeq(list, 1, first - 1) \o SubSeq(list, first + 1, Len(list))

\* IPHistoryManager::tick(): ten times a second, and the entries change in
\* one of them
Tick(second) ==
    /\ ips' = EraseOld([i \in DOMAIN ips |->
                  IF ~second THEN ips[i]
                  ELSE IF ips[i].blocked THEN Expired(ips[i])
                  ELSE Decayed(ips[i])])
    /\ UNCHANGED <<clientVars, tries>>

-----------------------------------------------------------------------------
(* NetworkManager and CClient *)

\* acceptNewConnection(): the address is refused, as blocked, for its pings,
\* or for its connections
Refuses(e) ==
    \/ CheckPing(e)
    \/ ConnectingMaxIP > 0 /\ e.connecting > ConnectingMaxIP
    \/ ClientMaxIP > 0 /\ e.connected > ClientMaxIP

Refuse(ip) ==
    /\ tries < MaxTries /\ tries' = tries + 1
    /\ \/ Refuses(Entry(ips, ip))
       \/ \A s \in Slots : client[s] # None
    /\ ips' = Update(ips, Pinged(Entry(ips, ip)))
    /\ UNCHANGED clientVars

\* findFreeSlot(): the first free slot after the one last given, in a circle
FindFreeSlot ==
    LET free == {s \in Slots : client[s] = None}
        after == {s \in free : s > lastGiven}
    IN Min(IF after = {} THEN free ELSE after)

\* ... or given a slot: NetState::init(), CClient::CClient()
Accept(ip) ==
    /\ tries < MaxTries /\ tries' = tries + 1
    /\ ~Refuses(Entry(ips, ip))
    /\ \E s \in Slots : client[s] = None
    /\ lastGiven' = FindFreeSlot
    /\ peer' = [peer EXCEPT ![lastGiven'] = ip]
    /\ client' = [client EXCEPT ![lastGiven'] = tries']
    /\ net' = [net EXCEPT ![tries'] = lastGiven']
    /\ of' = [of EXCEPT ![tries'] = ip]
    /\ ips' = Update(ips, Joined(Pinged(Entry(ips, ip))))
    /\ UNCHANGED <<dying, game, relays>>

\* SetConnectType(CONNECT_GAME): the client logs in to the game server, in
\* xProcessClientSetup(), or was told which server it has selected, in
\* PacketServerRelay::onSent().  It may select again.
EnterGame(s) ==
    /\ client[s] # None
    /\ IF client[s] \in game
       THEN /\ relays[client[s]] < MaxRelays
            /\ relays' = [relays EXCEPT ![client[s]] = @ + 1]
       ELSE UNCHANGED relays
    /\ game' = game \cup {client[s]}
    /\ ips' = Update(ips, InGame(Entry(ips, peer[s])))
    /\ UNCHANGED <<peer, client, lastGiven, dying, of, net, tries>>

\* NetState::clear(): the client is put on the list of objects to delete.
Clear(s) ==
    /\ client[s] # None
    /\ dying' = dying \cup {client[s]}
    /\ client' = [client EXCEPT ![s] = None]
    /\ UNCHANGED <<ips, peer, lastGiven, of, net, game, relays, tries>>

\* A variant for CountsKept: the type of the connection is not looked at.
DeletedAsInGame(c, list) == Update(list, LeftGame(Entry(list, peer[net[c]])))

\* CClient::~CClient() asks the slot of the client for the address.
Deleted(c, list) ==
    LET e == Entry(list, peer[net[c]])
    IN Update(list, IF c \in game THEN LeftGame(e) ELSE LeftEarly(e))

DeleteEach == [c \in Clients |-> [list \in Seq(HistoryIP) |-> Deleted(c, list)]]

\* m_ObjDelete.DeleteAll(), in one order or another
DeleteAll ==
    /\ dying # {}
    /\ \E order \in Orders(dying) : ips' = InTurn(DeleteEach, ips, order)
    /\ dying' = {}
    /\ UNCHANGED <<peer, client, lastGiven, of, net, game, relays, tries>>

\* The commands BLOCKIP and UNBLOCKIP, and the section BLOCKIP of a script
Block(ip) ==
    /\ \E timeout \in {Forever, Timeout} :
          ips' = Update(ips, Blocked(Entry(ips, ip), timeout))
    /\ UNCHANGED <<clientVars, tries>>

Unblock(ip) ==
    /\ ips' = Update(ips, Unblocked(Entry(ips, ip)))
    /\ UNCHANGED <<clientVars, tries>>

-----------------------------------------------------------------------------
IPNext ==
    \/ \E second \in BOOLEAN : Tick(second)
    \/ \E ip \in IPs : Refuse(ip) \/ Accept(ip) \/ Block(ip) \/ Unblock(ip)
    \/ \E s \in Slots : EnterGame(s) \/ Clear(s)
    \/ DeleteAll

IPSpec == IPInit /\ [][IPNext]_ipVars

\* The world ticks: seconds pass, and what is to be deleted is deleted.
\* Nobody blocks addresses for ever.
IPFairSpec ==
    /\ IPSpec
    /\ WF_ipVars(Tick(TRUE))
    /\ WF_ipVars(DeleteAll)

-----------------------------------------------------------------------------
\* The clients of an address that were not deleted, and those not in game
Existing(ip) ==
    {c \in Clients : of[c] = ip
        /\ (c \in dying \/ \E s \in Slots : client[s] = c)}
Connecting(ip) == Existing(ip) \ game

\* The connections of an address that are open
OpenFrom(ip) == {s \in Slots : client[s] # None /\ peer[s] = ip}

\* The type invariant.
IPTypeOK ==
    /\ ips \in Seq(HistoryIP)
    /\ peer \in [Slots -> IPs \cup {NoIP}]
    /\ client \in [Slots -> Clients \cup {None}]
    /\ lastGiven \in 0..SlotCount
    /\ dying \subseteq Clients
    /\ of \in [Clients -> IPs \cup {NoIP}]
    /\ net \in [Clients -> Slots \cup {None}]
    /\ game \subseteq Clients
    /\ relays \in [Clients -> 0..MaxRelays]
    /\ tries \in 0..MaxTries

\* The counts of an address are those of its clients, and an address that is
\* not remembered has none.
CountsExact ==
    \A ip \in IPs :
        LET e == Entry(ips, ip)
        IN /\ e.connected = Cardinality(Existing(ip))
           /\ e.connecting = Cardinality(Connecting(ip))

\* CClient::~CClient() takes the address from the slot, which may have been
\* given to another address since.
SlotsTell == \A c \in dying : peer[net[c]] = of[c]

\* A client that is in game selects a server once more, and is taken from the
\* connecting ones once more (PacketServerRelay::onSent()).
SelectsAgain == \E s \in Slots : client[s] \in game /\ EnterGame(s)

\* Counts that are exact go wrong in two ways only: a client selects a server
\* again, or one is deleted whose slot was given to another address.  Entries
\* that are erased and made again, refusals, blocks, and clients that are
\* cleared and deleted ticks later, in any order, leave them exact.
CountsKept ==
    [][CountsExact /\ ~CountsExact'
         => SelectsAgain \/ (DeleteAll /\ ~SlotsTell)]_ipVars

\* An address has at most ClientMaxIP connections.
AtMostClientMaxIP == \A ip \in IPs : Cardinality(OpenFrom(ip)) <= ClientMaxIP

\* An address is refused for its connections only when it has them.
RefusedWhenFull ==
    \A ip \in IPs :
        Entry(ips, ip).connected > ClientMaxIP
            => Cardinality(Existing(ip)) > ClientMaxIP

\* A block ends when it is lifted or its time is over.
IsBlocked(ip) == Entry(ips, ip).blocked
BlocksKept ==
    [][\A ip \in IPs :
          IsBlocked(ip) /\ ~IsBlocked(ip)'
              => Unblock(ip) \/ Entry(ips, ip).expire = 0]_ipVars

\* An address with no connections is forgotten, unless it connects again, is
\* blocked, or has been counted wrong.
AddressForgotten ==
    \A ip \in IPs :
        (tries = MaxTries /\ OpenFrom(ip) = {} /\ CountsExact /\ SlotsTell)
            ~> (Place(ips, ip) = {} \/ IsBlocked(ip) \/ OpenFrom(ip) # {})
=============================================================================
