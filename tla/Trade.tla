--------------------------------- MODULE Trade ---------------------------------
(***************************************************************************)
(* Secure trade: two players put items (and virtual gold) into windows     *)
(* that both can see, and each presses a button; when both have, all is    *)
(* exchanged.  The window of a player is a container that he wears, linked *)
(* to that of his partner (game/items/CItemContainer.cpp,                  *)
(* game/clients/CClientUse.cpp, network/receive.cpp).                      *)
(*                                                                         *)
(* Handlers run one after the other in the main thread.  What makes trade  *)
(* hard is that each of them may change either window, that they call each *)
(* other through the containers, and that an item goes only where it can   *)
(* be carried.  Scripts answer in the middle of it: they may refuse what   *)
(* would go into a pack (@DropOn_Self), that a window is destroyed         *)
(* (@Destroy), and the exchange itself (@TradeAccepted), before which they *)
(* may also change what is in the windows.                                 *)
(*                                                                         *)
(* Items are single: stacks, and containers in a window, are left out; so  *)
(* is dragging: an item goes from the pack to the window.                  *)
(***************************************************************************)
EXTENDS Integers, FiniteSets, Loops

CONSTANTS
    Chars, Items,
    Weight,         \* of each item
    MaxCarry,       \* Calc_MaxCarryWeight() of each character
    Purses,         \* the virtual gold that each may have at first
    Fussy,          \* <<c, i>>: a script may refuse i in the pack of c
    Sticky,         \* windows whose @Destroy may refuse
    MaxDebt         \* bound on what is paid out of a window that stays

ASSUME WorldAssumption == IsFiniteSet(Chars) /\ IsFiniteSet(Items)
ASSUME WeightAssumption == Weight \in [Items -> Nat]
ASSUME CarryAssumption == MaxCarry \in [Chars -> Nat]
ASSUME PursesAssumption == Purses \subseteq [Chars -> Nat]
ASSUME FussyAssumption == Fussy \subseteq Chars \X Items
ASSUME DebtAssumption == MaxDebt \in Nat

\* <<c, d>> is the window that c has for a trade with d.
Windows == {w \in Chars \X Chars : w[1] # w[2]}
Other(w) == <<w[2], w[1]>>
Pair(w) == {w, Other(w)}

Pack(c) == <<"pack", c>>
In(w) == <<"window", w[1], w[2]>>
Corpse == <<"corpse">>
Lost == <<"lost">>
ASSUME StickyAssumption == Sticky \subseteq Windows

Places ==
    {Pack(c) : c \in Chars} \cup {In(w) : w \in Windows} \cup {Corpse, Lost}

Placements == [Items -> Places]

\* A button and a wait only count while the window is linked, and are left out
\* of one that stands alone.
VARIABLES
    place,      \* of each item: a pack, a window, a corpse, or deleted
    online,     \* who has a client
    open,       \* the windows there are
    linked,     \* the ones with a m_uidLink
    check,      \* the ones with m_bCheck
    waits,      \* the ones with a m_iWaitTime that is not over
    offer,      \* m_iGold of each window
    purse,      \* m_virtualGold of each character
    accepting,  \* the window whose Trade_Status() is at @TradeAccepted, if any
    seen,       \* what was in both windows when this one was checked
    kept,       \* windows that a script kept when they were to go
    meddled,    \* a script has changed a window since both were checked
    refused     \* what was refused in a pack in the last step, and whose

talk == <<open, linked, kept>>
vars == <<place, online, talk, check, waits, offer, purse, accepting, seen,
          meddled, refused>>

Content(at, w) == {i \in Items : at[i] = In(w)}
Both(w) == <<Content(place, w), Content(place, Other(w))>>

Init ==
    /\ place \in [Items -> {Pack(c) : c \in Chars}]
    /\ online = Chars
    /\ open = {} /\ linked = {} /\ check = {} /\ waits = {}
    /\ offer = [w \in Windows |-> 0]
    /\ purse \in Purses
    /\ seen = [w \in Windows |-> <<{}, {}>>]
    /\ accepting = {} /\ kept = {} /\ meddled = FALSE /\ refused = {}

-----------------------------------------------------------------------------
(* Where items go.  What is in a window counts for who wears it; the window
   itself weighs nothing here. *)

Carried(at, c, i) ==
    at[i] = Pack(c) \/ \E w \in Windows : w[1] = c /\ at[i] = In(w)

AllItems == CHOOSE s \in Orders(Items) : TRUE

TotalWeight(at, c) ==
    InTurn([i \in Items |-> [n \in Nat |->
               IF Carried(at, c, i) THEN n + Weight[i] ELSE n]], 0, AllItems)

CanCarry(at, c, i) == TotalWeight(at, c) + Weight[i] <= MaxCarry[c]

\* ItemBounce() into the pack of c.  What he cannot carry, and what a script of
\* @DropOn_Self refuses, stays where it is, as it is in a container.
ItemBounce(refuse, at, c, i) ==
    IF CanCarry(at, c, i) /\ <<c, i>> \notin refuse
    THEN [at EXCEPT ![i] = Pack(c)] ELSE at

\* What is in the window w, in the order of all that is in windows.
BounceAll(order, refuse, at, w, c) ==
    LET Bounce(p, i) == IF p[i] = In(w) THEN ItemBounce(refuse, p, c, i) ELSE p
    IN InTurn([i \in Items |-> [p \in Placements |-> Bounce(p, i)]], at, order)

Destroyed(at, w) == [i \in Items |-> IF at[i] = In(w) THEN Lost ELSE at[i]]

\* A variant for LostOnlyTooHeavy: the partner's window is not emptied.
Trade_DeleteAlone(order, refuse, keep, at, w) ==
    LET mine == BounceAll(order, refuse, at, w, w[1])
    IN IF Other(w) \in linked \ keep THEN Destroyed(mine, Other(w)) ELSE mine

\* Trade_Delete(): what is in the window is given back, and the window of the
\* partner, unlinked first, does the same and is destroyed; unless it is one
\* of `keep', whose @Destroy refuses: that one stays as it is.
Trade_Delete(order, refuse, keep, at, w) ==
    LET mine == BounceAll(order, refuse, at, w, w[1])
        his == BounceAll(order, refuse, mine, Other(w), w[2])
    IN IF Other(w) \in linked \ keep THEN Destroyed(his, Other(w)) ELSE mine

\* Delete() of a window.  (DeletePrepare() has Trade_Delete() once more, with
\* the same weights: `refuse' is what is refused both times.)
Delete(order, refuse, keep, at, w) ==
    IF w \in keep THEN at
    ELSE Destroyed(Trade_Delete(order, refuse, keep, at, w), w)

\* Delete() of a window that has no partner any more.
DeleteUnlinked(order, refuse, keep, at, w) ==
    IF w \in keep THEN at
    ELSE Destroyed(BounceAll(order, refuse, at, w, w[1]), w)

\* Delete() is called of the windows `all', and of the partners of the ones that
\* have been emptied, `ended'.
Asked(all, ended) == all \cup {x \in linked : Other(x) \in ended}

\* These lose their links.
Parted(ended) == ended \cup {Other(w) : w \in ended}
Part(parted) ==
    /\ linked' = linked \ parted
    /\ check' = check \ parted
    /\ waits' = waits \ parted
    /\ offer' = [w \in Windows |-> IF w \in parted THEN 0 ELSE offer[w]]
    /\ seen' = [w \in Windows |-> IF w \in parted THEN <<{}, {}>> ELSE seen[w]]

\* A variant for WindowsPaired: the partner's window stays.
ForgetJust(all, ended, keep) ==
    /\ open' = open \ (all \ keep)
    /\ kept' = (kept \ all) \cup (all \cap keep)
    /\ Part(Parted(ended))

\* What is deleted goes, unless its @Destroy refuses.
Forget(all, ended, keep) ==
    /\ open' = open \ (Asked(all, ended) \ keep)
    /\ kept' = (kept \ Asked(all, ended)) \cup (Asked(all, ended) \cap keep)
    /\ Part(Parted(ended))

-----------------------------------------------------------------------------
(* Handlers *)

\* No handler waits for the scripts of @TradeAccepted.
Idle == accepting = {}
Answered(refuse) == accepting' = {} /\ meddled' = FALSE /\ refused' = refuse
NotAsked == UNCHANGED <<accepting, meddled>> /\ refused' = {}

\* Both windows are there, and both players have clients.
Talks(w) == Pair(w) \subseteq linked /\ {w[1], w[2]} \subseteq online

\* Trade_Status(false), for both.
Trade_Unchecked(w) ==
    LET both == IF Talks(w) THEN Pair(w) ELSE {}
    IN /\ check' = check \ both
       /\ seen' = [x \in Windows |-> IF x \in both THEN <<{}, {}>> ELSE seen[x]]

\* Cmd_SecureTrade(): a new window, empty or with the item that was dropped on
\* the other character.  (Where one stands alone, no other is opened here.)
Open(w) ==
    /\ Idle /\ Pair(w) \cap open = {} /\ {w[1], w[2]} \subseteq online
    /\ open' = open \cup Pair(w) /\ linked' = linked \cup Pair(w)
    /\ \/ UNCHANGED place
       \/ \E i \in Items : /\ place[i] = Pack(w[1])
                           /\ place' = [place EXCEPT ![i] = In(w)]
    /\ NotAsked
    /\ UNCHANGED <<online, check, waits, offer, purse, seen, kept>>

\* A script of @TradeAccepted changes w.
Meddles(w) ==
    /\ meddled' = (meddled \/ accepting \cap Pair(w) # {})
    /\ UNCHANGED accepting /\ refused' = {}

\* Another item is dropped on the window or on the other character, or a script
\* puts it there: ContentAdd() of the window.
Add(w, i) ==
    /\ w \in open /\ place[i] = Pack(w[1])
    /\ place' = [place EXCEPT ![i] = In(w)]
    /\ Trade_Unchecked(w) /\ Meddles(w)
    /\ UNCHANGED <<online, talk, waits, offer, purse>>

\* A variant for OnlyWhatWasSeen: only the check of who takes out goes.
TakeOutQuietly(w, i) ==
    /\ w \in open /\ place[i] = In(w)
    /\ place' = [place EXCEPT ![i] = Pack(w[1])]
    /\ check' = check \ {w}
    /\ seen' = [seen EXCEPT ![w] = <<{}, {}>>]
    /\ waits' = waits \cup ({w} \cap linked)
    /\ Meddles(w)
    /\ UNCHANGED <<online, talk, offer, purse>>

\* An item is taken out, which only a script may do: OnRemoveObj().
TakeOut(w, i) ==
    /\ w \in open /\ place[i] = In(w)
    /\ place' = [place EXCEPT ![i] = Pack(w[1])]
    /\ Trade_Unchecked(w) /\ Meddles(w)
    /\ waits' = waits \cup ({w} \cap linked)
    /\ UNCHANGED <<online, talk, offer, purse>>

WaitOver(w) ==
    /\ Idle /\ w \in waits
    /\ waits' = waits \ {w}
    /\ NotAsked
    /\ UNCHANGED <<place, online, talk, check, offer, purse, seen>>

Uncheck(w) ==
    /\ Idle /\ Talks(w) /\ w \notin waits
    /\ Trade_Unchecked(w) /\ NotAsked
    /\ UNCHANGED <<place, online, talk, waits, offer, purse>>

\* The button is pressed; if the other was before, scripts are asked next.
Check(w) ==
    /\ Idle /\ Talks(w) /\ w \notin waits
    /\ check' = check \cup {w}
    /\ seen' = [seen EXCEPT ![w] = Both(w)]
    /\ accepting' = IF Other(w) \in check THEN {w} ELSE {}
    /\ refused' = {}
    /\ UNCHANGED <<place, online, talk, waits, offer, purse, meddled>>

\* A script of @TradeAccepted refuses; the buttons stay pressed.
Decline(w) ==
    /\ w \in accepting /\ Answered({})
    /\ UNCHANGED <<place, online, talk, check, waits, offer, purse, seen>>

\* No script does: what is in the windows now goes to the other, and the gold.
Transferred(order, refuse, w) ==
    BounceAll(order, refuse,
              BounceAll(order, refuse, place, Other(w), w[1]), w, w[2])
Paid(w) == [purse EXCEPT ![w[1]] = @ + offer[Other(w)] - offer[w],
                         ![w[2]] = @ + offer[w] - offer[Other(w)]]

\* Then the window is deleted.
Exchange(order, refuse, keep, w) ==
    /\ w \in accepting \ keep
    /\ place' = Delete(order, refuse, keep, Transferred(order, refuse, w), w)
    /\ purse' = Paid(w)
    /\ Forget({w}, {w}, keep) /\ Answered(refuse)
    /\ UNCHANGED online

\* Or its @Destroy refuses, and the two stay, with what could not go and their
\* m_iGold, which is paid again at the next exchange.  (MaxDebt bounds this.)
\* Each window that something has left had OnRemoveObj().
ExchangeKept(order, refuse, w) ==
    /\ w \in accepting
    /\ place' = Transferred(order, refuse, w)
    /\ purse' = Paid(w) /\ \A c \in Chars : purse'[c] >= -MaxDebt
    /\ LET left == {x \in Pair(w) : Content(place', x) # Content(place, x)}
       IN /\ IF left = {} THEN UNCHANGED <<check, seen>> ELSE Trade_Unchecked(w)
          /\ waits' = waits \cup left
    /\ Answered(refuse)
    /\ UNCHANGED <<online, talk, offer>>

\* Trade_UpdateGold(): no more than he has.  (What a purse below zero comes to
\* as a dword is left out.)
UpdateGold(w, gold) ==
    /\ Idle /\ Talks(w) /\ purse[w[1]] >= 0
    /\ offer' = [offer EXCEPT ![w] = IF gold > purse[w[1]] THEN purse[w[1]]
                                     ELSE gold]
    /\ NotAsked
    /\ UNCHANGED <<place, online, talk, check, waits, purse, seen>>

\* Virtual gold is spent elsewhere.
Spend(c) ==
    /\ purse[c] > 0
    /\ purse' = [purse EXCEPT ![c] = @ - 1]
    /\ NotAsked
    /\ UNCHANGED <<place, online, talk, check, waits, offer, seen>>

\* The window is closed by the player, or removed by a script.  (Where its
\* @Destroy refuses, nothing happens.)
Close(order, refuse, keep, w) ==
    /\ Idle /\ w \in open \ keep
    /\ place' = Delete(order, refuse, keep, place, w)
    /\ Forget({w}, {w}, keep) /\ Answered(refuse)
    /\ UNCHANGED <<online, purse>>

\* What a character wears, and what is in windows.
WindowsOf(c) == {w \in open : w[1] = c}
Offered == {i \in Items : \E w \in Windows : place[i] = In(w)}

\* Logging out: his windows are deleted, in the order in which he wears them.
ClientDetach(order, refuse, keep, worn, c) ==
    /\ Idle /\ c \in online
    /\ online' = online \ {c}
    /\ place' = InTurn([w \in Windows |-> [p \in Placements |->
                            Delete(order, refuse, keep, p, w)]], place, worn)
    /\ Forget(WindowsOf(c), WindowsOf(c) \ keep, keep) /\ Answered(refuse)
    /\ UNCHANGED purse

\* Death() of one who trades: his windows give back, his pack goes to the corpse
\* (DropAll()), and then the windows, unlinked now, are deleted, which gives
\* back once more (UnEquipAllItems()).
Death(order, refuse, again, keep, worn, c) ==
    /\ Idle /\ WindowsOf(c) # {}
    /\ LET given == InTurn([w \in Windows |-> [p \in Placements |->
                        Trade_Delete(order, refuse, keep, p, w)]], place, worn)
           dropped == [i \in Items |->
                         IF given[i] = Pack(c) THEN Corpse ELSE given[i]]
       IN place' = InTurn([w \in Windows |-> [p \in Placements |->
                     DeleteUnlinked(order, again, keep, p, w)]], dropped, worn)
    /\ Forget(WindowsOf(c), WindowsOf(c), keep) /\ Answered(refuse \cup again)
    /\ UNCHANGED <<online, purse>>

ClientAttach(c) ==
    /\ Idle /\ c \notin online
    /\ online' = online \cup {c}
    /\ NotAsked
    /\ UNCHANGED <<place, talk, check, waits, offer, purse, seen>>

-----------------------------------------------------------------------------
\* What scripts may refuse now
Refusals == SUBSET (Fussy \cap (Chars \X Offered))
Keeping == SUBSET (Sticky \cap open)

Next ==
    \/ \E w \in Windows :
          Open(w) \/ WaitOver(w) \/ Uncheck(w) \/ Check(w) \/ Decline(w)
    \/ \E w \in Windows, i \in Items : Add(w, i) \/ TakeOut(w, i)
    \/ \E w \in Windows, g \in 1..2 : UpdateGold(w, g)
    \/ \E order \in Orders(Offered), refuse \in Refusals, keep \in Keeping :
          \/ \E w \in Windows :
                \/ Exchange(order, refuse, keep, w)
                \/ ExchangeKept(order, refuse, w)
                \/ Close(order, refuse, keep, w)
          \/ \E c \in Chars : \E worn \in Orders(WindowsOf(c)) :
                \/ ClientDetach(order, refuse, keep, worn, c)
                \/ \E again \in Refusals :
                      Death(order, refuse, again, keep, worn, c)
    \/ \E c \in Chars : ClientAttach(c) \/ Spend(c)

Spec == Init /\ [][Next]_vars

-----------------------------------------------------------------------------
TypeOK ==
    /\ place \in [Items -> Places] /\ online \subseteq Chars
    /\ open \subseteq Windows /\ linked \subseteq open /\ kept \subseteq open
    /\ check \subseteq linked /\ waits \subseteq linked
    /\ accepting \subseteq linked
    /\ offer \in [Windows -> Nat] /\ purse \in [Chars -> Int]
    /\ seen \in [Windows -> (SUBSET Items) \X (SUBSET Items)]
    /\ meddled \in BOOLEAN /\ refused \subseteq Fussy

\* Windows come and go in pairs, linked to each other, of two players who are
\* both there, unless a script keeps one of them; and nothing is in a window
\* that has gone, whoever closes it, leaves or dies.
WindowsPaired ==
    /\ \A w \in open \ kept : Pair(w) \subseteq linked /\ w[1] \in online
    /\ \A i \in Items, w \in Windows : place[i] = In(w) => w \in open

\* "Kill my trading partner" (CItemContainer.cpp:256): no window stands alone,
\* nor is worn by one who has left.  (Where @Destroy refuses, one does.)
NoneAlone == \A w \in open : Pair(w) \subseteq linked /\ w[1] \in online

Owner(at, i) == {c \in Chars : Carried(at, c, i)}
ChangesHands(w, i) ==
    Owner(place, i) = {w[1]} /\ Owner(place, i)' = {w[2]}
SeenByBoth(w) == \A x \in Pair(w) : x \in check /\ seen[x] = Both(x)

\* An item only goes from one to the other out of a window that both could see,
\* when both have pressed the button and nothing was put in or taken out of
\* either window since; unless a script of @TradeAccepted has done so, or a
\* window was kept when its player left, who does not see it.
OnlyWhatWasSeen ==
    [][\A w \in Windows, i \in Items : ChangesHands(w, i) =>
          /\ place[i] = In(w)
          /\ SeenByBoth(w) \/ meddled \/ Pair(w) \cap kept # {}]_vars

\* The same, whatever scripts do.  (What they change goes unseen.)
AllSeen ==
    [][\A w \in Windows, i \in Items : ChangesHands(w, i) => SeenByBoth(w)]_vars

\* As if nothing had been lost in the step
Back == [i \in Items |-> IF place'[i] = Lost THEN place[i] ELSE place'[i]]

\* What is in a window is only lost with it when it is so heavy that its owner
\* cannot carry it on top of everything that he has, itself included, or when a
\* script has just refused it in his pack.
LostOnlyTooHeavy ==
    [][\A w \in Windows, i \in Items :
          place[i] = In(w) /\ place'[i] = Lost =>
              ~CanCarry(Back, w[1], i) \/ <<w[1], i>> \in refused']_vars

\* "ensure trade contents are moved out" (CItemContainer.cpp:26): nothing is
\* lost.  (It is.)
NothingLost == \A i \in Items : place[i] # Lost

\* "we are about to exchange trade items" (CChar.cpp:190): if something changes
\* hands, so does everything in the two windows.  (It may be just one side.)
ExchangedWhole ==
    [][\A w \in Windows : (\E i \in Items : ChangesHands(w, i)) =>
          \A x \in Pair(w) : \A i \in Content(place, x) :
                place'[i] = Pack(x[2])]_vars

\* "To prevent cheating, check if the char really have these gold/platinum
\* values" (CItemContainer.cpp:208): nobody gives more than he has.  (What he
\* has is not looked at again.)
GoldCovered == \A c \in Chars : purse[c] >= 0
=============================================================================
