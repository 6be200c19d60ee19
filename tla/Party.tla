-------------------------------- MODULE Party --------------------------------
(***************************************************************************)
(* Parties of players (game/clients/CParty.cpp): each party lists its      *)
(* members, each character points to its party, and the two are kept in    *)
(* step by hand, from a dozen calls, while players log out, linger and     *)
(* come back and scripts may refuse what was asked for.                    *)
(*                                                                         *)
(* One thread does all this and each action is a whole call.  What a call  *)
(* does with a party that was deleted is undefined and not followed: no    *)
(* action reads one.                                                       *)
(***************************************************************************)
EXTENDS Naturals, Sequences, Loops

CONSTANTS
    Chars,          \* the players' characters
    NoOne,          \* no PARTY_LASTINVITE
    MaxInParty,     \* MAX_CHAR_IN_PARTY
    MaxParties,     \* bound on the parties that are ever made
    MaxRefusals     \* and on what scripts refuse

ASSUME CharsAssumption == NoOne \notin Chars
ASSUME BoundsAssumption ==
    MaxInParty \in Nat \ {0, 1} /\ MaxParties \in Nat /\ MaxRefusals \in Nat

Parties == 1..MaxParties
NoParty == 0        \* NULL

VARIABLES
    made,       \* the number of parties made
    deleted,    \* the parties that were deleted
    list,       \* m_Chars of each of them; the first one is the master
    party,      \* m_pParty of each character
    invited,    \* PARTY_LASTINVITE of each
    client,     \* IsClient() of each
    refused     \* how often a script has kept somebody in a party

partyVars == <<made, deleted, list, party, invited>>
vars == <<partyVars, client, refused>>

TypeOK ==
    /\ made \in 0..MaxParties
    /\ deleted \subseteq 1..made
    /\ list \in [Parties -> Seq(Chars)]
    /\ party \in [Chars -> 0..made]
    /\ invited \in [Chars -> Chars \cup {NoOne}]
    /\ client \in [Chars -> BOOLEAN]
    /\ refused \in 0..MaxRefusals

Init ==
    /\ made = 0 /\ deleted = {}
    /\ list = [p \in Parties |-> <<>>]
    /\ party = [c \in Chars |-> NoParty]
    /\ invited = [c \in Chars |-> NoOne]
    /\ client \in [Chars -> BOOLEAN]
    /\ refused = 0

Alive == 1..made \ deleted
In(c, p) == \E i \in DOMAIN list[p] : list[p][i] = c
Full(p) == Len(list[p]) >= MaxInParty

\* Master(p) is GetChar(0); without members there is none.
IsMaster(c, p) == list[p] # <<>> /\ Head(list[p]) = c

\* The party that a character points to may be used.
Usable(c) == party[c] \in {NoParty} \cup Alive

-----------------------------------------------------------------------------
(* The lists and the pointers. *)

\* From(p, G): the characters G, from the list of p; from the others nobody.
From(p, G) == [q \in Parties |-> IF q = p THEN G ELSE {}]

\* DetachChar() of D[p] from each party p; who was in its list points to none
\* after that, and whom he asked is forgotten.
Lists(D) == [p \in Parties |-> Without(list[p], D[p])]
Loose(D) == {c \in Chars : \E p \in Parties : c \in D[p] /\ In(c, p)}
Pointers(D) == [c \in Chars |-> IF c \in Loose(D) THEN NoParty ELSE party[c]]
Invitations(G) == [c \in Chars |-> IF c \in G THEN NoOne ELSE invited[c]]

\* Whom SendAll() takes from the list of p: they point elsewhere, and will
\* point nowhere ("this is bad!").
Strays(p, pointers) == {c \in Chars : In(c, p) /\ pointers[c] # p}

-----------------------------------------------------------------------------
(* Members go. *)

\* What a call makes of a party: who is gone, whether it is deleted then, and
\* whether a script said no.
Result(gone, ends, no) == [gone |-> gone, ends |-> ends, no |-> no]
Refusal == Result({}, FALSE, TRUE)

\* Disband()'s loop goes up to the members there were, while the list shrinks
\* under it: every other one is skipped.  Past the end of the list is the last
\* one again, whom memmove() has left there.
Disbanded(p) ==
    LET n == Len(list[p])
    IN Result({list[p][i] : i \in {j \in 1..n : j % 2 = 1 \/ j = n}},
              TRUE, FALSE)

\* Disband(); @PartyDisband may refuse.
Disband(p) == {Disbanded(p), Refusal}

\* A variant for NeverAlone: the last one stays.
RemoveMemberJust(c, p) ==
    IF ~In(c, p) THEN {Result({}, FALSE, FALSE)}
    ELSE IF IsMaster(c, p) THEN Disband(p)
    ELSE {Refusal, Result({c}, FALSE, FALSE)}

\* RemoveMember().  With the master the party goes, and with the last but one.
\* @PartyRemove and @PartyLeave may refuse, and @PartyDisband the rest.
RemoveMember(c, p) ==
    IF ~In(c, p) THEN {Result({}, FALSE, FALSE)}
    ELSE IF IsMaster(c, p) THEN Disband(p)
    ELSE IF Len(list[p]) > 2 THEN {Refusal, Result({c}, FALSE, FALSE)}
    ELSE {Refusal, Result({c}, FALSE, TRUE),
          Result({d \in Chars : In(d, p)}, TRUE, FALSE)}

Apply(result, p) ==
    /\ deleted' = IF result.ends THEN deleted \cup {p} ELSE deleted
    /\ result.no => refused < MaxRefusals
    /\ refused' = IF result.no THEN refused + 1 ELSE refused

Detach(D) ==
    /\ list' = Lists(D) /\ party' = Pointers(D)
    /\ invited' = Invitations(Loose(D))

\* A member goes, or the master removes one, or a script with his word.
Remove(c, p) ==
    /\ p \in Alive /\ In(c, p)
    /\ \E result \in RemoveMember(c, p) :
          Detach(From(p, result.gone)) /\ Apply(result, p)
    /\ UNCHANGED <<made, client>>

\* The master disbands it, or a script.
DisbandParty(p) ==
    /\ p \in Alive /\ list[p] # <<>>
    /\ \E result \in Disband(p) :
          Detach(From(p, result.gone)) /\ Apply(result, p)
    /\ UNCHANGED <<made, client>>

\* SetMaster(), which only scripts call.
SetMaster(c, p) ==
    LET others == Without(list[p], {c})
        strays == From(p, Strays(p, party))
    IN  /\ p \in Alive /\ In(c, p) /\ ~IsMaster(c, p)
        /\ list' = [list EXCEPT ![p] =
                      Without(<<c>> \o others, Strays(p, party))]
        /\ party' = Pointers(strays)
        /\ invited' = Invitations(Loose(strays))
        /\ UNCHANGED <<made, deleted, client, refused>>

-----------------------------------------------------------------------------
(* Members come. *)

\* OnTarg_Party_Add() of a for b, who is asked.
Invite(a, b) ==
    /\ a # b /\ client[a] /\ client[b]
    /\ Usable(a)
    /\ party[a] # NoParty => IsMaster(a, party[a]) /\ ~Full(party[a])
    /\ party[b] = NoParty
    /\ invited' = [invited EXCEPT ![a] = b]
    /\ UNCHANGED <<made, deleted, list, party, client, refused>>

\* DeclineEvent() of b.
Decline(b, a) ==
    /\ a # b /\ invited[a] = b
    /\ invited' = [invited EXCEPT ![a] = NoOne]
    /\ UNCHANGED <<made, deleted, list, party, client, refused>>

\* The party of a, or a new one, gets b, after D left; then its list is sent.
\* The invitations of G are used up.
Join(b, a, D, G) ==
    IF party[a] = NoParty
    THEN /\ made < MaxParties
         /\ made' = made + 1
         /\ list' = [Lists(D) EXCEPT ![made + 1] = <<a, b>>]
         /\ party' = [Pointers(D) EXCEPT ![a] = made + 1, ![b] = made + 1]
         /\ invited' = Invitations(Loose(D) \cup G)
    ELSE LET p == party[a]
             pointers == [Pointers(D) EXCEPT ![b] = p]
             all == [D EXCEPT ![p] = Strays(p, pointers)]
         IN  /\ list' = [Lists(all) EXCEPT ![p] = IF In(b, p) THEN @
                                                  ELSE Append(@, b)]
             /\ party' = [Pointers(all) EXCEPT ![b] = p]
             /\ invited' = Invitations(Loose(all) \cup G)
             /\ UNCHANGED made

Nobody == [p \in Parties |-> {}]

\* A variant for MembersAgree: that b is in a party already is not asked.
AcceptEventTwice(b, a) ==
    /\ Usable(a)
    /\ party[a] # NoParty => ~Full(party[a]) /\ IsMaster(a, party[a])
    /\ Join(b, a, Nobody, {a})
    /\ UNCHANGED <<deleted, client, refused>>

\* AcceptEvent(), not forced: the invitation is used up, and b joins if he has
\* no party and a is the master of one that is not full, or has none.  It may
\* be in vain all the same: a must see b.
AcceptEvent(b, a) ==
    \/ /\ Usable(a) /\ party[b] = NoParty
       /\ party[a] # NoParty => ~Full(party[a]) /\ IsMaster(a, party[a])
       /\ Join(b, a, Nobody, {a})
       /\ UNCHANGED <<deleted, client, refused>>
    \/ /\ invited' = Invitations({a})
       /\ UNCHANGED <<made, deleted, list, party, client, refused>>

Accept(b, a) ==
    /\ a # b /\ client[a] /\ client[b]
    /\ invited[a] = b
    /\ AcceptEvent(b, a)

\* ADDMEMBER of a script: the master asks b, who accepts at once, if both are
\* there.
AddMember(b, p) ==
    /\ p \in Alive /\ list[p] # <<>> /\ ~In(b, p)
    /\ LET master == Head(list[p])
       IN IF client[master] /\ client[b] THEN AcceptEvent(b, master)
          ELSE /\ invited' = [invited EXCEPT ![master] = b]
               /\ UNCHANGED <<made, deleted, list, party, client, refused>>

\* AcceptEvent(), forced, by a game master who asks, or a script, which may
\* take the word of a master who points elsewhere by now: b leaves the party
\* that he has, or at least forgets it, and joins if there is room.
ForceAccept(b, a) ==
    /\ a # b /\ client[a] /\ client[b]
    /\ Usable(a) /\ Usable(b)
    /\ party[a] # NoParty =>
          IsMaster(a, party[a]) \/ \E p \in Alive : IsMaster(a, p) /\ ~In(b, p)
    /\ party[b] = NoParty \/ party[b] # party[a]
    /\ \E result \in IF party[b] = NoParty THEN {Result({}, FALSE, FALSE)}
                     ELSE RemoveMember(b, party[b]) :
          LET left == From(party[b], result.gone)
          IN  /\ Apply(result, party[b])
              /\ IF party[a] # NoParty /\ Full(party[a])
                 THEN /\ list' = Lists(left)
                      /\ party' = [Pointers(left) EXCEPT ![b] = NoParty]
                      /\ invited' = Invitations(Loose(left))
                      /\ UNCHANGED made
                 ELSE Join(b, a, left, {})
    /\ UNCHANGED client

-----------------------------------------------------------------------------
(* Players log out and in. *)

\* ClientDetach(): without its master the party is disbanded, and he forgets
\* it, even if a script refused that.
ClientDetach(c) ==
    /\ client[c] /\ Usable(c)
    /\ client' = [client EXCEPT ![c] = FALSE]
    /\ IF party[c] # NoParty /\ IsMaster(c, party[c])
       THEN \E result \in Disband(party[c]) :
               LET left == From(party[c], result.gone)
               IN  /\ list' = Lists(left)
                   /\ party' = [Pointers(left) EXCEPT ![c] = NoParty]
                   /\ invited' = Invitations(Loose(left))
                   /\ Apply(result, party[c])
       ELSE UNCHANGED <<list, party, invited, deleted, refused>>
    /\ UNCHANGED made

\* SetDisconnected(), at once or when he has lingered: he leaves the party, and
\* forgets it, even if a script kept him in.
SetDisconnected(c) ==
    /\ ~client[c] /\ Usable(c) /\ party[c] # NoParty
    /\ \E result \in RemoveMember(c, party[c]) :
          LET left == From(party[c], result.gone)
          IN  /\ list' = Lists(left)
              /\ party' = [Pointers(left) EXCEPT ![c] = NoParty]
              /\ invited' = Invitations(Loose(left))
              /\ Apply(result, party[c])
    /\ UNCHANGED <<made, client>>

\* He is back, and his party is sent its list.
ClientAttach(c) ==
    /\ ~client[c] /\ Usable(c)
    /\ client' = [client EXCEPT ![c] = TRUE]
    /\ IF party[c] = NoParty THEN UNCHANGED <<list, party, invited>>
       ELSE Detach(From(party[c], Strays(party[c], party)))
    /\ UNCHANGED <<made, deleted, refused>>

-----------------------------------------------------------------------------

Next ==
    \/ \E a, b \in Chars :
         Invite(a, b) \/ Decline(b, a) \/ Accept(b, a) \/ ForceAccept(b, a)
    \/ \E c \in Chars, p \in Parties :
         Remove(c, p) \/ SetMaster(c, p) \/ AddMember(c, p)
    \/ \E p \in Parties : DisbandParty(p)
    \/ \E c \in Chars : ClientDetach(c) \/ SetDisconnected(c) \/ ClientAttach(c)

Spec == Init /\ [][Next]_vars

-----------------------------------------------------------------------------
(* Properties. *)

\* Who points to a party is in its list, and nobody is listed twice, even when
\* scripts refuse and those who left stay listed: SendMemberMsg() need not mend
\* that.  As long as no script has refused to let somebody go (AcceptEvent(),
\* RemoveMember(), ClientDetach(), SetDisconnected()), whom a party lists points
\* to it too: nobody is in two parties.
MembersAgree ==
    \A p \in Alive :
        /\ \A c \in Chars : party[c] = p => In(c, p)
        /\ \A i, j \in DOMAIN list[p] : list[p][i] = list[p][j] => i = j
        /\ refused = 0 => \A c \in Chars : In(c, p) => party[c] = p

\* Nobody is a party on his own, or none at all, and no party has more than
\* MAX_CHAR_IN_PARTY, as long as no script has refused (RemoveMember(): "Disband
\* the party").
NeverAlone ==
    refused = 0 => \A p \in Alive : Len(list[p]) \in 2..MaxInParty

\* Nobody points to a party that was deleted ("What party am i in ?").
NoDangling == \A c \in Chars : party[c] \notin deleted
=============================================================================
