---------------------------- MODULE TeamAccess ----------------------------
(***************************************************************************)
(* Calls of the API that change an organization's team or its mailboxes,   *)
(* several in progress at a time.  What they share is written in           *)
(* transactions that first lock the Organization row and check everything  *)
(* under the lock; before it, and between the calls to the mail server     *)
(* (Mailcow), a call works with what it read.                              *)
(*                                                                         *)
(* A refused call changes nothing, and is not begun here if the refusal    *)
(* comes at once.  The instance administrator assigns the domain.          *)
(***************************************************************************)
EXTENDS Team

CONSTANTS
    Calls,    \* API calls in progress at a time
    NoCall,   \* nobody holds the organization's lock
    MaxCalls, \* bound: calls of members and administrators
    MaxFaults \* bound: faults

ASSUME AccessAssumption ==
    /\ NoCall \notin Calls
    /\ {MaxCalls, MaxFaults} \subseteq Nat

VARIABLES
    server,  \* Mailcow: the mailboxes that exist
    lock,    \* Postgres: the call whose transaction has locked the organization
    call,    \* API: the calls in progress
    before,  \* history: mailboxes that were there before us
    removed, \* history: mailboxes whose removal was asked for
    calls, faults

history == <<before, removed>>
vars == <<teamVars, server, lock, call, history, calls, faults>>

Ops == {"updateMemberRole", "removeMember", "invite", "accept", "addGrant", "removeGrant",
        "addDomainGrant", "provision", "adopt", "remove"}
\* by: who calls; who: whom it is about; role: what they become
Idle == [op |-> "none", at |-> "idle", by |-> NoUser, who |-> NoUser, role |-> "none",
         box |-> NoBox, invite |-> 0]
CallStates ==
    [op : Ops \union {"none"},
     at : {"idle", "checked", "create", "connect", "write", "undo", "delete", "tidy",
           "tidyConnection", "tidyInbox"},
     by : Users \union {NoUser}, who : Users \union {NoUser}, role : Roles \union {"none"},
     box : Boxes \union {NoBox}, invite : {0} \union Invites]

\* One owner, a second person of any role, and mailboxes that are connected, only on the
\* server, or nowhere.
Init ==
    \E owner \in Users, second \in Users, has \in SUBSET Boxes, connected \in SUBSET Boxes,
       r \in Roles :
       /\ owner # second /\ connected \subseteq has
       /\ role = [u \in Users |-> IF u = owner THEN "OWNER" ELSE IF u = second THEN r ELSE "none"]
       /\ account = {owner, second}
       /\ invite = [i \in Invites |-> NoInvite]
       /\ connection = connected
       /\ inbox = [b \in Boxes |-> IF b \in connected THEN "ACTIVE" ELSE "none"]
       /\ send = [b \in Boxes |-> [u \in Users |-> "none"]] /\ read = send
       /\ assigned = TRUE /\ domainGrants = {}
       /\ denied = [b \in Boxes |-> {}]
       /\ server = has /\ before = has /\ removed = {}
       /\ lock = NoCall /\ call = [c \in Calls |-> Idle]
       /\ calls = 0 /\ faults = 0

----------------------------------------------------------------------------

Counts == calls < MaxCalls /\ calls' = calls + 1
Fault == faults < MaxFaults /\ faults' = faults + 1

\* Mutant: the transactions do not wait for each other.
LockNothing(c) == UNCHANGED lock

\* lockOrganizationTeam
LockTeam(c) == lock = NoCall /\ lock' = c

\* Mutant: a transaction that ends keeps the lock.
UnlockNot(c) == UNCHANGED lock

Unlock(c) == lock' = IF lock = c THEN NoCall ELSE lock

Goes(c, at) == call' = [call EXCEPT ![c].at = at]
Ends(c) == call' = [call EXCEPT ![c] = Idle]
Begins(c, r) ==
    /\ call[c] = Idle /\ Counts
    /\ call' = [call EXCEPT ![c] = r]

Writes(c, op) == call[c].op = op /\ call[c].at = "write"
Commits(c) == Unlock(c) /\ Ends(c) /\ UNCHANGED <<server, history, calls, faults>>
OnlyCalls == UNCHANGED <<teamVars, server, history, faults>>

----------------------------------------------------------------------------
(* organizationService. *)

\* Its checks and the lock are one step: nothing is read before the lock.
UpdateMemberRole(c, by, who, r) ==
    /\ Begins(c, [Idle EXCEPT !.op = "updateMemberRole", !.at = "write", !.by = by, !.who = who,
                              !.role = r])
    /\ LockTeam(c)
    /\ Member(who) /\ role[who] # r
    /\ MayManageWhom(by, who) /\ MayGive(by, r)
    /\ role[who] = "OWNER" => NotLastOwner(who)
    /\ OnlyCalls

RoleCommit(c) ==
    /\ Writes(c, "updateMemberRole")
    /\ role' = [role EXCEPT ![call[c].who] = call[c].role]
    /\ Commits(c)
    /\ UNCHANGED <<account, invite, boxVars, domainVars, denied>>

RemoveMember(c, by, who) ==
    /\ Begins(c, [Idle EXCEPT !.op = "removeMember", !.at = "write", !.by = by, !.who = who])
    /\ LockTeam(c)
    /\ Member(who) /\ MayManageWhom(by, who)
    /\ role[who] = "OWNER" => NotLastOwner(who)
    /\ OnlyCalls

RemoveCommit(c) ==
    /\ Writes(c, "removeMember")
    /\ Expel(call[c].who)
    /\ Commits(c)
    /\ UNCHANGED <<account, invite, connection, inbox, assigned>>

----------------------------------------------------------------------------
(* invitationService. *)

\* create: the invited person is looked up before the lock.
Invite(c, by, to, r, b) ==
    /\ Begins(c, [Idle EXCEPT !.op = "invite", !.at = "checked", !.by = by, !.who = to,
                              !.role = r, !.box = b])
    /\ MayGive(by, r) /\ ~Member(to)
    /\ OnlyCalls /\ UNCHANGED lock

InviteLock(c) ==
    LET q == call[c]
    IN  /\ q.op = "invite" /\ q.at = "checked"
        /\ \/ MayGive(q.by, q.role) /\ Selectable(q.by, q.box) /\ LockTeam(c) /\ Goes(c, "write")
           \/ ~(MayGive(q.by, q.role) /\ Selectable(q.by, q.box)) /\ lock = NoCall
              /\ Ends(c) /\ UNCHANGED lock
        /\ OnlyCalls /\ UNCHANGED calls

\* A pending invitation of the same person is superseded.
InviteCommit(c) ==
    LET q == call[c]
    IN  /\ Writes(c, "invite")
        /\ \E i \in Invites :
              /\ invite[i].status = "none" /\ \A j \in 1..(i - 1) : invite[j].status # "none"
              /\ invite' = [j \in Invites |->
                    IF j = i THEN [status |-> "PENDING", to |-> q.who, role |-> q.role,
                                   by |-> q.by, box |-> q.box]
                    ELSE IF invite[j].to = q.who /\ invite[j].status \in {"PENDING", "LAPSED"}
                         THEN [invite[j] EXCEPT !.status = "REVOKED"]
                         ELSE invite[j]]
        /\ Commits(c)
        /\ UNCHANGED <<memberVars, boxVars, domainVars, denied>>

\* A transaction that has consumed an invitation holds its row.
Consumed(i) == \E c \in Calls : Writes(c, "accept") /\ call[c].invite = i

\* revoke: one conditional update, without the organization's lock.
Revoke(by, i) ==
    /\ Counts
    /\ MayManage(by) /\ invite[i].status \in {"PENDING", "LAPSED"} /\ ~Consumed(i)
    /\ invite' = [invite EXCEPT ![i].status = "REVOKED"]
    /\ UNCHANGED <<memberVars, boxVars, domainVars, denied, server, lock, call, history, faults>>

Lapse(i) ==
    /\ invite[i].status = "PENDING" /\ ~Consumed(i)
    /\ invite' = [invite EXCEPT ![i].status = "LAPSED"]
    /\ UNCHANGED <<memberVars, boxVars, domainVars, denied, server, lock, call, history, calls,
                   faults>>

\* accept: the invitation and the account are read before the lock ("none": the account
\* is to be created).
Accept(c, i) ==
    /\ invite[i].status = "PENDING"
    /\ Begins(c, [Idle EXCEPT !.op = "accept", !.at = "checked", !.who = invite[i].to,
                              !.by = IF invite[i].to \in account THEN invite[i].to ELSE NoUser,
                              !.invite = i])
    /\ OnlyCalls /\ UNCHANGED lock

\* Who has joined meanwhile keeps what they have: role "none".
Joins(c) ==
    LET q == call[c]
    IN  IF q.by # NoUser /\ Member(q.who) THEN "none" ELSE invite[q.invite].role

\* Mutant: the invitation is not consumed, only noted.
AcceptLockAny(c) ==
    LET q == call[c]
        i == invite[q.invite]
    IN  /\ q.op = "accept" /\ q.at = "checked"
        /\ \/ /\ Joins(c) # "none" => StillAssigns(i)
              /\ LockTeam(c)
              /\ call' = [call EXCEPT ![c].at = "write", ![c].role = Joins(c)]
           \/ /\ Joins(c) # "none" /\ ~StillAssigns(i)
              /\ lock = NoCall /\ Ends(c) /\ UNCHANGED lock
        /\ OnlyCalls /\ UNCHANGED calls

\* consumeInvite and acceptanceMailboxes, or everything is undone.
AcceptLock(c) ==
    LET q == call[c]
        i == invite[q.invite]
        accepts == i.status = "PENDING" /\ (Joins(c) # "none" => StillAssigns(i))
    IN  /\ q.op = "accept" /\ q.at = "checked"
        /\ \/ /\ accepts
              /\ LockTeam(c)
              /\ call' = [call EXCEPT ![c].at = "write", ![c].role = Joins(c)]
           \/ ~accepts /\ lock = NoCall /\ Ends(c) /\ UNCHANGED lock
        /\ OnlyCalls /\ UNCHANGED calls

\* The mailbox may be gone, or the account have come, since: then all is undone.
AcceptCommit(c) ==
    LET q == call[c]
        b == invite[q.invite].box
        gone == b \notin connection \union {NoBox} \/ (q.by = NoUser /\ q.who \in account)
    IN  /\ Writes(c, "accept")
        /\ IF q.role # "none" /\ gone
           THEN UNCHANGED teamVars
           ELSE /\ invite' = [invite EXCEPT ![q.invite].status = "ACCEPTED"]
                /\ account' = account \union {q.who}
                /\ IF q.role = "none" THEN UNCHANGED <<role, send, read, denied>>
                   ELSE /\ role' = [role EXCEPT ![q.who] = q.role]
                        /\ IF b = NoBox THEN UNCHANGED <<send, read, denied>> ELSE Grant(q.who, b)
                /\ UNCHANGED <<connection, inbox, domainVars>>
        /\ Commits(c)

\* The person gets an account elsewhere.
Register(u) ==
    /\ u \notin account /\ account' = account \union {u}
    /\ UNCHANGED <<role, invite, boxVars, domainVars, denied, server, lock, call, history, calls,
                   faults>>

----------------------------------------------------------------------------
(* smtpConnectionService. *)

AddGrant(c, by, who, b) ==
    /\ Begins(c, [Idle EXCEPT !.op = "addGrant", !.at = "write", !.by = by, !.who = who,
                              !.box = b])
    /\ LockTeam(c)
    /\ Finds(by, b) /\ Member(who) /\ MayManageWhom(by, who)
    /\ OnlyCalls

RemoveGrant(c, by, who, b) ==
    /\ Begins(c, [Idle EXCEPT !.op = "removeGrant", !.at = "write", !.by = by, !.who = who,
                              !.box = b])
    /\ LockTeam(c)
    /\ Finds(by, b) /\ Member(who) /\ ~Owner(who) /\ MayManageWhom(by, who)
    /\ OnlyCalls

\* The connection may be deleted meanwhile: then there is nothing to write.
GrantCommit(c) ==
    LET q == call[c]
    IN  /\ Writes(c, "addGrant") \/ Writes(c, "removeGrant")
        /\ CASE q.box \notin connection -> UNCHANGED <<send, read, denied>>
             [] q.box \in connection /\ q.op = "addGrant" -> Grant(q.who, q.box)
             [] OTHER -> Deny(q.who, q.box)
        /\ Commits(c)
        /\ UNCHANGED <<memberVars, invite, connection, inbox, domainVars>>

\* delete: without the lock.
DeleteConnection(by, b) ==
    /\ Counts
    /\ Finds(by, b) /\ MayManage(by)
    /\ DropConnection(b)
    /\ UNCHANGED <<memberVars, invite, inbox, read, domainVars, denied, server, lock, call,
                   history, faults>>

----------------------------------------------------------------------------
(* instanceAdminService. *)

\* assignDomain, as far as this organization goes: one transaction, without the lock.
AssignDomain ==
    /\ Counts
    /\ assigned' = ~assigned
    /\ domainGrants' = IF assigned THEN {} ELSE domainGrants
    /\ UNCHANGED <<memberVars, invite, boxVars, denied, server, lock, call, history, faults>>

AddDomainGrant(c, who) ==
    /\ Begins(c, [Idle EXCEPT !.op = "addDomainGrant", !.at = "checked", !.who = who])
    /\ Member(who) /\ assigned
    /\ OnlyCalls /\ UNCHANGED lock

DomainGrantLock(c) ==
    /\ call[c].op = "addDomainGrant" /\ call[c].at = "checked"
    /\ \/ Member(call[c].who) /\ LockTeam(c) /\ Goes(c, "write")
       \/ ~Member(call[c].who) /\ lock = NoCall /\ Ends(c) /\ UNCHANGED lock
    /\ OnlyCalls /\ UNCHANGED calls

DomainGrantCommit(c) ==
    /\ Writes(c, "addDomainGrant")
    /\ domainGrants' = domainGrants \union {call[c].who}
    /\ Commits(c)
    /\ UNCHANGED <<memberVars, invite, boxVars, assigned, denied>>

RemoveDomainGrant(u) ==
    /\ Counts
    /\ u \in domainGrants /\ domainGrants' = domainGrants \ {u}
    /\ UNCHANGED <<memberVars, invite, boxVars, assigned, denied, server, lock, call, history,
                   faults>>

----------------------------------------------------------------------------
(* mailcowService. *)

MayManageBox(u, b) == MayManage(u) /\ MayUseDomain(u) /\ ~AddressRevoked(u, b)

Provision(c, by, b, who) ==
    /\ Begins(c, [Idle EXCEPT !.op = "provision", !.at = "create", !.by = by, !.who = who,
                              !.box = b])
    /\ MayManageBox(by, b) /\ inbox[b] = "none" /\ (who = NoUser \/ Member(who))
    /\ OnlyCalls /\ UNCHANGED lock

Adopt(c, by, b, who) ==
    /\ Begins(c, [Idle EXCEPT !.op = "adopt", !.at = "connect", !.by = by, !.who = who,
                              !.box = b])
    /\ MayManageBox(by, b) /\ b \in server
    /\ inbox[b] = "none" /\ (who = NoUser \/ Member(who))
    /\ OnlyCalls /\ UNCHANGED lock

\* Mailcow refuses an address it has; the answer of a call may be lost.
CreateMailbox(c) ==
    LET b == call[c].box
    IN  /\ call[c].at = "create"
        /\ \/ b \in server /\ Ends(c) /\ UNCHANGED <<server, faults>>
           \/ b \notin server /\ Goes(c, "connect") /\ server' = server \union {b}
              /\ UNCHANGED faults
           \/ Fault /\ Ends(c) /\ server' \in {server, server \union {b}}
        /\ UNCHANGED <<teamVars, lock, history, calls>>

\* Mutant: an adoption that fails is rolled back like a provisioning.
ConnectFailsUndoes(c) == Goes(c, "undo")

\* Only the mailbox that provision has created is deleted again.
ConnectFails(c) == IF call[c].op = "provision" THEN Goes(c, "undo") ELSE Ends(c)

\* Mutant: the assignee was a member when the call began.
ConnectLockOnly(c) ==
    LET q == call[c]
    IN  /\ q.at = "connect"
        /\ \/ q.box \in server /\ inbox[q.box] = "none"
              /\ LockTeam(c) /\ Goes(c, "write") /\ UNCHANGED faults
           \/ ~(q.box \in server /\ inbox[q.box] = "none")
              /\ lock = NoCall /\ UNCHANGED <<lock, faults>> /\ ConnectFails(c)
           \/ Fault /\ UNCHANGED lock /\ ConnectFails(c)
        /\ UNCHANGED <<teamVars, server, history, calls>>

\* connectMailbox: the app password, then the lock and the checks.
ConnectLock(c) ==
    LET q == call[c]
        connects == /\ q.box \in server /\ inbox[q.box] = "none"
                    /\ q.who = NoUser \/ Member(q.who)
    IN  /\ q.at = "connect"
        /\ \/ connects /\ LockTeam(c) /\ Goes(c, "write") /\ UNCHANGED faults
           \/ ~connects /\ lock = NoCall /\ UNCHANGED <<lock, faults>> /\ ConnectFails(c)
           \/ Fault /\ UNCHANGED lock /\ ConnectFails(c)
        /\ UNCHANGED <<teamVars, server, history, calls>>

ConnectCommit(c) ==
    /\ Writes(c, "provision") \/ Writes(c, "adopt")
    /\ CreateBox(call[c].box, call[c].who)
    /\ Commits(c)
    /\ UNCHANGED <<memberVars, invite, domainVars, denied>>

\* Best effort.
Undo(c) ==
    /\ call[c].at = "undo"
    /\ Ends(c)
    /\ \/ server' = server \ {call[c].box} /\ UNCHANGED faults
       \/ Fault /\ UNCHANGED server
    /\ UNCHANGED <<teamVars, lock, history, calls>>

Remove(c, by, b) ==
    /\ Begins(c, [Idle EXCEPT !.op = "remove", !.at = "delete", !.by = by, !.box = b])
    /\ MayManageBox(by, b) /\ b \in server
    /\ OnlyCalls /\ UNCHANGED lock

\* The server first: if that fails, our records stay.
DeleteMailbox(c) ==
    LET b == call[c].box
    IN  /\ call[c].at = "delete"
        /\ \/ server' = server \ {b} /\ Goes(c, "tidy") /\ UNCHANGED faults
           \/ Fault /\ Ends(c) /\ server' \in {server, server \ {b}}
        /\ removed' = removed \union {b}
        /\ UNCHANGED <<teamVars, lock, before, calls>>

\* Then two statements, in either order.
TidyConnection(c) ==
    /\ call[c].at \in {"tidy", "tidyConnection"}
    /\ DropConnection(call[c].box)
    /\ IF call[c].at = "tidy" THEN Goes(c, "tidyInbox") ELSE Ends(c)
    /\ UNCHANGED <<memberVars, invite, inbox, read, domainVars, denied, server, lock, history,
                   calls, faults>>

TidyInbox(c) ==
    LET b == call[c].box
    IN  /\ call[c].at \in {"tidy", "tidyInbox"}
        /\ inbox' = IF inbox[b] = "none" THEN inbox ELSE [inbox EXCEPT ![b] = "DISABLED"]
        /\ IF call[c].at = "tidy" THEN Goes(c, "tidyConnection") ELSE Ends(c)
        /\ UNCHANGED <<memberVars, invite, connection, send, read, domainVars, denied, server,
                       lock, history, calls, faults>>

----------------------------------------------------------------------------
(* Faults. *)

\* A statement of a transaction fails: it is rolled back.
Rollback(c) ==
    /\ call[c].at = "write" /\ Fault
    /\ Unlock(c) /\ ConnectFails(c)
    /\ UNCHANGED <<teamVars, server, history, calls>>

\* The API process dies, and with it the calls in progress and their transactions.
ApiDies ==
    /\ \E c \in Calls : call[c] # Idle
    /\ Fault
    /\ lock' = NoCall /\ call' = [c \in Calls |-> Idle]
    /\ UNCHANGED <<teamVars, server, history, calls>>

----------------------------------------------------------------------------

Begin(c) ==
    \E by \in Users :
        \/ \E who \in Users, r \in Roles : UpdateMemberRole(c, by, who, r)
        \/ \E who \in Users : RemoveMember(c, by, who) \/ AddDomainGrant(c, who)
        \/ \E to \in Users, r \in Roles, b \in Boxes \union {NoBox} : Invite(c, by, to, r, b)
        \/ \E i \in Invites : Accept(c, i)
        \/ \E who \in Users, b \in Boxes : AddGrant(c, by, who, b) \/ RemoveGrant(c, by, who, b)
        \/ \E who \in Users \union {NoUser}, b \in Boxes :
              Provision(c, by, b, who) \/ Adopt(c, by, b, who)
        \/ \E b \in Boxes : Remove(c, by, b)

Step(c) ==
    \/ RoleCommit(c) \/ RemoveCommit(c) \/ InviteLock(c) \/ InviteCommit(c) \/ AcceptLock(c)
    \/ AcceptCommit(c) \/ GrantCommit(c) \/ DomainGrantLock(c) \/ DomainGrantCommit(c)
    \/ CreateMailbox(c) \/ ConnectLock(c) \/ ConnectCommit(c) \/ Undo(c) \/ DeleteMailbox(c)
    \/ TidyConnection(c) \/ TidyInbox(c) \/ Rollback(c)

Next ==
    \/ \E c \in Calls : Begin(c) \/ Step(c)
    \/ \E by \in Users, i \in Invites : Revoke(by, i)
    \/ \E by \in Users, b \in Boxes : DeleteConnection(by, b)
    \/ \E i \in Invites : Lapse(i)
    \/ \E u \in Users : Register(u) \/ RemoveDomainGrant(u)
    \/ AssignDomain \/ ApiDies

Spec == Init /\ [][Next]_vars

----------------------------------------------------------------------------
(* Properties. *)

\* Every variable has its type, and whoever holds the lock has a transaction to end.
TypeOK ==
    /\ TeamType
    /\ server \subseteq Boxes /\ before \subseteq Boxes /\ removed \subseteq Boxes
    /\ lock \in Calls \union {NoCall} /\ call \in [Calls -> CallStates]
    /\ lock # NoCall => call[lock].at = "write"
    /\ calls \in 0..MaxCalls /\ faults \in 0..MaxFaults

\* The organization has an owner at all times, although two owners may demote or remove
\* each other, or themselves, at once (organizations/service.ts:175-177, 276-290).
AlwaysOwned == \E u \in Users : role[u] = "OWNER"

\* What is granted is granted to a member, whoever is removed while an invitation, a
\* provisioning or a delegation of theirs is on its way, and a person's two grants for a
\* connected mailbox agree (mailcow/service.ts:344-353, instance-admin/service.ts:710-716).
GrantsOfMembers ==
    /\ \A u \in Users : role[u] = "none" =>
          u \notin domainGrants /\ \A b \in Boxes : send[b][u] = "none" /\ read[b][u] = "none"
    /\ \A b \in connection : send[b] = read[b]

\* Membership comes of a pending invitation alone, which it ends, with the role it gives
\* and, if it comes with a mailbox, while its sender still may give them; and what ended,
\* revoked, superseded or accepted, is not used again (DECISIONS.md:1425-1430).
JoinsByInvite ==
    [][/\ \A u \in Users : role[u] = "none" /\ role'[u] # "none" =>
            \E i \in Invites :
                /\ invite[i].status = "PENDING" /\ invite'[i].status = "ACCEPTED"
                /\ invite[i].to = u /\ invite[i].role = role'[u]
                /\ StillAssigns(invite[i])
       /\ \A i \in Invites :
             invite[i].status \in {"ACCEPTED", "REVOKED"} => invite'[i] = invite[i]]_vars

\* Who was denied a mailbox neither reads nor sends as it until it is granted again or
\* they leave or own the organization: not by a promotion, a demotion, an invitation or
\* the mailbox's provisioning (smtp-connections/service.ts:490).
DenialHolds ==
    \A b \in Boxes : \A u \in denied[b] :
        role[u] # "OWNER" => ~MayRead(u, b) /\ ~MaySend(u, b)

\* Where no call failed, a provisioning that did not succeed leaves no mailbox that the
\* next would trip over, and a mailbox that was there before us goes only by its removal
\* (mailcow/service.ts:706-708, 719-723).
ServerAsAsked ==
    /\ \A b \in server :
          \/ b \in before \/ inbox[b] # "none" \/ faults > 0
          \/ \E c \in Calls : call[c].op = "provision" /\ call[c].box = b
    /\ before \subseteq server \union removed
============================================================================
