------------------------------- MODULE Team -------------------------------
(***************************************************************************)
(* An organization in Postgres: its members and their roles, the           *)
(* invitations to it, its mailboxes and who may read and send as them, and *)
(* its mail domain with the admins it is delegated to.  Here are the rules *)
(* (who may do what) and the writes; TeamAccess orders them.               *)
(*                                                                         *)
(* A mailbox is two rows, an SMTPConnection and an InboxAccount, which     *)
(* connectMailbox creates together.                                        *)
(***************************************************************************)
EXTENDS Naturals

CONSTANTS
    Users,     \* people, by email address
    NoUser,    \* nobody
    Boxes,     \* mailbox addresses on the organization's domain
    NoBox,     \* no mailbox
    MaxInvites \* bound: invitations

ASSUME TeamAssumption ==
    /\ NoUser \notin Users /\ NoBox \notin Boxes
    /\ MaxInvites \in Nat

Invites == 1..MaxInvites
Roles == {"OWNER", "ADMIN", "MEMBER"}

VARIABLES
    role,         \* Postgres: the OrganizationMember rows ("none": not a member)
    account,      \* Postgres: people with a User row
    invite,       \* Postgres: the OrganizationInvite rows
    connection,   \* Postgres: mailboxes with an SMTPConnection
    inbox,        \* Postgres: status of the InboxAccount rows
    send,         \* Postgres: the SmtpConnectionGrant rows
    read,         \* Postgres: the InboxAccountGrant rows
    assigned,     \* Postgres: the domain has an OrgMailDomain row
    domainGrants, \* Postgres: the MailDomainGrant rows
    denied        \* history: who was last denied a mailbox

memberVars == <<role, account>>
boxVars == <<connection, inbox, send, read>>
domainVars == <<assigned, domainGrants>>
teamVars == <<memberVars, invite, boxVars, domainVars, denied>>

\* LAPSED: PENDING past its expiresAt.
NoInvite == [status |-> "none", to |-> NoUser, role |-> "none", by |-> NoUser, box |-> NoBox]
InviteRows == [status : {"none", "PENDING", "LAPSED", "ACCEPTED", "REVOKED"},
               to : Users \union {NoUser}, role : Roles \union {"none"},
               by : Users \union {NoUser}, box : Boxes \union {NoBox}]
Grants == [Boxes -> [Users -> {"none", "granted", "revoked"}]]

TeamType ==
    /\ role \in [Users -> Roles \union {"none"}]
    /\ account \subseteq Users
    /\ invite \in [Invites -> InviteRows]
    /\ connection \subseteq Boxes
    /\ inbox \in [Boxes -> {"none", "ACTIVE", "DISABLED"}]
    /\ send \in Grants /\ read \in Grants
    /\ assigned \in BOOLEAN /\ domainGrants \subseteq Users
    /\ denied \in [Boxes -> SUBSET Users]

----------------------------------------------------------------------------
(* Rules. *)

Member(u) == u \in Users /\ role[u] # "none"
Owner(u) == u \in Users /\ role[u] = "OWNER"
MayManage(u) == u \in Users /\ role[u] \in {"OWNER", "ADMIN"}
\* Admins manage members, owners everybody.
MayManageWhom(u, who) == Owner(u) \/ (MayManage(u) /\ role[who] = "MEMBER")
MayGive(u, r) == Owner(u) \/ (MayManage(u) /\ r = "MEMBER")

\* assertNotLastOwner
NotLastOwner(u) == \E v \in Users \ {u} : role[v] = "OWNER"

\* assertGrantActorAccess
Revoked(u, b) == ~Owner(u) /\ send[b][u] = "revoked"
\* assertMailboxNotRevoked: by address, either half
AddressRevoked(u, b) == ~Owner(u) /\ "revoked" \in {send[b][u], read[b][u]}
\* findOwned
Finds(u, b) == Member(u) /\ b \in connection /\ ~Revoked(u, b)

\* selectableMailboxes
Selectable(u, b) == b = NoBox \/ (b \in connection /\ ~Revoked(u, b))
\* acceptanceMailboxes
StillAssigns(i) ==
    i.box = NoBox \/ (MayGive(i.by, i.role) /\ Selectable(i.by, i.box))

\* assertDomainAccess
MayUseDomain(u) == assigned /\ (Owner(u) \/ u \in domainGrants)

\* resolveMailboxAccess
Reaches(u, row) == \/ role[u] = "OWNER"
                   \/ role[u] = "ADMIN" /\ row # "revoked"
                   \/ role[u] = "MEMBER" /\ row = "granted"
MayRead(u, b) == inbox[b] # "none" /\ Reaches(u, read[b][u])
MaySend(u, b) == b \in connection /\ Reaches(u, send[b][u])

----------------------------------------------------------------------------
(* Writes. *)

\* Both halves of what a person may do with a mailbox, the one read if there is one.
WriteGrant(u, b, to) ==
    /\ send' = [send EXCEPT ![b][u] = to]
    /\ read' = IF inbox[b] = "none" THEN read ELSE [read EXCEPT ![b][u] = to]

Grant(u, b) ==
    /\ WriteGrant(u, b, "granted")
    /\ denied' = [denied EXCEPT ![b] = @ \ {u}]

\* Mutant: a denial is the grant's absence.
DenyByDelete(u, b) ==
    /\ WriteGrant(u, b, "none")
    /\ denied' = [denied EXCEPT ![b] = @ \union {u}]

\* The denial stays a row, so that a promotion does not restore the access.
Deny(u, b) ==
    /\ WriteGrant(u, b, "revoked")
    /\ denied' = [denied EXCEPT ![b] = @ \union {u}]

\* The membership and everything granted to it.
Expel(u) ==
    /\ role' = [role EXCEPT ![u] = "none"]
    /\ send' = [b \in Boxes |-> [send[b] EXCEPT ![u] = "none"]]
    /\ read' = [b \in Boxes |-> [read[b] EXCEPT ![u] = "none"]]
    /\ domainGrants' = domainGrants \ {u}
    /\ denied' = [b \in Boxes |-> denied[b] \ {u}]

\* The grants to send go with the connection (ON DELETE CASCADE).
DropConnection(b) ==
    /\ connection' = connection \ {b}
    /\ send' = [send EXCEPT ![b] = [u \in Users |-> "none"]]

\* connectMailbox: both rows, and both grants of the person it is assigned to.
CreateBox(b, who) ==
    /\ connection' = connection \union {b}
    /\ inbox' = [inbox EXCEPT ![b] = "ACTIVE"]
    /\ IF who = NoUser THEN UNCHANGED <<send, read>>
       ELSE /\ send' = [send EXCEPT ![b][who] = "granted"]
            /\ read' = [read EXCEPT ![b][who] = "granted"]
============================================================================
