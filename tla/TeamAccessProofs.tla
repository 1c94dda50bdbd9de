------------------------- MODULE TeamAccessProofs -------------------------
(***************************************************************************)
(* For any people, mailboxes, calls and bounds: the organization keeps an  *)
(* owner, what is granted is granted to members, and a denial holds.       *)
(*                                                                         *)
(* The invariant joins two halves.  The team's rows are sound between      *)
(* transactions (TeamInv); and what a transaction has checked under the    *)
(* lock is still true when it commits (CallsInv), because nobody else is   *)
(* about to write, and what is written without the lock does not matter to *)
(* the checks.                                                             *)
(***************************************************************************)
EXTENDS TeamAccess, TLAPS

\* What the fields of a call are for.
Shape(q) ==
    /\ q.op \in {"updateMemberRole", "removeMember", "invite", "accept", "addGrant",
                 "removeGrant", "addDomainGrant"} => q.who \in Users
    /\ q.op \in {"addGrant", "removeGrant", "provision", "adopt", "remove"} => q.box \in Boxes
    /\ q.op = "accept" => q.invite \in Invites
    /\ q.op \in {"updateMemberRole", "invite"} => q.role \in Roles
    /\ q.op = "invite" => q.by \in Users
    /\ q.at \in {"create", "connect", "undo"} => q.op \in {"provision", "adopt"}
    /\ q.at \in {"delete", "tidy", "tidyConnection", "tidyInbox"} => q.op = "remove"
    /\ q.at = "write" => q.op \in Ops \ {"remove"}

\* What a transaction has checked, and its write relies on.
Checked(q) ==
    /\ q.op \in {"updateMemberRole", "removeMember"} /\ role[q.who] = "OWNER" =>
          NotLastOwner(q.who)
    /\ q.op \in {"updateMemberRole", "addGrant", "removeGrant", "addDomainGrant"} =>
          Member(q.who)
    /\ q.op \in {"provision", "adopt"} =>
          inbox[q.box] = "none" /\ (q.who = NoUser \/ Member(q.who))
    /\ q.op = "accept" /\ q.role # "none" /\ q.by # NoUser => role[q.who] = "none"

CallsInv ==
    /\ call \in [Calls -> CallStates] /\ lock \in Calls \union {NoCall}
    /\ lock # NoCall => call[lock].at = "write"
    /\ \A c \in Calls : Shape(call[c])
    /\ \A c \in Calls : call[c].at = "write" => lock = c /\ Checked(call[c])

\* Members have accounts; a mailbox without an inbox has nothing else; a denial is a row.
TeamSound ==
    /\ \A u \in Users : role[u] # "none" => u \in account
    /\ \A b \in Boxes : inbox[b] = "none" =>
          /\ b \notin connection /\ denied[b] = {}
          /\ \A u \in Users : send[b][u] = "none" /\ read[b][u] = "none"
    /\ \A b \in Boxes : \A u \in denied[b] : read[b][u] = "revoked"

TeamInv == TeamType /\ TeamSound /\ GrantsOfMembers /\ AlwaysOwned

RestType ==
    /\ server \subseteq Boxes /\ before \subseteq Boxes /\ removed \subseteq Boxes
    /\ calls \in 0..MaxCalls /\ faults \in 0..MaxFaults

Addressed == \A i \in Invites : invite[i].status = "PENDING" => invite[i].to \in Users

Inv == TeamInv /\ CallsInv /\ Addressed /\ RestType

---------------------------------------------------------------------------
(* The calls. *)

\* What was checked stays true while the roles do, and no missing inbox appears.
LEMMA CheckedFrame ==
    ASSUME NEW q \in CallStates, Shape(q), Checked(q), role' = role,
           \A b \in Boxes : inbox[b] = "none" => inbox'[b] = "none"
    PROVE  Checked(q)'
BY DEF Checked, Shape, Member, NotLastOwner

\* A call that neither has nor takes the lock, while the checks stay true.
LEMMA CallGoes ==
    ASSUME CallsInv, NEW c \in Calls, NEW v \in CallStates, Shape(v),
           call' = [call EXCEPT ![c] = v], call[c].at # "write", v.at # "write",
           lock' = lock, role' = role,
           \A b \in Boxes : inbox[b] = "none" => inbox'[b] = "none"
    PROVE  CallsInv'
<1>1. \A d \in Calls : call'[d] = IF d = c THEN v ELSE call[d]
  BY DEF CallsInv
<1>2. \A d \in Calls : call[d] \in CallStates
  BY DEF CallsInv
<1>3. \A d \in Calls : call'[d].at = "write" => lock' = d /\ Checked(call[d])'
  BY <1>1, <1>2, CheckedFrame DEF CallsInv
<1>4. \A d \in Calls : call'[d].at = "write" => call'[d] = call[d]
  BY <1>1
<1>. QED
  BY <1>1, <1>3, <1>4 DEF CallsInv, Shape, Checked, Member, NotLastOwner

\* A call that takes the lock, with what it has checked.
LEMMA CallLocks ==
    ASSUME CallsInv, NEW c \in Calls, NEW v \in CallStates, Shape(v), Checked(v)',
           call' = [call EXCEPT ![c] = v], v.at = "write", LockTeam(c)
    PROVE  CallsInv'
<1>1. \A d \in Calls : call'[d] = IF d = c THEN v ELSE call[d]
  BY DEF CallsInv
<1>2. \A d \in Calls : call[d].at # "write"
  BY AccessAssumption DEF CallsInv, LockTeam
<1>. QED
  BY <1>1, <1>2 DEF CallsInv, LockTeam, Shape, Checked, Member, NotLastOwner

\* A transaction that ends: nobody else's checks matter.
LEMMA CallUnlocks ==
    ASSUME CallsInv, NEW c \in Calls, NEW v \in CallStates, Shape(v),
           call' = [call EXCEPT ![c] = v], call[c].at = "write", v.at # "write", Unlock(c)
    PROVE  CallsInv'
<1>1. \A d \in Calls : call'[d] = IF d = c THEN v ELSE call[d]
  BY DEF CallsInv
<1>2. lock = c /\ lock' = NoCall
  BY DEF CallsInv, Unlock
<1>3. \A d \in Calls : call'[d].at # "write"
  BY <1>1, <1>2 DEF CallsInv
<1>. QED
  BY <1>1, <1>2, <1>3 DEF CallsInv, Shape
---------------------------------------------------------------------------
(* The team's rows. *)

\* A grant for a connected mailbox is written to both halves, and to nothing else.
LEMMA RowsWritten ==
    ASSUME TeamInv, NEW u \in Users, NEW b \in connection, NEW to \in {"granted", "revoked"},
           WriteGrant(u, b, to)
    PROVE  /\ b \in Boxes /\ inbox[b] # "none"
           /\ send' \in Grants /\ read' \in Grants
           /\ \A x \in Boxes, v \in Users :
                 /\ send'[x][v] = IF x = b /\ v = u THEN to ELSE send[x][v]
                 /\ read'[x][v] = IF x = b /\ v = u THEN to ELSE read[x][v]
           /\ \A x \in connection : send'[x] = read'[x]
<1>1. b \in Boxes /\ inbox[b] # "none"
  BY DEF TeamInv, TeamType, TeamSound
<1>2. /\ send' = [send EXCEPT ![b][u] = to]
      /\ read' = [read EXCEPT ![b][u] = to]
  BY <1>1 DEF WriteGrant
<1>3. send \in Grants /\ read \in Grants
  BY DEF TeamInv, TeamType
<1>4. send' \in Grants /\ read' \in Grants
  BY <1>1, <1>2, <1>3 DEF Grants
<1>5. \A x \in Boxes, v \in Users :
         /\ send'[x][v] = IF x = b /\ v = u THEN to ELSE send[x][v]
         /\ read'[x][v] = IF x = b /\ v = u THEN to ELSE read[x][v]
  BY <1>1, <1>2, <1>3 DEF Grants
<1>6. \A x \in connection : send'[x] = read'[x]
  <2>1. ASSUME NEW x \in connection PROVE send'[x] = read'[x]
    <3>1. x \in Boxes /\ send[x] = read[x]
      BY DEF TeamInv, TeamType, GrantsOfMembers
    <3>2. \A v \in Users : send'[x][v] = read'[x][v]
      BY <1>5, <3>1
    <3>3. /\ send'[x] \in [Users -> {"none", "granted", "revoked"}]
          /\ read'[x] \in [Users -> {"none", "granted", "revoked"}]
      BY <1>4, <3>1 DEF Grants
    <3>. QED
      BY <3>2, <3>3
  <2>. QED
    BY <2>1
<1>. QED
  BY <1>1, <1>4, <1>5, <1>6

\* What the rows about grants say, once the roles are as they will be.
LEMMA RowsSound ==
    ASSUME TeamInv, NEW u \in Users, NEW b \in connection,
           Grant(u, b) \/ Deny(u, b), role'[u] # "none",
           \A v \in Users : v # u => role'[v] = role[v],
           UNCHANGED <<connection, inbox, domainVars>>
    PROVE  /\ send' \in Grants /\ read' \in Grants /\ denied' \in [Boxes -> SUBSET Users]
           /\ GrantsOfMembers'
           /\ \A x \in Boxes : inbox'[x] = "none" =>
                 /\ x \notin connection' /\ denied'[x] = {}
                 /\ \A v \in Users : send'[x][v] = "none" /\ read'[x][v] = "none"
           /\ \A x \in Boxes : \A v \in denied'[x] : read'[x][v] = "revoked"
<1>1. PICK to \in {"granted", "revoked"} :
         /\ WriteGrant(u, b, to)
         /\ denied' = [denied EXCEPT ![b] = IF to = "granted" THEN @ \ {u} ELSE @ \union {u}]
  BY DEF Grant, Deny
<1>2. /\ b \in Boxes /\ inbox[b] # "none"
      /\ send' \in Grants /\ read' \in Grants
      /\ \A x \in Boxes, v \in Users :
            /\ send'[x][v] = IF x = b /\ v = u THEN to ELSE send[x][v]
            /\ read'[x][v] = IF x = b /\ v = u THEN to ELSE read[x][v]
      /\ \A x \in connection : send'[x] = read'[x]
  BY <1>1, RowsWritten
<1>3. denied \in [Boxes -> SUBSET Users]
  BY DEF TeamInv, TeamType
<1>4. \A x \in Boxes : denied'[x] = IF x # b THEN denied[x]
                                    ELSE IF to = "granted" THEN denied[x] \ {u}
                                    ELSE denied[x] \union {u}
  BY <1>1, <1>2, <1>3
<1>5. denied' \in [Boxes -> SUBSET Users]
  BY <1>1, <1>2, <1>3
<1>6. GrantsOfMembers'
  BY <1>2 DEF GrantsOfMembers, TeamInv, domainVars
<1>7. \A x \in Boxes : inbox'[x] = "none" =>
         /\ x \notin connection' /\ denied'[x] = {}
         /\ \A v \in Users : send'[x][v] = "none" /\ read'[x][v] = "none"
  <2>1. ASSUME NEW x \in Boxes, inbox'[x] = "none"
        PROVE  /\ x \notin connection' /\ denied'[x] = {}
               /\ \A v \in Users : send'[x][v] = "none" /\ read'[x][v] = "none"
    <3>1. inbox' = inbox /\ connection' = connection
      OBVIOUS
    <3>2. x # b
      BY <1>2, <2>1, <3>1
    <3>3. /\ x \notin connection /\ denied[x] = {}
          /\ \A v \in Users : send[x][v] = "none" /\ read[x][v] = "none"
      BY <2>1, <3>1 DEF TeamInv, TeamSound
    <3>. QED
      BY <1>2, <1>4, <3>1, <3>2, <3>3
  <2>. QED
    BY <2>1
<1>8. ASSUME NEW x \in Boxes, NEW v \in denied'[x] PROVE read'[x][v] = "revoked"
  <2>1. v \in Users
    BY <1>5
  <2>2. CASE x = b /\ v = u
    BY <1>2, <1>4, <2>1, <2>2
  <2>3. CASE ~(x = b /\ v = u)
    <3>1. v \in denied[x]
      BY <1>4, <2>3
    <3>2. read[x][v] = "revoked"
      BY <3>1 DEF TeamInv, TeamSound
    <3>. QED
      BY <1>2, <2>1, <2>3, <3>2
  <2>. QED
    BY <2>2, <2>3
<1>. QED
  BY <1>2, <1>5, <1>6, <1>7, <1>8

\* updateMemberRole and its checks keep an owner, and make nobody a member.
LEMMA RoleWrite ==
    ASSUME TeamInv, CallsInv, NEW c \in Calls, RoleCommit(c)
    PROVE  TeamInv'
<1> DEFINE u == call[c].who
           r == call[c].role
<1>1. u \in Users /\ r \in Roles /\ role[u] # "none" /\ (role[u] = "OWNER" => NotLastOwner(u))
  BY DEF CallsInv, RoleCommit, Writes, Shape, Checked, Member
<1>2. role \in [Users -> Roles \union {"none"}]
  BY DEF TeamInv, TeamType
<1>3. role' = [role EXCEPT ![u] = r]
  BY DEF RoleCommit
<1>4. r # "none"
  BY <1>1 DEF Roles
<1> HIDE DEF u, r
<1>5. AlwaysOwned'
  <2>1. CASE role[u] = "OWNER"
    BY <1>1, <1>2, <1>3, <2>1 DEF AlwaysOwned, NotLastOwner
  <2>2. CASE role[u] # "OWNER"
    BY <1>1, <1>2, <1>3, <2>2 DEF AlwaysOwned, TeamInv
  <2>. QED
    BY <2>1, <2>2
<1>6. TeamType'
  BY <1>1, <1>2, <1>3 DEF RoleCommit, TeamInv, TeamType, boxVars, domainVars
<1>7. \A v \in Users : role'[v] = "none" <=> role[v] = "none"
  BY <1>1, <1>2, <1>3, <1>4
<1>8. TeamSound' /\ GrantsOfMembers'
  BY <1>7 DEF RoleCommit, TeamInv, TeamSound, GrantsOfMembers, boxVars, domainVars
<1>. QED
  BY <1>5, <1>6, <1>8 DEF TeamInv

\* removeMember takes everything granted with it.
LEMMA RemoveWrite ==
    ASSUME TeamInv, CallsInv, NEW c \in Calls, RemoveCommit(c)
    PROVE  TeamInv'
<1> DEFINE u == call[c].who
<1>1. u \in Users /\ (role[u] = "OWNER" => NotLastOwner(u))
  BY DEF CallsInv, RemoveCommit, Writes, Shape, Checked
<1>2. Expel(u) /\ UNCHANGED <<account, invite, connection, inbox, assigned>>
  BY DEF RemoveCommit
<1> HIDE DEF u
<1>3. /\ role \in [Users -> Roles \union {"none"}] /\ send \in Grants /\ read \in Grants
      /\ denied \in [Boxes -> SUBSET Users]
  BY DEF TeamInv, TeamType
<1>4. /\ send' \in Grants /\ read' \in Grants /\ denied' \in [Boxes -> SUBSET Users]
      /\ role' \in [Users -> Roles \union {"none"}]
  BY <1>1, <1>2, <1>3 DEF Expel, Grants
<1>5. \A v \in Users : role'[v] = IF v = u THEN "none" ELSE role[v]
  BY <1>2, <1>3 DEF Expel
<1>6. \A b \in Boxes, v \in Users :
         /\ send'[b][v] = IF v = u THEN "none" ELSE send[b][v]
         /\ read'[b][v] = IF v = u THEN "none" ELSE read[b][v]
  BY <1>1, <1>2, <1>3 DEF Expel, Grants
<1>7. \A b \in Boxes : denied'[b] = denied[b] \ {u}
  BY <1>2 DEF Expel
<1>8. AlwaysOwned'
  <2>1. CASE role[u] = "OWNER"
    BY <1>1, <1>5, <2>1 DEF AlwaysOwned, NotLastOwner
  <2>2. CASE role[u] # "OWNER"
    BY <1>1, <1>5, <2>2 DEF AlwaysOwned, TeamInv
  <2>. QED
    BY <2>1, <2>2
<1>9. TeamType'
  BY <1>2, <1>4 DEF TeamInv, TeamType, Expel
<1>10. TeamSound'
  <2>1. \A v \in Users : role'[v] # "none" => v \in account'
    BY <1>2, <1>5 DEF TeamInv, TeamSound
  <2>2. \A b \in Boxes : inbox'[b] = "none" =>
          /\ b \notin connection' /\ denied'[b] = {}
          /\ \A v \in Users : send'[b][v] = "none" /\ read'[b][v] = "none"
    BY <1>2, <1>6, <1>7 DEF TeamInv, TeamSound
  <2>3. \A b \in Boxes : \A v \in denied'[b] : read'[b][v] = "revoked"
    BY <1>3, <1>6, <1>7 DEF TeamInv, TeamSound
  <2>. QED
    BY <2>1, <2>2, <2>3 DEF TeamSound
<1>11. GrantsOfMembers'
  <2>1. \A v \in Users : role'[v] = "none" =>
          v \notin domainGrants' /\ \A b \in Boxes : send'[b][v] = "none" /\ read'[b][v] = "none"
    BY <1>2, <1>5, <1>6 DEF TeamInv, GrantsOfMembers, Expel
  <2>2. ASSUME NEW b \in connection' PROVE send'[b] = read'[b]
    <3>1. b \in Boxes /\ send[b] = read[b]
      BY <1>2 DEF TeamInv, TeamType, GrantsOfMembers
    <3>. QED
      BY <1>2, <3>1 DEF Expel
  <2>. QED
    BY <2>1, <2>2 DEF GrantsOfMembers
<1>. QED
  BY <1>8, <1>9, <1>10, <1>11 DEF TeamInv

\* accept: whoever joins was no member, so no owner is lost and no grant left over.
LEMMA AcceptWrite ==
    ASSUME TeamInv, CallsInv, NEW c \in Calls, AcceptCommit(c)
    PROVE  TeamInv'
<1> DEFINE q == call[c]
           b == invite[q.invite].box
<1>1. /\ q.who \in Users /\ q.invite \in Invites /\ q.role \in Roles \union {"none"}
      /\ q.role # "none" /\ q.by # NoUser => role[q.who] = "none"
  BY DEF CallsInv, AcceptCommit, Writes, Shape, Checked, CallStates
<1>2. CASE UNCHANGED teamVars
  BY <1>2 DEF teamVars, memberVars, boxVars, domainVars, TeamInv, TeamType, TeamSound,
              GrantsOfMembers, AlwaysOwned
<1>3. CASE /\ q.role # "none" => b \in connection \union {NoBox} /\ ~(q.by = NoUser /\ q.who \in account)
           /\ invite' = [invite EXCEPT ![q.invite].status = "ACCEPTED"]
           /\ account' = account \union {q.who}
           /\ IF q.role = "none" THEN UNCHANGED <<role, send, read, denied>>
              ELSE /\ role' = [role EXCEPT ![q.who] = q.role]
                   /\ IF b = NoBox THEN UNCHANGED <<send, read, denied>> ELSE Grant(q.who, b)
           /\ UNCHANGED <<connection, inbox, domainVars>>
  <2> USE <1>1, <1>3
  <2>1. q.role # "none" => role[q.who] = "none"
    BY DEF TeamInv, TeamSound
  <2> HIDE DEF q, b
  <2>2. /\ role \in [Users -> Roles \union {"none"}] /\ account \subseteq Users
        /\ invite \in [Invites -> InviteRows]
    BY DEF TeamInv, TeamType
  <2>3. role' \in [Users -> Roles \union {"none"}] /\ account' \subseteq Users
    BY <2>2
  <2>4. invite' \in [Invites -> InviteRows]
    BY <2>2 DEF InviteRows
  <2>5. \A v \in Users : role'[v] = role[v] \/ (v = q.who /\ role[v] = "none" /\ role'[v] # "none")
    BY <2>1, <2>2
  <2>6. AlwaysOwned'
    BY <2>5 DEF TeamInv, AlwaysOwned
  <2>7. \A v \in Users : role'[v] # "none" => v \in account'
    BY <2>5 DEF TeamInv, TeamSound
  <2>8. /\ send' \in Grants /\ read' \in Grants /\ denied' \in [Boxes -> SUBSET Users]
        /\ GrantsOfMembers'
        /\ \A x \in Boxes : inbox'[x] = "none" =>
              /\ x \notin connection' /\ denied'[x] = {}
              /\ \A v \in Users : send'[x][v] = "none" /\ read'[x][v] = "none"
        /\ \A x \in Boxes : \A v \in denied'[x] : read'[x][v] = "revoked"
    <3>1. CASE UNCHANGED <<send, read, denied>>
      BY <2>5, <3>1 DEF TeamInv, TeamType, TeamSound, GrantsOfMembers, domainVars
    <3>2. CASE q.role # "none" /\ b # NoBox
      <4>1. b \in connection /\ Grant(q.who, b)
        BY <3>2
      <4>2. role'[q.who] # "none"
        BY <2>2, <3>2
      <4>3. \A v \in Users : v # q.who => role'[v] = role[v]
        BY <2>5
      <4>. QED
        BY <4>1, <4>2, <4>3, RowsSound
    <3>. QED
      BY <3>1, <3>2
  <2>. QED
    BY <2>3, <2>4, <2>6, <2>7, <2>8 DEF TeamInv, TeamType, TeamSound, domainVars
<1>. QED
  BY <1>2, <1>3 DEF AcceptCommit

\* addGrant and removeGrant: whom they are about is still a member.
LEMMA GrantWrite ==
    ASSUME TeamInv, CallsInv, NEW c \in Calls, GrantCommit(c)
    PROVE  TeamInv'
<1> DEFINE q == call[c]
<1>1. q.who \in Users /\ q.box \in Boxes /\ role[q.who] # "none"
  BY DEF CallsInv, GrantCommit, Writes, Shape, Checked, Member
<1>2. UNCHANGED <<memberVars, invite, connection, inbox, domainVars>>
  BY DEF GrantCommit
<1>3. \/ UNCHANGED <<send, read, denied>>
      \/ q.box \in connection /\ (Grant(q.who, q.box) \/ Deny(q.who, q.box))
  BY DEF GrantCommit
<1> HIDE DEF q
<1>4. CASE UNCHANGED <<send, read, denied>>
  BY <1>2, <1>4 DEF memberVars, domainVars, TeamInv, TeamType, TeamSound, GrantsOfMembers,
                    AlwaysOwned
<1>5. CASE q.box \in connection /\ (Grant(q.who, q.box) \/ Deny(q.who, q.box))
  <2>1. role' = role /\ account' = account /\ UNCHANGED <<connection, inbox, domainVars>>
    BY <1>2 DEF memberVars
  <2>2. /\ send' \in Grants /\ read' \in Grants /\ denied' \in [Boxes -> SUBSET Users]
        /\ GrantsOfMembers'
        /\ \A x \in Boxes : inbox'[x] = "none" =>
              /\ x \notin connection' /\ denied'[x] = {}
              /\ \A v \in Users : send'[x][v] = "none" /\ read'[x][v] = "none"
        /\ \A x \in Boxes : \A v \in denied'[x] : read'[x][v] = "revoked"
    BY <1>1, <1>5, <2>1, RowsSound
  <2>. QED
    BY <1>2, <2>1, <2>2 DEF domainVars, TeamInv, TeamType, TeamSound, AlwaysOwned
<1>. QED
  BY <1>3, <1>4, <1>5

\* connectMailbox: the address had no rows, and its assignee is still a member.
LEMMA ConnectWrite ==
    ASSUME TeamInv, CallsInv, NEW c \in Calls, ConnectCommit(c)
    PROVE  TeamInv'
<1> DEFINE b == call[c].box
           w == call[c].who
<1>1. b \in Boxes /\ inbox[b] = "none" /\ (w = NoUser \/ (w \in Users /\ role[w] # "none"))
  BY DEF CallsInv, ConnectCommit, Writes, Shape, Checked, Member
<1>2. CreateBox(b, w) /\ UNCHANGED <<memberVars, invite, domainVars, denied>>
  BY DEF ConnectCommit
<1> HIDE DEF b, w
<1>3. /\ send \in Grants /\ read \in Grants /\ connection \subseteq Boxes
      /\ inbox \in [Boxes -> {"none", "ACTIVE", "DISABLED"}]
  BY DEF TeamInv, TeamType
<1>4. /\ b \notin connection /\ denied[b] = {}
      /\ \A v \in Users : send[b][v] = "none" /\ read[b][v] = "none"
  BY <1>1 DEF TeamInv, TeamSound
<1>5. /\ send' \in Grants /\ read' \in Grants /\ connection' \subseteq Boxes
      /\ inbox' \in [Boxes -> {"none", "ACTIVE", "DISABLED"}]
  <2>1. connection' \subseteq Boxes /\ inbox' \in [Boxes -> {"none", "ACTIVE", "DISABLED"}]
    BY <1>1, <1>2, <1>3 DEF CreateBox
  <2>2. CASE w = NoUser
    BY <1>2, <1>3, <2>1, <2>2 DEF CreateBox
  <2>3. CASE w # NoUser
    <3>1. /\ send' = [send EXCEPT ![b][w] = "granted"]
          /\ read' = [read EXCEPT ![b][w] = "granted"]
      BY <1>2, <2>3 DEF CreateBox
    <3>. QED
      BY <1>1, <1>3, <2>1, <2>3, <3>1 DEF Grants
  <2>. QED
    BY <2>2, <2>3
<1>6. \A x \in Boxes, v \in Users :
         /\ send'[x][v] = IF x = b /\ v = w THEN "granted" ELSE send[x][v]
         /\ read'[x][v] = IF x = b /\ v = w THEN "granted" ELSE read[x][v]
  BY <1>1, <1>2, <1>3, TeamAssumption DEF CreateBox, Grants
<1>7. \A x \in Boxes : inbox'[x] = IF x = b THEN "ACTIVE" ELSE inbox[x]
  BY <1>2, <1>3 DEF CreateBox
<1>8. TeamSound'
  <2>1. \A u \in Users : role'[u] # "none" => u \in account'
    BY <1>2 DEF TeamInv, TeamSound, memberVars
  <2>2. ASSUME NEW x \in Boxes, inbox'[x] = "none"
        PROVE  /\ x \notin connection' /\ denied'[x] = {}
               /\ \A v \in Users : send'[x][v] = "none" /\ read'[x][v] = "none"
    <3>1. x # b /\ inbox[x] = "none"
      BY <1>7, <2>2
    <3>2. /\ x \notin connection /\ denied[x] = {}
          /\ \A v \in Users : send[x][v] = "none" /\ read[x][v] = "none"
      BY <3>1 DEF TeamInv, TeamSound
    <3>. QED
      BY <1>2, <1>6, <3>1, <3>2 DEF CreateBox
  <2>3. ASSUME NEW x \in Boxes, NEW v \in denied'[x] PROVE read'[x][v] = "revoked"
    <3>1. v \in denied[x] /\ x # b /\ v \in Users /\ read[x][v] = "revoked"
      BY <1>2, <1>4, <2>3 DEF TeamInv, TeamSound, TeamType
    <3>. QED
      BY <1>6, <3>1
  <2>. QED
    BY <2>1, <2>2, <2>3 DEF TeamSound
<1>9. GrantsOfMembers'
  <2>1. role' = role /\ domainGrants' = domainGrants
    BY <1>2 DEF memberVars, domainVars
  <2>2. \A v \in Users : role'[v] = "none" =>
          v \notin domainGrants' /\ \A x \in Boxes : send'[x][v] = "none" /\ read'[x][v] = "none"
    <3>1. ASSUME NEW v \in Users, role[v] = "none"
          PROVE  v \notin domainGrants /\ \A x \in Boxes : send'[x][v] = "none" /\ read'[x][v] = "none"
      <4>1. v \notin domainGrants /\ \A x \in Boxes : send[x][v] = "none" /\ read[x][v] = "none"
        BY <3>1 DEF TeamInv, GrantsOfMembers
      <4>2. v # w
        BY <1>1, <3>1, TeamAssumption
      <4>. QED
        BY <1>6, <4>1, <4>2
    <3>. QED
      BY <2>1, <3>1
  <2>3. ASSUME NEW x \in connection' PROVE send'[x] = read'[x]
    <3>1. x \in Boxes /\ (x = b \/ x \in connection)
      BY <1>2, <1>5, <2>3 DEF CreateBox
    <3>2. \A v \in Users : send[x][v] = read[x][v]
      BY <1>4, <3>1 DEF TeamInv, GrantsOfMembers
    <3>3. \A v \in Users : send'[x][v] = read'[x][v]
      BY <1>6, <3>1, <3>2
    <3>4. /\ send'[x] \in [Users -> {"none", "granted", "revoked"}]
          /\ read'[x] \in [Users -> {"none", "granted", "revoked"}]
      BY <1>5, <3>1 DEF Grants
    <3>. QED
      BY <3>3, <3>4
  <2>. QED
    BY <2>2, <2>3 DEF GrantsOfMembers
<1>10. AlwaysOwned'
  BY <1>2 DEF AlwaysOwned, TeamInv, memberVars
<1>11. TeamType'
  BY <1>2, <1>5 DEF TeamInv, TeamType, memberVars, domainVars
<1>. QED
  BY <1>8, <1>9, <1>10, <1>11 DEF TeamInv

\* A connection goes with its grants to send; the denials to read stay.
LEMMA DropWrite ==
    ASSUME TeamInv, NEW b \in Boxes, DropConnection(b),
           UNCHANGED <<memberVars, invite, inbox, read, domainVars, denied>>
    PROVE  TeamInv'
<1>1. send' = [send EXCEPT ![b] = [u \in Users |-> "none"]] /\ connection' = connection \ {b}
  BY DEF DropConnection
<1>2. send \in Grants
  BY DEF TeamInv, TeamType
<1>3. send' \in Grants
  BY <1>1, <1>2 DEF Grants
<1>4. \A x \in Boxes : x # b => send'[x] = send[x]
  BY <1>1, <1>2 DEF Grants
<1>5. \A v \in Users : send'[b][v] = "none"
  BY <1>1, <1>2 DEF Grants
<1>6. TeamType' /\ AlwaysOwned'
  BY <1>1, <1>3 DEF TeamInv, TeamType, AlwaysOwned, memberVars, domainVars
<1>7. \A x \in Boxes, v \in Users : send[x][v] = "none" => send'[x][v] = "none"
  BY <1>4, <1>5
<1>8. TeamSound'
  BY <1>1, <1>7 DEF TeamInv, TeamSound, memberVars
<1>9. GrantsOfMembers'
  <2>1. \A v \in Users : role'[v] = "none" =>
          v \notin domainGrants' /\ \A x \in Boxes : send'[x][v] = "none" /\ read'[x][v] = "none"
    BY <1>7 DEF TeamInv, GrantsOfMembers, memberVars, domainVars
  <2>2. ASSUME NEW x \in connection' PROVE send'[x] = read'[x]
    BY <1>1, <1>4, <2>2 DEF TeamInv, TeamType, GrantsOfMembers
  <2>. QED
    BY <2>1, <2>2 DEF GrantsOfMembers
<1>. QED
  BY <1>6, <1>8, <1>9 DEF TeamInv

\* The rest of the writes: the team's rows are left, or only invitations, accounts,
\* delegations of the domain or the states of existing mailboxes are written.
LEMMA LittleWrite ==
    ASSUME TeamInv,
           /\ UNCHANGED <<role, connection, send, read, denied>>
           /\ invite' \in [Invites -> InviteRows]
           /\ account \subseteq account' /\ account' \subseteq Users
           /\ assigned' \in BOOLEAN /\ domainGrants' \subseteq Users
           /\ \A u \in domainGrants' : u \in domainGrants \/ role[u] # "none"
           /\ inbox' \in [Boxes -> {"none", "ACTIVE", "DISABLED"}]
           /\ \A b \in Boxes : inbox'[b] = "none" => inbox[b] = "none"
    PROVE  TeamInv'
<1>1. TeamType' /\ AlwaysOwned'
  BY DEF TeamInv, TeamType, AlwaysOwned
<1>2. TeamSound'
  BY DEF TeamInv, TeamSound
<1>3. GrantsOfMembers'
  BY DEF TeamInv, GrantsOfMembers
<1>. QED
  BY <1>1, <1>2, <1>3 DEF TeamInv

\* Nothing of the team is written.
LEMMA NoWrite ==
    ASSUME TeamInv, UNCHANGED teamVars
    PROVE  TeamInv'
BY DEF teamVars, memberVars, boxVars, domainVars, TeamInv, TeamType, TeamSound, GrantsOfMembers,
       AlwaysOwned

\* Every step keeps the team's rows sound.
LEMMA TeamStep ==
    ASSUME TeamInv, CallsInv, [Next]_vars
    PROVE  TeamInv'
<1>1. ASSUME NEW c \in Calls, Begin(c) PROVE TeamInv'
  <2>1. UNCHANGED teamVars
    BY <1>1 DEF Begin, UpdateMemberRole, RemoveMember, AddDomainGrant, Invite, Accept, AddGrant,
                RemoveGrant, Provision, Adopt, Remove, OnlyCalls
  <2>. QED
    BY <2>1, NoWrite
<1>2. ASSUME NEW c \in Calls, Step(c) PROVE TeamInv'
  <2>1. CASE InviteLock(c) \/ AcceptLock(c) \/ DomainGrantLock(c) \/ CreateMailbox(c)
             \/ ConnectLock(c) \/ Undo(c) \/ DeleteMailbox(c) \/ Rollback(c)
    <3>1. UNCHANGED teamVars
      BY <2>1 DEF InviteLock, AcceptLock, DomainGrantLock, CreateMailbox, ConnectLock, Undo,
                  DeleteMailbox, Rollback, OnlyCalls
    <3>. QED
      BY <3>1, NoWrite
  <2>2. CASE InviteCommit(c)
    <3>1. PICK i \in Invites :
             invite' = [j \in Invites |->
                    IF j = i THEN [status |-> "PENDING", to |-> call[c].who, role |-> call[c].role,
                                   by |-> call[c].by, box |-> call[c].box]
                    ELSE IF invite[j].to = call[c].who /\ invite[j].status \in {"PENDING", "LAPSED"}
                         THEN [invite[j] EXCEPT !.status = "REVOKED"]
                         ELSE invite[j]]
      BY <2>2 DEF InviteCommit
    <3>2. call[c] \in CallStates
      BY DEF CallsInv
    <3>3. invite \in [Invites -> InviteRows]
      BY DEF TeamInv, TeamType
    <3>4. invite' \in [Invites -> InviteRows]
      BY <3>1, <3>2, <3>3 DEF CallStates, InviteRows
    <3>5. UNCHANGED <<memberVars, boxVars, domainVars, denied>>
      BY <2>2 DEF InviteCommit
    <3>. QED
      BY <3>4, <3>5, LittleWrite DEF memberVars, boxVars, domainVars, TeamInv, TeamType
  <2>3. CASE DomainGrantCommit(c)
    <3>1. call[c].who \in Users /\ role[call[c].who] # "none"
      BY <2>3 DEF DomainGrantCommit, CallsInv, Writes, Shape, Checked, Member
    <3>. QED
      BY <2>3, <3>1, LittleWrite DEF DomainGrantCommit, memberVars, boxVars, TeamInv, TeamType
  <2>4. CASE TidyConnection(c)
    <3>1. call[c].box \in Boxes
      BY <2>4 DEF TidyConnection, CallsInv, Shape
    <3>. QED
      BY <2>4, <3>1, DropWrite DEF TidyConnection
  <2>5. CASE TidyInbox(c)
    <3>1. inbox \in [Boxes -> {"none", "ACTIVE", "DISABLED"}] /\ call[c].box \in Boxes
      BY <2>5 DEF TidyInbox, CallsInv, Shape, TeamInv, TeamType
    <3>2. /\ inbox' \in [Boxes -> {"none", "ACTIVE", "DISABLED"}]
          /\ \A b \in Boxes : inbox'[b] = "none" => inbox[b] = "none"
      BY <2>5, <3>1 DEF TidyInbox
    <3>. QED
      BY <2>5, <3>2, LittleWrite DEF TidyInbox, memberVars, domainVars, TeamInv, TeamType
  <2>. QED
    BY <1>2, <2>1, <2>2, <2>3, <2>4, <2>5, RoleWrite, RemoveWrite, AcceptWrite, GrantWrite,
       ConnectWrite DEF Step
<1>3. ASSUME NEW by \in Users, NEW i \in Invites, Revoke(by, i) PROVE TeamInv'
  BY <1>3, LittleWrite
     DEF Revoke, memberVars, boxVars, domainVars, TeamInv, TeamType, InviteRows
<1>4. ASSUME NEW i \in Invites, Lapse(i) PROVE TeamInv'
  BY <1>4, LittleWrite
     DEF Lapse, memberVars, boxVars, domainVars, TeamInv, TeamType, InviteRows
<1>5. ASSUME NEW by \in Users, NEW b \in Boxes, DeleteConnection(by, b) PROVE TeamInv'
  BY <1>5, DropWrite DEF DeleteConnection
<1>6. ASSUME NEW u \in Users, Register(u) PROVE TeamInv'
  BY <1>6, LittleWrite DEF Register, boxVars, domainVars, TeamInv, TeamType
<1>7. ASSUME NEW u \in Users, RemoveDomainGrant(u) PROVE TeamInv'
  BY <1>7, LittleWrite DEF RemoveDomainGrant, memberVars, boxVars, TeamInv, TeamType
<1>8. CASE AssignDomain
  BY <1>8, LittleWrite DEF AssignDomain, memberVars, boxVars, TeamInv, TeamType
<1>9. CASE ApiDies
  BY <1>9, NoWrite DEF ApiDies
<1>10. CASE UNCHANGED vars
  BY <1>10, NoWrite DEF vars
<1>. QED
  BY <1>1, <1>2, <1>3, <1>4, <1>5, <1>6, <1>7, <1>8, <1>9, <1>10 DEF Next
---------------------------------------------------------------------------
(* The calls, step by step. *)

LEMMA IdleShape == Idle \in CallStates /\ Shape(Idle) /\ Idle.at = "idle"
BY DEF Idle, CallStates, Shape, Ops

\* A call begins, alone or with the lock.
LEMMA CallBegins ==
    ASSUME CallsInv, NEW c \in Calls, NEW v \in CallStates, Shape(v), Begins(c, v),
           role' = role, inbox' = inbox,
           \/ v.at # "write" /\ lock' = lock
           \/ v.at = "write" /\ LockTeam(c) /\ Checked(v)
    PROVE  CallsInv'
<1>1. call' = [call EXCEPT ![c] = v] /\ call[c].at # "write"
  BY IdleShape DEF Begins
<1>2. CASE v.at # "write" /\ lock' = lock
  BY <1>1, <1>2, CallGoes
<1>3. CASE v.at = "write" /\ LockTeam(c) /\ Checked(v)
  <2>1. Checked(v)'
    BY <1>3, CheckedFrame
  <2>. QED
    BY <1>1, <1>3, <2>1, CallLocks
<1>. QED
  BY <1>2, <1>3

\* A call without the lock ends, or goes on without it.
LEMMA CallEnds ==
    ASSUME CallsInv, NEW c \in Calls, Ends(c), call[c].at # "write", lock' = lock, role' = role,
           \A b \in Boxes : inbox[b] = "none" => inbox'[b] = "none"
    PROVE  CallsInv'
BY IdleShape, CallGoes DEF Ends

LEMMA CallGoesOn ==
    ASSUME CallsInv, NEW c \in Calls,
           NEW at \in {"connect", "undo", "tidy", "tidyConnection", "tidyInbox"},
           Goes(c, at), call[c].at # "write", lock' = lock, role' = role,
           \A b \in Boxes : inbox[b] = "none" => inbox'[b] = "none",
           IF at \in {"connect", "undo"} THEN call[c].op \in {"provision", "adopt"}
                                         ELSE call[c].op = "remove"
    PROVE  CallsInv'
<1>1. PICK v : v = [call[c] EXCEPT !.at = at]
  OBVIOUS
<1>2. call[c] \in CallStates /\ Shape(call[c])
  BY DEF CallsInv
<1>3. v \in CallStates /\ v.at = at
  BY <1>1, <1>2 DEF CallStates
<1>4. Shape(v)
  BY <1>1, <1>2, <1>3 DEF CallStates, Shape
<1>5. call' = [call EXCEPT ![c] = v]
  BY <1>1 DEF Goes
<1>. QED
  BY <1>3, <1>4, <1>5, CallGoes

\* A call that has checked under the lock, and is about to write.
LEMMA CallChecks ==
    ASSUME CallsInv, NEW c \in Calls, LockTeam(c), role' = role, inbox' = inbox,
           NEW v \in CallStates, call' = [call EXCEPT ![c] = v],
           Shape(v), v.at = "write", Checked(v)
    PROVE  CallsInv'
<1>1. Checked(v)'
  BY CheckedFrame
<1>. QED
  BY <1>1, CallLocks

\* A transaction that commits.
LEMMA CallCommits ==
    ASSUME CallsInv, NEW c \in Calls, Commits(c), call[c].at = "write"
    PROVE  CallsInv'
BY IdleShape, CallUnlocks DEF Commits, Ends

\* No call moves.
LEMMA CallsFrame ==
    ASSUME CallsInv, UNCHANGED <<call, lock, role, inbox>>
    PROVE  CallsInv'
<1>1. \A c \in Calls : call[c].at = "write" => Checked(call[c])'
  BY CheckedFrame DEF CallsInv
<1>. QED
  BY <1>1 DEF CallsInv, Shape, Checked, Member, NotLastOwner

LEMMA BeginStep ==
    ASSUME TeamInv, CallsInv, Addressed, NEW c \in Calls, Begin(c)
    PROVE  CallsInv'
<1> USE DEF Ops
<1>0. /\ Idle = [op |-> "none", at |-> "idle", by |-> NoUser, who |-> NoUser, role |-> "none",
                 box |-> NoBox, invite |-> 0]
      /\ OnlyCalls => role' = role /\ inbox' = inbox
  BY DEF Idle, OnlyCalls, teamVars, memberVars, boxVars
<1>1. ASSUME NEW by \in Users, NEW who \in Users, NEW r \in Roles, UpdateMemberRole(c, by, who, r)
      PROVE  CallsInv'
  <2>1. PICK v : v = [Idle EXCEPT !.op = "updateMemberRole", !.at = "write", !.by = by,
                                  !.who = who, !.role = r]
    OBVIOUS
  <2>2. v \in CallStates /\ Shape(v) /\ v.at = "write" /\ Checked(v)
    BY <1>0, <1>1, <2>1 DEF UpdateMemberRole, CallStates, Shape, Checked
  <2>. QED
    BY <1>0, <1>1, <2>1, <2>2, CallBegins DEF UpdateMemberRole
<1>2. ASSUME NEW by \in Users, NEW who \in Users, RemoveMember(c, by, who)
      PROVE  CallsInv'
  <2>1. PICK v : v = [Idle EXCEPT !.op = "removeMember", !.at = "write", !.by = by, !.who = who]
    OBVIOUS
  <2>2. v \in CallStates /\ Shape(v) /\ v.at = "write" /\ Checked(v)
    BY <1>0, <1>2, <2>1 DEF RemoveMember, CallStates, Shape, Checked
  <2>. QED
    BY <1>0, <1>2, <2>1, <2>2, CallBegins DEF RemoveMember
<1>3. ASSUME NEW who \in Users, AddDomainGrant(c, who)
      PROVE  CallsInv'
  <2>1. PICK v : v = [Idle EXCEPT !.op = "addDomainGrant", !.at = "checked", !.who = who]
    OBVIOUS
  <2>2. v \in CallStates /\ Shape(v) /\ v.at # "write"
    BY <1>0, <2>1 DEF CallStates, Shape
  <2>. QED
    BY <1>0, <1>3, <2>1, <2>2, CallBegins DEF AddDomainGrant
<1>4. ASSUME NEW by \in Users, NEW to \in Users, NEW r \in Roles, NEW b \in Boxes \union {NoBox},
             Invite(c, by, to, r, b)
      PROVE  CallsInv'
  <2>1. PICK v : v = [Idle EXCEPT !.op = "invite", !.at = "checked", !.by = by, !.who = to,
                                  !.role = r, !.box = b]
    OBVIOUS
  <2>2. v \in CallStates /\ Shape(v) /\ v.at # "write"
    BY <1>0, <2>1 DEF CallStates, Shape
  <2>. QED
    BY <1>0, <1>4, <2>1, <2>2, CallBegins DEF Invite
<1>5. ASSUME NEW i \in Invites, Accept(c, i)
      PROVE  CallsInv'
  <2>1. invite[i].to \in Users
    BY <1>5 DEF Accept, Addressed
  <2>2. PICK by \in Users \union {NoUser} :
           by = IF invite[i].to \in account THEN invite[i].to ELSE NoUser
    BY <2>1
  <2>3. PICK v : v = [Idle EXCEPT !.op = "accept", !.at = "checked", !.who = invite[i].to,
                                  !.by = by, !.invite = i]
    OBVIOUS
  <2>4. v \in CallStates /\ Shape(v) /\ v.at # "write"
    BY <1>0, <2>1, <2>3 DEF CallStates, Shape
  <2>. QED
    BY <1>0, <1>5, <2>2, <2>3, <2>4, CallBegins DEF Accept
<1>6. ASSUME NEW by \in Users, NEW who \in Users, NEW b \in Boxes, AddGrant(c, by, who, b)
      PROVE  CallsInv'
  <2>1. PICK v : v = [Idle EXCEPT !.op = "addGrant", !.at = "write", !.by = by, !.who = who,
                                  !.box = b]
    OBVIOUS
  <2>2. v \in CallStates /\ Shape(v) /\ v.at = "write" /\ Checked(v)
    BY <1>0, <1>6, <2>1 DEF AddGrant, CallStates, Shape, Checked
  <2>. QED
    BY <1>0, <1>6, <2>1, <2>2, CallBegins DEF AddGrant
<1>7. ASSUME NEW by \in Users, NEW who \in Users, NEW b \in Boxes, RemoveGrant(c, by, who, b)
      PROVE  CallsInv'
  <2>1. PICK v : v = [Idle EXCEPT !.op = "removeGrant", !.at = "write", !.by = by, !.who = who,
                                  !.box = b]
    OBVIOUS
  <2>2. v \in CallStates /\ Shape(v) /\ v.at = "write" /\ Checked(v)
    BY <1>0, <1>7, <2>1 DEF RemoveGrant, CallStates, Shape, Checked
  <2>. QED
    BY <1>0, <1>7, <2>1, <2>2, CallBegins DEF RemoveGrant
<1>8. ASSUME NEW by \in Users, NEW who \in Users \union {NoUser}, NEW b \in Boxes,
             Provision(c, by, b, who)
      PROVE  CallsInv'
  <2>1. PICK v : v = [Idle EXCEPT !.op = "provision", !.at = "create", !.by = by, !.who = who,
                                  !.box = b]
    OBVIOUS
  <2>2. v \in CallStates /\ Shape(v) /\ v.at # "write"
    BY <1>0, <2>1 DEF CallStates, Shape
  <2>. QED
    BY <1>0, <1>8, <2>1, <2>2, CallBegins DEF Provision
<1>9. ASSUME NEW by \in Users, NEW who \in Users \union {NoUser}, NEW b \in Boxes,
             Adopt(c, by, b, who)
      PROVE  CallsInv'
  <2>1. PICK v : v = [Idle EXCEPT !.op = "adopt", !.at = "connect", !.by = by, !.who = who,
                                  !.box = b]
    OBVIOUS
  <2>2. v \in CallStates /\ Shape(v) /\ v.at # "write"
    BY <1>0, <2>1 DEF CallStates, Shape
  <2>. QED
    BY <1>0, <1>9, <2>1, <2>2, CallBegins DEF Adopt
<1>10. ASSUME NEW by \in Users, NEW b \in Boxes, Remove(c, by, b)
       PROVE  CallsInv'
  <2>1. PICK v : v = [Idle EXCEPT !.op = "remove", !.at = "delete", !.by = by, !.box = b]
    OBVIOUS
  <2>2. v \in CallStates /\ Shape(v) /\ v.at # "write"
    BY <1>0, <2>1 DEF CallStates, Shape
  <2>. QED
    BY <1>0, <1>10, <2>1, <2>2, CallBegins DEF Remove
<1>. QED
  BY <1>1, <1>2, <1>3, <1>4, <1>5, <1>6, <1>7, <1>8, <1>9, <1>10 DEF Begin

\* The steps of a call that take the lock, or find that they may not go on.
LEMMA LockStep ==
    ASSUME TeamInv, CallsInv, NEW c \in Calls,
           InviteLock(c) \/ AcceptLock(c) \/ DomainGrantLock(c) \/ ConnectLock(c)
    PROVE  CallsInv'
<1>1. role' = role /\ inbox' = inbox
  BY DEF InviteLock, AcceptLock, DomainGrantLock, ConnectLock, OnlyCalls, teamVars, memberVars,
         boxVars
<1>2. call[c] \in CallStates /\ Shape(call[c]) /\ invite \in [Invites -> InviteRows]
  BY DEF CallsInv, TeamInv, TeamType
<1>3. PICK v : v = [call[c] EXCEPT !.at = "write"]
  OBVIOUS
<1>4. v \in CallStates /\ v.at = "write"
  BY <1>2, <1>3 DEF CallStates
<1>5. Goes(c, "write") => call' = [call EXCEPT ![c] = v]
  BY <1>3 DEF Goes
<1>6. CASE InviteLock(c)
  <2>1. CASE LockTeam(c) /\ Goes(c, "write")
    <3>1. Shape(v) /\ Checked(v)
      BY <1>2, <1>3, <1>6 DEF InviteLock, CallStates, Shape, Checked, Ops
    <3>. QED
      BY <1>1, <1>4, <1>5, <2>1, <3>1, CallChecks
  <2>2. CASE Ends(c) /\ lock' = lock
    BY <1>1, <1>6, <2>2, CallEnds DEF InviteLock
  <2>. QED
    BY <1>6, <2>1, <2>2 DEF InviteLock
<1>7. CASE AcceptLock(c)
  <2>1. CASE LockTeam(c) /\ call' = [call EXCEPT ![c].at = "write", ![c].role = Joins(c)]
    <3>1. PICK w : w = [call[c] EXCEPT !.at = "write", !.role = Joins(c)]
      OBVIOUS
    <3>2. call[c].op = "accept" /\ call[c].who \in Users /\ call[c].invite \in Invites
      BY <1>2, <1>7 DEF AcceptLock, Shape
    <3>3. /\ Joins(c) \in Roles \union {"none"}
          /\ Joins(c) # "none" /\ call[c].by # NoUser => role[call[c].who] = "none"
      BY <1>2, <3>2 DEF Joins, Member, InviteRows
    <3>4. w \in CallStates /\ w.at = "write" /\ Shape(w) /\ Checked(w)
      BY <1>2, <3>1, <3>2, <3>3 DEF CallStates, Shape, Checked, Ops
    <3>5. call' = [call EXCEPT ![c] = w]
      BY <2>1, <3>1
    <3>. QED
      BY <1>1, <2>1, <3>4, <3>5, CallChecks
  <2>2. CASE Ends(c) /\ lock' = lock
    BY <1>1, <1>7, <2>2, CallEnds DEF AcceptLock
  <2>. QED
    BY <1>7, <2>1, <2>2 DEF AcceptLock
<1>8. CASE DomainGrantLock(c)
  <2>1. CASE Member(call[c].who) /\ LockTeam(c) /\ Goes(c, "write")
    <3>1. Shape(v) /\ Checked(v)
      BY <1>2, <1>3, <1>8, <2>1 DEF DomainGrantLock, CallStates, Shape, Checked, Ops
    <3>. QED
      BY <1>1, <1>4, <1>5, <2>1, <3>1, CallChecks
  <2>2. CASE Ends(c) /\ lock' = lock
    BY <1>1, <1>8, <2>2, CallEnds DEF DomainGrantLock
  <2>. QED
    BY <1>8, <2>1, <2>2 DEF DomainGrantLock
<1>9. CASE ConnectLock(c)
  <2>1. CASE /\ inbox[call[c].box] = "none" /\ (call[c].who = NoUser \/ Member(call[c].who))
             /\ LockTeam(c) /\ Goes(c, "write")
    <3>1. Shape(v) /\ Checked(v)
      BY <1>2, <1>3, <1>9, <2>1 DEF ConnectLock, CallStates, Shape, Checked, Ops
    <3>. QED
      BY <1>1, <1>4, <1>5, <2>1, <3>1, CallChecks
  <2>2. CASE ConnectFails(c) /\ lock' = lock
    <3>1. call[c].at = "connect" /\ call[c].op \in {"provision", "adopt"}
      BY <1>2, <1>9 DEF ConnectLock, Shape
    <3>. QED
      BY <1>1, <2>2, <3>1, CallEnds, CallGoesOn DEF ConnectFails
  <2>. QED
    BY <1>9, <2>1, <2>2 DEF ConnectLock
<1>. QED
  BY <1>6, <1>7, <1>8, <1>9

\* The other steps of a call.
LEMMA OtherStep ==
    ASSUME TeamInv, CallsInv, NEW c \in Calls, Step(c),
           ~(InviteLock(c) \/ AcceptLock(c) \/ DomainGrantLock(c) \/ ConnectLock(c))
    PROVE  CallsInv'
<1>1. call[c] \in CallStates /\ Shape(call[c])
  BY DEF CallsInv
<1>2. CASE RoleCommit(c) \/ RemoveCommit(c) \/ InviteCommit(c) \/ AcceptCommit(c) \/ GrantCommit(c)
           \/ DomainGrantCommit(c) \/ ConnectCommit(c)
  BY <1>2, CallCommits DEF RoleCommit, RemoveCommit, InviteCommit, AcceptCommit, GrantCommit,
                           DomainGrantCommit, ConnectCommit, Writes
<1>3. CASE CreateMailbox(c) \/ Undo(c) \/ DeleteMailbox(c)
  <2>1. role' = role /\ inbox' = inbox /\ lock' = lock
    BY <1>3 DEF CreateMailbox, Undo, DeleteMailbox, teamVars, memberVars, boxVars
  <2>2. call[c].at \in {"create", "undo", "delete"}
    BY <1>3 DEF CreateMailbox, Undo, DeleteMailbox
  <2>3. \/ Ends(c)
        \/ call[c].at = "create" /\ Goes(c, "connect")
        \/ call[c].at = "delete" /\ Goes(c, "tidy")
    BY <1>3 DEF CreateMailbox, Undo, DeleteMailbox
  <2>. QED
    BY <1>1, <2>1, <2>2, <2>3, CallEnds, CallGoesOn DEF Shape
<1>4. CASE TidyConnection(c) \/ TidyInbox(c)
  <2>1. call[c].at \in {"tidy", "tidyConnection", "tidyInbox"} /\ role' = role /\ lock' = lock
    BY <1>4 DEF TidyConnection, TidyInbox, memberVars
  <2>2. inbox \in [Boxes -> {"none", "ACTIVE", "DISABLED"}]
    BY DEF TeamInv, TeamType
  <2>3. \A b \in Boxes : inbox[b] = "none" => inbox'[b] = "none"
    BY <1>4, <2>2 DEF TidyConnection, TidyInbox
  <2>4. Ends(c) \/ Goes(c, "tidyInbox") \/ Goes(c, "tidyConnection")
    BY <1>4 DEF TidyConnection, TidyInbox
  <2>. QED
    BY <1>1, <2>1, <2>3, <2>4, CallEnds, CallGoesOn DEF Shape
<1>5. CASE Rollback(c)
  <2>1. call[c].at = "write" /\ Unlock(c)
    BY <1>5 DEF Rollback
  <2>2. CASE call[c].op = "provision" /\ Goes(c, "undo")
    <3>1. PICK v : v = [call[c] EXCEPT !.at = "undo"]
      OBVIOUS
    <3>2. v \in CallStates /\ Shape(v) /\ v.at = "undo"
      BY <1>1, <2>2, <3>1 DEF CallStates, Shape
    <3>. QED
      BY <2>1, <2>2, <3>1, <3>2, CallUnlocks DEF Goes
  <2>3. CASE Ends(c)
    BY <2>1, <2>3, IdleShape, CallUnlocks DEF Ends
  <2>. QED
    BY <1>5, <2>2, <2>3 DEF Rollback, ConnectFails
<1>. QED
  BY <1>2, <1>3, <1>4, <1>5 DEF Step

\* Every step keeps what is known of the calls.
LEMMA CallsStep ==
    ASSUME TeamInv, CallsInv, Addressed, [Next]_vars
    PROVE  CallsInv'
<1>1. ASSUME NEW c \in Calls, Begin(c) \/ Step(c) PROVE CallsInv'
  BY <1>1, BeginStep, LockStep, OtherStep
<1>2. CASE UNCHANGED <<call, lock, role, inbox>>
  BY <1>2, CallsFrame
<1>3. CASE ApiDies
  <2>1. lock' = NoCall /\ call' = [c \in Calls |-> Idle]
    BY <1>3 DEF ApiDies
  <2>2. \A c \in Calls : call'[c] = Idle
    BY <2>1
  <2>3. call' \in [Calls -> CallStates]
    BY <2>1, IdleShape
  <2>4. \A c \in Calls : Shape(call'[c]) /\ call'[c].at # "write"
    BY <2>2, IdleShape
  <2>. QED
    BY <2>1, <2>3, <2>4 DEF CallsInv, Shape
<1>4. \/ \E c \in Calls : Begin(c) \/ Step(c)
      \/ UNCHANGED <<call, lock, role, inbox>>
      \/ ApiDies
  BY DEF Next, Revoke, DeleteConnection, Lapse, Register, RemoveDomainGrant, AssignDomain, vars,
         teamVars, memberVars, boxVars
<1>. QED
  BY <1>1, <1>2, <1>3, <1>4

\* Only a person is invited.
LEMMA AddressedStep ==
    ASSUME TeamInv, CallsInv, Addressed, [Next]_vars
    PROVE  Addressed'
<1>1. invite \in [Invites -> InviteRows]
  BY DEF TeamInv, TeamType
<1>2. CASE invite' = invite
  BY <1>2 DEF Addressed
<1>3. ASSUME NEW i \in Invites, NEW s \in {"REVOKED", "LAPSED", "ACCEPTED"},
             invite' = [invite EXCEPT ![i].status = s]
      PROVE  Addressed'
  BY <1>1, <1>3 DEF Addressed, InviteRows
<1>4. ASSUME NEW c \in Calls, InviteCommit(c) PROVE Addressed'
  <2>1. call[c].who \in Users
    BY <1>4 DEF InviteCommit, Writes, CallsInv, Shape
  <2>2. PICK i \in Invites :
           invite' = [j \in Invites |->
                  IF j = i THEN [status |-> "PENDING", to |-> call[c].who, role |-> call[c].role,
                                 by |-> call[c].by, box |-> call[c].box]
                  ELSE IF invite[j].to = call[c].who /\ invite[j].status \in {"PENDING", "LAPSED"}
                       THEN [invite[j] EXCEPT !.status = "REVOKED"]
                       ELSE invite[j]]
    BY <1>4 DEF InviteCommit
  <2>. QED
    BY <1>1, <2>1, <2>2 DEF Addressed, InviteRows
<1>5. ASSUME NEW c \in Calls, AcceptCommit(c) PROVE Addressed'
  <2>1. call[c].invite \in Invites
    BY <1>5 DEF AcceptCommit, Writes, CallsInv, Shape
  <2>2. invite' = invite \/ invite' = [invite EXCEPT ![call[c].invite].status = "ACCEPTED"]
    BY <1>5 DEF AcceptCommit, teamVars
  <2>. QED
    BY <1>2, <1>3, <2>1, <2>2
<1>6. ASSUME NEW c \in Calls, Begin(c) PROVE invite' = invite
  BY <1>6 DEF Begin, UpdateMemberRole, RemoveMember, AddDomainGrant, Invite, Accept, AddGrant,
              RemoveGrant, Provision, Adopt, Remove, OnlyCalls, teamVars
<1>7. ASSUME NEW c \in Calls, Step(c) PROVE invite' = invite \/ InviteCommit(c) \/ AcceptCommit(c)
  BY <1>7 DEF Step, RoleCommit, RemoveCommit, InviteLock, AcceptLock, GrantCommit, DomainGrantLock,
              DomainGrantCommit, CreateMailbox, ConnectLock, ConnectCommit, Undo, DeleteMailbox,
              TidyConnection, TidyInbox, Rollback, OnlyCalls, teamVars
<1>8. ASSUME NEW by \in Users, NEW i \in Invites, Revoke(by, i) PROVE Addressed'
  BY <1>3, <1>8 DEF Revoke
<1>9. ASSUME NEW i \in Invites, Lapse(i) PROVE Addressed'
  BY <1>3, <1>9 DEF Lapse
<1>10. \/ \E c \in Calls : Begin(c) \/ Step(c)
       \/ \E by \in Users, i \in Invites : Revoke(by, i)
       \/ \E i \in Invites : Lapse(i)
       \/ invite' = invite
  BY DEF Next, DeleteConnection, Register, RemoveDomainGrant, AssignDomain, ApiDies, vars, teamVars
<1>. QED
  BY <1>2, <1>4, <1>5, <1>6, <1>7, <1>8, <1>9, <1>10

\* The rest of the types.
LEMMA RestStep ==
    ASSUME CallsInv, RestType, [Next]_vars
    PROVE  RestType'
<1>1. MaxCalls \in Nat /\ MaxFaults \in Nat
  BY AccessAssumption
<1>2. ASSUME NEW c \in Calls, Begin(c)
      PROVE  Counts /\ UNCHANGED <<server, history, faults>>
  BY <1>2 DEF Begin, UpdateMemberRole, RemoveMember, AddDomainGrant, Invite, Accept, AddGrant,
              RemoveGrant, Provision, Adopt, Remove, Begins, OnlyCalls
<1>3. ASSUME NEW c \in Calls, Step(c)
      PROVE  calls' = calls /\ (faults' = faults \/ Fault)
  <2>1. CASE RoleCommit(c) \/ RemoveCommit(c) \/ InviteCommit(c) \/ AcceptCommit(c) \/ GrantCommit(c)
             \/ DomainGrantCommit(c) \/ ConnectCommit(c)
    BY <2>1 DEF RoleCommit, RemoveCommit, InviteCommit, AcceptCommit, GrantCommit,
                DomainGrantCommit, ConnectCommit, Commits
  <2>2. CASE InviteLock(c) \/ AcceptLock(c) \/ DomainGrantLock(c) \/ ConnectLock(c)
    BY <2>2 DEF InviteLock, AcceptLock, DomainGrantLock, ConnectLock, OnlyCalls
  <2>3. CASE CreateMailbox(c) \/ Undo(c) \/ DeleteMailbox(c)
    BY <2>3 DEF CreateMailbox, Undo, DeleteMailbox
  <2>4. CASE TidyConnection(c) \/ TidyInbox(c) \/ Rollback(c)
    BY <2>4 DEF TidyConnection, TidyInbox, Rollback
  <2>. QED
    BY <1>3, <2>1, <2>2, <2>3, <2>4 DEF Step
<1>4. ASSUME NEW c \in Calls, Step(c)
       PROVE  \/ UNCHANGED <<server, history>>
              \/ CreateMailbox(c) \/ Undo(c) \/ DeleteMailbox(c)
  <2>1. CASE RoleCommit(c) \/ RemoveCommit(c) \/ InviteCommit(c) \/ AcceptCommit(c) \/ GrantCommit(c)
             \/ DomainGrantCommit(c) \/ ConnectCommit(c)
    BY <2>1 DEF RoleCommit, RemoveCommit, InviteCommit, AcceptCommit, GrantCommit,
                DomainGrantCommit, ConnectCommit, Commits
  <2>2. CASE InviteLock(c) \/ AcceptLock(c) \/ DomainGrantLock(c) \/ ConnectLock(c)
    BY <2>2 DEF InviteLock, AcceptLock, DomainGrantLock, ConnectLock, OnlyCalls
  <2>3. CASE TidyConnection(c) \/ TidyInbox(c) \/ Rollback(c)
    BY <2>3 DEF TidyConnection, TidyInbox, Rollback
  <2>. QED
    BY <1>4, <2>1, <2>2, <2>3 DEF Step
<1> DEFINE Calm == /\ UNCHANGED <<server, history>>
                   /\ calls' = calls \/ Counts
                   /\ faults' = faults \/ Fault
<1>5. (\E c \in Calls : Begin(c) \/ Step(c)) \/ Calm
  <2>1. ASSUME NEW by \in Users, NEW i \in Invites, Revoke(by, i) PROVE Calm
    BY <2>1 DEF Revoke
  <2>2. ASSUME NEW by \in Users, NEW b \in Boxes, DeleteConnection(by, b) PROVE Calm
    BY <2>2 DEF DeleteConnection
  <2>3. ASSUME NEW i \in Invites, Lapse(i) PROVE Calm
    BY <2>3 DEF Lapse
  <2>4. ASSUME NEW u \in Users, Register(u) \/ RemoveDomainGrant(u) PROVE Calm
    BY <2>4 DEF Register, RemoveDomainGrant
  <2>5. ASSUME AssignDomain PROVE Calm
    BY <2>5 DEF AssignDomain
  <2>6. ASSUME ApiDies PROVE Calm
    BY <2>6 DEF ApiDies
  <2>7. ASSUME UNCHANGED vars PROVE Calm
    BY <2>7 DEF vars
  <2> HIDE DEF Calm
  <2>. QED
    BY <2>1, <2>2, <2>3, <2>4, <2>5, <2>6, <2>7 DEF Next
<1>6. calls' \in 0..MaxCalls /\ faults' \in 0..MaxFaults
  <2>1. (calls' = calls \/ Counts) /\ (faults' = faults \/ Fault)
    BY <1>2, <1>3, <1>5
  <2>. QED
    BY <1>1, <2>1 DEF RestType, Counts, Fault
<1>7. server' \subseteq Boxes /\ before' \subseteq Boxes /\ removed' \subseteq Boxes
  <2>1. \/ UNCHANGED <<server, history>>
        \/ \E c \in Calls : CreateMailbox(c) \/ Undo(c) \/ DeleteMailbox(c)
    BY <1>2, <1>4, <1>5
  <2>2. CASE UNCHANGED <<server, history>>
    BY <2>2 DEF RestType, history
  <2>3. ASSUME NEW c \in Calls, CreateMailbox(c) \/ Undo(c) \/ DeleteMailbox(c)
        PROVE  server' \subseteq Boxes /\ before' \subseteq Boxes /\ removed' \subseteq Boxes
    <3>1. call[c].box \in Boxes
      BY <2>3 DEF CreateMailbox, Undo, DeleteMailbox, CallsInv, Shape
    <3>. QED
      BY <2>3, <3>1 DEF CreateMailbox, Undo, DeleteMailbox, RestType, history
  <2>. QED
    BY <2>1, <2>2, <2>3
<1>. QED
  BY <1>6, <1>7 DEF RestType

---------------------------------------------------------------------------
(* Theorems. *)

\* Init starts from an owner, nothing granted and no call in progress, and every step
\* keeps the invariant.
LEMMA InvHolds == Spec => []Inv
<1>1. Init => Inv
  <2> SUFFICES ASSUME Init PROVE Inv
    OBVIOUS
  <2>1. PICK owner \in Users, second \in Users, has \in SUBSET Boxes, connected \in SUBSET Boxes,
             r \in Roles :
           /\ owner # second /\ connected \subseteq has
           /\ role = [u \in Users |-> IF u = owner THEN "OWNER" ELSE IF u = second THEN r ELSE "none"]
           /\ account = {owner, second}
           /\ invite = [i \in Invites |-> NoInvite]
           /\ connection = connected
           /\ inbox = [b \in Boxes |-> IF b \in connected THEN "ACTIVE" ELSE "none"]
           /\ send = [b \in Boxes |-> [u \in Users |-> "none"]] /\ read = send
           /\ assigned = TRUE /\ domainGrants = {}
           /\ denied = [b \in Boxes |-> {}]
           /\ server = has /\ before = has /\ removed = {}
           /\ lock = NoCall /\ call = [c \in Calls |-> Idle]
           /\ calls = 0 /\ faults = 0
    BY Zenon DEF Init
  <2>2. TeamType
    BY <2>1 DEF TeamType, Roles, NoInvite, InviteRows, Grants
  <2>3. TeamSound /\ GrantsOfMembers /\ AlwaysOwned
    BY <2>1 DEF TeamSound, GrantsOfMembers, AlwaysOwned
  <2>4. CallsInv
    BY <2>1, IdleShape DEF CallsInv
  <2>5. Addressed
    BY <2>1 DEF Addressed, NoInvite
  <2>6. RestType
    BY <2>1, AccessAssumption DEF RestType
  <2>. QED
    BY <2>2, <2>3, <2>4, <2>5, <2>6 DEF Inv, TeamInv
<1>2. Inv /\ [Next]_vars => Inv'
  BY TeamStep, CallsStep, AddressedStep, RestStep DEF Inv
<1>. QED
  BY <1>1, <1>2, PTL DEF Spec

\* Every variable keeps its type, and whoever holds the organization's lock has a
\* transaction to end.
THEOREM TypeCorrect == Spec => []TypeOK
<1>1. Inv => TypeOK
  BY DEF Inv, TeamInv, CallsInv, RestType, TypeOK
<1>. QED
  BY <1>1, InvHolds, PTL

\* An organization never loses its last owner, whoever demotes and removes whom at once.
THEOREM OwnerStays == Spec => []AlwaysOwned
<1>1. Inv => AlwaysOwned
  BY DEF Inv, TeamInv
<1>. QED
  BY <1>1, InvHolds, PTL

\* No grant outlives or precedes the membership it is for, and a mailbox's two halves agree.
THEOREM GrantsAreOfMembers == Spec => []GrantsOfMembers
<1>1. Inv => GrantsOfMembers
  BY DEF Inv, TeamInv
<1>. QED
  BY <1>1, InvHolds, PTL

\* Who is denied a mailbox stays out of it, as long as they do not own the organization.
THEOREM DenialStands == Spec => []DenialHolds
<1>1. Inv => DenialHolds
  <2> SUFFICES ASSUME Inv, NEW b \in Boxes, NEW u \in denied[b], role[u] # "OWNER"
               PROVE  ~MayRead(u, b) /\ ~MaySend(u, b)
    BY DEF DenialHolds
  <2>1. u \in Users /\ read[b][u] = "revoked"
    BY DEF Inv, TeamInv, TeamType, TeamSound
  <2>2. b \in connection => send[b][u] = "revoked"
    BY <2>1 DEF Inv, TeamInv, GrantsOfMembers
  <2>. QED
    BY <2>1, <2>2 DEF MayRead, MaySend, Reaches
<1>. QED
  BY <1>1, InvHolds, PTL
============================================================================
