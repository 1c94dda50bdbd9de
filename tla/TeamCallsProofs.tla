-------------------------- MODULE TeamCallsProofs --------------------------
(***************************************************************************)
(* For any people, mailboxes, calls and bounds: membership comes of a      *)
(* pending invitation alone, and the mail server has what was asked for.   *)
(*                                                                         *)
(* Both rest on what a call in progress knows.  An acceptance that has     *)
(* consumed its invitation under the lock finds it as it was when it       *)
(* commits (Accepting).  A provisioning that has created its mailbox knows *)
(* that it was not there before (Serving).                                 *)
(***************************************************************************)
EXTENDS TeamAccessProofs

---------------------------------------------------------------------------
(* Invitations. *)

\* The invitation an acceptance read is addressed to whom it lets join.
Names(q) == invite[q.invite].status # "none" /\ invite[q.invite].to = q.who

\* What it found under the lock: the invitation is pending, and its sender may still give
\* the role and the mailbox.
Consumes(q) ==
    LET i == invite[q.invite]
    IN  /\ i.status = "PENDING"
        /\ q.role # "none" =>
              /\ q.role = i.role
              /\ i.box = NoBox \/ (MayGive(i.by, i.role) /\ ~Revoked(i.by, i.box))

Accepting ==
    \A c \in Calls :
        call[c].op = "accept" =>
            Names(call[c]) /\ (call[c].at = "write" => Consumes(call[c]))

\* What an acceptance knows stays true while invitations and roles do, and no mailbox is
\* denied to anybody.
LEMMA AcceptFrame ==
    ASSUME Accepting, UNCHANGED <<invite, role>>,
           \A c \in Calls : call'[c] = call[c] \/ call'[c].op # "accept",
           \A b \in Boxes, u \in Users : send'[b][u] = "revoked" => send[b][u] = "revoked",
           invite \in [Invites -> InviteRows], CallsInv
    PROVE  Accepting'
<1> SUFFICES ASSUME NEW c \in Calls, call'[c].op = "accept"
             PROVE  Names(call[c])' /\ (call'[c].at = "write" => Consumes(call[c])')
  BY DEF Accepting, Names, Consumes, MayGive, MayManage, Owner, Revoked
<1>1. call'[c] = call[c] /\ Names(call[c]) /\ (call[c].at = "write" => Consumes(call[c]))
  BY DEF Accepting
<1>2. Names(call[c])'
  BY <1>1 DEF Names
<1>3. ASSUME Consumes(call[c])
      PROVE  Consumes(call[c])'
  <2> DEFINE i == invite[call[c].invite]
  <2>1. i \in InviteRows
    BY <1>1 DEF CallsInv, Shape
  <2>2. i.box # NoBox => i.box \in Boxes
    BY <2>1 DEF InviteRows
  <2>3. MayGive(i.by, i.role) => i.by \in Users
    BY DEF MayGive, MayManage, Owner
  <2>. QED
    BY <1>3, <2>2, <2>3 DEF Consumes, MayGive, MayManage, Owner, Revoked
<1>. QED
  BY <1>1, <1>2, <1>3

\* A transaction that ends leaves no other at its commit; the invitations the others read
\* keep their addressee.
LEMMA AcceptUnlocked ==
    ASSUME Accepting, CallsInv, NEW c \in Calls, call[c].at = "write", Ends(c),
           \A i \in Invites : invite[i].status # "none" =>
               invite'[i].status # "none" /\ invite'[i].to = invite[i].to
    PROVE  Accepting'
<1> SUFFICES ASSUME NEW d \in Calls, call'[d].op = "accept"
             PROVE  Names(call[d])' /\ call'[d].at # "write"
  BY DEF Accepting, Names, Consumes, MayGive, MayManage, Owner, Revoked
<1>1. d # c /\ call'[d] = call[d]
  BY DEF Ends, CallsInv, Idle
<1>2. call[d].at # "write"
  BY <1>1 DEF CallsInv
<1>3. call[d].invite \in Invites /\ Names(call[d])
  BY <1>1 DEF Accepting, CallsInv, Shape
<1>. QED
  BY <1>1, <1>2, <1>3 DEF Names

\* A row of the invitations that no commit holds may be revoked or lapse.
LEMMA AcceptElsewhere ==
    ASSUME Accepting, CallsInv, invite \in [Invites -> InviteRows], NEW i \in Invites,
           ~Consumed(i), NEW s \in {"REVOKED", "LAPSED"},
           invite' = [invite EXCEPT ![i].status = s], UNCHANGED <<role, send, call>>
    PROVE  Accepting'
<1> SUFFICES ASSUME NEW c \in Calls, call[c].op = "accept"
             PROVE  Names(call[c])' /\ (call[c].at = "write" => Consumes(call[c])')
  BY DEF Accepting, Names, Consumes, MayGive, MayManage, Owner, Revoked
<1>1. call[c].invite \in Invites /\ Names(call[c])
      /\ (call[c].at = "write" => Consumes(call[c]))
  BY DEF Accepting, CallsInv, Shape
<1>2. Names(call[c])'
  BY <1>1 DEF Names, InviteRows
<1>3. ASSUME call[c].at = "write"
      PROVE  Consumes(call[c])'
  <2>1. call[c].invite # i
    BY <1>3 DEF Consumed, Writes
  <2>2. invite'[call[c].invite] = invite[call[c].invite]
    BY <1>1, <2>1
  <2>. QED
    BY <1>1, <1>3, <2>2 DEF Consumes, MayGive, MayManage, Owner, Revoked
<1>. QED
  BY <1>2, <1>3

\* An acceptance begins with a pending invitation, and consumes it under the lock.
LEMMA AcceptBegins ==
    ASSUME Accepting, CallsInv, NEW c \in Calls,
           (\E i \in Invites : Accept(c, i)) \/ AcceptLock(c)
    PROVE  Accepting'
<1>1. UNCHANGED <<invite, role, send, connection>>
  BY DEF Accept, AcceptLock, OnlyCalls, teamVars, memberVars, boxVars
<1>2. \A d \in Calls \ {c} : call'[d] = call[d]
  BY DEF Accept, AcceptLock, Begins, Ends, CallsInv
<1>3. ASSUME NEW d \in Calls \ {c}, call'[d].op = "accept"
      PROVE  Names(call[d])' /\ (call'[d].at = "write" => Consumes(call[d])')
  BY <1>1, <1>2, <1>3 DEF Accepting, Names, Consumes, MayGive, MayManage, Owner, Revoked
<1>4. ASSUME NEW i \in Invites, Accept(c, i)
      PROVE  Names(call[c])' /\ call'[c].at # "write"
  <2>1. call'[c].invite = i /\ call'[c].who = invite[i].to /\ call'[c].at = "checked"
    BY <1>4 DEF Accept, Begins, CallsInv, Idle
  <2>2. invite[i].status = "PENDING"
    BY <1>4 DEF Accept
  <2>. QED
    BY <1>1, <2>1, <2>2 DEF Names
<1>5. ASSUME AcceptLock(c), call'[c].op = "accept"
      PROVE  Names(call[c])' /\ Consumes(call[c])'
  <2> DEFINE q == call[c]
             i == invite[q.invite]
  <2>0. q \in CallStates /\ q.op = "accept" /\ q.invite \in Invites
    BY <1>5 DEF AcceptLock, CallsInv, Shape
  <2>1. /\ i.status = "PENDING" /\ (Joins(c) # "none" => StillAssigns(i))
        /\ call' = [call EXCEPT ![c].at = "write", ![c].role = Joins(c)]
    <3>1. ~Ends(c)
      BY <1>5 DEF Ends, CallsInv, Idle
    <3>. QED
      BY <1>5, <3>1 DEF AcceptLock
  <2>2. /\ call'[c].role = Joins(c) /\ call'[c].invite = q.invite /\ call'[c].who = q.who
    BY <2>0, <2>1 DEF CallsInv, CallStates
  <2>3. i.to = q.who
    BY <2>0 DEF Accepting, Names
  <2>4. Joins(c) # "none" => Joins(c) = i.role
    BY DEF Joins
  <2>5. Joins(c) # "none" => i.box = NoBox \/ (MayGive(i.by, i.role) /\ ~Revoked(i.by, i.box))
    BY <2>1 DEF StillAssigns, Selectable
  <2>6. Names(call[c])'
    BY <1>1, <2>1, <2>2, <2>3 DEF Names
  <2>7. Consumes(call[c])'
    BY <1>1, <2>1, <2>2, <2>4, <2>5 DEF Consumes, MayGive, MayManage, Owner, Revoked
  <2>. QED
    BY <2>6, <2>7
<1>. QED
  BY <1>3, <1>4, <1>5 DEF Accepting

\* Every step of the system keeps it.
LEMMA AcceptingStep ==
    ASSUME Inv, Accepting, [Next]_vars
    PROVE  Accepting'
<1>1. CallsInv /\ TeamInv /\ invite \in [Invites -> InviteRows] /\ send \in Grants
  BY DEF Inv, TeamInv, TeamType
<1>2. ASSUME NEW c \in Calls, Begin(c)
      PROVE  Accepting'
  <2>1. UNCHANGED <<invite, role, send>>
    <3>1. OnlyCalls
      BY <1>2 DEF Begin, UpdateMemberRole, RemoveMember, AddDomainGrant, Invite, Accept, AddGrant,
                  RemoveGrant, Provision, Adopt, Remove
    <3>. QED
      BY <3>1 DEF OnlyCalls, teamVars, memberVars, boxVars
  <2>2. CASE \E i \in Invites : Accept(c, i)
    BY <1>1, <2>2, AcceptBegins
  <2>3. CASE ~\E i \in Invites : Accept(c, i)
    <3>1. \A d \in Calls \ {c} : call'[d] = call[d]
      BY <1>1, <1>2
      DEF Begin, UpdateMemberRole, RemoveMember, AddDomainGrant, Invite, Accept, AddGrant,
          RemoveGrant, Provision, Adopt, Remove, Begins, CallsInv
    <3>2. ASSUME NEW v, Begins(c, v), v.op # "accept"
          PROVE  call'[c].op # "accept"
      BY <1>1, <3>2 DEF Begins, CallsInv
    <3>3. ASSUME NEW by \in Users, NEW who \in Users, NEW r \in Roles,
                 UpdateMemberRole(c, by, who, r)
          PROVE  call'[c].op # "accept"
      BY <3>2, <3>3 DEF UpdateMemberRole, Idle
    <3>4. ASSUME NEW by \in Users, NEW who \in Users,
                 RemoveMember(c, by, who) \/ AddDomainGrant(c, who)
          PROVE  call'[c].op # "accept"
      BY <3>2, <3>4 DEF RemoveMember, AddDomainGrant, Idle
    <3>5. ASSUME NEW by \in Users, NEW to \in Users, NEW r \in Roles,
                 NEW b \in Boxes \union {NoBox}, Invite(c, by, to, r, b)
          PROVE  call'[c].op # "accept"
      BY <3>2, <3>5 DEF Invite, Idle
    <3>6. ASSUME NEW by \in Users, NEW who \in Users, NEW b \in Boxes,
                 AddGrant(c, by, who, b) \/ RemoveGrant(c, by, who, b)
          PROVE  call'[c].op # "accept"
      BY <3>2, <3>6 DEF AddGrant, RemoveGrant, Idle
    <3>7. ASSUME NEW by \in Users, NEW who \in Users \union {NoUser}, NEW b \in Boxes,
                 Provision(c, by, b, who) \/ Adopt(c, by, b, who)
          PROVE  call'[c].op # "accept"
      BY <3>2, <3>7 DEF Provision, Adopt, Idle
    <3>8. ASSUME NEW by \in Users, NEW b \in Boxes, Remove(c, by, b)
          PROVE  call'[c].op # "accept"
      BY <3>2, <3>8 DEF Remove, Idle
    <3>9. call'[c].op # "accept"
      BY <1>2, <2>3, <3>3, <3>4, <3>5, <3>6, <3>7, <3>8 DEF Begin
    <3>. QED
      BY <1>1, <2>1, <3>1, <3>9, AcceptFrame
  <2>. QED
    BY <2>2, <2>3
<1>3. ASSUME NEW c \in Calls,
             RoleCommit(c) \/ RemoveCommit(c) \/ GrantCommit(c) \/ DomainGrantCommit(c)
                \/ ConnectCommit(c)
      PROVE  Accepting'
  <2>1. call[c].at = "write" /\ Ends(c) /\ invite' = invite
    BY <1>3 DEF RoleCommit, RemoveCommit, GrantCommit, DomainGrantCommit, ConnectCommit, Writes,
                Commits
  <2>. QED
    BY <1>1, <2>1, AcceptUnlocked
<1>4. ASSUME NEW c \in Calls, InviteCommit(c)
      PROVE  Accepting'
  <2>1. call[c].at = "write" /\ Ends(c)
    BY <1>4 DEF InviteCommit, Writes, Commits
  <2>2. \A i \in Invites : invite[i].status # "none" =>
           invite'[i].status # "none" /\ invite'[i].to = invite[i].to
    BY <1>1, <1>4 DEF InviteCommit, InviteRows
  <2>. QED
    BY <1>1, <2>1, <2>2, AcceptUnlocked
<1>5. ASSUME NEW c \in Calls, AcceptCommit(c)
      PROVE  Accepting'
  <2>1. call[c].at = "write" /\ Ends(c) /\ call[c].invite \in Invites
    BY <1>1, <1>5 DEF AcceptCommit, Writes, Commits, CallsInv, Shape
  <2>2. invite' = invite \/ invite' = [invite EXCEPT ![call[c].invite].status = "ACCEPTED"]
    BY <1>5 DEF AcceptCommit, teamVars
  <2>3. \A i \in Invites : invite[i].status # "none" =>
           invite'[i].status # "none" /\ invite'[i].to = invite[i].to
    BY <1>1, <2>1, <2>2 DEF InviteRows
  <2>. QED
    BY <1>1, <2>1, <2>3, AcceptUnlocked
<1>6. ASSUME NEW c \in Calls, AcceptLock(c)
      PROVE  Accepting'
  BY <1>1, <1>6, AcceptBegins
<1>7. ASSUME NEW c \in Calls,
             \/ InviteLock(c) \/ DomainGrantLock(c) \/ CreateMailbox(c) \/ ConnectLock(c)
             \/ Undo(c) \/ DeleteMailbox(c) \/ TidyConnection(c) \/ TidyInbox(c) \/ Rollback(c)
      PROVE  Accepting'
  <2>1. UNCHANGED <<invite, role>> /\ (send' = send \/ DropConnection(call[c].box))
    BY <1>7 DEF InviteLock, DomainGrantLock, CreateMailbox, ConnectLock, Undo, DeleteMailbox,
                TidyConnection, TidyInbox, Rollback, OnlyCalls, teamVars, memberVars, boxVars
  <2>2. \A b \in Boxes, u \in Users : send'[b][u] = "revoked" => send[b][u] = "revoked"
    BY <1>1, <2>1 DEF DropConnection, Grants
  <2>3. \/ Ends(c)
        \/ call[c].op # "accept" /\ \E at \in {"write", "connect", "undo", "tidy", "tidyInbox",
                                               "tidyConnection"} : Goes(c, at)
    BY <1>1, <1>7
    DEF InviteLock, DomainGrantLock, CreateMailbox, ConnectLock, ConnectFails, Undo, DeleteMailbox,
        TidyConnection, TidyInbox, Rollback, CallsInv, Shape
  <2>4. \A d \in Calls : call'[d] = call[d] \/ call'[d].op # "accept"
    BY <1>1, <2>3 DEF Ends, Goes, CallsInv, CallStates, Idle
  <2>. QED
    BY <1>1, <2>1, <2>2, <2>4, AcceptFrame
<1>8. ASSUME NEW by \in Users, NEW i \in Invites, Revoke(by, i)
      PROVE  Accepting'
  BY <1>1, <1>8, AcceptElsewhere DEF Revoke, memberVars, boxVars
<1>9. ASSUME NEW i \in Invites, Lapse(i)
      PROVE  Accepting'
  BY <1>1, <1>9, AcceptElsewhere DEF Lapse, memberVars, boxVars
<1>10. ASSUME NEW by \in Users, NEW b \in Boxes, DeleteConnection(by, b)
       PROVE  Accepting'
  <2>1. UNCHANGED <<invite, role, call>> /\ DropConnection(b)
    BY <1>10 DEF DeleteConnection, memberVars
  <2>2. \A x \in Boxes, u \in Users : send'[x][u] = "revoked" => send[x][u] = "revoked"
    BY <1>1, <2>1 DEF DropConnection, Grants
  <2>. QED
    BY <1>1, <2>1, <2>2, AcceptFrame
<1>11. CASE ApiDies
  <2>1. UNCHANGED <<invite, role, send>> /\ \A c \in Calls : call'[c].op # "accept"
    BY <1>11 DEF ApiDies, teamVars, memberVars, boxVars, Idle
  <2>. QED
    BY <1>1, <2>1, AcceptFrame
<1>12. CASE UNCHANGED <<invite, role, send, call>>
  BY <1>1, <1>12, AcceptFrame
<1>13. \/ \E c \in Calls : Begin(c) \/ Step(c)
       \/ \E by \in Users, i \in Invites : Revoke(by, i)
       \/ \E by \in Users, b \in Boxes : DeleteConnection(by, b)
       \/ \E i \in Invites : Lapse(i)
       \/ ApiDies
       \/ UNCHANGED <<invite, role, send, call>>
  BY DEF Next, Register, RemoveDomainGrant, AssignDomain, vars, teamVars, memberVars, boxVars
<1>14. ASSUME NEW c \in Calls, Step(c)
       PROVE  Accepting'
  BY <1>3, <1>4, <1>5, <1>6, <1>7, <1>14 DEF Step
<1>. QED
  BY <1>2, <1>8, <1>9, <1>10, <1>11, <1>12, <1>13, <1>14

\* Whoever becomes a member has accepted a pending invitation to the role they get, which
\* its sender could still give; and no invitation comes back.
LEMMA Joining ==
    ASSUME Inv, Accepting, Next
    PROVE  /\ \A u \in Users : role[u] = "none" /\ role'[u] # "none" =>
                \E i \in Invites :
                    /\ invite[i].status = "PENDING" /\ invite'[i].status = "ACCEPTED"
                    /\ invite[i].to = u /\ invite[i].role = role'[u]
                    /\ StillAssigns(invite[i])
           /\ \A i \in Invites :
                 invite[i].status \in {"ACCEPTED", "REVOKED"} => invite'[i] = invite[i]
<1>1. /\ CallsInv /\ role \in [Users -> Roles \union {"none"}]
      /\ invite \in [Invites -> InviteRows]
  BY DEF Inv, TeamInv, TeamType
<1>2. ASSUME NEW c \in Calls, Begin(c)
      PROVE  UNCHANGED <<role, invite>>
  BY <1>2 DEF Begin, UpdateMemberRole, RemoveMember, AddDomainGrant, Invite, Accept, AddGrant,
              RemoveGrant, Provision, Adopt, Remove, OnlyCalls, teamVars, memberVars
<1>3. ASSUME NEW c \in Calls, Step(c),
             ~(RoleCommit(c) \/ RemoveCommit(c) \/ InviteCommit(c) \/ AcceptCommit(c))
      PROVE  UNCHANGED <<role, invite>>
  BY <1>3 DEF Step, GrantCommit, DomainGrantCommit, ConnectCommit, InviteLock, AcceptLock,
              DomainGrantLock, CreateMailbox, ConnectLock, Undo, DeleteMailbox, TidyConnection,
              TidyInbox, Rollback, OnlyCalls, teamVars, memberVars
<1>4. ASSUME NEW c \in Calls, AcceptCommit(c)
      PROVE  \/ UNCHANGED <<role, invite>>
             \/ LET i == call[c].invite
                IN  /\ i \in Invites /\ invite[i].status = "PENDING"
                    /\ invite' = [invite EXCEPT ![i].status = "ACCEPTED"]
                    /\ \/ role' = role
                       \/ /\ role' = [role EXCEPT ![invite[i].to] = invite[i].role]
                          /\ StillAssigns(invite[i])
  <2> DEFINE q == call[c]
             i == q.invite
             b == invite[i].box
  <2>1. i \in Invites /\ Names(q) /\ Consumes(q)
    BY <1>1, <1>4 DEF AcceptCommit, Writes, Accepting, CallsInv, Shape
  <2>2. CASE UNCHANGED teamVars
    BY <2>2 DEF teamVars, memberVars
  <2>3. CASE /\ q.role # "none" => b \in connection \union {NoBox}
             /\ invite' = [invite EXCEPT ![q.invite].status = "ACCEPTED"]
             /\ IF q.role = "none" THEN UNCHANGED <<role, send, read, denied>>
                ELSE role' = [role EXCEPT ![q.who] = q.role]
    BY <2>1, <2>3 DEF Names, Consumes, StillAssigns, Selectable
  <2>. QED
    BY <1>4, <2>2, <2>3 DEF AcceptCommit
<1>5. ASSUME NEW u \in Users, role[u] = "none", role'[u] # "none"
      PROVE  \E i \in Invites :
                /\ invite[i].status = "PENDING" /\ invite'[i].status = "ACCEPTED"
                /\ invite[i].to = u /\ invite[i].role = role'[u]
                /\ StillAssigns(invite[i])
  <2>1. ASSUME NEW c \in Calls, RoleCommit(c) PROVE FALSE
    <3>1. call[c].who \in Users /\ role[call[c].who] # "none"
      BY <1>1, <2>1 DEF RoleCommit, Writes, CallsInv, Shape, Checked, Member
    <3>. QED
      BY <1>1, <1>5, <2>1, <3>1 DEF RoleCommit
  <2>2. ASSUME NEW c \in Calls, RemoveCommit(c) PROVE FALSE
    BY <1>1, <1>5, <2>2 DEF RemoveCommit, Expel
  <2>3. ASSUME NEW c \in Calls, InviteCommit(c) PROVE FALSE
    BY <1>5, <2>3 DEF InviteCommit, memberVars
  <2>4. PICK c \in Calls : AcceptCommit(c)
    BY <1>2, <1>3, <1>5, <2>1, <2>2, <2>3
    DEF Next, Revoke, DeleteConnection, Lapse, Register, RemoveDomainGrant, AssignDomain, ApiDies,
        teamVars, memberVars
  <2>5. PICK i \in Invites :
           /\ invite[i].status = "PENDING"
           /\ invite' = [invite EXCEPT ![i].status = "ACCEPTED"]
           /\ role' = [role EXCEPT ![invite[i].to] = invite[i].role] /\ StillAssigns(invite[i])
    BY <1>4, <1>5, <2>4
  <2>6. invite[i].to = u /\ role'[u] = invite[i].role
    BY <1>1, <1>5, <2>5
  <2>7. invite'[i].status = "ACCEPTED"
    BY <1>1, <2>5 DEF InviteRows
  <2>. QED
    BY <2>5, <2>6, <2>7
<1>6. ASSUME NEW i \in Invites, invite[i].status \in {"ACCEPTED", "REVOKED"}
      PROVE  invite'[i] = invite[i]
  <2>1. ASSUME NEW c \in Calls, Step(c) PROVE invite'[i] = invite[i]
    <3>1. CASE RoleCommit(c) \/ RemoveCommit(c)
      BY <3>1 DEF RoleCommit, RemoveCommit
    <3>2. CASE InviteCommit(c)
      BY <1>6, <3>2 DEF InviteCommit
    <3>3. CASE AcceptCommit(c)
      BY <1>1, <1>4, <1>6, <3>3
    <3>. QED
      BY <1>3, <2>1, <3>1, <3>2, <3>3
  <2>2. ASSUME NEW by \in Users, NEW j \in Invites, Revoke(by, j) PROVE invite'[i] = invite[i]
    BY <1>1, <1>6, <2>2 DEF Revoke
  <2>3. ASSUME NEW j \in Invites, Lapse(j) PROVE invite'[i] = invite[i]
    BY <1>1, <1>6, <2>3 DEF Lapse
  <2>. QED
    BY <1>2, <2>1, <2>2, <2>3
    DEF Next, DeleteConnection, Register, RemoveDomainGrant, AssignDomain, ApiDies, teamVars
<1>. QED
  BY <1>5, <1>6

---------------------------------------------------------------------------
(* The mail server. *)

\* The call has created the mailbox, and nothing else has come of it yet.
Created(c) == call[c].op = "provision" /\ call[c].at \in {"connect", "write", "undo"}

Serving ==
    /\ \A c \in Calls : call[c].at \in {"create", "undo"} => call[c].op = "provision"
    /\ \A c \in Calls : Created(c) /\ call[c].box \in before => call[c].box \in removed
    /\ \A b \in server :
          \/ b \in before \/ inbox[b] # "none" \/ faults > 0
          \/ \E c \in Calls : Created(c) /\ call[c].box = b
    /\ before \subseteq server \union removed

\* A call that moves without creating or deleting a mailbox: where it gives up what it
\* has created, our records have it or something has failed.
LEMMA ServingMoves ==
    ASSUME Serving, CallsInv, RestType, NEW c \in Calls, NEW v \in CallStates,
           call' = [call EXCEPT ![c] = v], server' = server, before' = before,
           removed \subseteq removed', faults' = faults \/ faults' > 0,
           \A b \in Boxes : inbox[b] # "none" => inbox'[b] # "none",
           v.at \in {"create", "undo"} => v.op = "provision",
           Created(c)' => Created(c) /\ v.box = call[c].box,
           Created(c) => Created(c)' \/ inbox'[call[c].box] # "none" \/ faults' > 0
    PROVE  Serving'
<1>1. \A d \in Calls : call'[d] = IF d = c THEN v ELSE call[d]
  BY DEF CallsInv
<1>2. \A d \in Calls \ {c} : Created(d)' <=> Created(d)
  BY <1>1 DEF Created
<1>3. \A d \in Calls : call'[d].at \in {"create", "undo"} => call'[d].op = "provision"
  BY <1>1 DEF Serving
<1>4. \A d \in Calls : Created(d)' /\ call'[d].box \in before' => call'[d].box \in removed'
  BY <1>1, <1>2 DEF Serving
<1>5. ASSUME NEW b \in server
      PROVE  \/ b \in before \/ inbox'[b] # "none" \/ faults' > 0
             \/ \E d \in Calls : Created(d)' /\ call'[d].box = b
  <2>1. b \in Boxes
    BY DEF RestType
  <2>2. CASE \E d \in Calls \ {c} : Created(d) /\ call[d].box = b
    BY <1>1, <1>2, <2>2
  <2>3. CASE Created(c) /\ call[c].box = b
    BY <1>1, <2>3
  <2>. QED
    BY <2>1, <2>2, <2>3 DEF Serving
<1>6. before' \subseteq server' \union removed'
  BY DEF Serving
<1>. QED
  BY <1>3, <1>4, <1>5, <1>6 DEF Serving

\* So does a call that ends.
LEMMA ServingEnds ==
    ASSUME Serving, CallsInv, RestType, NEW c \in Calls, Ends(c), server' = server,
           before' = before, removed \subseteq removed', faults' = faults \/ faults' > 0,
           \A b \in Boxes : inbox[b] # "none" => inbox'[b] # "none",
           Created(c) => inbox'[call[c].box] # "none" \/ faults' > 0
    PROVE  Serving'
<1>1. call' = [call EXCEPT ![c] = Idle] /\ Idle \in CallStates /\ Idle.at = "idle"
  BY IdleShape DEF Ends
<1>2. ~Created(c)'
  BY <1>1 DEF Created, CallsInv
<1>. QED
  BY <1>1, <1>2, ServingMoves

\* So does one that goes on.
LEMMA ServingGoes ==
    ASSUME Serving, CallsInv, RestType, NEW c \in Calls,
           NEW at \in {"write", "undo", "tidy", "tidyConnection", "tidyInbox"}, Goes(c, at),
           server' = server, before' = before, removed \subseteq removed',
           faults' = faults \/ faults' > 0,
           \A b \in Boxes : inbox[b] # "none" => inbox'[b] # "none",
           at = "undo" => call[c].op = "provision",
           call[c].op = "provision" => Created(c) /\ at \in {"write", "undo"}
    PROVE  Serving'
<1>1. PICK v : v = [call[c] EXCEPT !.at = at]
  OBVIOUS
<1>2. call[c] \in CallStates
  BY DEF CallsInv
<1>3. v \in CallStates /\ v.at = at /\ v.op = call[c].op /\ v.box = call[c].box
  BY <1>1, <1>2 DEF CallStates
<1>4. call' = [call EXCEPT ![c] = v]
  BY <1>1 DEF Goes
<1>5. Created(c)' <=> v.op = "provision" /\ v.at \in {"connect", "write", "undo"}
  BY <1>4 DEF Created, CallsInv
<1>. QED
  BY <1>3, <1>4, <1>5, ServingMoves DEF Created

\* Something has failed: what is left to show is that nothing of before is lost.
LEMMA ServingFault ==
    ASSUME Serving, CallsInv, RestType, NEW c \in Calls, Fault, Ends(c), UNCHANGED history,
           server \subseteq server'
    PROVE  Serving'
<1>1. faults' > 0
  BY DEF RestType, Fault
<1>2. \A d \in Calls : call'[d] = IF d = c THEN Idle ELSE call[d]
  BY DEF Ends, CallsInv
<1>3. \A d \in Calls : Created(d)' => Created(d) /\ call'[d] = call[d]
  BY <1>2, IdleShape DEF Created
<1>. QED
  BY <1>1, <1>2, <1>3, IdleShape DEF Serving, history

\* CreateMailbox: a mailbox the server did not have was not there before us, or its
\* removal was asked for.
LEMMA ServingCreate ==
    ASSUME Serving, CallsInv, RestType, TeamInv, NEW c \in Calls, CreateMailbox(c)
    PROVE  Serving'
<1> DEFINE b == call[c].box
<1>1. UNCHANGED <<inbox, history>> /\ call[c].at = "create" /\ call[c].op = "provision"
  BY DEF CreateMailbox, teamVars, boxVars, Serving
<1>2. CASE Ends(c) /\ UNCHANGED <<server, faults>>
  BY <1>1, <1>2, ServingEnds DEF Created, history
<1>3. CASE Fault /\ Ends(c) /\ server' \in {server, server \union {b}}
  BY <1>1, <1>3, ServingFault
<1>4. CASE b \notin server /\ Goes(c, "connect") /\ server' = server \union {b} /\ UNCHANGED faults
  <2>1. \A d \in Calls : call'[d] = IF d = c THEN [call[c] EXCEPT !.at = "connect"] ELSE call[d]
    BY <1>4 DEF Goes, CallsInv
  <2>2. call'[c].at = "connect" /\ call'[c].op = "provision" /\ call'[c].box = b
    BY <1>1, <2>1 DEF CallsInv, CallStates
  <2>3. \A d \in Calls \ {c} : Created(d)' <=> Created(d)
    BY <2>1 DEF Created
  <2>4. Created(c)'
    BY <2>2 DEF Created
  <2>5. b \in before => b \in removed
    BY <1>4 DEF Serving
  <2>6. \A d \in Calls : call'[d].at \in {"create", "undo"} => call'[d].op = "provision"
    BY <2>1, <2>2 DEF Serving
  <2>7. \A d \in Calls : Created(d)' /\ call'[d].box \in before => call'[d].box \in removed
    BY <2>1, <2>2, <2>3, <2>5 DEF Serving
  <2>8. ASSUME NEW x \in server'
        PROVE  \/ x \in before \/ inbox[x] # "none" \/ faults > 0
               \/ \E d \in Calls : Created(d)' /\ call'[d].box = x
    <3>1. CASE x = b
      BY <2>2, <2>4, <3>1
    <3>2. CASE x \in server
      <4>1. \A d \in Calls : Created(d) => Created(d)' /\ call'[d].box = call[d].box
        BY <1>1, <2>1, <2>3 DEF Created
      <4>. QED
        BY <3>2, <4>1 DEF Serving
    <3>. QED
      BY <1>4, <3>1, <3>2
  <2>9. before \subseteq server' \union removed
    BY <1>4 DEF Serving
  <2>. QED
    BY <1>1, <1>4, <2>6, <2>7, <2>8, <2>9 DEF Serving, history
<1>. QED
  BY <1>2, <1>3, <1>4 DEF CreateMailbox

\* Undo: only what the call itself has created goes.
LEMMA ServingUndo ==
    ASSUME Serving, CallsInv, RestType, TeamInv, NEW c \in Calls, Undo(c)
    PROVE  Serving'
<1>1. UNCHANGED <<inbox, history>> /\ Ends(c) /\ Created(c)
  BY DEF Undo, teamVars, boxVars, Serving, Created
<1>2. CASE Fault /\ UNCHANGED server
  BY <1>1, <1>2, ServingFault
<1>3. CASE server' = server \ {call[c].box} /\ UNCHANGED faults
  <2>1. \A d \in Calls : call'[d] = IF d = c THEN Idle ELSE call[d]
    BY <1>1 DEF Ends, CallsInv
  <2>2. \A d \in Calls \ {c} : Created(d)' <=> Created(d)
    BY <2>1 DEF Created
  <2>3. ~Created(c)' /\ call'[c].at = "idle"
    BY <2>1, IdleShape DEF Created
  <2>4. \A d \in Calls : call'[d].at \in {"create", "undo"} => call'[d].op = "provision"
    BY <2>1, <2>3 DEF Serving
  <2>5. \A d \in Calls : Created(d)' /\ call'[d].box \in before => call'[d].box \in removed
    BY <2>1, <2>2, <2>3 DEF Serving
  <2>6. ASSUME NEW x \in server'
        PROVE  \/ x \in before \/ inbox[x] # "none" \/ faults > 0
               \/ \E d \in Calls : Created(d)' /\ call'[d].box = x
    <3>1. x \in server /\ x # call[c].box
      BY <1>3
    <3>2. \A d \in Calls : Created(d) /\ call[d].box = x => Created(d)' /\ call'[d].box = x
      BY <2>1, <2>2, <3>1
    <3>. QED
      BY <3>1, <3>2 DEF Serving
  <2>7. before \subseteq server' \union removed
    BY <1>1, <1>3 DEF Serving
  <2>. QED
    BY <1>1, <1>3, <2>4, <2>5, <2>6, <2>7 DEF Serving, history
<1>. QED
  BY <1>2, <1>3 DEF Undo

\* DeleteMailbox: what goes was asked to go.
LEMMA ServingDelete ==
    ASSUME Serving, CallsInv, RestType, TeamInv, NEW c \in Calls, DeleteMailbox(c)
    PROVE  Serving'
<1> DEFINE b == call[c].box
<1>1. /\ UNCHANGED <<inbox, before>> /\ removed' = removed \union {b}
      /\ server' \in {server, server \ {b}} /\ (faults' = faults \/ faults' > 0)
  BY DEF DeleteMailbox, teamVars, boxVars, Fault, RestType
<1>2. call[c].op = "remove"
  BY DEF DeleteMailbox, CallsInv, Shape
<1>3. \A d \in Calls \ {c} : call'[d] = call[d]
  BY DEF DeleteMailbox, Ends, Goes, CallsInv
<1>4. call'[c].op # "provision" /\ call'[c].at \notin {"create", "undo"}
  BY <1>2, IdleShape DEF DeleteMailbox, Ends, Goes, CallsInv, CallStates, Idle
<1>5. \A d \in Calls : Created(d)' <=> Created(d)
  BY <1>2, <1>3, <1>4 DEF Created
<1>6. \A d \in Calls : Created(d) => call'[d] = call[d]
  BY <1>2, <1>3 DEF Created
<1>7. \A d \in Calls : call'[d].at \in {"create", "undo"} => call'[d].op = "provision"
  BY <1>3, <1>4 DEF Serving
<1>8. \A d \in Calls : Created(d)' /\ call'[d].box \in before => call'[d].box \in removed'
  BY <1>1, <1>5, <1>6 DEF Serving
<1>9. \A x \in server' :
         \/ x \in before \/ inbox[x] # "none" \/ faults' > 0
         \/ \E d \in Calls : Created(d)' /\ call'[d].box = x
  BY <1>1, <1>5, <1>6 DEF Serving
<1>10. before \subseteq server' \union removed'
  BY <1>1 DEF Serving
<1>. QED
  BY <1>1, <1>7, <1>8, <1>9, <1>10 DEF Serving

\* A call that begins has only written down what it wants; only a provisioning begins with
\* a mailbox to create.
LEMMA BeginsShape ==
    ASSUME CallsInv, NEW c \in Calls, Begin(c)
    PROVE  /\ OnlyCalls
           /\ call[c] = Idle /\ call' = [call EXCEPT ![c] = call'[c]]
           /\ call'[c].op = "provision" => call'[c].at = "create"
           /\ call'[c].at \in {"create", "undo"} => call'[c].op = "provision"
<1> DEFINE Starts ==
      /\ call[c] = Idle /\ call' = [call EXCEPT ![c] = call'[c]]
      /\ call'[c].op = "provision" => call'[c].at = "create"
      /\ call'[c].at \in {"create", "undo"} => call'[c].op = "provision"
<1>1. ASSUME NEW v, Begins(c, v),
             (v.op = "provision" /\ v.at = "create")
                \/ (v.op # "provision" /\ v.at \notin {"create", "undo"})
      PROVE  Starts
  <2>1. call'[c] = v
    BY <1>1 DEF Begins, CallsInv
  <2>. QED
    BY <1>1, <2>1 DEF Begins
<1> HIDE DEF Starts
<1>2. ASSUME NEW by \in Users, NEW who \in Users, NEW r \in Roles, UpdateMemberRole(c, by, who, r)
      PROVE  OnlyCalls /\ Starts
  BY <1>1, <1>2 DEF UpdateMemberRole, Idle
<1>3. ASSUME NEW by \in Users, NEW who \in Users, RemoveMember(c, by, who)
      PROVE  OnlyCalls /\ Starts
  BY <1>1, <1>3 DEF RemoveMember, Idle
<1>4. ASSUME NEW who \in Users, AddDomainGrant(c, who)
      PROVE  OnlyCalls /\ Starts
  BY <1>1, <1>4 DEF AddDomainGrant, Idle
<1>5. ASSUME NEW by \in Users, NEW to \in Users, NEW r \in Roles,
             NEW b \in Boxes \union {NoBox}, Invite(c, by, to, r, b)
      PROVE  OnlyCalls /\ Starts
  BY <1>1, <1>5 DEF Invite, Idle
<1>6. ASSUME NEW i \in Invites, Accept(c, i)
      PROVE  OnlyCalls /\ Starts
  BY <1>1, <1>6 DEF Accept, Idle
<1>7. ASSUME NEW by \in Users, NEW who \in Users, NEW b \in Boxes, AddGrant(c, by, who, b)
      PROVE  OnlyCalls /\ Starts
  BY <1>1, <1>7 DEF AddGrant, Idle
<1>8. ASSUME NEW by \in Users, NEW who \in Users, NEW b \in Boxes, RemoveGrant(c, by, who, b)
      PROVE  OnlyCalls /\ Starts
  BY <1>1, <1>8 DEF RemoveGrant, Idle
<1>9. ASSUME NEW by \in Users, NEW who \in Users \union {NoUser}, NEW b \in Boxes, Provision(c, by, b, who)
      PROVE  OnlyCalls /\ Starts
  BY <1>1, <1>9 DEF Provision, Idle
<1>10. ASSUME NEW by \in Users, NEW who \in Users \union {NoUser}, NEW b \in Boxes, Adopt(c, by, b, who)
      PROVE  OnlyCalls /\ Starts
  BY <1>1, <1>10 DEF Adopt, Idle
<1>11. ASSUME NEW by \in Users, NEW b \in Boxes, Remove(c, by, b)
      PROVE  OnlyCalls /\ Starts
  BY <1>1, <1>11 DEF Remove, Idle
<1>12. OnlyCalls /\ Starts
  BY <1>2, <1>3, <1>4, <1>5, <1>6, <1>7, <1>8, <1>9, <1>10, <1>11 DEF Begin
<1>. QED
  BY <1>12 DEF Starts

\* Every step keeps it.
LEMMA ServingStep ==
    ASSUME Inv, Serving, [Next]_vars
    PROVE  Serving'
<1>1. CallsInv /\ TeamInv /\ RestType
      /\ inbox \in [Boxes -> {"none", "ACTIVE", "DISABLED"}]
  BY DEF Inv, TeamInv, TeamType
<1>2. ASSUME NEW c \in Calls, Begin(c)
      PROVE  Serving'
  <2>1. UNCHANGED <<inbox, server, history, faults>>
    <3>1. OnlyCalls
      BY <1>1, <1>2, BeginsShape
    <3>. QED
      BY <3>1 DEF OnlyCalls, teamVars, boxVars
  <2>2. call[c] = Idle /\ call' = [call EXCEPT ![c] = call'[c]] /\ call'[c] \in CallStates
    <3>1. call' \in [Calls -> CallStates]
      BY CallsStep DEF Inv, CallsInv
    <3>. QED
      BY <1>1, <1>2, <3>1, BeginsShape
  <2>3. /\ call'[c].op = "provision" => call'[c].at = "create"
        /\ call'[c].at \in {"create", "undo"} => call'[c].op = "provision"
    BY <1>1, <1>2, BeginsShape
  <2>. QED
    BY <1>1, <2>1, <2>2, <2>3, IdleShape, ServingMoves DEF Created, history
<1>3. ASSUME NEW c \in Calls,
             RoleCommit(c) \/ RemoveCommit(c) \/ InviteCommit(c) \/ AcceptCommit(c)
                \/ GrantCommit(c) \/ DomainGrantCommit(c)
      PROVE  Serving'
  <2>1. /\ UNCHANGED <<inbox, server, history, faults>> /\ Ends(c)
        /\ call[c].op # "provision"
    BY <1>3 DEF RoleCommit, RemoveCommit, InviteCommit, AcceptCommit, GrantCommit,
                DomainGrantCommit, Writes, Commits, teamVars, boxVars
  <2>. QED
    BY <1>1, <2>1, ServingEnds DEF Created, history
<1>4. ASSUME NEW c \in Calls, ConnectCommit(c)
      PROVE  Serving'
  <2>1. /\ UNCHANGED <<server, history, faults>> /\ Ends(c) /\ call[c].box \in Boxes
        /\ inbox' = [inbox EXCEPT ![call[c].box] = "ACTIVE"]
    BY <1>1, <1>4 DEF ConnectCommit, CreateBox, Writes, Commits, CallsInv, Shape
  <2>2. \A b \in Boxes : inbox[b] # "none" => inbox'[b] # "none"
    BY <1>1, <2>1
  <2>3. inbox'[call[c].box] # "none"
    BY <1>1, <2>1
  <2>. QED
    BY <1>1, <2>1, <2>2, <2>3, ServingEnds DEF history
<1>5. ASSUME NEW c \in Calls, InviteLock(c) \/ DomainGrantLock(c)
      PROVE  Serving'
  <2>1. /\ UNCHANGED <<inbox, server, history, faults>> /\ (Ends(c) \/ Goes(c, "write"))
        /\ call[c].op # "provision"
    BY <1>5 DEF InviteLock, DomainGrantLock, OnlyCalls, teamVars, boxVars
  <2>. QED
    BY <1>1, <2>1, ServingEnds, ServingGoes DEF Created, history
<1>6. ASSUME NEW c \in Calls, AcceptLock(c)
      PROVE  Serving'
  <2>1. UNCHANGED <<inbox, server, history, faults>> /\ call[c].op = "accept"
    BY <1>6 DEF AcceptLock, OnlyCalls, teamVars, boxVars
  <2>2. call' \in [Calls -> CallStates]
    BY CallsStep DEF Inv, CallsInv
  <2>3. \A d \in Calls \ {c} : call'[d] = call[d]
    BY <1>1, <1>6 DEF AcceptLock, Ends, CallsInv
  <2>4. call'[c].op # "provision" /\ call'[c].at \notin {"create", "undo"}
    BY <1>1, <1>6, <2>1 DEF AcceptLock, Ends, Idle, CallsInv, CallStates
  <2>5. call' = [call EXCEPT ![c] = call'[c]] /\ call'[c] \in CallStates
    BY <1>1, <2>2, <2>3 DEF CallsInv
  <2>. QED
    BY <1>1, <2>1, <2>4, <2>5, ServingMoves DEF Created, history
<1>7. ASSUME NEW c \in Calls, ConnectLock(c)
      PROVE  Serving'
  <2>1. /\ UNCHANGED <<inbox, server, history>> /\ call[c].at = "connect"
        /\ faults' = faults \/ faults' > 0
    BY <1>1, <1>7 DEF ConnectLock, teamVars, boxVars, Fault, RestType
  <2>2. CASE Goes(c, "write") \/ (Goes(c, "undo") /\ call[c].op = "provision")
    BY <1>1, <2>1, <2>2, ServingGoes DEF Created, history
  <2>3. CASE Ends(c) /\ call[c].op # "provision"
    BY <1>1, <2>1, <2>3, ServingEnds DEF Created, history
  <2>. QED
    BY <1>7, <2>2, <2>3 DEF ConnectLock, ConnectFails
<1>8. ASSUME NEW c \in Calls, TidyConnection(c) \/ TidyInbox(c)
      PROVE  Serving'
  <2>1. /\ UNCHANGED <<server, history, faults>> /\ call[c].op = "remove"
        /\ Ends(c) \/ Goes(c, "tidyInbox") \/ Goes(c, "tidyConnection")
    BY <1>1, <1>8 DEF TidyConnection, TidyInbox, CallsInv, Shape
  <2>2. \A b \in Boxes : inbox[b] # "none" => inbox'[b] # "none"
    BY <1>1, <1>8 DEF TidyConnection, TidyInbox
  <2>. QED
    BY <1>1, <2>1, <2>2, ServingEnds, ServingGoes DEF Created, history
<1>9. ASSUME NEW c \in Calls, Rollback(c)
      PROVE  Serving'
  <2>1. /\ UNCHANGED <<inbox, server, history>> /\ call[c].at = "write" /\ faults' > 0
    BY <1>1, <1>9 DEF Rollback, teamVars, boxVars, Fault, RestType
  <2>2. CASE Goes(c, "undo") /\ call[c].op = "provision"
    BY <1>1, <2>1, <2>2, ServingGoes DEF Created, history
  <2>3. CASE Ends(c)
    BY <1>1, <2>1, <2>3, ServingEnds DEF history
  <2>. QED
    BY <1>9, <2>2, <2>3 DEF Rollback, ConnectFails
<1>10. CASE ApiDies
  <2>1. UNCHANGED <<server, history>> /\ faults' > 0 /\ \A c \in Calls : call'[c] = Idle
    BY <1>1, <1>10 DEF ApiDies, Fault, RestType
  <2>2. \A c \in Calls : ~Created(c)' /\ call'[c].at = "idle"
    BY <2>1, IdleShape DEF Created
  <2>. QED
    BY <2>1, <2>2 DEF Serving, history
<1>11. CASE UNCHANGED <<inbox, server, history, call, faults>>
  BY <1>11 DEF Serving, Created, history
<1>12. \/ \E c \in Calls : Begin(c) \/ Step(c)
       \/ ApiDies
       \/ UNCHANGED <<inbox, server, history, call, faults>>
  BY DEF Next, Revoke, DeleteConnection, Lapse, Register, RemoveDomainGrant, AssignDomain, vars,
         teamVars, boxVars
<1>. QED
  BY <1>1, <1>2, <1>3, <1>4, <1>5, <1>6, <1>7, <1>8, <1>9, <1>10, <1>11, <1>12, ServingCreate,
     ServingUndo, ServingDelete
  DEF Step

---------------------------------------------------------------------------
(* Theorems. *)

\* Nothing is under way at the start, and the server has what was there before us.
LEMMA CallsInit == Init => Accepting /\ Serving
<1> SUFFICES ASSUME Init
             PROVE  Accepting /\ Serving
  OBVIOUS
<1>1. /\ server = before /\ \A c \in Calls : call[c] = Idle
  BY DEF Init
<1>2. Idle.op = "none" /\ Idle.at = "idle"
  BY DEF Idle
<1>. QED
  BY <1>1, <1>2 DEF Accepting, Serving, Created

LEMMA CallsHold == Spec => [](Inv /\ Accepting /\ Serving)
<1>1. Inv /\ Accepting /\ Serving /\ Inv' /\ [Next]_vars => Accepting' /\ Serving'
  BY AcceptingStep, ServingStep
<1>. QED
  BY <1>1, InvHolds, CallsInit, PTL DEF Spec

\* Nobody becomes a member but by an invitation that is pending at that moment, addressed
\* to them, for the role they get, and still its sender's to give; whatever else goes on.
THEOREM Membership == Spec => JoinsByInvite
<1> DEFINE Joined ==
      /\ \A u \in Users : role[u] = "none" /\ role'[u] # "none" =>
            \E i \in Invites :
                /\ invite[i].status = "PENDING" /\ invite'[i].status = "ACCEPTED"
                /\ invite[i].to = u /\ invite[i].role = role'[u]
                /\ StillAssigns(invite[i])
      /\ \A i \in Invites :
             invite[i].status \in {"ACCEPTED", "REVOKED"} => invite'[i] = invite[i]
<1>1. Inv /\ Accepting /\ [Next]_vars => [Joined]_vars
  BY Joining
<1>. QED
  BY <1>1, CallsHold, PTL DEF Spec, JoinsByInvite

\* Where no call failed, the server has no mailbox that nobody asked for, and none of
\* those it had is gone unless its removal was asked for.
THEOREM ServerKept == Spec => []ServerAsAsked
<1>1. Serving => ServerAsAsked
  BY DEF Serving, ServerAsAsked, Created
<1>. QED
  BY <1>1, CallsHold, PTL
=============================================================================
