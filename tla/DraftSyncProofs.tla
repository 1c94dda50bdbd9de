-------------------------- MODULE DraftSyncProofs --------------------------
(***************************************************************************)
(* What the composers, the device copies and the saved draft keep for any  *)
(* number of windows, edits, files, saves and faults: no edit is lost or   *)
(* overwritten, the email that is accepted is the draft it completes, and  *)
(* a window that is told so asked for just that.                           *)
(***************************************************************************)
EXTENDS DraftSync, TLAPS

---------------------------------------------------------------------------
(* The invariant, in parts. *)

\* The row of the draft, and the send that has it locked.
Stored ==
    /\ state = "none" => body = {} /\ revision = 0 /\ mutation = 0
    /\ state # "none" => revision > 0
    /\ revision = 1 => body = created
    /\ state # "sent" => accepted = {} /\ onJob = {}
    /\ \A t \in Tabs : sending = t =>
          /\ request[t].snap.revision <= revision
          /\ request[t].snap.revision = revision => state = "open"

Active(t) == request[t].at # "idle"
Pushing(t) == flush[t].at \in {"wait", "back"}

\* A composer and its request are of a localId that no other window is at work on.
Owned ==
    /\ \A t \in Tabs : Open(t) => composer[t].lid <= lids
    /\ \A t, u \in Tabs : Open(t) /\ Shows(u, composer[t].lid) => u = t
    /\ \A t \in Tabs : request[t].submits => Active(t)
    /\ \A t \in Tabs : Active(t) =>
          /\ request[t].lid \in 1..lids
          /\ request[t].kind = "send" => request[t].submits
          /\ \A u \in Tabs : /\ Shows(u, request[t].lid) => u = t
                             /\ Active(u) /\ request[u].lid = request[t].lid => u = t
    /\ \A l \in Lids : copy[l] # Absent => l <= lids
    /\ \A t \in Tabs : /\ Pushing(t) => flush[t].lid \in 1..lids
                       /\ \A e \in flush[t].todo : e.lid <= lids
                       /\ \A e \in flush[t].synced : e.lid <= lids

\* The saves that may still reach the API.
Live ==
    {copy[l].snap : l \in {k \in Lids : copy[k] # Absent}}
    \union {request[t].snap : t \in {u \in Tabs : Active(u) /\ request[u].kind = "save"}}
    \union {flush[t].snap : t \in {u \in Tabs : Pushing(u)}}
    \union {e.copy.snap : e \in UNION {flush[t].todo : t \in Tabs}}
    \union {q.snap : q \in {r \in late : r.kind = "save"}}

\* A mutationId stands for one writing: of a save that was begun, or the last of a localId.
Used(m) ==
    \/ m \in 1..saves
    \/ \E l \in 1..lids : m = MaxSaves + l /\ \A t \in Tabs : ~Shows(t, l)

Identified ==
    /\ mutation # 0 => Used(mutation)
    /\ \A s \in Live : Used(s.mutation) /\ (s.mutation = mutation => s.text = body)
    /\ \A s, z \in Live : s.mutation = z.mutation => s.text = z.text

\* The writing T is based on revision r of the draft: where that is the present one, T has
\* all there is in it but what the user chose to do without.
Based(r, T) ==
    r <= revision /\ (r = revision /\ state = "open" => body \subseteq T \union dropped)

\* Revision r of the draft has the writing T.
Reads(r, T) == r <= revision /\ (r = revision /\ state = "open" => body = T)

Known(s) == IF s.known THEN Based(s.revision, s.text) ELSE s.revision = 1

Basing ==
    /\ \A s \in Live : Known(s)
    /\ \A t \in Tabs : Open(t) => Known(composer[t])
    /\ \A t \in Tabs : loaded[t] # Absent => Reads(loaded[t].revision, loaded[t].text)
    /\ \A t, u \in Tabs : \A e \in flush[t].synced :
          Shows(u, e.lid) => Based(e.revision, composer[u].text)

\* What the saved draft or the email has, or the user did without.
Safe == body \union accepted \union dropped

\* A save that was acknowledged.
Acknowledged(s, a) ==
    a.status = "ok" => a.revision > 0 /\ Reads(a.revision, s.text) /\ s.text \subseteq Safe

Answering ==
    /\ \A t \in Tabs : request[t].at = "back" /\ request[t].kind = "save" =>
          Acknowledged(request[t].snap, request[t].answer)
    /\ \A t \in Tabs : flush[t].at = "back" => Acknowledged(flush[t].snap, flush[t].answer)
    /\ \A l \in Lids : copy[l] # Absent /\ copy[l].acked # Absent => copy[l].acked.text \subseteq Safe
    /\ \A t \in Tabs : \A e \in flush[t].todo :
          e.copy.acked # Absent => e.copy.acked.text \subseteq Safe

\* The sends that may still reach the API, and the one that was answered.
Sent ==
    /\ \A t \in Tabs : Active(t) /\ request[t].kind = "send" =>
          /\ Reads(request[t].snap.revision, request[t].snap.text)
          /\ request[t].snap.text \subseteq Safe
          /\ request[t].at = "back" /\ request[t].answer.status = "ok" =>
                state = "sent" /\ accepted = request[t].snap.text
    /\ \A q \in late : q.kind = "send" => Reads(q.snap.revision, q.snap.text)

\* The writing of a localId that the windows are at work on.
Held ==
    {<<request[t].lid, request[t].snap.text>> : t \in {u \in Tabs : Active(u)}}
    \union {<<flush[t].lid, flush[t].snap.text>> : t \in {u \in Tabs : Pushing(u)}}
    \union {<<e.lid, e.copy.snap.text>> : e \in UNION {flush[t].todo : t \in Tabs}}

\* It only grows: the device copy has what they have, and the composer what the copy has.
Growing ==
    /\ \A h \in Held : /\ h[1] \in Lids
                       /\ copy[h[1]] # Absent => h[2] \subseteq copy[h[1]].snap.text
                       /\ \A t \in Tabs : Shows(t, h[1]) => h[2] \subseteq composer[t].text
    /\ \A l \in Lids, t \in Tabs : copy[l] # Absent /\ Shows(t, l) =>
          copy[l].snap.text \subseteq composer[t].text

\* What is being sent is what the composer shows, and safe or on the device.
Submitting ==
    \A t \in Tabs : request[t].submits =>
        LET l == request[t].lid
            T == request[t].snap.text
        IN  /\ Shows(t, l) => composer[t].text = T
            /\ copy[l] # Absent => copy[l].snap.text \subseteq T
            /\ T \subseteq Safe \/ (copy[l] # Absent /\ T \subseteq copy[l].snap.text)

\* A file that is at work is so for a window.
Attached == \A f \in Files : upload[f].at \in {"again", "erase"} => upload[f].tab \in Tabs

Inv ==
    /\ TypeOK /\ Attached /\ Stored /\ SentAsSaved /\ Owned /\ Identified /\ Basing /\ Answering
    /\ Sent /\ Growing /\ Submitting /\ WritingKept

---------------------------------------------------------------------------
(* Types. *)

CountType ==
    /\ edits \in 0..MaxEdits /\ saves \in 0..MaxSaves /\ lids \in 0..MaxLids
    /\ leaves \in 0..MaxLeaves /\ passes \in 0..MaxPasses
    /\ dropped \in Writing /\ shut \in Writing /\ faults \in 0..MaxFaults

ComposerType == composer \in [Tabs -> Composers \union {Closed}]
LoadedType == loaded \in [Tabs -> Loads \union {Absent}]
RequestType == request \in [Tabs -> Requests]
FlushType == flush \in [Tabs -> Flushes]
UploadType == upload \in [Files -> [at : {"new", "again", "stored", "erase", "gone"},
                                    tab : Tabs \union {NoTab}, lid : {0} \union Lids]]
CopyType == copy \in [Lids -> Copies \union {Absent}]
LateType == late \subseteq [kind : {"save", "send"}, snap : Snapshots]
SendingType == \A t \in Tabs : sending = t => Sends(t)

LEMMA TypeParts ==
    TypeOK <=> /\ StoreType /\ ComposerType /\ LoadedType /\ RequestType /\ SendingType
               /\ FlushType /\ UploadType /\ CopyType /\ LateType /\ CountType
BY DEF TypeOK, ComposerType, LoadedType, RequestType, SendingType, FlushType, UploadType, CopyType,
       LateType, CountType

---------------------------------------------------------------------------
(* Which steps change what. *)

LEMMA StoreChanges ==
    ASSUME [Next]_vars
    PROVE  \/ UNCHANGED storeVars
           \/ \E t \in Tabs :
                 \/ DeleteDraft(t) \/ SaveArrives(t) \/ FlushArrives(t) \/ SendArrives(t)
                 \/ SendDies(t)
                 \/ \E f \in Files : Upload(t, f)
                 \/ \E f \in Files : Remove(t, f)
           \/ \E f \in Files : Erase(f)
           \/ LateArrives
<1>1. ASSUME NEW t \in Tabs, Window(t)
      PROVE  \/ UNCHANGED storeVars
             \/ DeleteDraft(t)
             \/ \E f \in Files : Upload(t, f)
             \/ \E f \in Files : Remove(t, f)
  BY <1>1 DEF Window, Edit, Leave, OpenDraft, Compare, UseSaved, KeepMine, LearnSent, Restore,
      SaveBegin, FlushBegin, SaveOk, SaveFails, SendOk, SendFails, FlushNext, FlushReturn, FlushEnd
<1>2. ASSUME Server
      PROVE  \/ UNCHANGED storeVars
             \/ \E t \in Tabs : SaveArrives(t) \/ FlushArrives(t) \/ SendArrives(t)
             \/ \E f \in Files : Erase(f)
             \/ LateArrives
  BY <1>2 DEF Server, UploadAgain, clientVars
<1>3. ASSUME NEW t \in Tabs, RequestLost(t) \/ FlushLost(t) \/ SendDies(t) \/ Kill(t)
      PROVE  \/ UNCHANGED storeVars
             \/ SendDies(t)
  BY <1>3 DEF RequestLost, FlushLost, Kill
<1>4. CASE UNCHANGED vars
  BY <1>4 DEF vars, clientVars
<1>. QED
  BY <1>1, <1>2, <1>3, <1>4 DEF Next, Faults

LEMMA ComposerChanges ==
    ASSUME [Next]_vars
    PROVE  \/ UNCHANGED composer
           \/ \E t \in Tabs :
                 \/ Edit(t) \/ Leave(t) \/ OpenDraft(t) \/ UseSaved(t) \/ KeepMine(t)
                 \/ LearnSent(t) \/ DeleteDraft(t) \/ SaveOk(t) \/ SaveFails(t) \/ SendOk(t)
                 \/ SendFails(t) \/ FlushReturn(t) \/ FlushEnd(t) \/ Kill(t)
                 \/ \E l \in Lids : Restore(t, l)
                 \/ \E f \in Files : Upload(t, f)
           \/ \E f \in Files : UploadAgain(f)
           \/ \E f \in Files : Erase(f)
<1>1. ASSUME NEW t \in Tabs, Window(t)
      PROVE  \/ UNCHANGED composer
             \/ Edit(t) \/ Leave(t) \/ OpenDraft(t) \/ UseSaved(t) \/ KeepMine(t)
             \/ LearnSent(t) \/ DeleteDraft(t) \/ SaveOk(t) \/ SaveFails(t) \/ SendOk(t)
             \/ SendFails(t) \/ FlushReturn(t) \/ FlushEnd(t)
             \/ \E l \in Lids : Restore(t, l)
             \/ \E f \in Files : Upload(t, f)
  BY <1>1 DEF Window, Compare, SaveBegin, FlushBegin, FlushNext, Remove
<1>2. ASSUME Server
      PROVE  \/ UNCHANGED composer
             \/ \E f \in Files : UploadAgain(f)
             \/ \E f \in Files : Erase(f)
  BY <1>2 DEF Server, SaveArrives, FlushArrives, SendArrives, LateArrives, clientVars
<1>3. ASSUME NEW t \in Tabs, RequestLost(t) \/ FlushLost(t) \/ SendDies(t) \/ Kill(t)
      PROVE  \/ UNCHANGED composer
             \/ Kill(t)
  BY <1>3 DEF RequestLost, FlushLost, SendDies
<1>4. CASE UNCHANGED vars
  BY <1>4 DEF vars, clientVars
<1>. QED
  BY <1>1, <1>2, <1>3, <1>4 DEF Next, Faults

\* What was fetched is put away.
Unloaded(t) == loaded' = [loaded EXCEPT ![t] = Absent]

LEMMA LoadedChanges ==
    ASSUME [Next]_vars
    PROVE  \/ UNCHANGED loaded
           \/ \E t \in Tabs :
                 \/ Unloaded(t) \/ Compare(t)
<1>1. ASSUME NEW t \in Tabs, Window(t)
      PROVE  \/ UNCHANGED loaded
             \/ Unloaded(t) \/ Compare(t)
  BY <1>1 DEF Window, Edit, Leave, OpenDraft, UseSaved, KeepMine, LearnSent, DeleteDraft, Restore,
      SaveBegin, FlushBegin, SaveOk, SaveFails, SendOk, SendFails, FlushNext, FlushReturn, FlushEnd,
      Upload, Remove, Unloads, Unloaded
<1>2. ASSUME Server
      PROVE  \/ UNCHANGED loaded
  BY <1>2 DEF Server, SaveArrives, FlushArrives, SendArrives, UploadAgain, Erase, LateArrives,
      clientVars
<1>3. ASSUME NEW t \in Tabs, RequestLost(t) \/ FlushLost(t) \/ SendDies(t) \/ Kill(t)
      PROVE  \/ UNCHANGED loaded
             \/ Unloaded(t)
  BY <1>3 DEF RequestLost, FlushLost, SendDies, Kill, Unloads, Unloaded
<1>4. CASE UNCHANGED vars
  BY <1>4 DEF vars, clientVars
<1>. QED
  BY <1>1, <1>2, <1>3, <1>4 DEF Next, Faults

\* A save begins, of a composer that goes on or of one that is left.
Begun(t, b) == Open(t) /\ ~Sending(t) /\ Begins(t, b)

\* A request is over, and no send of it holds the draft unanswered.
Ended(t) == Done(t) /\ (sending = t => request[t].at = "back")

LEMMA RequestChanges ==
    ASSUME [Next]_vars
    PROVE  \/ UNCHANGED request
           \/ \E t \in Tabs :
                 \/ SaveOk(t) \/ Ended(t) \/ SaveArrives(t) \/ SendArrives(t) \/ RequestLost(t)
                 \/ SendDies(t)
                 \/ \E b \in BOOLEAN : Begun(t, b)
<1>1. ASSUME NEW t \in Tabs, Window(t)
      PROVE  \/ UNCHANGED request
             \/ SaveOk(t) \/ Ended(t)
             \/ \E b \in BOOLEAN : Begun(t, b)
  BY <1>1 DEF Window, Edit, Leave, OpenDraft, Compare, UseSaved, KeepMine, LearnSent, DeleteDraft,
      Restore, SaveBegin, FlushBegin, SaveFails, SendOk, SendFails, FlushNext, FlushReturn,
      FlushEnd, Upload, Remove, Begun, Writable, Ended
<1>2. ASSUME Server
      PROVE  \/ UNCHANGED request
             \/ \E t \in Tabs : SaveArrives(t) \/ SendArrives(t)
  BY <1>2 DEF Server, FlushArrives, UploadAgain, Erase, LateArrives, clientVars
<1>3. ASSUME NEW t \in Tabs, RequestLost(t) \/ FlushLost(t) \/ SendDies(t) \/ Kill(t)
      PROVE  \/ UNCHANGED request
             \/ RequestLost(t) \/ SendDies(t) \/ Ended(t)
  BY <1>3 DEF FlushLost, Kill, Begun, Writable, Ended
<1>4. CASE UNCHANGED vars
  BY <1>4 DEF vars, clientVars
<1>. QED
  BY <1>1, <1>2, <1>3, <1>4 DEF Next, Faults

\* A pass is over.
Flushed(t) == flush' = [flush EXCEPT ![t] = NoFlush]

LEMMA FlushChanges ==
    ASSUME [Next]_vars
    PROVE  \/ UNCHANGED flush
           \/ \E t \in Tabs :
                 \/ FlushNext(t) \/ FlushReturn(t) \/ Flushed(t) \/ FlushArrives(t)
                 \/ FlushLost(t)
                 \/ \E b \in BOOLEAN : FlushBegin(t, b)
<1>1. ASSUME NEW t \in Tabs, Window(t)
      PROVE  \/ UNCHANGED flush
             \/ FlushNext(t) \/ FlushReturn(t) \/ Flushed(t)
             \/ \E b \in BOOLEAN : FlushBegin(t, b)
  BY <1>1 DEF Window, Edit, Leave, OpenDraft, Compare, UseSaved, KeepMine, LearnSent, DeleteDraft,
      Restore, SaveBegin, SaveOk, SaveFails, SendOk, SendFails, FlushEnd, Upload, Remove, Flushed
<1>2. ASSUME Server
      PROVE  \/ UNCHANGED flush
             \/ \E t \in Tabs : FlushArrives(t)
  BY <1>2 DEF Server, SaveArrives, SendArrives, UploadAgain, Erase, LateArrives, clientVars
<1>3. ASSUME NEW t \in Tabs, RequestLost(t) \/ FlushLost(t) \/ SendDies(t) \/ Kill(t)
      PROVE  \/ UNCHANGED flush
             \/ FlushLost(t) \/ Flushed(t)
  BY <1>3 DEF RequestLost, SendDies, Kill, Flushed
<1>4. CASE UNCHANGED vars
  BY <1>4 DEF vars, clientVars
<1>. QED
  BY <1>1, <1>2, <1>3, <1>4 DEF Next, Faults

LEMMA CopyChanges ==
    ASSUME [Next]_vars
    PROVE  \/ UNCHANGED copy
           \/ \E t \in Tabs :
                 \/ SaveOk(t) \/ SendOk(t) \/ FlushNext(t) \/ FlushReturn(t) \/ DeleteDraft(t)
                 \/ \E b \in BOOLEAN : Begun(t, b)
                 \/ Preserve(t) /\ (Leave(t) \/ UseSaved(t) \/ KeepMine(t))
<1>1. ASSUME NEW t \in Tabs, Window(t)
      PROVE  \/ UNCHANGED copy
             \/ SaveOk(t) \/ SendOk(t) \/ FlushNext(t) \/ FlushReturn(t) \/ DeleteDraft(t)
             \/ \E b \in BOOLEAN : Begun(t, b)
             \/ Preserve(t) /\ (Leave(t) \/ UseSaved(t) \/ KeepMine(t))
  BY <1>1 DEF Window, Edit, Leave, OpenDraft, Compare, UseSaved, KeepMine, LearnSent, Restore,
      SaveBegin, FlushBegin, SaveFails, SendFails, FlushEnd, Upload, Remove, Begun, Writable
<1>2. ASSUME Server
      PROVE  \/ UNCHANGED copy
  BY <1>2 DEF Server, SaveArrives, FlushArrives, SendArrives, UploadAgain, Erase, LateArrives,
      clientVars
<1>3. ASSUME NEW t \in Tabs, RequestLost(t) \/ FlushLost(t) \/ SendDies(t) \/ Kill(t)
      PROVE  \/ UNCHANGED copy
  BY <1>3 DEF RequestLost, FlushLost, SendDies, Kill, Begun, Writable
<1>4. CASE UNCHANGED vars
  BY <1>4 DEF vars, clientVars
<1>. QED
  BY <1>1, <1>2, <1>3, <1>4 DEF Next, Faults

LEMMA LateChanges ==
    ASSUME [Next]_vars
    PROVE  \/ UNCHANGED late
           \/ \E t \in Tabs :
                 \/ RequestLost(t) \/ FlushLost(t) \/ Kill(t)
           \/ LateArrives
<1>1. ASSUME NEW t \in Tabs, Window(t)
      PROVE  \/ UNCHANGED late
  BY <1>1 DEF Window, Edit, Leave, OpenDraft, Compare, UseSaved, KeepMine, LearnSent, DeleteDraft,
      Restore, SaveBegin, FlushBegin, SaveOk, SaveFails, SendOk, SendFails, FlushNext, FlushReturn,
      FlushEnd, Upload, Remove
<1>2. ASSUME Server
      PROVE  \/ UNCHANGED late
             \/ LateArrives
  BY <1>2 DEF Server, SaveArrives, FlushArrives, SendArrives, UploadAgain, Erase, clientVars
<1>3. ASSUME NEW t \in Tabs, RequestLost(t) \/ FlushLost(t) \/ SendDies(t) \/ Kill(t)
      PROVE  \/ UNCHANGED late
             \/ RequestLost(t) \/ FlushLost(t) \/ Kill(t)
  BY <1>3 DEF SendDies
<1>4. CASE UNCHANGED vars
  BY <1>4 DEF vars, clientVars
<1>. QED
  BY <1>1, <1>2, <1>3, <1>4 DEF Next, Faults

---------------------------------------------------------------------------
(* Every step keeps the types. *)

LEMMA Constants ==
    /\ NoTab \notin Tabs /\ MaxEdits \in Nat /\ MaxSaves \in Nat /\ MaxLids \in Nat /\ MaxLids > 0
    /\ MaxLeaves \in Nat /\ MaxPasses \in Nat /\ MaxFaults \in Nat
    /\ Closed \notin Composers /\ Absent \notin Loads /\ Absent \notin Contents
    /\ Absent \notin Copies
BY StoreAssumption, SyncAssumption

\* What a save does to the row, if it does anything.
Creates(s) ==
    /\ ~s.known /\ state = "none"
    /\ state' = "open" /\ body' = s.text /\ created' = s.text /\ revision' = 1
    /\ UNCHANGED <<mutation, onDraft, accepted, onJob, blobs, sending>>

Updates(s) ==
    /\ s.known /\ Unlocked /\ state = "open" /\ mutation # s.mutation /\ revision = s.revision
    /\ body' = s.text /\ revision' = revision + 1 /\ mutation' = s.mutation
    /\ UNCHANGED <<state, created, onDraft, accepted, onJob, blobs, sending>>

\* A save changes the row and says so, or says that it has the writing already.
LEMMA SaveDoes ==
    ASSUME NEW s, NEW a, Save(s, a)
    PROVE  /\ Creates(s) \/ Updates(s) \/ UNCHANGED storeVars
           /\ a.status = "ok" =>
                 \/ Creates(s) /\ a = Ok(1)
                 \/ Updates(s) /\ a = Ok(revision + 1)
                 \/ /\ UNCHANGED storeVars /\ state = "open" /\ a = Ok(revision)
                    /\ (revision = 1 /\ created = s.text) \/ mutation = s.mutation
<1>1. CASE s.known
  <2>1. Update(s, a)
    BY <1>1 DEF Save
  <2>2. CASE state = "open" /\ mutation # s.mutation /\ revision = s.revision
    BY <1>1, <2>1, <2>2 DEF Update, Updates, Ok
  <2>3. CASE ~(state = "open" /\ mutation # s.mutation /\ revision = s.revision)
    <3>1. /\ UNCHANGED storeVars
          /\ a = CASE state = "open" /\ mutation = s.mutation -> Ok(revision)
                   [] state = "deleted" -> NotFound
                   [] OTHER -> Conflict
      BY <2>1, <2>3 DEF Update
    <3>2. a.status = "ok" => state = "open" /\ mutation = s.mutation
      BY <3>1 DEF NotFound, Conflict
    <3>. QED
      BY <3>1, <3>2
  <2>. QED
    BY <2>2, <2>3
<1>2. CASE ~s.known
  <2>1. Create(s, a)
    BY <1>2 DEF Save
  <2>2. CASE state = "none"
    BY <1>2, <2>1, <2>2 DEF Create, Creates, Ok
  <2>3. CASE state # "none"
    BY <2>1, <2>3 DEF Create, Ok, Conflict
  <2>. QED
    BY <2>2, <2>3
<1>. QED
  BY <1>1, <1>2

LEMMA RepliesType == ASSUME StoreType, NEW a \in Replies PROVE a \in Answers
BY DEF StoreType, Revisions, Replies, Answers, Ok, Conflict, NotFound

LEMMA SavesType == ASSUME StoreType, NEW s \in Snapshots, NEW a, Save(s, a) PROVE StoreType'
<1>1. Creates(s) \/ Updates(s) \/ UNCHANGED storeVars
  BY SaveDoes
<1>2. s.text \in Writing /\ s.mutation \in Mutations
  BY DEF Snapshots
<1>3. CASE Creates(s)
  BY <1>2, <1>3 DEF Creates, StoreType, Revisions
<1>4. CASE Updates(s)
  BY <1>2, <1>4 DEF Updates, StoreType, Revisions
<1>5. CASE UNCHANGED storeVars
  BY <1>5 DEF storeVars, StoreType
<1>. QED
  BY <1>1, <1>3, <1>4, <1>5

LEMMA CompleteType ==
    ASSUME StoreType, NEW s \in Snapshots, Complete(s), UNCHANGED <<body, mutation, created, blobs>>,
           sending' \in Tabs \union {NoTab}
    PROVE  StoreType'
BY DEF Complete, StoreType, Revisions, Snapshots

LEMMA StoreTypeKept == ASSUME TypeOK, [Next]_vars PROVE StoreType'
<1>0. StoreType /\ RequestType /\ FlushType /\ LateType
  BY TypeParts
<1>1. ASSUME NEW t \in Tabs, SaveArrives(t) \/ FlushArrives(t)
      PROVE  StoreType'
  <2>1. request[t].snap \in Snapshots /\ flush[t].snap \in Snapshots
    BY <1>0 DEF RequestType, FlushType, Requests, Flushes
  <2>. QED
    BY <1>0, <1>1, <2>1, SavesType DEF SaveArrives, FlushArrives
<1>2. ASSUME NEW t \in Tabs, SendArrives(t)
      PROVE  StoreType'
  <2>1. request[t].snap \in Snapshots
    BY <1>0 DEF RequestType, Requests
  <2>2. CASE SendBegin(t, request[t].snap)
    BY <1>0, <2>2 DEF SendBegin, StoreType
  <2>3. ASSUME NEW a, SendAnswer(request[t].snap, a)
        PROVE  StoreType'
    BY <1>0, <2>3 DEF SendAnswer, StoreType, storeVars
  <2>4. ASSUME NEW a, SendCommit(t, request[t].snap, a)
        PROVE  StoreType'
    <3>1. CASE Complete(request[t].snap)
      BY <1>0, <2>1, <2>4, <3>1, CompleteType DEF SendCommit
    <3>2. CASE UNCHANGED <<state, revision, accepted, onJob, onDraft>>
      BY <1>0, <2>4, <3>2 DEF SendCommit, StoreType
    <3>. QED
      BY <2>4, <3>1, <3>2 DEF SendCommit
  <2>. QED
    BY <1>2, <2>2, <2>3, <2>4 DEF SendArrives
<1>3. ASSUME LateArrives
      PROVE  StoreType'
  <2>1. PICK q \in late : \/ \E a \in Replies : Save(q.snap, a)
                          \/ SendWhole(q.snap)
                          \/ \E a \in Replies : SendAnswer(q.snap, a)
    BY <1>3 DEF LateArrives
  <2>2. q.snap \in Snapshots
    BY <1>0 DEF LateType
  <2>3. CASE \E a \in Replies : Save(q.snap, a)
    BY <1>0, <2>2, <2>3, SavesType
  <2>4. CASE SendWhole(q.snap)
    <3>1. Complete(q.snap) /\ UNCHANGED <<body, mutation, created, blobs, sending>>
      BY <2>4 DEF SendWhole
    <3>2. sending' \in Tabs \union {NoTab}
      BY <1>0, <3>1 DEF StoreType
    <3>. QED
      BY <1>0, <2>2, <3>1, <3>2, CompleteType
  <2>5. CASE \E a \in Replies : SendAnswer(q.snap, a)
    BY <1>0, <2>5 DEF SendAnswer, StoreType, storeVars
  <2>. QED
    BY <2>1, <2>3, <2>4, <2>5
<1>4. ASSUME NEW t \in Tabs, SendDies(t) \/ DeleteDraft(t)
      PROVE  StoreType'
  BY <1>0, <1>4 DEF SendDies, Rollback, DeleteDraft, Delete, StoreType, Revisions
<1>5. ASSUME NEW t \in Tabs, NEW f \in Files, Upload(t, f)
      PROVE  StoreType'
  <2>1. PICK a : CreateAttachment(f, a)
    BY <1>5 DEF Upload
  <2>. QED
    BY <1>0, <2>1 DEF CreateAttachment, StoreType
<1>6. ASSUME NEW t \in Tabs, NEW f \in Files, Remove(t, f)
      PROVE  StoreType'
  BY <1>0, <1>6 DEF Remove, RemoveRow, StoreType
<1>7. ASSUME NEW f \in Files, Erase(f)
      PROVE  StoreType'
  BY <1>0, <1>7 DEF Erase, RemoveBlob, StoreType
<1>8. CASE UNCHANGED storeVars
  BY <1>0, <1>8 DEF storeVars, StoreType
<1>. QED
  BY <1>1, <1>2, <1>3, <1>4, <1>5, <1>6, <1>7, <1>8, StoreChanges

\* The counters grow one by one, up to their bounds.
Counts(n, next, max) == next = n \/ (next = n + 1 /\ n < max)

LEMMA CountsKept ==
    ASSUME [Next]_vars
    PROVE  /\ Counts(edits, edits', MaxEdits) /\ Counts(saves, saves', MaxSaves)
           /\ Counts(lids, lids', MaxLids) /\ Counts(leaves, leaves', MaxLeaves)
           /\ Counts(passes, passes', MaxPasses) /\ Counts(faults, faults', MaxFaults)
<1>1. ASSUME NEW t \in Tabs, Window(t)
      PROVE  /\ Counts(edits, edits', MaxEdits) /\ Counts(saves, saves', MaxSaves)
             /\ Counts(lids, lids', MaxLids) /\ Counts(leaves, leaves', MaxLeaves)
             /\ Counts(passes, passes', MaxPasses) /\ Counts(faults, faults', MaxFaults)
  BY <1>1 DEF Window, Edit, Leave, OpenDraft, Compare, UseSaved, KeepMine, LearnSent, DeleteDraft,
      Restore, SaveBegin, Begins, FlushBegin, SaveOk, SaveFails, SendOk, SendFails, FlushNext,
      FlushReturn, FlushEnd, Upload, Remove, NewLid, Fault, Counts, counts
<1>2. ASSUME Server
      PROVE  UNCHANGED <<counts, faults>>
  BY <1>2 DEF Server, SaveArrives, FlushArrives, SendArrives, UploadAgain, Erase, LateArrives
<1>3. ASSUME NEW t \in Tabs, RequestLost(t) \/ FlushLost(t) \/ SendDies(t) \/ Kill(t)
      PROVE  UNCHANGED counts /\ Counts(faults, faults', MaxFaults)
  BY <1>3 DEF RequestLost, FlushLost, SendDies, Kill, Fault, Counts
<1>4. CASE UNCHANGED vars
  BY <1>4 DEF vars, clientVars, counts, Counts
<1>. QED
  BY <1>1, <1>2, <1>3, <1>4 DEF Next, Faults, counts, Counts

\* The user only ever does without more.
LEMMA HistoryKept ==
    ASSUME [Next]_vars
    PROVE  /\ dropped \subseteq dropped' /\ shut \subseteq shut'
           /\ \/ dropped' = dropped
              \/ \E t \in Tabs : KeepMine(t) \/ DeleteDraft(t)
           /\ \/ shut' = shut
              \/ \E t \in Tabs : Open(t) /\ shut' = shut \union composer[t].text
<1>1. ASSUME NEW t \in Tabs, Window(t)
      PROVE  /\ dropped \subseteq dropped' /\ shut \subseteq shut'
             /\ dropped' = dropped \/ KeepMine(t) \/ DeleteDraft(t)
             /\ shut' = shut \/ (Open(t) /\ shut' = shut \union composer[t].text)
  BY <1>1 DEF Window, Edit, Leave, OpenDraft, Compare, UseSaved, KeepMine, LearnSent, DeleteDraft,
      Restore, SaveBegin, FlushBegin, SaveOk, SaveFails, SendOk, SendFails, FlushNext,
      FlushReturn, FlushEnd, Upload, Remove, history
<1>2. ASSUME Server
      PROVE  UNCHANGED history
  BY <1>2 DEF Server, SaveArrives, FlushArrives, SendArrives, UploadAgain, Erase, LateArrives
<1>3. ASSUME NEW t \in Tabs, RequestLost(t) \/ FlushLost(t) \/ SendDies(t) \/ Kill(t)
      PROVE  /\ UNCHANGED dropped
             /\ shut' = shut \/ (Open(t) /\ shut' = shut \union composer[t].text)
  BY <1>3 DEF RequestLost, FlushLost, SendDies, Kill, history
<1>4. CASE UNCHANGED vars
  BY <1>4 DEF vars, clientVars, history
<1>. QED
  BY <1>1, <1>2, <1>3, <1>4 DEF Next, Faults, history

LEMMA OpenType ==
    ASSUME ComposerType, NEW t \in Tabs, Open(t)
    PROVE  composer[t] \in Composers /\ composer[t].text \in Writing /\ composer[t].lid \in Lids
BY DEF ComposerType, Open, Composers

LEMMA CountTypeKept == ASSUME TypeOK, [Next]_vars PROVE CountType'
<1>0. CountType /\ ComposerType /\ LoadedType /\ StoreType
  BY TypeParts
<1>1. dropped' \in Writing
  <2>1. ASSUME NEW t \in Tabs, KeepMine(t)
        PROVE  dropped' \in Writing
    <3>1. loaded[t].text \in Writing
      BY <1>0, <2>1 DEF KeepMine, Chooses, LoadedType, Loads
    <3>. QED
      BY <1>0, <2>1, <3>1 DEF KeepMine, CountType, Writing
  <2>2. ASSUME NEW t \in Tabs, DeleteDraft(t)
        PROVE  dropped' \in Writing
    BY <1>0, <2>2, OpenType DEF DeleteDraft, CountType, StoreType, Writing
  <2>. QED
    BY <1>0, <2>1, <2>2, HistoryKept DEF CountType
<1>2. shut' \in Writing
  BY <1>0, HistoryKept, OpenType DEF CountType, Writing
<1>3. /\ edits' \in 0..MaxEdits /\ saves' \in 0..MaxSaves /\ lids' \in 0..MaxLids
      /\ leaves' \in 0..MaxLeaves /\ passes' \in 0..MaxPasses /\ faults' \in 0..MaxFaults
  BY <1>0, Constants, CountsKept DEF Counts, CountType
<1>. QED
  BY <1>1, <1>2, <1>3 DEF CountType

LEMMA FreshType ==
    ASSUME NEW l \in Lids, NEW text \in Writing, NEW files \in SUBSET Files, NEW known \in BOOLEAN,
           NEW r \in Revisions, NEW told \in BOOLEAN
    PROVE  Fresh(l, text, files, known, r, told) \in Composers
BY DEF Fresh, Composers

\* A window closes: it is left or killed, its draft is deleted, or what it shows was sent.
Closes(t) ==
    \/ Leave(t) \/ Kill(t)
    \/ DeleteDraft(t) /\ Open(t) /\ composer[t].known
    \/ SendOk(t) /\ Shows(t, request[t].lid)

\* One window shows something else, which is well-typed, or closes.
LEMMA ComposerSteps ==
    ASSUME TypeOK, [Next]_vars
    PROVE  \/ composer' = composer
           \/ \E t \in Tabs, c \in Composers : composer' = [composer EXCEPT ![t] = c]
           \/ \E t \in Tabs : Closes(t) /\ composer' = [composer EXCEPT ![t] = Closed]
<1>0. /\ ComposerType /\ LoadedType /\ StoreType /\ RequestType /\ FlushType /\ CopyType
      /\ UploadType /\ CountType
  BY TypeParts
<1> DEFINE Step == \/ composer' = composer
                   \/ \E t \in Tabs, c \in Composers : composer' = [composer EXCEPT ![t] = c]
                   \/ \E t \in Tabs : Closes(t) /\ composer' = [composer EXCEPT ![t] = Closed]
<1>1. \A t \in Tabs : Open(t) => composer[t] \in Composers
  BY <1>0, OpenType
<1>2. ASSUME NEW t \in Tabs, NEW c \in Composers, composer' = [composer EXCEPT ![t] = c]
      PROVE  Step
  BY <1>2
<1>11. ASSUME UNCHANGED composer
       PROVE  Step
  BY <1>11
<1>14. ASSUME NEW t \in Tabs, Closes(t), composer' = [composer EXCEPT ![t] = Closed]
       PROVE  Step
  BY <1>14
<1> HIDE DEF Step
<1>3. ASSUME NEW t \in Tabs, Edit(t)
      PROVE  Step
  <2>1. /\ composer' = [composer EXCEPT ![t].text = @ \union {edits + 1}]
        /\ edits < MaxEdits /\ composer[t] \in Composers
    BY <1>1, <1>3 DEF Edit, Writable
  <2>2. edits + 1 \in 1..MaxEdits
    BY <1>0, <2>1, Constants DEF CountType
  <2>3. [composer[t] EXCEPT !.text = @ \union {edits + 1}] \in Composers
    BY <2>1, <2>2 DEF Composers, Writing
  <2>4. composer' = [composer EXCEPT ![t] = [composer[t] EXCEPT !.text = @ \union {edits + 1}]]
    BY <2>1
  <2>. QED
    BY <1>2, <2>3, <2>4
<1>4. ASSUME NEW t \in Tabs, SaveOk(t) \/ SaveFails(t) \/ SendOk(t) \/ SendFails(t)
      PROVE  Step
  <2>1. request[t].answer.revision \in Revisions /\ request[t].submits \in BOOLEAN
    BY <1>0 DEF RequestType, Requests, Answers
  <2>2. CASE UNCHANGED composer
    BY <1>0, <1>11, <2>2 DEF ComposerType
  <2>3. CASE Open(t) /\ SaveOk(t) /\ ~UNCHANGED composer
    <3> DEFINE c == [composer[t] EXCEPT !.known = TRUE, !.revision = request[t].answer.revision,
                                        !.conflict = FALSE]
    <3>1. composer' = [composer EXCEPT ![t] = c]
      BY <2>3 DEF SaveOk
    <3>2. c \in Composers
      BY <1>1, <2>1, <2>3 DEF Composers
    <3>. QED
      BY <1>2, <3>1, <3>2
  <2>4. CASE Open(t) /\ SaveFails(t) /\ ~UNCHANGED composer
    <3> DEFINE c == [composer[t] EXCEPT
                        !.conflict = @ \/ request[t].answer.status = "conflict",
                        !.told = request[t].submits /\ composer[t].known /\ state = "sent"]
    <3>1. composer' = [composer EXCEPT ![t] = c]
      BY <2>4 DEF SaveFails
    <3>2. c \in Composers
      BY <1>1, <2>1, <2>4 DEF Composers
    <3>. QED
      BY <1>2, <3>1, <3>2
  <2>5. CASE SendOk(t) /\ ~UNCHANGED composer
    BY <1>14, <2>5 DEF SendOk, Show, Closes
  <2>6. CASE Open(t) /\ SendFails(t) /\ ~UNCHANGED composer
    <3> DEFINE c == [composer[t] EXCEPT !.told = state = "sent"]
    <3>1. composer' = [composer EXCEPT ![t] = c]
      BY <2>6 DEF SendFails
    <3>2. c \in Composers
      BY <1>1, <2>6 DEF Composers
    <3>. QED
      BY <1>2, <3>1, <3>2
  <2>. QED
    BY <1>4, <2>2, <2>3, <2>4, <2>5, <2>6 DEF SaveOk, SaveFails, SendFails, Shows
<1>5. ASSUME NEW t \in Tabs, FlushReturn(t) \/ FlushEnd(t)
      PROVE  Step
  <2>1. CASE UNCHANGED composer
    BY <1>11, <2>1
  <2>2. CASE FlushReturn(t) /\ ~UNCHANGED composer
    <3> DEFINE c == [composer[t] EXCEPT !.conflict = TRUE]
    <3>1. composer' = [composer EXCEPT ![t] = c] /\ Open(t)
      BY <2>2 DEF FlushReturn, Shows
    <3>2. c \in Composers
      BY <1>1, <3>1 DEF Composers
    <3>. QED
      BY <1>2, <3>1, <3>2
  <2>3. CASE FlushEnd(t) /\ ~UNCHANGED composer
    <3>1. PICK e \in flush[t].synced : /\ Open(t)
                                      /\ composer' = [composer EXCEPT ![t].known = TRUE,
                                                                      ![t].revision = e.revision]
      BY <2>3 DEF FlushEnd, Shows
    <3>2. e.revision \in Revisions
      BY <1>0 DEF FlushType, Flushes
    <3> DEFINE c == [composer[t] EXCEPT !.known = TRUE, !.revision = e.revision]
    <3>3. composer' = [composer EXCEPT ![t] = c]
      BY <3>1
    <3>4. c \in Composers
      BY <1>1, <3>1, <3>2 DEF Composers
    <3>. QED
      BY <1>2, <3>3, <3>4
  <2>. QED
    BY <1>5, <2>1, <2>2, <2>3
<1>6. ASSUME NEW t \in Tabs, Leave(t) \/ Kill(t) \/ DeleteDraft(t)
      PROVE  Step
  <2>1. UNCHANGED composer \/ (Closes(t) /\ composer' = [composer EXCEPT ![t] = Closed])
    BY <1>6 DEF Leave, Kill, DeleteDraft, Show, Closes
  <2>. QED
    BY <1>11, <1>14, <2>1
<1>7. ASSUME NEW t \in Tabs, OpenDraft(t) \/ UseSaved(t) \/ KeepMine(t) \/ \E l \in Lids : Restore(t, l)
      PROVE  Step
  <2>1. lids + 1 \in Lids
    <3>1. lids < MaxLids
      BY <1>7 DEF OpenDraft, UseSaved, KeepMine, Restore, NewLid
    <3>2. lids \in Nat
      BY <1>0, Constants DEF CountType
    <3>. QED
      BY <3>1, <3>2, Constants DEF Lids
  <2>2. CASE OpenDraft(t)
    <3>1. composer' = [composer EXCEPT ![t] = Fresh(lids + 1, body, onDraft, TRUE, revision,
                                                    state = "sent")]
      BY <2>2 DEF OpenDraft, Apply, Show, Fetched
    <3>. QED
      BY <1>0, <1>2, <2>1, <3>1, FreshType DEF StoreType
  <2>3. CASE UseSaved(t)
    <3>1. composer' = [composer EXCEPT ![t] = Fresh(lids + 1, loaded[t].text, loaded[t].files, TRUE,
                                                    loaded[t].revision, loaded[t].sent)]
          /\ loaded[t] \in Loads
      BY <1>0, <2>3 DEF UseSaved, Apply, Show, Chooses, LoadedType
    <3>. QED
      BY <1>2, <2>1, <3>1, FreshType DEF Loads
  <2>4. CASE KeepMine(t)
    <3>1. composer' = [composer EXCEPT ![t] = Fresh(lids + 1, composer[t].text,
                                   composer[t].files \union loaded[t].files, TRUE,
                                   loaded[t].revision, FALSE)]
          /\ loaded[t] \in Loads /\ composer[t] \in Composers
      BY <1>0, <1>1, <2>4 DEF KeepMine, Show, Chooses, Writable, LoadedType
    <3>2. /\ composer[t].text \in Writing /\ loaded[t].revision \in Revisions
          /\ composer[t].files \union loaded[t].files \in SUBSET Files
      BY <3>1 DEF Loads, Composers
    <3>. QED
      BY <1>2, <2>1, <3>1, <3>2, FreshType
  <2>5. ASSUME NEW l \in Lids, Restore(t, l)
        PROVE  Step
    <3> DEFINE s == copy[l].snap
    <3>1. composer' = [composer EXCEPT ![t] = Fresh(lids + 1, s.text, s.files, s.known, s.revision, FALSE)]
          /\ s \in Snapshots
      BY <1>0, <2>5 DEF Restore, Show, CopyType, Copies
    <3>2. /\ s.text \in Writing /\ s.files \in SUBSET Files /\ s.known \in BOOLEAN
          /\ s.revision \in Revisions
      BY <3>1 DEF Snapshots
    <3>. QED
      BY <1>2, <2>1, <3>1, <3>2, FreshType
  <2>. QED
    BY <1>7, <2>2, <2>3, <2>4, <2>5
<1>8. ASSUME NEW t \in Tabs, LearnSent(t)
      PROVE  Step
  <2> DEFINE c == [composer[t] EXCEPT !.told = TRUE]
  <2>1. composer' = [composer EXCEPT ![t] = c] /\ Open(t)
    BY <1>8 DEF LearnSent, Chooses, Writable
  <2>2. c \in Composers
    BY <1>1, <2>1 DEF Composers
  <2>. QED
    BY <1>2, <2>1, <2>2
<1>9. ASSUME NEW t \in Tabs, NEW l, NEW f \in Files, Joins(t, l, f)
      PROVE  Step
  <2>1. CASE UNCHANGED composer
    BY <1>11, <2>1
  <2>2. CASE Open(t) /\ ~UNCHANGED composer
    <3> DEFINE c == [composer[t] EXCEPT !.files = @ \union {f}]
    <3>1. composer' = [composer EXCEPT ![t] = c]
      BY <1>9, <2>2 DEF Joins
    <3>2. c \in Composers
      BY <1>1, <2>2 DEF Composers
    <3>. QED
      BY <1>2, <3>1, <3>2
  <2>. QED
    BY <1>9, <2>1, <2>2 DEF Joins, Shows
<1>10. ASSUME NEW f \in Files, Erase(f)
       PROVE  Step
  <2> DEFINE t == upload[f].tab
             c == [composer[t] EXCEPT !.files = @ \ {f}]
  <2>1. CASE UNCHANGED composer
    BY <1>11, <2>1
  <2>2. CASE t \notin Tabs /\ composer' = [composer EXCEPT ![t] = c]
    BY <1>0, <1>11, <2>2 DEF ComposerType
  <2>3. CASE t \in Tabs /\ Open(t) /\ composer' = [composer EXCEPT ![t] = c]
    <3>1. c \in Composers
      BY <1>1, <2>3 DEF Composers
    <3>. QED
      BY <1>2, <2>3, <3>1
  <2>. QED
    BY <1>10, <2>1, <2>2, <2>3 DEF Erase
<1>12. ASSUME NEW t \in Tabs, NEW f \in Files, Upload(t, f)
       PROVE  Step
  BY <1>9, <1>11, <1>12 DEF Upload
<1>13. ASSUME NEW f \in Files, UploadAgain(f)
       PROVE  Step
  <2>1. CASE upload[f].tab \in Tabs
    BY <1>9, <1>13, <2>1 DEF UploadAgain
  <2>2. CASE upload[f].tab \notin Tabs
    <3>1. composer' = composer
      BY <1>0, <1>13, <2>2 DEF UploadAgain, Joins, ComposerType
    <3>. QED
      BY <1>11, <3>1
  <2>. QED
    BY <2>1, <2>2
<1>15. Step
  BY <1>3, <1>4, <1>5, <1>6, <1>7, <1>8, <1>10, <1>11, <1>12, <1>13, ComposerChanges
<1>. QED
  BY <1>15 DEF Step

LEMMA ComposerTypeKept == ASSUME TypeOK, [Next]_vars PROVE ComposerType'
BY ComposerSteps, TypeParts DEF ComposerType

LEMMA LoadedTypeKept == ASSUME TypeOK, [Next]_vars PROVE LoadedType'
<1>0. LoadedType /\ StoreType
  BY TypeParts
<1>1. Fetched \in Loads
  BY <1>0 DEF Fetched, Loads, StoreType
<1>2. CASE UNCHANGED loaded
  BY <1>0, <1>2 DEF LoadedType
<1>3. ASSUME NEW t \in Tabs, Unloaded(t) \/ Compare(t)
      PROVE  LoadedType'
  BY <1>0, <1>1, <1>3 DEF Unloaded, Compare, LoadedType
<1>. QED
  BY <1>2, <1>3, LoadedChanges

\* A snapshot of a composer.
LEMMA SnapshotType ==
    ASSUME ComposerType, NEW t \in Tabs, Open(t), NEW m \in Mutations
    PROVE  Snapshot(composer[t], m) \in Snapshots
BY OpenType DEF Snapshot, Snapshots, Composers

LEMMA EmptyTypes == Empty \in Snapshots /\ Lost \in Answers
BY Constants DEF Empty, Snapshots, Writing, Revisions, Mutations, Lost, Answers

LEMMA IdleTypes == NoRequest \in Requests /\ NoFlush \in Flushes
BY EmptyTypes DEF NoRequest, Requests, NoFlush, Flushes

LEMMA RequestTypeKept == ASSUME TypeOK, [Next]_vars PROVE RequestType'
<1>0. RequestType /\ StoreType /\ ComposerType /\ CountType
  BY TypeParts
<1>1. ASSUME NEW t, NEW q \in Requests, request' = [request EXCEPT ![t] = q]
      PROVE  RequestType'
  BY <1>0, <1>1 DEF RequestType
<1>2. ASSUME NEW t \in Tabs, NEW b \in BOOLEAN, Begun(t, b)
      PROVE  RequestType'
  <2> DEFINE snap == Snapshot(composer[t], saves + 1)
             q == [NoRequest EXCEPT !.at = "wait", !.lid = composer[t].lid, !.submits = b, !.snap = snap]
  <2>1. request' = [request EXCEPT ![t] = q] /\ saves < MaxSaves /\ Open(t)
    BY <1>2 DEF Begun, Begins
  <2>2. saves + 1 \in Mutations
    BY <1>0, <2>1, Constants DEF CountType, Mutations
  <2>3. snap \in Snapshots
    BY <1>0, <2>1, <2>2, SnapshotType
  <2>4. q \in Requests
    <3> HIDE DEF snap
    <3>. QED
      BY <1>0, <2>1, <2>3, IdleTypes, OpenType DEF Requests
  <2> HIDE DEF q
  <2>. QED
    BY <1>1, <2>1, <2>4
<1>3. ASSUME NEW t \in Tabs, Done(t)
      PROVE  RequestType'
  BY <1>1, <1>3, IdleTypes DEF Done
<1>4. ASSUME NEW t \in Tabs, SaveOk(t)
      PROVE  RequestType'
  <2> DEFINE snap == [request[t].snap EXCEPT !.known = TRUE, !.revision = request[t].answer.revision]
             q == [NoRequest EXCEPT !.at = "wait", !.kind = "send", !.submits = TRUE,
                                    !.lid = request[t].lid, !.snap = snap]
  <2>1. request[t] \in Requests
    BY <1>0 DEF RequestType
  <2>2. snap \in Snapshots /\ request[t].lid \in {0} \union Lids
    BY <2>1 DEF Requests, Answers, Snapshots
  <2>3. q \in Requests
    <3> HIDE DEF snap
    <3>. QED
      BY <2>2, IdleTypes DEF Requests
  <2>4. Done(t) \/ request' = [request EXCEPT ![t] = q]
    BY <1>4 DEF SaveOk, Submit
  <2> HIDE DEF q
  <2>. QED
    BY <1>1, <1>3, <2>3, <2>4
<1>5. ASSUME NEW t \in Tabs, NEW a \in Answers, Answered(t, a)
      PROVE  RequestType'
  <2> DEFINE q == [request[t] EXCEPT !.at = "back", !.answer = a]
  <2>1. request' = [request EXCEPT ![t] = q]
    BY <1>5 DEF Answered
  <2>2. q \in Requests
    BY <1>0 DEF RequestType, Requests
  <2>. QED
    BY <1>1, <2>1, <2>2
<1>6. CASE UNCHANGED request
  BY <1>0, <1>6 DEF RequestType
<1>7. ASSUME NEW t \in Tabs, SaveArrives(t) \/ SendArrives(t) \/ RequestLost(t) \/ SendDies(t)
      PROVE  UNCHANGED request \/ \E a \in Answers : Answered(t, a)
  BY <1>0, <1>7, RepliesType, EmptyTypes DEF SaveArrives, SendArrives, RequestLost, SendDies
<1>. QED
  BY <1>2, <1>3, <1>4, <1>5, <1>6, <1>7, RequestChanges DEF Ended

\* Device copies, and their merging.
LEMMA AckType ==
    ASSUME CopyType, NEW l \in Lids, NEW s \in Snapshots, NEW r \in Revisions, Ack(l, s, r)
    PROVE  CopyType'
<1>1. CASE copy[l] = Absent \/ copy' = copy
  BY <1>1 DEF Ack, CopyType
<1>2. CASE copy' = [copy EXCEPT ![l] = Absent]
  BY <1>2 DEF CopyType
<1> DEFINE c == copy[l]
           newer == c.snap.revision > r
           row == [snap |-> [c.snap EXCEPT !.known = TRUE, !.revision = IF newer THEN @ ELSE r],
                   acked |-> IF newer THEN c.acked ELSE Content(s)]
<1>3. CASE copy[l] # Absent /\ copy' = [copy EXCEPT ![l] = row]
  <2>1. c \in Copies
    BY <1>3 DEF CopyType
  <2>2. Content(s) \in Contents
    BY DEF Content, Contents, Snapshots
  <2>3. row \in Copies
    BY <2>1, <2>2 DEF Copies, Snapshots
  <2> HIDE DEF row
  <2>. QED
    BY <1>3, <2>3 DEF CopyType
<1>. QED
  BY <1>1, <1>2, <1>3 DEF Ack

LEMMA KeepsType ==
    ASSUME CopyType, NEW s \in Snapshots, NEW l, Keeps(s, l)
    PROVE  CopyType'
BY DEF Keeps, CopyType, Copies

LEMMA CopyTypeKept == ASSUME TypeOK, [Next]_vars PROVE CopyType'
<1>0. CopyType /\ RequestType /\ FlushType /\ ComposerType /\ CountType
  BY TypeParts
<1>1. ASSUME NEW t \in Tabs, NEW b \in BOOLEAN, Begun(t, b)
      PROVE  CopyType'
  <2>1. Keeps(Snapshot(composer[t], saves + 1), composer[t].lid) /\ saves < MaxSaves /\ Open(t)
    BY <1>1 DEF Begun, Begins
  <2>2. saves + 1 \in Mutations
    BY <1>0, <2>1, Constants DEF CountType, Mutations
  <2>. QED
    BY <1>0, <2>1, <2>2, SnapshotType, KeepsType
<1>2. ASSUME NEW t \in Tabs, Preserve(t), Leave(t) \/ UseSaved(t) \/ KeepMine(t)
      PROVE  CopyType'
  <2>1. Open(t)
    BY <1>2 DEF Leave, UseSaved, KeepMine, Chooses, Writable
  <2>2. Last(composer[t]) \in Mutations
    BY <1>0, <2>1, OpenType, Constants DEF Last, Mutations, Lids
  <2>3. UNCHANGED copy \/ Keeps(Snapshot(composer[t], Last(composer[t])), composer[t].lid)
    BY <1>2 DEF Preserve
  <2>. QED
    BY <1>0, <2>1, <2>2, <2>3, SnapshotType, KeepsType DEF CopyType
<1>3. ASSUME NEW t \in Tabs, SaveOk(t)
      PROVE  CopyType'
  <2>1. /\ Ack(request[t].lid, request[t].snap, request[t].answer.revision)
        /\ request[t] \in Requests
    BY <1>0, <1>3 DEF SaveOk, RequestType
  <2>2. CASE request[t].lid \in Lids
    BY <1>0, <2>1, <2>2, AckType DEF Requests, Answers
  <2>3. CASE request[t].lid \notin Lids
    BY <1>0, <2>1, <2>3 DEF Ack, CopyType
  <2>. QED
    BY <2>2, <2>3
<1>4. ASSUME NEW t \in Tabs, SendOk(t) \/ DeleteDraft(t)
      PROVE  CopyType'
  BY <1>0, <1>4 DEF SendOk, DeleteDraft, CopyType
<1>5. ASSUME NEW t \in Tabs, FlushNext(t)
      PROVE  CopyType'
  <2>1. PICK e \in flush[t].todo : Ack(e.lid, e.copy.snap, e.copy.snap.revision) \/ UNCHANGED copy
    BY <1>5 DEF FlushNext
  <2>2. e.lid \in Lids /\ e.copy.snap \in Snapshots /\ e.copy.snap.revision \in Revisions
    BY <1>0 DEF FlushType, Flushes, Copies, Snapshots
  <2>. QED
    BY <1>0, <2>1, <2>2, AckType DEF CopyType
<1>6. ASSUME NEW t \in Tabs, FlushReturn(t)
      PROVE  CopyType'
  <2>1. UNCHANGED copy \/ Ack(flush[t].lid, flush[t].snap, flush[t].answer.revision)
    BY <1>6 DEF FlushReturn
  <2>2. flush[t] \in Flushes
    BY <1>0 DEF FlushType
  <2>3. CASE flush[t].lid \in Lids
    BY <1>0, <2>1, <2>2, <2>3, AckType DEF Flushes, Answers, CopyType
  <2>4. CASE flush[t].lid \notin Lids
    BY <1>0, <2>1, <2>4 DEF Ack, CopyType
  <2>. QED
    BY <2>3, <2>4
<1>7. CASE UNCHANGED copy
  BY <1>0, <1>7 DEF CopyType
<1>. QED
  BY <1>1, <1>2, <1>3, <1>4, <1>5, <1>6, <1>7, CopyChanges

LEMMA FlushTypeKept == ASSUME TypeOK, Owned, [Next]_vars PROVE FlushType'
<1>0. FlushType /\ StoreType /\ CopyType /\ CountType
  BY TypeParts
<1>1. ASSUME NEW t, NEW p \in Flushes, flush' = [flush EXCEPT ![t] = p]
      PROVE  FlushType'
  BY <1>0, <1>1 DEF FlushType
<1>2. ASSUME NEW t \in Tabs, NEW b \in BOOLEAN, FlushBegin(t, b)
      PROVE  FlushType'
  <2> DEFINE todo == {[lid |-> l, copy |-> copy[l]] : l \in {k \in Lids : copy[k] # Absent}}
             p == [NoFlush EXCEPT !.at = "next", !.adopts = b, !.todo = todo]
  <2>1. flush' = [flush EXCEPT ![t] = p]
    BY <1>2 DEF FlushBegin
  <2>2. todo \in SUBSET [lid : Lids, copy : Copies]
    BY <1>0 DEF CopyType
  <2>3. p \in Flushes
    <3> HIDE DEF todo
    <3>. QED
      BY <2>2, IdleTypes DEF Flushes
  <2> HIDE DEF p
  <2>. QED
    BY <1>1, <2>1, <2>3
<1>3. ASSUME NEW t \in Tabs, FlushNext(t)
      PROVE  FlushType'
  <2>1. flush[t] \in Flushes
    BY <1>0 DEF FlushType
  <2>2. PICK e \in flush[t].todo :
           \/ flush' = [flush EXCEPT ![t].todo = @ \ {e}]
           \/ flush' = [flush EXCEPT ![t].todo = @ \ {e}, ![t].at = "wait", ![t].lid = e.lid,
                                     ![t].snap = e.copy.snap]
    BY <1>3 DEF FlushNext
  <2>3. e.lid \in Lids /\ e.copy.snap \in Snapshots
    BY <2>1 DEF Flushes, Copies
  <2> DEFINE p == [flush[t] EXCEPT !.todo = @ \ {e}]
             q == [flush[t] EXCEPT !.todo = @ \ {e}, !.at = "wait", !.lid = e.lid,
                                   !.snap = e.copy.snap]
  <2>4. p \in Flushes /\ q \in Flushes
    BY <2>1, <2>3 DEF Flushes
  <2>5. flush' = [flush EXCEPT ![t] = p] \/ flush' = [flush EXCEPT ![t] = q]
    BY <2>2
  <2> HIDE DEF p, q
  <2>. QED
    BY <1>1, <2>4, <2>5
<1>4. ASSUME NEW t \in Tabs, FlushReturn(t)
      PROVE  FlushType'
  <2> DEFINE todo == IF flush[t].answer.status = "lost" THEN {} ELSE flush[t].todo
             synced == IF flush[t].answer.status = "ok"
                       THEN flush[t].synced
                            \union {[lid |-> flush[t].lid, revision |-> flush[t].answer.revision]}
                       ELSE flush[t].synced
             p == [flush[t] EXCEPT !.at = "next", !.lid = 0, !.snap = Empty, !.answer = Lost,
                                   !.todo = todo, !.synced = synced]
  <2>1. flush[t] \in Flushes
    BY <1>0 DEF FlushType
  <2>2. flush' = [flush EXCEPT ![t] = p]
    BY <1>4 DEF FlushReturn
  <2>3. flush[t].lid \in Lids
    <3>1. flush[t].lid \in 1..lids /\ lids <= MaxLids
      BY <1>0, <1>4 DEF FlushReturn, Owned, Pushing, CountType
    <3>. QED
      BY <1>0, <3>1, Constants DEF Lids, CountType
  <2>4. todo \in SUBSET [lid : Lids, copy : Copies] /\ synced \in SUBSET [lid : Lids, revision : Revisions]
    BY <2>1, <2>3 DEF Flushes, Answers
  <2>5. p \in Flushes
    <3> HIDE DEF todo, synced
    <3>. QED
      BY <2>1, <2>4, EmptyTypes DEF Flushes
  <2> HIDE DEF p
  <2>. QED
    BY <1>1, <2>2, <2>5
<1>5. ASSUME NEW t \in Tabs, NEW a \in Answers, flush' = [flush EXCEPT ![t].at = "back", ![t].answer = a]
      PROVE  FlushType'
  <2> DEFINE p == [flush[t] EXCEPT !.at = "back", !.answer = a]
  <2>1. p \in Flushes
    BY <1>0 DEF FlushType, Flushes
  <2>2. flush' = [flush EXCEPT ![t] = p]
    BY <1>5
  <2> HIDE DEF p
  <2>. QED
    BY <1>1, <2>1, <2>2
<1>6. ASSUME NEW t \in Tabs, FlushArrives(t) \/ FlushLost(t)
      PROVE  FlushType'
  BY <1>0, <1>5, <1>6, RepliesType, EmptyTypes DEF FlushArrives, FlushLost
<1>7. ASSUME NEW t \in Tabs, Flushed(t)
      PROVE  FlushType'
  BY <1>1, <1>7, IdleTypes DEF Flushed
<1>8. CASE UNCHANGED flush
  BY <1>0, <1>8 DEF FlushType
<1>. QED
  BY <1>2, <1>3, <1>4, <1>6, <1>7, <1>8, FlushChanges

LEMMA UploadChanges ==
    ASSUME [Next]_vars
    PROVE  \/ UNCHANGED upload
           \/ \E t \in Tabs, f \in Files : Upload(t, f) \/ Remove(t, f)
           \/ \E f \in Files : UploadAgain(f) \/ Erase(f)
<1>1. ASSUME NEW t \in Tabs, Window(t)
      PROVE  \/ UNCHANGED upload
             \/ \E f \in Files : Upload(t, f) \/ Remove(t, f)
  BY <1>1 DEF Window, Edit, Leave, OpenDraft, Compare, UseSaved, KeepMine, LearnSent, DeleteDraft,
      Restore, SaveBegin, FlushBegin, SaveOk, SaveFails, SendOk, SendFails, FlushNext, FlushReturn,
      FlushEnd
<1>2. ASSUME Server
      PROVE  \/ UNCHANGED upload
             \/ \E f \in Files : UploadAgain(f) \/ Erase(f)
  BY <1>2 DEF Server, SaveArrives, FlushArrives, SendArrives, LateArrives
<1>3. ASSUME NEW t \in Tabs, RequestLost(t) \/ FlushLost(t) \/ SendDies(t) \/ Kill(t)
      PROVE  UNCHANGED upload
  BY <1>3 DEF RequestLost, FlushLost, SendDies, Kill
<1>4. CASE UNCHANGED vars
  BY <1>4 DEF vars, clientVars
<1>. QED
  BY <1>1, <1>2, <1>3, <1>4 DEF Next, Faults

\* Files are at work for the window that asked.
LEMMA UploadTypeKept == ASSUME TypeOK, Attached, [Next]_vars PROVE UploadType' /\ Attached'
<1>0. UploadType /\ ComposerType
  BY TypeParts
<1>1. ASSUME NEW t \in Tabs, NEW f \in Files, Upload(t, f) \/ Remove(t, f)
      PROVE  UploadType' /\ Attached'
  <2>1. Open(t) /\ composer[t].lid \in Lids
    BY <1>0, <1>1, OpenType DEF Upload, Remove, Writable
  <2>. QED
    BY <1>0, <1>1, <2>1 DEF Upload, Remove, By, Settles, UploadType, Attached
<1>2. ASSUME NEW f \in Files, UploadAgain(f) \/ Erase(f)
      PROVE  UploadType' /\ Attached'
  BY <1>0, <1>2 DEF UploadAgain, Erase, Settles, UploadType, Attached
<1>3. CASE UNCHANGED upload
  BY <1>0, <1>3 DEF UploadType, Attached
<1>. QED
  BY <1>1, <1>2, <1>3, UploadChanges

LEMMA LateTypeKept == ASSUME TypeOK, [Next]_vars PROVE LateType'
<1>0. LateType /\ RequestType /\ FlushType
  BY TypeParts
<1>1. ASSUME NEW t \in Tabs
      PROVE  /\ Outstanding(t) \subseteq [kind : {"save", "send"}, snap : Snapshots]
             /\ AwaitedFlush(t) \subseteq [kind : {"save", "send"}, snap : Snapshots]
  <2>1. request[t] \in Requests /\ flush[t] \in Flushes
    BY <1>0 DEF RequestType, FlushType
  <2>. QED
    BY <2>1 DEF Outstanding, AwaitedFlush, Requests, Flushes
<1>2. ASSUME NEW t \in Tabs, RequestLost(t) \/ FlushLost(t) \/ Kill(t)
      PROVE  LateType'
  BY <1>0, <1>1, <1>2 DEF RequestLost, FlushLost, Kill, LateType
<1>3. CASE LateArrives
  BY <1>0, <1>3 DEF LateArrives, LateType
<1>4. CASE UNCHANGED late
  BY <1>0, <1>4 DEF LateType
<1>. QED
  BY <1>2, <1>3, <1>4, LateChanges

LEMMA SendingChanges ==
    ASSUME [Next]_vars
    PROVE  \/ sending' \in {sending, NoTab}
           \/ \E t \in Tabs : Sends(t) /\ SendBegin(t, request[t].snap) /\ UNCHANGED request
<1>1. ASSUME NEW s, NEW a, Save(s, a)
      PROVE  sending' = sending
  BY <1>1, SaveDoes DEF Creates, Updates, storeVars
<1>2. ASSUME NEW t \in Tabs, SaveArrives(t) \/ FlushArrives(t)
      PROVE  sending' = sending
  BY <1>1, <1>2 DEF SaveArrives, FlushArrives
<1>3. ASSUME NEW t \in Tabs, SendArrives(t)
      PROVE  \/ sending' \in {sending, NoTab}
             \/ Sends(t) /\ SendBegin(t, request[t].snap) /\ UNCHANGED request
  BY <1>3 DEF SendArrives, SendAnswer, SendCommit, storeVars
<1>4. ASSUME LateArrives
      PROVE  sending' = sending
  BY <1>1, <1>4 DEF LateArrives, SendWhole, SendAnswer, storeVars
<1>5. ASSUME NEW t \in Tabs, SendDies(t) \/ DeleteDraft(t)
      PROVE  sending' \in {sending, NoTab}
  BY <1>5 DEF SendDies, Rollback, DeleteDraft, Delete
<1>6. ASSUME NEW t \in Tabs, NEW f \in Files, Upload(t, f) \/ Remove(t, f)
      PROVE  sending' = sending
  BY <1>6 DEF Upload, CreateAttachment, Remove, RemoveRow
<1>7. ASSUME NEW f \in Files, Erase(f)
      PROVE  sending' = sending
  BY <1>7 DEF Erase, RemoveBlob
<1>8. CASE UNCHANGED storeVars
  BY <1>8 DEF storeVars
<1>. QED
  BY <1>2, <1>3, <1>4, <1>5, <1>6, <1>7, <1>8, StoreChanges

\* While a send holds the draft, its window waits for it.
LEMMA SendingHolds ==
    ASSUME TypeOK, [Next]_vars, NEW t \in Tabs, sending = t, sending' = t
    PROVE  request'[t] = request[t]
<1>0. SendingType /\ RequestType /\ StoreType
  BY TypeParts
<1>1. request[t].at = "wait" /\ request[t].kind = "send"
  BY <1>0 DEF SendingType, Sends
<1>2. /\ ~SaveOk(t) /\ ~Ended(t) /\ ~SaveArrives(t) /\ ~RequestLost(t)
      /\ \A b \in BOOLEAN : ~Begun(t, b)
  BY <1>1 DEF SaveOk, Ended, SaveArrives, Saving, RequestLost, Begun, Begins
<1>3. ~SendDies(t)
  BY Constants DEF SendDies, Rollback
<1>4. ASSUME SendArrives(t)
      PROVE  UNCHANGED request
  BY <1>4, Constants DEF SendArrives, SendAnswer, SendCommit, Unlocked
<1>5. ASSUME NEW u \in Tabs, u # t, NEW q, request' = [request EXCEPT ![u] = q]
      PROVE  request'[t] = request[t]
  BY <1>0, <1>5 DEF RequestType
<1>6. ASSUME NEW u \in Tabs, u # t,
             SaveOk(u) \/ Ended(u) \/ SaveArrives(u) \/ SendArrives(u) \/ RequestLost(u)
             \/ SendDies(u) \/ \E b \in BOOLEAN : Begun(u, b)
      PROVE  request'[t] = request[t]
  BY <1>0, <1>5, <1>6
  DEF SaveOk, Submit, Ended, Done, SaveArrives, SendArrives, RequestLost, SendDies, Answered,
      Begun, Begins, RequestType
<1>. QED
  BY <1>2, <1>3, <1>4, <1>6, RequestChanges

LEMMA SendingTypeKept == ASSUME TypeOK, [Next]_vars PROVE SendingType'
<1>0. SendingType
  BY TypeParts
<1>. SUFFICES ASSUME NEW t \in Tabs, sending' = t
              PROVE  Sends(t)'
  BY DEF SendingType
<1>1. CASE sending # t
  BY <1>1, SendingChanges, Constants DEF SendBegin, Sends
<1>2. CASE sending = t
  BY <1>0, <1>2, SendingHolds DEF SendingType, Sends
<1>. QED
  BY <1>1, <1>2

LEMMA TypeKept == ASSUME TypeOK, Attached, Owned, [Next]_vars PROVE TypeOK' /\ Attached'
BY StoreTypeKept, ComposerTypeKept, LoadedTypeKept, RequestTypeKept, SendingTypeKept, FlushTypeKept,
   UploadTypeKept, CopyTypeKept, LateTypeKept, CountTypeKept, TypeParts
DEF StoreType, ComposerType, LoadedType, RequestType, SendingType, FlushType, UploadType, CopyType,
    LateType, CountType, TypeOK

---------------------------------------------------------------------------
(* What becomes of the draft. *)

\* The sends that may still reach the API.
Sendable ==
    {request[t].snap : t \in {u \in Tabs : Active(u) /\ request[u].kind = "send"}}
    \union {q.snap : q \in {r \in late : r.kind = "send"}}

\* A send completes the draft as it is.
Completes(s) ==
    /\ state = "open" /\ revision = s.revision
    /\ Complete(s) /\ UNCHANGED <<body, mutation, created>>

draft == <<state, body, revision, mutation, created, accepted, onJob>>

LEMMA StoreBecomes ==
    ASSUME TypeOK, Stored, [Next]_vars
    PROVE  \/ UNCHANGED draft
           \/ \E s \in Live : Creates(s) \/ Updates(s)
           \/ \E s \in Sendable : Completes(s)
           \/ \E t \in Tabs : DeleteDraft(t)
<1>1. ASSUME NEW s, NEW a, Save(s, a)
      PROVE  UNCHANGED draft \/ Creates(s) \/ Updates(s)
  BY <1>1, SaveDoes DEF draft, storeVars
<1>2. ASSUME NEW t \in Tabs, SaveArrives(t)
      PROVE  UNCHANGED draft \/ \E s \in Live : Creates(s) \/ Updates(s)
  <2>1. request[t].snap \in Live
    BY <1>2 DEF SaveArrives, Saving, Live, Active
  <2>. QED
    BY <1>1, <1>2, <2>1 DEF SaveArrives
<1>3. ASSUME NEW t \in Tabs, FlushArrives(t)
      PROVE  UNCHANGED draft \/ \E s \in Live : Creates(s) \/ Updates(s)
  <2>1. flush[t].snap \in Live
    BY <1>3 DEF FlushArrives, Live, Pushing
  <2>. QED
    BY <1>1, <1>3, <2>1 DEF FlushArrives
<1>4. ASSUME NEW t \in Tabs, SendArrives(t)
      PROVE  UNCHANGED draft \/ \E s \in Sendable : Completes(s)
  <2>1. request[t].snap \in Sendable
    BY <1>4 DEF SendArrives, Sends, Sendable, Active
  <2>2. ASSUME NEW a, SendCommit(t, request[t].snap, a)
        PROVE  UNCHANGED draft \/ Completes(request[t].snap)
    <3>1. revision = request[t].snap.revision => state = "open"
      BY <2>2 DEF SendCommit, Stored
    <3>. QED
      BY <2>2, <3>1 DEF SendCommit, Completes, draft
  <2>. QED
    BY <1>4, <2>1, <2>2 DEF SendArrives, SendBegin, SendAnswer, storeVars, draft
<1>5. ASSUME LateArrives
      PROVE  \/ UNCHANGED draft
             \/ \E s \in Live : Creates(s) \/ Updates(s)
             \/ \E s \in Sendable : Completes(s)
  <2>1. PICK q \in late : \/ q.kind = "save" /\ \E a \in Replies : Save(q.snap, a)
                          \/ q.kind = "send" /\ SendWhole(q.snap)
                          \/ \E a \in Replies : SendAnswer(q.snap, a)
    BY <1>5 DEF LateArrives
  <2>2. CASE q.kind = "save" /\ \E a \in Replies : Save(q.snap, a)
    <3>1. q.snap \in Live
      BY <2>2 DEF Live
    <3>. QED
      BY <1>1, <2>2, <3>1
  <2>3. CASE q.kind = "send" /\ SendWhole(q.snap)
    <3>1. q.snap \in Sendable
      BY <2>3 DEF Sendable
    <3>. QED
      BY <2>3, <3>1 DEF SendWhole, SendChecks, Completes
  <2>4. CASE \E a \in Replies : SendAnswer(q.snap, a)
    BY <2>4 DEF SendAnswer, storeVars, draft
  <2>. QED
    BY <2>1, <2>2, <2>3, <2>4
<1>6. ASSUME NEW t \in Tabs, SendDies(t)
      PROVE  UNCHANGED draft
  BY <1>6 DEF SendDies, Rollback, draft
<1>7. ASSUME NEW t \in Tabs, NEW f \in Files, Upload(t, f) \/ Remove(t, f)
      PROVE  UNCHANGED draft
  BY <1>7 DEF Upload, CreateAttachment, Remove, RemoveRow, draft
<1>8. ASSUME NEW f \in Files, Erase(f)
      PROVE  UNCHANGED draft
  BY <1>8 DEF Erase, RemoveBlob, draft
<1>9. CASE UNCHANGED storeVars
  BY <1>9 DEF storeVars, draft
<1>. QED
  BY <1>2, <1>3, <1>4, <1>5, <1>6, <1>7, <1>8, <1>9, StoreChanges

\* Whatever changes the draft counts a revision, and only what is open or new is changed.
LEMMA RevisionMoves ==
    ASSUME TypeOK, Stored, [Next]_vars
    PROVE  \/ UNCHANGED draft
           \/ revision' = revision + 1 /\ state \in {"none", "open"} /\ state' # "none"
<1>1. ASSUME NEW s, Creates(s)
      PROVE  revision' = revision + 1 /\ state = "none" /\ state' = "open"
  BY <1>1 DEF Creates, Stored
<1>2. ASSUME NEW s, Updates(s)
      PROVE  revision' = revision + 1 /\ state = "open" /\ state' = "open"
  BY <1>2 DEF Updates
<1>3. ASSUME NEW s, Completes(s)
      PROVE  revision' = revision + 1 /\ state = "open" /\ state' = "sent"
  BY <1>3 DEF Completes, Complete
<1>4. ASSUME NEW t \in Tabs, DeleteDraft(t)
      PROVE  revision' = revision + 1 /\ state = "open" /\ state' = "deleted"
  BY <1>4 DEF DeleteDraft, Delete
<1>. QED
  BY <1>1, <1>2, <1>3, <1>4, StoreBecomes

LEMMA BasedStays ==
    ASSUME TypeOK, Stored, [Next]_vars, NEW r \in Revisions, NEW T
    PROVE  /\ Based(r, T) => Based(r, T)'
           /\ Reads(r, T) => Reads(r, T)'
<1>1. dropped \subseteq dropped' /\ revision \in Nat
  BY HistoryKept DEF TypeOK, StoreType, Revisions
<1>. QED
  BY <1>1, RevisionMoves DEF Based, Reads, Revisions, draft

LEMMA StoredKept == ASSUME TypeOK, Stored, [Next]_vars PROVE Stored'
<1>0. StoreType /\ RequestType
  BY TypeParts
<1>1. /\ state' = "none" => body' = {} /\ revision' = 0 /\ mutation' = 0
      /\ state' # "none" => revision' > 0
      /\ revision' = 1 => body' = created'
      /\ state' # "sent" => accepted' = {} /\ onJob' = {}
  <2>1. ASSUME NEW s, Creates(s)
        PROVE  /\ state' = "open" /\ revision' > 0 /\ body' = created'
               /\ accepted' = {} /\ onJob' = {}
    BY <2>1 DEF Creates, Stored
  <2>2. ASSUME NEW s, Updates(s)
        PROVE  state' = "open" /\ revision' > 1 /\ accepted' = {} /\ onJob' = {}
    BY <1>0, <2>2 DEF Updates, Stored, StoreType, Revisions
  <2>3. ASSUME NEW s, Completes(s)
        PROVE  state' = "sent" /\ revision' > 1
    BY <1>0, <2>3 DEF Completes, Complete, Stored, StoreType, Revisions
  <2>4. ASSUME NEW t \in Tabs, DeleteDraft(t)
        PROVE  state' = "deleted" /\ revision' > 1 /\ accepted' = {} /\ onJob' = {}
    BY <1>0, <2>4 DEF DeleteDraft, Delete, Stored, StoreType, Revisions
  <2>5. CASE UNCHANGED draft
    <3>1. /\ state' = state /\ body' = body /\ revision' = revision /\ mutation' = mutation
          /\ created' = created /\ accepted' = accepted /\ onJob' = onJob
      BY <2>5 DEF draft
    <3>. QED
      BY <3>1 DEF Stored
  <2>6. revision' \in Nat
    BY StoreTypeKept DEF StoreType, Revisions
  <2>. QED
    BY <2>1, <2>2, <2>3, <2>4, <2>5, <2>6, StoreBecomes
<1>2. ASSUME NEW t \in Tabs, sending' = t
      PROVE  /\ request'[t].snap.revision <= revision'
             /\ request'[t].snap.revision = revision' => state' = "open"
  <2>1. CASE sending # t
    <3>1. SendBegin(t, request[t].snap) /\ UNCHANGED request
      BY <1>2, <2>1, SendingChanges, Constants DEF SendBegin
    <3>. QED
      BY <1>0, <3>1 DEF SendBegin, SendChecks, StoreType, Revisions
  <2>2. CASE sending = t
    <3>1. request'[t] = request[t]
      BY <1>2, <2>2, SendingHolds
    <3>2. /\ request[t].snap.revision <= revision
          /\ request[t].snap.revision = revision => state = "open"
      BY <2>2 DEF Stored
    <3>3. request[t].snap.revision \in Nat /\ revision \in Nat
      BY <1>0 DEF RequestType, Requests, Snapshots, StoreType, Revisions
    <3>. QED
      BY <3>1, <3>2, <3>3, RevisionMoves DEF draft
  <2>. QED
    BY <2>1, <2>2
<1>. QED
  BY <1>1, <1>2 DEF Stored

LEMMA SavedKept == ASSUME TypeOK, Stored, SentAsSaved, Sent, [Next]_vars PROVE SentAsSaved'
<1>1. ASSUME NEW s \in Sendable, Completes(s)
      PROVE  accepted' = body'
  <2>1. Reads(s.revision, s.text)
    BY DEF Sendable, Sent
  <2>. QED
    BY <1>1, <2>1 DEF Completes, Complete, Reads
<1>2. ASSUME UNCHANGED draft \/ (\E s \in Live : Creates(s) \/ Updates(s))
             \/ (\E t \in Tabs : DeleteDraft(t))
      PROVE  SentAsSaved'
  BY <1>2 DEF draft, Creates, Updates, DeleteDraft, Delete, SentAsSaved
<1>. QED
  BY <1>1, <1>2, StoreBecomes DEF SentAsSaved

---------------------------------------------------------------------------
(* What becomes of the windows, their requests, their passes and the device copies. *)

\* A window shows something else than before.
Opens(t) == OpenDraft(t) \/ UseSaved(t) \/ KeepMine(t) \/ \E l \in Lids : Restore(t, l)

\* It shows it under a localId of its own.
LEMMA OpensNew ==
    ASSUME TypeOK, NEW t \in Tabs, Opens(t)
    PROVE  /\ lids' = lids + 1 /\ lids + 1 \in Lids
           /\ composer'[t].lid = lids + 1
           /\ \A u \in Tabs \ {t} : composer'[u] = composer[u]
           /\ UNCHANGED <<storeVars, request, flush, late, saves, edits>>
<1>0. ComposerType /\ CountType
  BY TypeParts
<1>1. lids + 1 \in Lids /\ lids' = lids + 1
  <2>1. lids < MaxLids /\ lids' = lids + 1
    BY DEF Opens, OpenDraft, UseSaved, KeepMine, Restore, NewLid
  <2>2. lids \in Nat
    BY <1>0, Constants DEF CountType
  <2>. QED
    BY <2>1, <2>2, Constants DEF Lids
<1>2. ASSUME NEW text, NEW files, NEW known, NEW r, NEW told,
             composer' = [composer EXCEPT ![t] = Fresh(lids + 1, text, files, known, r, told)]
      PROVE  composer'[t].lid = lids + 1 /\ \A u \in Tabs \ {t} : composer'[u] = composer[u]
  BY <1>0, <1>2 DEF ComposerType, Fresh
<1>4. composer'[t].lid = lids + 1 /\ \A u \in Tabs \ {t} : composer'[u] = composer[u]
  BY <1>2 DEF Opens, OpenDraft, UseSaved, KeepMine, Restore, Apply, Show
<1>3. UNCHANGED <<storeVars, request, flush, late, saves, edits>>
  BY DEF Opens, OpenDraft, UseSaved, KeepMine, Restore
<1>. QED
  BY <1>1, <1>3, <1>4

LEMMA OthersStay ==
    ASSUME TypeOK, NEW t \in Tabs, NEW u \in Tabs, u # t,
           \/ Edit(u) \/ Leave(u) \/ Opens(u) \/ LearnSent(u) \/ DeleteDraft(u) \/ SaveOk(u)
           \/ SaveFails(u) \/ SendOk(u) \/ SendFails(u) \/ FlushReturn(u) \/ FlushEnd(u) \/ Kill(u)
           \/ \E f \in Files : Upload(u, f)
    PROVE  composer'[t] = composer[t]
<1>0. ComposerType
  BY TypeParts
<1>1. ASSUME Edit(u) \/ Leave(u) \/ LearnSent(u) \/ DeleteDraft(u) \/ SendOk(u) \/ Kill(u)
      PROVE  composer'[t] = composer[t]
  BY <1>0, <1>1 DEF Edit, Leave, LearnSent, DeleteDraft, SendOk, Kill, Show, ComposerType
<1>2. ASSUME SaveOk(u) \/ SaveFails(u) \/ SendFails(u)
      PROVE  composer'[t] = composer[t]
  BY <1>0, <1>2 DEF SaveOk, SaveFails, SendFails, ComposerType
<1>3. ASSUME FlushReturn(u) \/ FlushEnd(u)
      PROVE  composer'[t] = composer[t]
  BY <1>0, <1>3 DEF FlushReturn, FlushEnd, ComposerType
<1>4. ASSUME NEW f \in Files, Upload(u, f)
      PROVE  composer'[t] = composer[t]
  BY <1>0, <1>4 DEF Upload, Joins, ComposerType
<1>. QED
  BY <1>1, <1>2, <1>3, <1>4, OpensNew


\* What a window shows goes on, is edited, learns what the server has of it, or is new.
LEMMA ComposerBecomes ==
    ASSUME TypeOK, [Next]_vars, NEW t \in Tabs, Open(t)'
    PROVE  \/ /\ Open(t)
              /\ composer'[t].lid = composer[t].lid /\ composer'[t].text = composer[t].text
              /\ \/ /\ composer'[t].known = composer[t].known
                    /\ composer'[t].revision = composer[t].revision
                 \/ /\ SaveOk(t) /\ Shows(t, request[t].lid)
                    /\ composer'[t].known = TRUE /\ composer'[t].revision = request[t].answer.revision
                 \/ \E e \in flush[t].synced :
                       /\ Shows(t, e.lid)
                       /\ composer'[t].known = TRUE /\ composer'[t].revision = e.revision
           \/ Edit(t)
           \/ Opens(t)
<1>0. ComposerType
  BY TypeParts
<1> DEFINE Same == /\ Open(t)
                   /\ composer'[t].lid = composer[t].lid /\ composer'[t].text = composer[t].text
                   /\ composer'[t].known = composer[t].known
                   /\ composer'[t].revision = composer[t].revision
<1>1. ASSUME composer'[t] = composer[t]
      PROVE  Same
  BY <1>1 DEF Open
<1>2. ASSUME NEW c, composer' = [composer EXCEPT ![t] = c]
      PROVE  composer'[t] = c
  BY <1>0, <1>2 DEF ComposerType
<1>3. Open(t) => composer[t] \in Composers
  BY <1>0, OpenType
<1>4. ASSUME Leave(t) \/ Kill(t)
      PROVE  FALSE
  BY <1>2, <1>4 DEF Leave, Kill, Show, Open
<1>5. ASSUME DeleteDraft(t) \/ SendOk(t)
      PROVE  Same
  <2>1. UNCHANGED composer \/ composer' = [composer EXCEPT ![t] = Closed]
    BY <1>5 DEF DeleteDraft, SendOk, Show
  <2>. QED
    BY <1>1, <1>2, <2>1 DEF Open
<1>6. ASSUME SaveOk(t), composer'[t] # composer[t]
      PROVE  /\ Shows(t, request[t].lid)
             /\ composer'[t].lid = composer[t].lid /\ composer'[t].text = composer[t].text
             /\ composer'[t].known = TRUE /\ composer'[t].revision = request[t].answer.revision
  <2> DEFINE c == [composer[t] EXCEPT !.known = TRUE, !.revision = request[t].answer.revision,
                                      !.conflict = FALSE]
  <2>1. composer' = [composer EXCEPT ![t] = c] /\ Shows(t, request[t].lid)
    BY <1>6 DEF SaveOk
  <2>2. composer'[t] = c
    BY <1>2, <2>1
  <2>3. composer[t] \in Composers
    BY <1>3, <2>1 DEF Shows
  <2>4. composer'[t].lid = composer[t].lid /\ composer'[t].text = composer[t].text
    BY <2>2, <2>3 DEF Composers
  <2>5. composer'[t].known = TRUE
    BY <2>2, <2>3 DEF Composers
  <2>6. composer'[t].revision = request[t].answer.revision
    BY <2>2, <2>3 DEF Composers
  <2>. QED
    BY <2>1, <2>4, <2>5, <2>6
<1>7. ASSUME SaveFails(t) \/ SendFails(t) \/ LearnSent(t), composer'[t] # composer[t]
      PROVE  Same
  <2>1. Open(t)
    BY <1>7 DEF SaveFails, SendFails, LearnSent, Chooses, Writable, Shows
  <2>2. CASE SaveFails(t)
    <3> DEFINE c == [composer[t] EXCEPT
                        !.conflict = @ \/ request[t].answer.status = "conflict",
                        !.told = request[t].submits /\ composer[t].known /\ state = "sent"]
    <3>1. composer' = [composer EXCEPT ![t] = c]
      BY <1>7, <2>2 DEF SaveFails
    <3>2. composer'[t] = c
      BY <1>2, <3>1
    <3>. QED
      BY <1>3, <2>1, <3>2 DEF Composers
  <2>3. CASE SendFails(t)
    <3> DEFINE c == [composer[t] EXCEPT !.told = state = "sent"]
    <3>1. composer' = [composer EXCEPT ![t] = c]
      BY <1>7, <2>3 DEF SendFails
    <3>2. composer'[t] = c
      BY <1>2, <3>1
    <3>. QED
      BY <1>3, <2>1, <3>2 DEF Composers
  <2>4. CASE LearnSent(t)
    <3> DEFINE c == [composer[t] EXCEPT !.told = TRUE]
    <3>1. composer' = [composer EXCEPT ![t] = c]
      BY <2>4 DEF LearnSent
    <3>2. composer'[t] = c
      BY <1>2, <3>1
    <3>. QED
      BY <1>3, <2>1, <3>2 DEF Composers
  <2>. QED
    BY <1>7, <2>2, <2>3, <2>4
<1>8. ASSUME FlushReturn(t)
      PROVE  Same
  <2>1. CASE composer'[t] # composer[t]
    <3>1. Open(t) /\ composer' = [composer EXCEPT ![t] = [composer[t] EXCEPT !.conflict = TRUE]]
      BY <1>8, <2>1 DEF FlushReturn, Shows
    <3>2. composer'[t] = [composer[t] EXCEPT !.conflict = TRUE]
      BY <1>2, <3>1
    <3>. QED
      BY <1>3, <3>1, <3>2 DEF Composers
  <2>. QED
    BY <1>1, <2>1
<1>9. ASSUME FlushEnd(t), composer'[t] # composer[t]
      PROVE  \E e \in flush[t].synced :
                /\ Shows(t, e.lid)
                /\ composer'[t].lid = composer[t].lid /\ composer'[t].text = composer[t].text
                /\ composer'[t].known = TRUE /\ composer'[t].revision = e.revision
  <2>1. PICK e \in flush[t].synced :
           /\ Shows(t, e.lid)
           /\ composer' = [composer EXCEPT ![t] = [composer[t] EXCEPT !.known = TRUE,
                                                                      !.revision = e.revision]]
    BY <1>9 DEF FlushEnd
  <2>2. composer'[t] = [composer[t] EXCEPT !.known = TRUE, !.revision = e.revision]
    BY <1>2, <2>1
  <2>3. composer[t] \in Composers
    BY <1>3, <2>1 DEF Shows
  <2>4. composer'[t].lid = composer[t].lid /\ composer'[t].text = composer[t].text
    BY <2>2, <2>3 DEF Composers
  <2>5. composer'[t].known = TRUE
    BY <2>2, <2>3 DEF Composers
  <2>6. composer'[t].revision = e.revision
    BY <2>2, <2>3 DEF Composers
  <2>. QED
    BY <2>1, <2>4, <2>5, <2>6
<1>10. ASSUME NEW u, NEW l, NEW f \in Files, Joins(u, l, f)
       PROVE  Same
  <2>1. CASE composer'[t] # composer[t]
    <3>1. Open(t) /\ composer' = [composer EXCEPT ![t] = [composer[t] EXCEPT !.files = @ \union {f}]]
      BY <1>0, <1>10, <2>1 DEF Joins, Shows, ComposerType
    <3>2. composer'[t] = [composer[t] EXCEPT !.files = @ \union {f}]
      BY <1>2, <3>1
    <3>. QED
      BY <1>3, <3>1, <3>2 DEF Composers
  <2>. QED
    BY <1>1, <2>1
<1>11. ASSUME NEW f \in Files, Erase(f)
       PROVE  Same
  <2>1. CASE composer'[t] # composer[t]
    <3>1. Open(t) /\ composer' = [composer EXCEPT ![t] = [composer[t] EXCEPT !.files = @ \ {f}]]
      BY <1>0, <1>11, <2>1 DEF Erase, ComposerType
    <3>2. composer'[t] = [composer[t] EXCEPT !.files = @ \ {f}]
      BY <1>2, <3>1
    <3>. QED
      BY <1>3, <3>1, <3>2 DEF Composers
  <2>. QED
    BY <1>1, <2>1
<1>12. ASSUME NEW f \in Files, Upload(t, f) \/ UploadAgain(f)
       PROVE  Same
  BY <1>1, <1>10, <1>12 DEF Upload, UploadAgain
<1>13. ASSUME NEW u \in Tabs, u # t,
              \/ Edit(u) \/ Leave(u) \/ Opens(u) \/ LearnSent(u) \/ DeleteDraft(u) \/ SaveOk(u)
              \/ SaveFails(u) \/ SendOk(u) \/ SendFails(u) \/ FlushReturn(u) \/ FlushEnd(u) \/ Kill(u)
              \/ \E f \in Files : Upload(u, f)
       PROVE  Same
  BY <1>1, <1>13, OthersStay
<1>14. ASSUME composer' = composer
       PROVE  Same
  BY <1>1, <1>14
<1>15. ASSUME SaveOk(t) \/ SaveFails(t) \/ SendFails(t) \/ LearnSent(t) \/ FlushEnd(t),
              composer'[t] = composer[t]
       PROVE  Same
  BY <1>1, <1>15
<1> HIDE DEF Same
<1>16. ASSUME NEW u \in Tabs,
              \/ Edit(u) \/ Leave(u) \/ OpenDraft(u) \/ UseSaved(u) \/ KeepMine(u)
              \/ LearnSent(u) \/ DeleteDraft(u) \/ SaveOk(u) \/ SaveFails(u) \/ SendOk(u)
              \/ SendFails(u) \/ FlushReturn(u) \/ FlushEnd(u) \/ Kill(u)
              \/ \E l \in Lids : Restore(u, l)
              \/ \E f \in Files : Upload(u, f)
       PROVE  \/ Same \/ Edit(t) \/ Opens(t)
              \/ SaveOk(t) /\ composer'[t] # composer[t]
              \/ FlushEnd(t) /\ composer'[t] # composer[t]
  <2>1. CASE u # t
    BY <1>13, <1>16, <2>1 DEF Opens
  <2>2. CASE u = t
    BY <1>4, <1>5, <1>7, <1>8, <1>12, <1>15, <1>16, <2>2 DEF Opens
  <2>. QED
    BY <2>1, <2>2
<1>17. \/ Same \/ Edit(t) \/ Opens(t)
       \/ SaveOk(t) /\ composer'[t] # composer[t]
       \/ FlushEnd(t) /\ composer'[t] # composer[t]
  <2>1. CASE \E u \in Tabs :
              \/ Edit(u) \/ Leave(u) \/ OpenDraft(u) \/ UseSaved(u) \/ KeepMine(u)
              \/ LearnSent(u) \/ DeleteDraft(u) \/ SaveOk(u) \/ SaveFails(u) \/ SendOk(u)
              \/ SendFails(u) \/ FlushReturn(u) \/ FlushEnd(u) \/ Kill(u)
              \/ \E l \in Lids : Restore(u, l)
              \/ \E f \in Files : Upload(u, f)
    BY <1>16, <2>1
  <2>2. CASE \E f \in Files : UploadAgain(f) \/ Erase(f)
    BY <1>11, <1>12, <2>2
  <2>3. CASE UNCHANGED composer
    BY <1>14, <2>3
  <2>. QED
    BY <2>1, <2>2, <2>3, ComposerChanges
<1>18. Same => /\ Open(t)
               /\ composer'[t].lid = composer[t].lid /\ composer'[t].text = composer[t].text
               /\ composer'[t].known = composer[t].known
               /\ composer'[t].revision = composer[t].revision
  BY DEF Same
<1>. QED
  BY <1>6, <1>9, <1>17, <1>18 DEF Shows

\* A request stays, ends, begins, goes on from a save to the send, or is answered.
LEMMA RequestBecomes ==
    ASSUME TypeOK, [Next]_vars, NEW t \in Tabs
    PROVE  \/ request'[t] = request[t]
           \/ request'[t] = NoRequest
           \/ \E b \in BOOLEAN :
                 /\ Begun(t, b) /\ request[t].at = "idle"
                 /\ request'[t].at = "wait" /\ request'[t].kind = "save"
                 /\ request'[t].submits = b /\ request'[t].lid = composer[t].lid
                 /\ request'[t].snap = Snapshot(composer[t], saves + 1)
           \/ /\ SaveOk(t) /\ request[t].submits
              /\ request'[t].at = "wait" /\ request'[t].kind = "send"
              /\ request'[t].submits = TRUE /\ request'[t].lid = request[t].lid
              /\ request'[t].snap = [request[t].snap EXCEPT !.known = TRUE,
                                        !.revision = request[t].answer.revision]
           \/ \E a \in Answers :
                 /\ request[t].at = "wait" /\ request'[t].at = "back" /\ request'[t].answer = a
                 /\ request'[t].kind = request[t].kind /\ request'[t].submits = request[t].submits
                 /\ request'[t].lid = request[t].lid /\ request'[t].snap = request[t].snap
                 /\ \/ a = Lost
                    \/ request[t].kind = "save" /\ Save(request[t].snap, a)
                    \/ request[t].kind = "send" /\ SendAnswer(request[t].snap, a)
                    \/ request[t].kind = "send" /\ SendCommit(t, request[t].snap, a)
<1>0. RequestType /\ StoreType
  BY TypeParts
<1>1. ASSUME NEW u \in Tabs, u # t,
             SaveOk(u) \/ Ended(u) \/ SaveArrives(u) \/ SendArrives(u) \/ RequestLost(u)
             \/ SendDies(u) \/ \E b \in BOOLEAN : Begun(u, b)
      PROVE  request'[t] = request[t]
  BY <1>0, <1>1
  DEF SaveOk, Submit, Ended, Done, SaveArrives, SendArrives, RequestLost, SendDies, Answered,
      Begun, Begins, RequestType
<1>2. ASSUME Done(t)
      PROVE  request'[t] = NoRequest
  BY <1>0, <1>2 DEF Done, RequestType
<1>3. ASSUME NEW q, request' = [request EXCEPT ![t] = q]
      PROVE  request'[t] = q
  BY <1>0, <1>3 DEF RequestType
<1>4. ASSUME NEW b \in BOOLEAN, Begun(t, b)
      PROVE  /\ request[t].at = "idle"
             /\ request'[t].at = "wait" /\ request'[t].kind = "save"
             /\ request'[t].submits = b /\ request'[t].lid = composer[t].lid
             /\ request'[t].snap = Snapshot(composer[t], saves + 1)
  <2>1. request'[t] = [NoRequest EXCEPT !.at = "wait", !.lid = composer[t].lid, !.submits = b,
                                        !.snap = Snapshot(composer[t], saves + 1)]
    BY <1>3, <1>4 DEF Begun, Begins
  <2>. QED
    BY <1>4, <2>1 DEF Begun, Begins, NoRequest
<1>5. ASSUME SaveOk(t), request[t].submits
      PROVE  /\ request'[t].at = "wait" /\ request'[t].kind = "send"
             /\ request'[t].submits = TRUE /\ request'[t].lid = request[t].lid
             /\ request'[t].snap = [request[t].snap EXCEPT !.known = TRUE,
                                       !.revision = request[t].answer.revision]
  <2>1. Submit(t, request[t].snap, request[t].answer.revision)
    BY <1>5 DEF SaveOk
  <2>2. request'[t] = [NoRequest EXCEPT !.at = "wait", !.kind = "send", !.submits = TRUE,
                          !.lid = request[t].lid,
                          !.snap = [request[t].snap EXCEPT !.known = TRUE,
                                       !.revision = request[t].answer.revision]]
    BY <1>3, <2>1 DEF Submit
  <2>. QED
    BY <2>2 DEF NoRequest
<1>6. ASSUME NEW a, Answered(t, a)
      PROVE  /\ request'[t].at = "back" /\ request'[t].answer = a
             /\ request'[t].kind = request[t].kind /\ request'[t].submits = request[t].submits
             /\ request'[t].lid = request[t].lid /\ request'[t].snap = request[t].snap
  <2>1. request' = [request EXCEPT ![t] = [request[t] EXCEPT !.at = "back", !.answer = a]]
    BY <1>6 DEF Answered
  <2>2. request'[t] = [request[t] EXCEPT !.at = "back", !.answer = a]
    BY <1>3, <2>1
  <2>3. request[t] \in Requests
    BY <1>0 DEF RequestType
  <2>. QED
    BY <2>2, <2>3 DEF Requests
<1>7. ASSUME SaveArrives(t) \/ SendArrives(t) \/ RequestLost(t) \/ SendDies(t)
      PROVE  \/ request'[t] = request[t]
             \/ \E a \in Answers :
                   /\ request[t].at = "wait" /\ Answered(t, a)
                   /\ \/ a = Lost
                      \/ request[t].kind = "save" /\ Save(request[t].snap, a)
                      \/ request[t].kind = "send" /\ SendAnswer(request[t].snap, a)
                      \/ request[t].kind = "send" /\ SendCommit(t, request[t].snap, a)
  BY <1>0, <1>7, RepliesType, EmptyTypes
  DEF SaveArrives, Saving, SendArrives, Sends, RequestLost, SendDies
<1>8. ASSUME SaveOk(t)
      PROVE  request[t].submits \/ Done(t)
  BY <1>8 DEF SaveOk
<1>9. request'[t] = request[t] \/ SaveOk(t) \/ Ended(t) \/ SaveArrives(t) \/ SendArrives(t)
      \/ RequestLost(t) \/ SendDies(t) \/ \E b \in BOOLEAN : Begun(t, b)
  BY <1>1, RequestChanges
<1>. QED
  BY <1>2, <1>4, <1>5, <1>6, <1>7, <1>8, <1>9 DEF Ended

\* A pass stays, is over, begins, takes its next copy, is answered, or goes on.
LEMMA FlushBecomes ==
    ASSUME TypeOK, [Next]_vars, NEW t \in Tabs
    PROVE  \/ flush'[t] = flush[t]
           \/ flush'[t] = NoFlush
           \/ /\ flush'[t].at = "next" /\ flush'[t].synced = {}
              /\ \A e \in flush'[t].todo : e.lid \in Lids /\ copy[e.lid] # Absent /\ e.copy = copy[e.lid]
           \/ /\ flush[t].at = "next" /\ flush'[t].synced = flush[t].synced
              /\ \E e \in flush[t].todo :
                    /\ flush'[t].todo = flush[t].todo \ {e}
                    /\ \/ flush'[t].at = "next"
                       \/ flush'[t].at = "wait" /\ flush'[t].lid = e.lid /\ flush'[t].snap = e.copy.snap
           \/ /\ flush[t].at = "back" /\ flush'[t].at = "next" /\ flush'[t].todo \subseteq flush[t].todo
              /\ flush'[t].synced \subseteq flush[t].synced \union
                    {[lid |-> flush[t].lid, revision |-> flush[t].answer.revision]}
              /\ flush[t].answer.status # "ok" => flush'[t].synced = flush[t].synced
           \/ \E a \in Answers :
                 /\ flush[t].at = "wait" /\ flush'[t].at = "back" /\ flush'[t].answer = a
                 /\ flush'[t].lid = flush[t].lid /\ flush'[t].snap = flush[t].snap
                 /\ flush'[t].todo = flush[t].todo /\ flush'[t].synced = flush[t].synced
                 /\ a = Lost \/ Save(flush[t].snap, a)
<1>0. FlushType /\ StoreType
  BY TypeParts
<1>1. flush[t] \in Flushes
  BY <1>0 DEF FlushType
<1>2. ASSUME NEW u \in Tabs, u # t,
             FlushNext(u) \/ FlushReturn(u) \/ Flushed(u) \/ FlushArrives(u) \/ FlushLost(u)
             \/ \E b \in BOOLEAN : FlushBegin(u, b)
      PROVE  flush'[t] = flush[t]
  BY <1>0, <1>2 DEF FlushNext, FlushReturn, Flushed, FlushArrives, FlushLost, FlushBegin, FlushType
<1>3. ASSUME NEW p, flush' = [flush EXCEPT ![t] = p]
      PROVE  flush'[t] = p
  BY <1>0, <1>3 DEF FlushType
<1>4. ASSUME NEW b \in BOOLEAN, FlushBegin(t, b)
      PROVE  /\ flush'[t].at = "next" /\ flush'[t].synced = {}
             /\ \A e \in flush'[t].todo : e.lid \in Lids /\ copy[e.lid] # Absent /\ e.copy = copy[e.lid]
  <2> DEFINE todo == {[lid |-> l, copy |-> copy[l]] : l \in {k \in Lids : copy[k] # Absent}}
  <2>1. flush'[t] = [NoFlush EXCEPT !.at = "next", !.adopts = b, !.todo = todo]
    BY <1>3, <1>4 DEF FlushBegin
  <2>2. \A e \in todo : e.lid \in Lids /\ copy[e.lid] # Absent /\ e.copy = copy[e.lid]
    OBVIOUS
  <2> HIDE DEF todo
  <2>3. flush'[t].at = "next" /\ flush'[t].synced = {} /\ flush'[t].todo = todo
    BY <2>1 DEF NoFlush
  <2>. QED
    BY <2>2, <2>3
<1>5. ASSUME FlushNext(t)
      PROVE  /\ flush[t].at = "next" /\ flush'[t].synced = flush[t].synced
             /\ \E e \in flush[t].todo :
                   /\ flush'[t].todo = flush[t].todo \ {e}
                   /\ \/ flush'[t].at = "next"
                      \/ flush'[t].at = "wait" /\ flush'[t].lid = e.lid /\ flush'[t].snap = e.copy.snap
  <2>1. PICK e \in flush[t].todo :
           \/ flush' = [flush EXCEPT ![t].todo = @ \ {e}]
           \/ flush' = [flush EXCEPT ![t].todo = @ \ {e}, ![t].at = "wait", ![t].lid = e.lid,
                                     ![t].snap = e.copy.snap]
    BY <1>5 DEF FlushNext
  <2> DEFINE p == [flush[t] EXCEPT !.todo = @ \ {e}]
             q == [flush[t] EXCEPT !.todo = @ \ {e}, !.at = "wait", !.lid = e.lid,
                                   !.snap = e.copy.snap]
  <2>2. flush' = [flush EXCEPT ![t] = p] \/ flush' = [flush EXCEPT ![t] = q]
    BY <2>1
  <2>3. flush'[t] = p \/ flush'[t] = q
    <3> HIDE DEF p, q
    <3>. QED
      BY <1>3, <2>2
  <2>4. flush[t].at = "next"
    BY <1>5 DEF FlushNext
  <2>5. /\ flush'[t].synced = flush[t].synced /\ flush'[t].todo = flush[t].todo \ {e}
        /\ \/ flush'[t].at = "next"
           \/ flush'[t].at = "wait" /\ flush'[t].lid = e.lid /\ flush'[t].snap = e.copy.snap
    <3>1. CASE flush'[t] = p
      BY <1>1, <2>4, <3>1 DEF Flushes
    <3>2. CASE flush'[t] = q
      BY <1>1, <3>2 DEF Flushes
    <3>. QED
      BY <2>3, <3>1, <3>2
  <2> HIDE DEF p, q
  <2>. QED
    BY <2>4, <2>5
<1>6. ASSUME FlushReturn(t)
      PROVE  /\ flush[t].at = "back" /\ flush'[t].at = "next" /\ flush'[t].todo \subseteq flush[t].todo
             /\ flush'[t].synced \subseteq flush[t].synced \union
                   {[lid |-> flush[t].lid, revision |-> flush[t].answer.revision]}
             /\ flush[t].answer.status # "ok" => flush'[t].synced = flush[t].synced
  <2> DEFINE todo == IF flush[t].answer.status = "lost" THEN {} ELSE flush[t].todo
             synced == IF flush[t].answer.status = "ok"
                       THEN flush[t].synced
                            \union {[lid |-> flush[t].lid, revision |-> flush[t].answer.revision]}
                       ELSE flush[t].synced
             p == [flush[t] EXCEPT !.at = "next", !.lid = 0, !.snap = Empty, !.answer = Lost,
                                   !.todo = todo, !.synced = synced]
  <2>1. flush' = [flush EXCEPT ![t] = p]
    BY <1>6 DEF FlushReturn
  <2>2. flush'[t] = p
    <3> HIDE DEF p
    <3>. QED
      BY <1>3, <2>1
  <2>3. flush'[t].at = "next" /\ flush'[t].todo = todo /\ flush'[t].synced = synced
    <3> HIDE DEF todo, synced
    <3>. QED
      BY <1>1, <2>2 DEF Flushes
  <2>4. flush[t].at = "back"
    BY <1>6 DEF FlushReturn
  <2>5. todo \subseteq flush[t].todo
    OBVIOUS
  <2>6. CASE flush[t].answer.status = "ok"
    BY <2>3, <2>4, <2>5, <2>6
  <2>7. CASE flush[t].answer.status # "ok"
    BY <2>3, <2>4, <2>5, <2>7
  <2>. QED
    BY <2>6, <2>7
<1>7. ASSUME NEW a, flush' = [flush EXCEPT ![t].at = "back", ![t].answer = a]
      PROVE  /\ flush'[t].at = "back" /\ flush'[t].answer = a
             /\ flush'[t].lid = flush[t].lid /\ flush'[t].snap = flush[t].snap
             /\ flush'[t].todo = flush[t].todo /\ flush'[t].synced = flush[t].synced
  <2> DEFINE p == [flush[t] EXCEPT !.at = "back", !.answer = a]
  <2>1. flush' = [flush EXCEPT ![t] = p]
    BY <1>7
  <2>2. flush'[t] = p
    <3> HIDE DEF p
    <3>. QED
      BY <1>3, <2>1
  <2>. QED
    BY <1>1, <2>2 DEF Flushes
<1>8. ASSUME FlushArrives(t) \/ FlushLost(t)
      PROVE  \E a \in Answers :
                /\ flush[t].at = "wait" /\ flush' = [flush EXCEPT ![t].at = "back", ![t].answer = a]
                /\ a = Lost \/ Save(flush[t].snap, a)
  BY <1>0, <1>8, RepliesType, EmptyTypes DEF FlushArrives, FlushLost
<1>9. ASSUME Flushed(t)
      PROVE  flush'[t] = NoFlush
  BY <1>3, <1>9 DEF Flushed
<1>10. flush'[t] = flush[t] \/ FlushNext(t) \/ FlushReturn(t) \/ Flushed(t) \/ FlushArrives(t)
       \/ FlushLost(t) \/ \E b \in BOOLEAN : FlushBegin(t, b)
  BY <1>2, FlushChanges
<1>. QED
  BY <1>4, <1>5, <1>6, <1>7, <1>8, <1>9, <1>10

\* A save of the copy of l is acknowledged: s is the snapshot that was saved, and r the
\* revision it gave.
Acks(l, s, r) ==
    \E t \in Tabs :
        \/ /\ SaveOk(t)
           /\ l = request[t].lid /\ s = request[t].snap /\ r = request[t].answer.revision
        \/ /\ FlushReturn(t) /\ flush[t].answer.status = "ok"
           /\ l = flush[t].lid /\ s = flush[t].snap /\ r = flush[t].answer.revision
        \/ \E e \in flush[t].todo :
              /\ FlushNext(t) /\ e.copy.snap.known /\ e.copy.acked = Content(e.copy.snap)
              /\ l = e.lid /\ s = e.copy.snap /\ r = e.copy.snap.revision

\* What the acknowledgement makes of a newer copy.
Merged(c, s, r) ==
    [snap |-> [c.snap EXCEPT !.known = TRUE, !.revision = IF c.snap.revision > r THEN @ ELSE r],
     acked |-> IF c.snap.revision > r THEN c.acked ELSE Content(s)]

\* A window preserves its writing and goes to show something else.
Preserved(t) == Preserve(t) /\ (Leave(t) \/ UseSaved(t) \/ KeepMine(t))

LEMMA PreservedGoes ==
    ASSUME TypeOK, Owned, NEW t \in Tabs, Preserved(t)
    PROVE  /\ Open(t)
           /\ \A u \in Tabs : Open(u)' => composer'[u].lid # composer[t].lid
<1>0. ComposerType /\ CountType
  BY TypeParts
<1>1. Open(t)
  BY DEF Preserved, Leave, UseSaved, KeepMine, Chooses, Writable
<1>2. composer[t].lid \in Nat /\ composer[t].lid <= lids /\ lids \in Nat
  BY <1>0, <1>1, OpenType, Constants DEF Owned, Lids, CountType
<1>3. Open(t)' => composer'[t].lid # composer[t].lid
  <2>1. CASE Leave(t)
    BY <1>0, <2>1 DEF Leave, Show, Open, ComposerType
  <2>2. CASE Opens(t)
    BY <1>2, <2>2, OpensNew
  <2>. QED
    BY <2>1, <2>2 DEF Preserved, Opens
<1>4. ASSUME NEW u \in Tabs, u # t
      PROVE  Open(u)' => composer'[u].lid # composer[t].lid
  <2>1. Leave(t) \/ Opens(t)
    BY DEF Preserved, Opens
  <2>2. composer'[u] = composer[u]
    BY <1>4, <2>1, OthersStay
  <2>. QED
    BY <1>1, <1>4, <2>2 DEF Owned, Shows, Open
<1>. QED
  BY <1>1, <1>3, <1>4

\* A device copy stays, goes, is saved anew, or takes over what was acknowledged.
LEMMA CopyBecomes ==
    ASSUME TypeOK, [Next]_vars, NEW l \in Lids
    PROVE  \/ copy'[l] = copy[l]
           \/ /\ copy'[l] = Absent /\ copy[l] # Absent
              /\ \/ \E s \in Snapshots, r \in Revisions : Acks(l, s, r) /\ copy[l].snap = s
                 \/ \E t \in Tabs : SendOk(t) /\ request[t].lid = l
                 \/ \E t \in Tabs : DeleteDraft(t) /\ Shows(t, l)
           \/ \E t \in Tabs :
                 /\ Shows(t, l) /\ \E b \in BOOLEAN : Begun(t, b)
                 /\ copy'[l] = [snap |-> Snapshot(composer[t], saves + 1), acked |-> Absent]
           \/ \E t \in Tabs :
                 /\ Shows(t, l) /\ Preserved(t)
                 /\ copy'[l] = [snap |-> Snapshot(composer[t], Last(composer[t])), acked |-> Absent]
           \/ \E s \in Snapshots, r \in Revisions :
                 /\ Acks(l, s, r) /\ copy[l] # Absent /\ copy[l].snap # s
                 /\ copy[l].snap.known = s.known /\ copy'[l] = Merged(copy[l], s, r)
<1>0. CopyType /\ RequestType /\ FlushType /\ ComposerType
  BY TypeParts
<1> DEFINE Acked(s, r) == \/ copy'[l] = copy[l]
                          \/ copy'[l] = Absent /\ copy[l] # Absent /\ copy[l].snap = s
                          \/ /\ copy[l] # Absent /\ copy[l].snap # s
                             /\ copy[l].snap.known = s.known /\ copy'[l] = Merged(copy[l], s, r)
<1>1. ASSUME NEW s, NEW r, Ack(l, s, r)
      PROVE  Acked(s, r)
  <2> DEFINE c == copy[l]
             row == [snap |-> [c.snap EXCEPT !.known = TRUE,
                                             !.revision = IF c.snap.revision > r THEN @ ELSE r],
                     acked |-> IF c.snap.revision > r THEN c.acked ELSE Content(s)]
  <2>1. \/ copy' = copy
        \/ c # Absent /\ c.snap = s /\ copy' = [copy EXCEPT ![l] = Absent]
        \/ c # Absent /\ c.snap # s /\ c.snap.known = s.known /\ copy' = [copy EXCEPT ![l] = row]
    BY <1>1 DEF Ack
  <2>2. row = Merged(copy[l], s, r)
    BY DEF Merged
  <2> HIDE DEF row
  <2>. QED
    BY <1>0, <2>1, <2>2 DEF CopyType
<1>2. ASSUME NEW k, k # l, NEW s, NEW r, Ack(k, s, r)
      PROVE  copy'[l] = copy[l]
  <2>1. \E x : copy' = copy \/ copy' = [copy EXCEPT ![k] = x]
    BY <1>2 DEF Ack
  <2>. QED
    BY <1>0, <1>2, <2>1 DEF CopyType
<1>3. ASSUME NEW t \in Tabs, SaveOk(t)
      PROVE  copy'[l] = copy[l] \/ \E s \in Snapshots, r \in Revisions : Acks(l, s, r) /\ Acked(s, r)
  <2> DEFINE s == request[t].snap
             r == request[t].answer.revision
  <2>1. Ack(request[t].lid, s, r) /\ s \in Snapshots /\ r \in Revisions
    BY <1>0, <1>3 DEF SaveOk, RequestType, Requests, Answers
  <2>2. CASE request[t].lid = l
    <3>1. Acks(l, s, r)
      BY <1>3, <2>2 DEF Acks
    <3>2. Acked(s, r)
      BY <1>1, <2>1, <2>2
    <3>. QED
      BY <2>1, <3>1, <3>2
  <2>3. CASE request[t].lid # l
    BY <1>2, <2>1, <2>3
  <2>. QED
    BY <2>2, <2>3
<1>4. ASSUME NEW t \in Tabs, FlushReturn(t)
      PROVE  copy'[l] = copy[l] \/ \E s \in Snapshots, r \in Revisions : Acks(l, s, r) /\ Acked(s, r)
  <2> DEFINE s == flush[t].snap
             r == flush[t].answer.revision
  <2>1. copy' = copy \/ (Ack(flush[t].lid, s, r) /\ flush[t].answer.status = "ok")
    BY <1>4 DEF FlushReturn
  <2>2. s \in Snapshots /\ r \in Revisions
    BY <1>0 DEF FlushType, Flushes, Answers
  <2>3. CASE Ack(flush[t].lid, s, r) /\ flush[t].answer.status = "ok" /\ flush[t].lid = l
    <3>1. Acks(l, s, r)
      BY <1>4, <2>3 DEF Acks
    <3>2. Acked(s, r)
      BY <1>1, <2>3
    <3>. QED
      BY <2>2, <3>1, <3>2
  <2>4. CASE Ack(flush[t].lid, s, r) /\ flush[t].lid # l
    BY <1>2, <2>4
  <2>. QED
    BY <2>1, <2>3, <2>4
<1>5. ASSUME NEW t \in Tabs, FlushNext(t)
      PROVE  copy'[l] = copy[l] \/ \E s \in Snapshots, r \in Revisions : Acks(l, s, r) /\ Acked(s, r)
  <2>1. PICK e \in flush[t].todo :
           \/ copy' = copy
           \/ /\ Ack(e.lid, e.copy.snap, e.copy.snap.revision)
              /\ e.copy.snap.known /\ e.copy.acked = Content(e.copy.snap)
    BY <1>5 DEF FlushNext
  <2> DEFINE s == e.copy.snap
             r == e.copy.snap.revision
  <2>2. s \in Snapshots /\ r \in Revisions
    BY <1>0 DEF FlushType, Flushes, Copies, Snapshots
  <2>3. CASE Ack(e.lid, s, r) /\ e.copy.snap.known /\ e.copy.acked = Content(s) /\ e.lid = l
    <3>1. Acks(l, s, r)
      BY <1>5, <2>3 DEF Acks
    <3>2. Acked(s, r)
      BY <1>1, <2>3
    <3>. QED
      BY <2>2, <3>1, <3>2
  <2>4. CASE Ack(e.lid, s, r) /\ e.lid # l
    BY <1>2, <2>4
  <2>. QED
    BY <2>1, <2>3, <2>4
<1>6. ASSUME NEW t \in Tabs, SendOk(t)
      PROVE  copy'[l] = copy[l] \/ (copy'[l] = Absent /\ request[t].lid = l)
  BY <1>0, <1>6 DEF SendOk, CopyType
<1>7. ASSUME NEW t \in Tabs, DeleteDraft(t)
      PROVE  copy'[l] = copy[l] \/ (copy'[l] = Absent /\ Shows(t, l))
  BY <1>0, <1>7 DEF DeleteDraft, Shows, CopyType
<1>8. ASSUME NEW s, NEW k, Keeps(s, k)
      PROVE  copy'[l] = copy[l] \/ (k = l /\ copy'[l] = [snap |-> s, acked |-> Absent])
  BY <1>0, <1>8 DEF Keeps, CopyType
<1>9. ASSUME NEW t \in Tabs, NEW b \in BOOLEAN, Begun(t, b)
      PROVE  \/ copy'[l] = copy[l]
             \/ Shows(t, l) /\ copy'[l] = [snap |-> Snapshot(composer[t], saves + 1), acked |-> Absent]
  BY <1>8, <1>9 DEF Begun, Begins, Shows
<1>10. ASSUME NEW t \in Tabs, Preserved(t)
       PROVE  \/ copy'[l] = copy[l]
              \/ /\ Shows(t, l)
                 /\ copy'[l] = [snap |-> Snapshot(composer[t], Last(composer[t])), acked |-> Absent]
  <2>1. Open(t)
    BY <1>10 DEF Preserved, Leave, UseSaved, KeepMine, Chooses, Writable
  <2>2. copy' = copy \/ Keeps(Snapshot(composer[t], Last(composer[t])), composer[t].lid)
    BY <1>10 DEF Preserved, Preserve
  <2>. QED
    BY <1>8, <2>1, <2>2 DEF Shows
<1>11. \/ copy' = copy
       \/ \E t \in Tabs : \/ SaveOk(t) \/ SendOk(t) \/ FlushNext(t) \/ FlushReturn(t) \/ DeleteDraft(t)
                          \/ \E b \in BOOLEAN : Begun(t, b)
                          \/ Preserved(t)
  BY CopyChanges DEF Preserved
<1>12. CASE \E t \in Tabs : SaveOk(t) \/ FlushNext(t) \/ FlushReturn(t)
  <2>1. copy'[l] = copy[l] \/ \E s \in Snapshots, r \in Revisions : Acks(l, s, r) /\ Acked(s, r)
    BY <1>3, <1>4, <1>5, <1>12
  <2>. QED
    BY <2>1
<1>13. CASE \E t \in Tabs : SendOk(t) \/ DeleteDraft(t)
  BY <1>6, <1>7, <1>13
<1>14. CASE \E t \in Tabs : \/ \E b \in BOOLEAN : Begun(t, b)
                            \/ Preserved(t)
  BY <1>9, <1>10, <1>14
<1>. QED
  BY <1>11, <1>12, <1>13, <1>14

LEMMA OwnedKept == ASSUME TypeOK, Owned, [Next]_vars PROVE Owned'
<1>0. ComposerType /\ CountType /\ RequestType /\ FlushType /\ CopyType
  BY TypeParts
<1>1. lids \in Nat /\ lids' \in Nat /\ lids <= lids'
  BY <1>0, CountsKept, Constants DEF CountType, Counts
<1>2. ASSUME NEW t \in Tabs, Open(t)'
      PROVE  \/ Open(t) /\ composer'[t].lid = composer[t].lid
             \/ Opens(t) /\ composer'[t].lid = lids + 1 /\ lids' = lids + 1
  <2>1. Edit(t) => Open(t) /\ composer'[t].lid = composer[t].lid
    BY <1>0, OpenType DEF Edit, Writable, ComposerType, Composers
  <2>. QED
    BY <1>2, <2>1, ComposerBecomes, OpensNew
<1>3. \A t \in Tabs : Open(t) => composer[t].lid \in Nat /\ composer[t].lid <= lids
  BY <1>0, OpenType, Constants DEF Owned, Lids
<1>4. ASSUME NEW t \in Tabs, Open(t)'
      PROVE  composer'[t].lid <= lids'
  BY <1>1, <1>2, <1>3, <1>4
<1>5. ASSUME NEW t \in Tabs, NEW u \in Tabs, Open(t)', Shows(u, composer[t].lid)'
      PROVE  u = t
  <2>1. Open(u)' /\ composer'[u].lid = composer'[t].lid
    BY <1>5 DEF Shows
  <2>2. CASE Opens(t) \/ Opens(u)
    <3>1. ASSUME NEW v \in Tabs, NEW w \in Tabs, Opens(v), v # w, Open(w)'
          PROVE  composer'[v].lid # composer'[w].lid
      <4>1. composer'[w] = composer[w] /\ composer'[v].lid = lids + 1
        BY <3>1, OpensNew
      <4>. QED
        BY <1>1, <1>3, <3>1, <4>1 DEF Open
    <3>. QED
      BY <1>5, <2>1, <2>2, <3>1
  <2>3. CASE ~Opens(t) /\ ~Opens(u)
    BY <1>2, <1>5, <2>1, <2>3 DEF Owned, Shows
  <2>. QED
    BY <2>2, <2>3
<1>6. ASSUME NEW t \in Tabs, request'[t].submits
      PROVE  Active(t)'
  <2>1. ~NoRequest.submits
    BY DEF NoRequest
  <2>2. request[t].submits => request[t].at # "idle"
    BY DEF Owned, Active
  <2>. QED
    BY <1>6, <2>1, <2>2, RequestBecomes DEF Active
<1>7. ASSUME NEW t \in Tabs, Active(t)'
      PROVE  \/ /\ Active(t) /\ request'[t].lid = request[t].lid
                /\ request'[t].kind = request[t].kind \/ request[t].submits
                /\ request'[t].submits = request[t].submits
             \/ /\ Open(t) /\ request'[t].lid = composer[t].lid /\ request'[t].kind = "save"
                /\ \E b \in BOOLEAN : Begun(t, b)
  <2>1. NoRequest.at = "idle"
    BY DEF NoRequest
  <2>2. SaveOk(t) => request[t].at = "back"
    BY DEF SaveOk
  <2>3. \A b \in BOOLEAN : Begun(t, b) => Open(t)
    BY DEF Begun
  <2>4. request[t].submits \in BOOLEAN
    BY <1>0 DEF RequestType, Requests
  <2>. QED
    BY <1>7, <2>1, <2>2, <2>3, <2>4, RequestBecomes DEF Active
<1>8. ASSUME NEW t \in Tabs, Active(t)'
      PROVE  request'[t].lid \in 1..lids' /\ (request'[t].kind = "send" => request'[t].submits)
  <2>1. Active(t) => request[t].lid \in 1..lids /\ (request[t].kind = "send" => request[t].submits)
    BY DEF Owned
  <2>2. Open(t) => composer[t].lid \in 1..lids
    BY <1>0, <1>1, <1>3, OpenType, Constants DEF Lids
  <2>3. request'[t].lid \in 1..lids
    BY <1>7, <1>8, <2>1, <2>2
  <2>. QED
    BY <1>1, <1>7, <1>8, <2>1, <2>3
<1>9. ASSUME NEW t \in Tabs, NEW u \in Tabs, Active(t)', Shows(u, request[t].lid)'
      PROVE  u = t
  <2>1. request'[t].lid \in Nat /\ request'[t].lid <= lids
    <3>1. Active(t) => request[t].lid \in 1..lids
      BY DEF Owned
    <3>. QED
      BY <1>1, <1>3, <1>7, <1>9, <3>1
  <2>2. Open(u) /\ composer[u].lid = request'[t].lid
    BY <1>1, <1>2, <1>9, <2>1 DEF Shows
  <2>. QED
    BY <1>7, <1>9, <2>2 DEF Owned, Shows
<1>10. ASSUME NEW t \in Tabs, NEW u \in Tabs, Active(t)', Active(u)', request'[t].lid = request'[u].lid
       PROVE  u = t
  <2>1. ASSUME NEW v \in Tabs, NEW w \in Tabs, v # w, NEW b \in BOOLEAN, Begun(v, b)
        PROVE  request'[w] = request[w]
    BY <1>0, <2>1 DEF Begun, Begins, RequestType
  <2>2. CASE Active(t) /\ Active(u)
    <3>1. \A v \in Tabs : Active(v) /\ Active(v)' => request'[v].lid = request[v].lid
      <4>1. \A v \in Tabs, b \in BOOLEAN : Begun(v, b) => request[v].at = "idle"
        BY DEF Begun, Begins
      <4>. QED
        BY <1>7, <4>1 DEF Active
    <3>. QED
      BY <1>10, <2>2, <3>1 DEF Owned
  <2>3. ASSUME NEW v \in Tabs, NEW w \in Tabs, v # w, ~Active(v), Active(v)', Active(w)',
               request'[v].lid = request'[w].lid
        PROVE  FALSE
    <3>1. Open(v) /\ request'[v].lid = composer[v].lid /\ \E b \in BOOLEAN : Begun(v, b)
      BY <1>7, <2>3
    <3>2. request'[w] = request[w]
      BY <2>1, <2>3, <3>1
    <3>. QED
      BY <2>3, <3>1, <3>2 DEF Owned, Shows, Active
  <2>. QED
    BY <1>10, <2>2, <2>3
<1>11. ASSUME NEW l \in Lids, copy'[l] # Absent
       PROVE  l <= lids'
  <2>1. copy[l] # Absent \/ \E t \in Tabs : Shows(t, l)
    BY <1>11, CopyBecomes
  <2>2. l <= lids
    BY <1>3, <2>1 DEF Owned, Shows
  <2>. QED
    BY <1>1, <2>2, Constants DEF Lids
<1>12. ASSUME NEW t \in Tabs
       PROVE  /\ Pushing(t)' => flush'[t].lid \in 1..lids'
              /\ \A e \in flush'[t].todo : e.lid <= lids'
              /\ \A e \in flush'[t].synced : e.lid <= lids'
  <2>1. /\ Pushing(t) => flush[t].lid \in 1..lids
        /\ \A e \in flush[t].todo : e.lid \in 1..lids
        /\ \A e \in flush[t].synced : e.lid \in 1..lids
    <3>1. flush[t] \in Flushes
      BY <1>0 DEF FlushType
    <3>2. \A e \in flush[t].todo \union flush[t].synced : e.lid \in Lids
      BY <3>1 DEF Flushes
    <3>. QED
      BY <1>1, <3>2, Constants DEF Owned, Lids
  <2>2. \A l \in Lids : copy[l] # Absent => l \in 1..lids
    BY <1>1, Constants DEF Owned, Lids
  <2>3. 1..lids \subseteq 1..lids'
    BY <1>1
  <2>4. /\ Pushing(t)' => flush'[t].lid \in 1..lids
        /\ \A e \in flush'[t].todo : e.lid \in 1..lids
        /\ \A e \in flush'[t].synced : e.lid \in 1..lids
    <3>1. /\ NoFlush.at = "idle" /\ NoFlush.todo = {} /\ NoFlush.synced = {}
      BY DEF NoFlush
    <3>. QED
      BY <2>1, <2>2, <3>1, FlushBecomes DEF Pushing
  <2>5. \A n \in 1..lids : n \in 1..lids' /\ n <= lids'
    BY <1>1
  <2>. QED
    BY <2>4, <2>5
<1>. QED
  BY <1>4, <1>5, <1>6, <1>8, <1>9, <1>10, <1>11, <1>12 DEF Owned

---------------------------------------------------------------------------
(* What the draft, the requests and the windows are known to have. *)

\* A window that still shows a localId shows at least the writing it did.
LEMMA ShowsStays ==
    ASSUME TypeOK, Owned, [Next]_vars, NEW t \in Tabs, NEW l \in 1..lids, Shows(t, l)'
    PROVE  /\ Shows(t, l) /\ composer[t].text \subseteq composer'[t].text
           /\ composer'[t].text = composer[t].text \/ Edit(t)
<1>0. ComposerType /\ CountType
  BY TypeParts
<1>1. Open(t)' /\ composer'[t].lid = l /\ lids \in Nat
  BY <1>0, Constants DEF Shows, CountType
<1>2. ~Opens(t)
  BY <1>1, OpensNew
<1>3. CASE Edit(t)
  <2>1. Open(t) /\ composer' = [composer EXCEPT ![t] = [composer[t] EXCEPT !.text = @ \union {edits + 1}]]
    BY <1>3 DEF Edit, Writable
  <2>2. composer[t] \in Composers
    BY <1>0, <2>1, OpenType
  <2>3. composer'[t] = [composer[t] EXCEPT !.text = @ \union {edits + 1}]
    BY <1>0, <2>1 DEF ComposerType
  <2>4. composer'[t].lid = composer[t].lid /\ composer'[t].text = composer[t].text \union {edits + 1}
    BY <2>2, <2>3 DEF Composers
  <2>. QED
    BY <1>1, <1>3, <2>1, <2>4 DEF Shows
<1>4. CASE ~Edit(t)
  BY <1>1, <1>2, <1>4, ComposerBecomes DEF Shows
<1>. QED
  BY <1>3, <1>4

LEMMA BasedGrows ==
    ASSUME NEW r, NEW T, NEW U, T \subseteq U, Based(r, T) \/ Reads(r, T)
    PROVE  Based(r, U)
BY DEF Based, Reads

LEMMA LiveType == ASSUME TypeOK PROVE Live \subseteq Snapshots
<1>0. CopyType /\ RequestType /\ FlushType /\ LateType
  BY TypeParts
<1>1. \A l \in Lids : copy[l] # Absent => copy[l].snap \in Snapshots
  BY <1>0 DEF CopyType, Copies
<1>2. \A t \in Tabs : request[t].snap \in Snapshots
  BY <1>0 DEF RequestType, Requests
<1>3. \A t \in Tabs : flush[t].snap \in Snapshots /\ \A e \in flush[t].todo : e.copy.snap \in Snapshots
  <2>1. \A t \in Tabs : flush[t] \in Flushes
    BY <1>0 DEF FlushType
  <2>. QED
    BY <2>1 DEF Flushes, Copies
<1>4. \A q \in late : q.snap \in Snapshots
  BY <1>0 DEF LateType
<1>. QED
  BY <1>1, <1>2, <1>3, <1>4 DEF Live

\* What is at work belongs to a composer that was opened.
LEMMA HeldLids == ASSUME TypeOK, Owned, NEW h \in Held PROVE h[1] \in 1..lids
<1>0. FlushType /\ CountType
  BY TypeParts
<1>1. \A t \in Tabs : \A e \in flush[t].todo : e.lid \in 1..lids
  <2>1. \A t \in Tabs : flush[t] \in Flushes
    BY <1>0 DEF FlushType
  <2>2. \A t \in Tabs : \A e \in flush[t].todo : e.lid \in Lids
    BY <2>1 DEF Flushes
  <2>. QED
    BY <1>0, <2>2, Constants DEF Owned, Lids, CountType
<1>2. CASE \E t \in Tabs : Active(t) /\ h = <<request[t].lid, request[t].snap.text>>
  BY <1>2 DEF Owned
<1>3. CASE \E t \in Tabs : Pushing(t) /\ h = <<flush[t].lid, flush[t].snap.text>>
  BY <1>3 DEF Owned
<1>4. CASE \E t \in Tabs : \E e \in flush[t].todo : h = <<e.lid, e.copy.snap.text>>
  BY <1>1, <1>4
<1>. QED
  BY <1>2, <1>3, <1>4 DEF Held

\* No edit that is saved or accepted goes, unless the user does without it.
LEMMA SafeStays ==
    ASSUME TypeOK, Stored, Basing, [Next]_vars
    PROVE  Safe \subseteq Safe' /\ body \subseteq body' \union dropped'
<1>1. dropped \subseteq dropped'
  BY HistoryKept
<1>2. CASE UNCHANGED draft
  BY <1>1, <1>2 DEF draft, Safe
<1>3. ASSUME NEW s \in Live, Creates(s)
      PROVE  Safe \subseteq Safe' /\ body \subseteq body' \union dropped'
  BY <1>1, <1>3 DEF Creates, Stored, Safe
<1>4. ASSUME NEW s \in Live, Updates(s)
      PROVE  Safe \subseteq Safe' /\ body \subseteq body' \union dropped'
  <2>1. body \subseteq s.text \union dropped
    BY <1>4 DEF Updates, Basing, Known, Based
  <2>. QED
    BY <1>1, <1>4, <2>1 DEF Updates, Safe
<1>5. ASSUME NEW s, Completes(s)
      PROVE  Safe \subseteq Safe' /\ body \subseteq body' \union dropped'
  BY <1>1, <1>5 DEF Completes, Complete, Stored, Safe
<1>6. ASSUME NEW t \in Tabs, DeleteDraft(t)
      PROVE  Safe \subseteq Safe' /\ body \subseteq body' \union dropped'
  BY <1>1, <1>6 DEF DeleteDraft, Delete, Safe
<1>. QED
  BY <1>2, <1>3, <1>4, <1>5, <1>6, StoreBecomes

LEMMA AcknowledgedStays ==
    ASSUME TypeOK, Stored, Basing, [Next]_vars, NEW s, NEW a \in Answers, Acknowledged(s, a)
    PROVE  a.status = "ok" =>
              a.revision > 0 /\ Reads(a.revision, s.text)' /\ s.text \subseteq Safe'
<1>1. a.revision \in Revisions
  BY DEF Answers
<1>. QED
  BY <1>1, SafeStays, BasedStays DEF Acknowledged

\* A save that is answered well has its writing in the draft.
LEMMA SaveAnswers ==
    ASSUME TypeOK, Stored, Identified, NEW s \in Live, NEW a, Save(s, a), a.status = "ok"
    PROVE  a.revision > 0 /\ a.revision = revision' /\ s.text = body'
<1>0. StoreType
  BY TypeParts
<1>1. CASE Creates(s) /\ a = Ok(1)
  BY <1>1 DEF Creates, Ok
<1>2. CASE Updates(s) /\ a = Ok(revision + 1)
  BY <1>0, <1>2 DEF Updates, Ok, StoreType, Revisions
<1>3. CASE /\ UNCHANGED storeVars /\ state = "open" /\ a = Ok(revision)
           /\ (revision = 1 /\ created = s.text) \/ mutation = s.mutation
  <2>1. revision > 0 /\ s.text = body
    BY <1>3 DEF Stored, Identified
  <2>. QED
    BY <1>3, <2>1 DEF storeVars, Ok
<1>. QED
  BY <1>1, <1>2, <1>3, SaveDoes

\* What is acknowledged of a device copy is an earlier writing of it, and safe.
LEMMA AckFacts ==
    ASSUME TypeOK, Basing, Answering, NEW l \in Lids, NEW s \in Snapshots,
           NEW r \in Revisions, Acks(l, s, r)
    PROVE  /\ <<l, s.text>> \in Held /\ Based(r, s.text) /\ s.text \subseteq Safe
           /\ s.known \/ r > 0
<1>1. ASSUME NEW t \in Tabs, SaveOk(t), l = request[t].lid, s = request[t].snap,
             r = request[t].answer.revision
      PROVE  /\ <<l, s.text>> \in Held /\ Based(r, s.text) /\ s.text \subseteq Safe
             /\ s.known \/ r > 0
  <2>1. <<request[t].lid, request[t].snap.text>> \in Held
    BY <1>1 DEF SaveOk, Held, Active
  <2>2. Acknowledged(request[t].snap, request[t].answer) /\ request[t].answer.status = "ok"
    BY <1>1 DEF SaveOk, Answering
  <2>. QED
    BY <1>1, <2>1, <2>2, BasedGrows DEF Acknowledged
<1>2. ASSUME NEW t \in Tabs, FlushReturn(t), flush[t].answer.status = "ok", l = flush[t].lid,
             s = flush[t].snap, r = flush[t].answer.revision
      PROVE  /\ <<l, s.text>> \in Held /\ Based(r, s.text) /\ s.text \subseteq Safe
             /\ s.known \/ r > 0
  <2>1. <<flush[t].lid, flush[t].snap.text>> \in Held
    BY <1>2 DEF FlushReturn, Held, Pushing
  <2>2. Acknowledged(flush[t].snap, flush[t].answer)
    BY <1>2 DEF FlushReturn, Answering
  <2>. QED
    BY <1>2, <2>1, <2>2, BasedGrows DEF Acknowledged
<1>3. ASSUME NEW t \in Tabs, NEW e \in flush[t].todo, e.copy.snap.known,
             e.copy.acked = Content(e.copy.snap), l = e.lid, s = e.copy.snap,
             r = e.copy.snap.revision
      PROVE  /\ <<l, s.text>> \in Held /\ Based(r, s.text) /\ s.text \subseteq Safe
             /\ s.known \/ r > 0
  <2>1. <<e.lid, e.copy.snap.text>> \in Held /\ e.copy.snap \in Live
    BY DEF Held, Live
  <2>2. Content(s) \in Contents /\ Content(s).text = s.text
    BY DEF Content, Contents, Snapshots
  <2>3. s.text \subseteq Safe
    BY <1>3, <2>2, Constants DEF Answering
  <2>4. Based(r, s.text)
    BY <1>3, <2>1 DEF Basing, Known
  <2>. QED
    BY <1>3, <2>1, <2>3, <2>4
<1>. QED
  BY <1>1, <1>2, <1>3 DEF Acks

\* A save that may reach the API may already do so, or a window has just asked for it or
\* preserved its writing for it, or it takes over what was acknowledged of it.
LEMMA LiveBecomes ==
    ASSUME TypeOK, [Next]_vars, NEW s \in Live'
    PROVE  \/ s \in Live
           \/ \E t \in Tabs : /\ \E b \in BOOLEAN : Begun(t, b)
                              /\ s = Snapshot(composer[t], saves + 1)
           \/ \E t \in Tabs : Preserved(t) /\ s = Snapshot(composer[t], Last(composer[t]))
           \/ \E l \in Lids, z \in Snapshots, r \in Revisions :
                 /\ Acks(l, z, r) /\ copy[l] # Absent /\ copy[l].snap.known = z.known
                 /\ s = Merged(copy[l], z, r).snap
<1>1. CASE \E l \in Lids : copy'[l] # Absent /\ s = copy'[l].snap
  <2>1. PICK l \in Lids : copy'[l] # Absent /\ s = copy'[l].snap
    BY <1>1
  <2>2. CASE copy'[l] = copy[l]
    BY <2>1, <2>2 DEF Live
  <2>3. CASE \E t \in Tabs :
              /\ Shows(t, l) /\ \E b \in BOOLEAN : Begun(t, b)
              /\ copy'[l] = [snap |-> Snapshot(composer[t], saves + 1), acked |-> Absent]
    BY <2>1, <2>3
  <2>4. CASE \E t \in Tabs :
              /\ Shows(t, l) /\ Preserved(t)
              /\ copy'[l] = [snap |-> Snapshot(composer[t], Last(composer[t])), acked |-> Absent]
    BY <2>1, <2>4
  <2>5. CASE \E z \in Snapshots, r \in Revisions :
              /\ Acks(l, z, r) /\ copy[l] # Absent /\ copy[l].snap # z
              /\ copy[l].snap.known = z.known /\ copy'[l] = Merged(copy[l], z, r)
    BY <2>1, <2>5
  <2>. QED
    BY <2>1, <2>2, <2>3, <2>4, <2>5, CopyBecomes
<1>2. CASE \E t \in Tabs : Active(t)' /\ request'[t].kind = "save" /\ s = request'[t].snap
  <2>1. PICK t \in Tabs : request'[t].at # "idle" /\ request'[t].kind = "save" /\ s = request'[t].snap
    BY <1>2 DEF Active
  <2>2. NoRequest.at = "idle"
    BY DEF NoRequest
  <2>3. CASE request[t].at # "idle" /\ request[t].kind = "save" /\ s = request[t].snap
    BY <2>3 DEF Live, Active
  <2>. QED
    BY <2>1, <2>2, <2>3, RequestBecomes
<1>3. ASSUME NEW t \in Tabs, NEW e \in flush[t].todo
      PROVE  e.copy.snap \in Live
  BY DEF Live
<1>4. NoFlush.at = "idle" /\ NoFlush.todo = {}
  BY DEF NoFlush
<1>5. CASE \E t \in Tabs : Pushing(t)' /\ s = flush'[t].snap
  <2>1. PICK t \in Tabs : flush'[t].at \in {"wait", "back"} /\ s = flush'[t].snap
    BY <1>5 DEF Pushing
  <2>2. CASE flush[t].at \in {"wait", "back"} /\ s = flush[t].snap
    BY <2>2 DEF Live, Pushing
  <2>. QED
    BY <1>3, <1>4, <2>1, <2>2, FlushBecomes
<1>6. CASE \E t \in Tabs : \E e \in flush'[t].todo : s = e.copy.snap
  <2>1. PICK t \in Tabs : \E e \in flush'[t].todo : s = e.copy.snap
    BY <1>6
  <2>2. PICK e \in flush'[t].todo : s = e.copy.snap
    BY <2>1
  <2>3. CASE e \in flush[t].todo
    BY <1>3, <2>2, <2>3
  <2>4. CASE e.lid \in Lids /\ copy[e.lid] # Absent /\ e.copy = copy[e.lid]
    BY <2>2, <2>4 DEF Live
  <2>. QED
    BY <1>4, <2>2, <2>3, <2>4, FlushBecomes
<1>7. CASE \E q \in late' : q.kind = "save" /\ s = q.snap
  <2>1. PICK q \in late' : q.kind = "save" /\ s = q.snap
    BY <1>7
  <2>2. CASE q \in late
    BY <2>1, <2>2 DEF Live
  <2>3. CASE \E t \in Tabs : q \in Outstanding(t) \/ q \in AwaitedFlush(t)
    BY <2>1, <2>3 DEF Outstanding, AwaitedFlush, Live, Active, Pushing
  <2>. QED
    BY <2>1, <2>2, <2>3, LateChanges DEF RequestLost, FlushLost, Kill, LateArrives
<1>. QED
  BY <1>1, <1>2, <1>5, <1>6, <1>7 DEF Live

LEMMA HeldBecomes ==
    ASSUME TypeOK, [Next]_vars, NEW h \in Held'
    PROVE  \/ h \in Held
           \/ \E t \in Tabs : /\ \E b \in BOOLEAN : Begun(t, b)
                              /\ h = <<composer[t].lid, composer[t].text>>
           \/ \E l \in Lids : copy[l] # Absent /\ h = <<l, copy[l].snap.text>>
<1>1. CASE \E t \in Tabs : Active(t)' /\ h = <<request'[t].lid, request'[t].snap.text>>
  <2>1. PICK t \in Tabs : request'[t].at # "idle" /\ h = <<request'[t].lid, request'[t].snap.text>>
    BY <1>1 DEF Active
  <2>2. NoRequest.at = "idle"
    BY DEF NoRequest
  <2>3. CASE request[t].at # "idle" /\ h = <<request[t].lid, request[t].snap.text>>
    BY <2>3 DEF Held, Active
  <2>4. CASE \E b \in BOOLEAN : Begun(t, b) /\ request'[t].lid = composer[t].lid
                                /\ request'[t].snap = Snapshot(composer[t], saves + 1)
    BY <2>1, <2>4 DEF Snapshot
  <2>5. CASE /\ SaveOk(t) /\ request'[t].lid = request[t].lid
             /\ request'[t].snap = [request[t].snap EXCEPT !.known = TRUE,
                                       !.revision = request[t].answer.revision]
    <3>1. request[t].snap \in Snapshots /\ request[t].at = "back"
      BY <2>5, TypeParts DEF RequestType, Requests, SaveOk
    <3>2. request'[t].snap.text = request[t].snap.text
      BY <2>5, <3>1 DEF Snapshots
    <3>. QED
      BY <2>1, <2>3, <2>5, <3>1, <3>2
  <2>. QED
    BY <2>1, <2>2, <2>3, <2>4, <2>5, RequestBecomes
<1>2. ASSUME NEW t \in Tabs, NEW e \in flush[t].todo
      PROVE  <<e.lid, e.copy.snap.text>> \in Held
  BY DEF Held
<1>3. NoFlush.at = "idle" /\ NoFlush.todo = {}
  BY DEF NoFlush
<1>4. CASE \E t \in Tabs : Pushing(t)' /\ h = <<flush'[t].lid, flush'[t].snap.text>>
  <2>1. PICK t \in Tabs : /\ flush'[t].at \in {"wait", "back"}
                          /\ h = <<flush'[t].lid, flush'[t].snap.text>>
    BY <1>4 DEF Pushing
  <2>2. CASE flush[t].at \in {"wait", "back"} /\ h = <<flush[t].lid, flush[t].snap.text>>
    BY <2>2 DEF Held, Pushing
  <2>. QED
    BY <1>2, <1>3, <2>1, <2>2, FlushBecomes
<1>5. CASE \E t \in Tabs : \E e \in flush'[t].todo : h = <<e.lid, e.copy.snap.text>>
  <2>1. PICK t \in Tabs : \E e \in flush'[t].todo : h = <<e.lid, e.copy.snap.text>>
    BY <1>5
  <2>2. PICK e \in flush'[t].todo : h = <<e.lid, e.copy.snap.text>>
    BY <2>1
  <2>3. CASE e \in flush[t].todo
    BY <1>2, <2>2, <2>3
  <2>4. CASE e.lid \in Lids /\ copy[e.lid] # Absent /\ e.copy = copy[e.lid]
    BY <2>2, <2>4
  <2>. QED
    BY <1>3, <2>2, <2>3, <2>4, FlushBecomes
<1>. QED
  BY <1>1, <1>4, <1>5 DEF Held

\* What is merged keeps its writing and its mutationId.
LEMMA MergedKeeps ==
    ASSUME TypeOK, NEW l \in Lids, copy[l] # Absent, NEW z \in Snapshots, NEW r \in Revisions
    PROVE  /\ Merged(copy[l], z, r).snap.text = copy[l].snap.text
           /\ Merged(copy[l], z, r).snap.mutation = copy[l].snap.mutation
           /\ Merged(copy[l], z, r).snap.known = TRUE
           /\ Merged(copy[l], z, r).snap.revision =
                 IF copy[l].snap.revision > r THEN copy[l].snap.revision ELSE r
           /\ Merged(copy[l], z, r).acked =
                 IF copy[l].snap.revision > r THEN copy[l].acked ELSE Content(z)
<1>1. copy[l].snap \in Snapshots
  BY TypeParts DEF CopyType, Copies
<1>. QED
  BY <1>1 DEF Merged, Snapshots

---------------------------------------------------------------------------
(* Every step keeps them. *)

\* A snapshot of this step has a mutationId of its own.
Asked(s) == \E t \in Tabs : /\ \E b \in BOOLEAN : Begun(t, b)
                             /\ s = Snapshot(composer[t], saves + 1)
Parted(s) == \E t \in Tabs : Preserved(t) /\ s = Snapshot(composer[t], Last(composer[t]))

LEMMA FreshUnused ==
    ASSUME TypeOK, Owned, [Next]_vars, NEW s
    PROVE  /\ Asked(s) => s.mutation \in 1..MaxSaves /\ ~Used(s.mutation) /\ Used(s.mutation)'
           /\ Parted(s) => s.mutation \notin 1..MaxSaves /\ ~Used(s.mutation) /\ Used(s.mutation)'
<1>0. CountType /\ ComposerType
  BY TypeParts
<1>1. saves \in Nat /\ saves <= MaxSaves /\ MaxSaves \in Nat /\ lids \in Nat
  BY <1>0, Constants DEF CountType
<1>2. CASE Asked(s)
  <2>1. PICK t \in Tabs, b \in BOOLEAN : Begun(t, b) /\ s = Snapshot(composer[t], saves + 1)
    BY <1>2 DEF Asked
  <2>2. s.mutation = saves + 1 /\ saves < MaxSaves /\ saves' = saves + 1
    BY <2>1 DEF Snapshot, Begun, Begins
  <2>3. s.mutation \in 1..MaxSaves /\ s.mutation \notin 1..saves
    BY <1>1, <2>2
  <2>4. \A l \in 1..lids : s.mutation # MaxSaves + l
    BY <1>1, <2>3
  <2>5. s.mutation \in 1..saves'
    BY <1>1, <2>2
  <2>6. Used(s.mutation)'
    BY <2>5 DEF Used
  <2>7. ~Parted(s)
    <3>1. ASSUME NEW u \in Tabs, Preserved(u), s = Snapshot(composer[u], Last(composer[u]))
          PROVE  FALSE
      <4>1. composer[u].lid \in Lids
        BY <1>0, <3>1, PreservedGoes, OpenType
      <4>2. s.mutation = MaxSaves + composer[u].lid
        BY <3>1 DEF Snapshot, Last
      <4>. QED
        BY <1>1, <2>3, <4>1, <4>2, Constants DEF Lids
    <3>. QED
      BY <3>1 DEF Parted
  <2>. QED
    BY <2>3, <2>4, <2>6, <2>7 DEF Used
<1>3. CASE Parted(s)
  <2>1. PICK t \in Tabs : Preserved(t) /\ s = Snapshot(composer[t], Last(composer[t]))
    BY <1>3 DEF Parted
  <2>2. /\ Open(t)
        /\ \A u \in Tabs : Open(u)' => composer'[u].lid # composer[t].lid
    BY <2>1, PreservedGoes
  <2>3. s.mutation = MaxSaves + composer[t].lid
    BY <2>1 DEF Snapshot, Last
  <2>4. composer[t].lid \in Nat /\ composer[t].lid \in 1..lids
    BY <1>0, <1>1, <2>2, OpenType, Constants DEF Owned, Lids
  <2>5. s.mutation \notin 1..MaxSaves /\ s.mutation \notin 1..saves
    BY <1>1, <2>3, <2>4
  <2>6. \A l \in 1..lids : s.mutation = MaxSaves + l => l = composer[t].lid
    BY <1>1, <2>3, <2>4
  <2>7. ~Used(s.mutation)
    BY <2>2, <2>5, <2>6 DEF Used, Shows
  <2>8. composer[t].lid \in 1..lids'
    <3>1. lids' \in Nat /\ lids <= lids'
      BY <1>1, CountsKept DEF Counts
    <3>. QED
      BY <1>1, <2>4, <3>1
  <2>9. Used(s.mutation)'
    BY <2>2, <2>3, <2>8 DEF Used, Shows
  <2>10. ~Asked(s)
    <3>1. ASSUME NEW u \in Tabs, NEW b \in BOOLEAN, Begun(u, b), s = Snapshot(composer[u], saves + 1)
          PROVE  FALSE
      <4>1. s.mutation = saves + 1 /\ saves < MaxSaves
        BY <3>1 DEF Snapshot, Begun, Begins
      <4>. QED
        BY <1>1, <2>5, <4>1
    <3>. QED
      BY <3>1 DEF Asked
  <2>. QED
    BY <2>5, <2>7, <2>9, <2>10
<1>. QED
  BY <1>2, <1>3

LEMMA UsedStays ==
    ASSUME TypeOK, Owned, [Next]_vars, NEW m, Used(m)
    PROVE  Used(m)' /\ m # 0
<1>0. CountType
  BY TypeParts
<1>1. /\ saves \in Nat /\ saves' \in Nat /\ lids \in Nat /\ lids' \in Nat /\ MaxSaves \in Nat
      /\ saves <= saves' /\ lids <= lids'
  BY <1>0, CountsKept, Constants DEF CountType, Counts
<1>2. CASE m \in 1..saves
  <2>1. m \in 1..saves' /\ m # 0
    BY <1>1, <1>2
  <2>. QED
    BY <2>1 DEF Used
<1>3. CASE \E l \in 1..lids : m = MaxSaves + l /\ \A t \in Tabs : ~Shows(t, l)
  <2>1. PICK l \in 1..lids : m = MaxSaves + l /\ \A t \in Tabs : ~Shows(t, l)
    BY <1>3
  <2>2. \A t \in Tabs : ~Shows(t, l)'
    BY <2>1, ShowsStays
  <2>3. l \in 1..lids' /\ m # 0
    BY <1>1, <2>1
  <2>. QED
    BY <2>1, <2>2, <2>3 DEF Used
<1>. QED
  BY <1>2, <1>3 DEF Used

\* One step takes one snapshot.
LEMMA FreshOnce ==
    ASSUME TypeOK, Owned, NEW s, NEW z, s.mutation = z.mutation,
           (Asked(s) /\ Asked(z)) \/ (Parted(s) /\ Parted(z))
    PROVE  s.text = z.text
<1>0. ComposerType /\ RequestType
  BY TypeParts
<1>1. CASE Asked(s) /\ Asked(z)
  <2>1. PICK t \in Tabs, b \in BOOLEAN : Begun(t, b) /\ s = Snapshot(composer[t], saves + 1)
    BY <1>1 DEF Asked
  <2>2. PICK u \in Tabs, d \in BOOLEAN : Begun(u, d) /\ z = Snapshot(composer[u], saves + 1)
    BY <1>1 DEF Asked
  <2>3. ASSUME NEW v \in Tabs, NEW w \in Tabs, NEW x \in BOOLEAN, Begun(v, x)
        PROVE  v # w => request'[w] = request[w]
    BY <1>0, <2>3 DEF Begun, Begins, RequestType
  <2>4. ASSUME NEW v \in Tabs, NEW x \in BOOLEAN, Begun(v, x)
        PROVE  request[v].at = "idle" /\ request'[v].at = "wait"
    BY <1>0, <2>4 DEF Begun, Begins, NoRequest, RequestType
  <2>5. t = u
    BY <2>1, <2>2, <2>3, <2>4
  <2>. QED
    BY <2>1, <2>2, <2>5
<1>2. CASE Parted(s) /\ Parted(z)
  <2>1. PICK t \in Tabs : Preserved(t) /\ s = Snapshot(composer[t], Last(composer[t]))
    BY <1>2 DEF Parted
  <2>2. PICK u \in Tabs : Preserved(u) /\ z = Snapshot(composer[u], Last(composer[u]))
    BY <1>2 DEF Parted
  <2>3. Open(t) /\ Open(u)
    BY <2>1, <2>2, PreservedGoes
  <2>4. MaxSaves + composer[t].lid = MaxSaves + composer[u].lid
    BY <2>1, <2>2 DEF Snapshot, Last
  <2>5. composer[t].lid \in Nat /\ composer[u].lid \in Nat
    BY <1>0, <2>3, OpenType, Constants DEF Lids
  <2>6. composer[t].lid = composer[u].lid
    BY <2>4, <2>5, Constants
  <2>7. t = u
    BY <2>3, <2>6 DEF Owned, Shows
  <2>. QED
    BY <2>1, <2>2, <2>7
<1>. QED
  BY <1>1, <1>2

LEMMA IdentifiedKept ==
    ASSUME TypeOK, Stored, Owned, Identified, [Next]_vars
    PROVE  Identified'
<1> DEFINE Old(s) == \E z \in Live : z.mutation = s.mutation /\ z.text = s.text
<1>1. ASSUME NEW s \in Live'
      PROVE  Old(s) \/ Asked(s) \/ Parted(s)
  <2>1. CASE \E l \in Lids, z \in Snapshots, r \in Revisions :
                copy[l] # Absent /\ s = Merged(copy[l], z, r).snap
    <3>1. PICK l \in Lids, z \in Snapshots, r \in Revisions :
             copy[l] # Absent /\ s = Merged(copy[l], z, r).snap
      BY <2>1
    <3>2. copy[l].snap \in Live
      BY <3>1 DEF Live
    <3>3. /\ Merged(copy[l], z, r).snap.text = copy[l].snap.text
          /\ Merged(copy[l], z, r).snap.mutation = copy[l].snap.mutation
      BY <3>1, MergedKeeps
    <3>4. s.text = copy[l].snap.text /\ s.mutation = copy[l].snap.mutation
      BY <3>1, <3>3
    <3>. QED
      BY <3>2, <3>4
  <2>. QED
    BY <2>1, LiveBecomes DEF Asked, Parted
<1>2. ASSUME NEW s, Old(s)
      PROVE  Used(s.mutation) /\ (s.mutation = mutation => s.text = body)
  BY <1>2 DEF Identified
<1>3. /\ \/ mutation' = mutation /\ (body' = body \/ mutation = 0)
         \/ \E z \in Live : mutation' = z.mutation /\ body' = z.text
      /\ mutation' = mutation \/ \E z \in Live : mutation' = z.mutation
  BY StoreBecomes DEF draft, Creates, Updates, Completes, DeleteDraft, Delete, Stored
<1>4. mutation' # 0 => Used(mutation') 
  BY <1>3 DEF Identified
<1>5. \A m : Used(m) => m # 0
  BY UsedStays
<1>6. ASSUME NEW s \in Live'
      PROVE  Used(s.mutation)' /\ (s.mutation = mutation' => s.text = body')
  <2>1. CASE Old(s)
    <3>1. Used(s.mutation)' /\ s.mutation # 0
      BY <1>2, <2>1, UsedStays
    <3>2. s.mutation = mutation' => s.text = body'
      BY <1>2, <1>3, <2>1, <3>1 DEF Identified
    <3>. QED
      BY <3>1, <3>2
  <2>2. CASE Asked(s) \/ Parted(s)
    <3>1. ~Used(s.mutation) /\ Used(s.mutation)'
      BY <2>2, FreshUnused
    <3>2. s.mutation # 0
      <4>1. Asked(s) => s.mutation \in 1..MaxSaves
        BY FreshUnused
      <4>2. 0 \notin 1..MaxSaves
        BY Constants
      <4>3. ASSUME Parted(s)
            PROVE  s.mutation # 0
        <5>1. PICK t \in Tabs : Preserved(t) /\ s = Snapshot(composer[t], Last(composer[t]))
          BY <4>3 DEF Parted
        <5>2. composer[t].lid \in Lids
          BY <5>1, PreservedGoes, OpenType, TypeParts
        <5>. QED
          BY <5>1, <5>2, Constants DEF Snapshot, Last, Lids
      <4>. QED
        BY <2>2, <4>1, <4>2, <4>3
    <3>. QED
      BY <1>4, <3>1, <3>2
  <2>. QED
    BY <1>1, <1>6, <2>1, <2>2
<1>7. ASSUME NEW s \in Live', NEW z \in Live', s.mutation = z.mutation
      PROVE  s.text = z.text
  <2>1. CASE Old(s) /\ Old(z)
    BY <1>7, <2>1 DEF Identified
  <2>2. CASE \/ Old(s) /\ (Asked(z) \/ Parted(z))
             \/ Old(z) /\ (Asked(s) \/ Parted(s))
    BY <1>2, <1>7, <2>2, FreshUnused
  <2>3. CASE (Asked(s) /\ Parted(z)) \/ (Parted(s) /\ Asked(z))
    BY <1>7, <2>3, FreshUnused
  <2>4. CASE (Asked(s) /\ Asked(z)) \/ (Parted(s) /\ Parted(z))
    BY <1>7, <2>4, FreshOnce
  <2>. QED
    BY <1>1, <1>7, <2>1, <2>2, <2>3, <2>4
<1>8. mutation' # 0 => Used(mutation)'
  <2>1. ASSUME NEW m, m = mutation', m # 0
        PROVE  Used(m)'
    BY <1>4, <2>1, UsedStays
  <2>. QED
    BY <2>1
<1>. QED
  BY <1>6, <1>7, <1>8 DEF Identified

LEMMA BasingKept ==
    ASSUME TypeOK, Stored, Owned, Basing, Answering, Growing, [Next]_vars
    PROVE  Basing'
<1>0. /\ ComposerType /\ LoadedType /\ StoreType /\ RequestType /\ FlushType /\ CopyType
      /\ CountType
  BY TypeParts
<1>1. \A r \in Revisions : \A T : (Based(r, T) => Based(r, T)') /\ (Reads(r, T) => Reads(r, T)')
  BY BasedStays
<1>2. ASSUME NEW s, s.known => s.revision \in Revisions, Known(s)
      PROVE  Known(s)'
  BY <1>1, <1>2 DEF Known
<1>3. ASSUME NEW t \in Tabs, Open(t)
      PROVE  composer[t] \in Composers /\ composer[t].revision \in Revisions /\ Known(composer[t])
  BY <1>0, <1>3, OpenType DEF Composers, Basing
<1>4. ASSUME NEW s \in Live'
      PROVE  Known(s)'
  <2>1. CASE s \in Live
    <3>1. s.revision \in Revisions
      BY <2>1, LiveType DEF Snapshots
    <3>. QED
      BY <1>2, <2>1, <3>1 DEF Basing
  <2>2. ASSUME NEW t \in Tabs, Open(t), NEW m, s = Snapshot(composer[t], m)
        PROVE  Known(s)'
    <3>1. s.known = composer[t].known /\ s.revision = composer[t].revision /\ s.text = composer[t].text
      BY <2>2 DEF Snapshot
    <3>. QED
      BY <1>2, <1>3, <2>2, <3>1 DEF Known
  <2>3. ASSUME NEW l \in Lids, NEW z \in Snapshots, NEW r \in Revisions, Acks(l, z, r),
               copy[l] # Absent, copy[l].snap.known = z.known, s = Merged(copy[l], z, r).snap
        PROVE  Known(s)'
    <3> DEFINE c == copy[l].snap
    <3>1. c \in Live /\ c \in Snapshots
      BY <2>3, LiveType DEF Live
    <3>2. Known(c) /\ c.revision \in Revisions
      BY <3>1 DEF Basing, Snapshots
    <3>3. /\ <<l, z.text>> \in Held /\ Based(r, z.text)
          /\ z.known \/ r > 0
      BY <2>3, AckFacts
    <3>4. z.text \subseteq c.text
      BY <2>3, <3>3 DEF Growing
    <3>5. s.text = c.text /\ s.known = TRUE /\ s.revision = IF c.revision > r THEN c.revision ELSE r
      BY <2>3, MergedKeeps
    <3>6. CASE c.revision > r
      <4>1. c.known
        BY <2>3, <3>2, <3>3, <3>6 DEF Known, Revisions
      <4>. QED
        BY <1>2, <3>2, <3>5, <3>6, <4>1 DEF Known
    <3>7. CASE ~(c.revision > r)
      BY <1>2, <3>3, <3>4, <3>5, <3>7, BasedGrows DEF Known
    <3>. QED
      BY <3>6, <3>7
  <2>. QED
    BY <2>1, <2>2, <2>3, LiveBecomes, PreservedGoes DEF Begun
<1>5. ASSUME NEW t \in Tabs, Open(t)', NEW c, c = composer'[t]
      PROVE  Known(c)'
  <2>1. CASE /\ Open(t) /\ c.text = composer[t].text
             /\ c.known = composer[t].known /\ c.revision = composer[t].revision
    BY <1>2, <1>3, <2>1 DEF Known
  <2>2. CASE /\ Open(t) /\ c.text = composer[t].text
             /\ SaveOk(t) /\ Shows(t, request[t].lid)
             /\ c.known = TRUE /\ c.revision = request[t].answer.revision
    <3>1. request[t].at = "back" /\ request[t].kind = "save" /\ request[t].answer.status = "ok"
      BY <2>2 DEF SaveOk
    <3>2. Reads(c.revision, request[t].snap.text)
      BY <2>2, <3>1 DEF Answering, Acknowledged
    <3>3. <<request[t].lid, request[t].snap.text>> \in Held
      BY <3>1 DEF Held, Active
    <3>4. request[t].snap.text \subseteq c.text
      BY <2>2, <3>3 DEF Growing
    <3>5. c.revision \in Revisions
      BY <1>0, <2>2 DEF RequestType, Requests, Answers
    <3>. QED
      BY <1>2, <2>2, <3>2, <3>4, <3>5, BasedGrows DEF Known
  <2>3. ASSUME NEW e \in flush[t].synced, c.text = composer[t].text, Shows(t, e.lid), c.known = TRUE,
               c.revision = e.revision
        PROVE  Known(c)'
    <3>1. e.revision \in Revisions
      BY <1>0 DEF FlushType, Flushes
    <3>. QED
      BY <1>2, <2>3, <3>1 DEF Known, Basing
  <2>4. CASE Edit(t)
    <3>1. Open(t) /\ composer' = [composer EXCEPT ![t] = [composer[t] EXCEPT !.text = @ \union {edits + 1}]]
      BY <2>4 DEF Edit, Writable
    <3>2. c = [composer[t] EXCEPT !.text = @ \union {edits + 1}]
      BY <1>0, <1>5, <3>1 DEF ComposerType
    <3>3. /\ c.text = composer[t].text \union {edits + 1}
          /\ c.known = composer[t].known /\ c.revision = composer[t].revision
      BY <1>3, <3>1, <3>2 DEF Composers
    <3>4. Based(composer[t].revision, composer[t].text) => Based(composer[t].revision, c.text)
      BY <3>3, BasedGrows
    <3>. QED
      BY <1>2, <1>3, <3>1, <3>3, <3>4 DEF Known
  <2>5. ASSUME NEW l, NEW T, NEW files, NEW known, NEW r, NEW told,
               composer' = [composer EXCEPT ![t] = Fresh(l, T, files, known, r, told)]
        PROVE  c.text = T /\ c.known = known /\ c.revision = r
    BY <1>0, <1>5, <2>5 DEF ComposerType, Fresh
  <2>6. CASE OpenDraft(t)
    <3>1. composer' = [composer EXCEPT ![t] = Fresh(lids + 1, body, onDraft, TRUE, revision,
                                                    state = "sent")]
      BY <2>6 DEF OpenDraft, Apply, Show, Fetched
    <3>2. c.text = body /\ c.known = TRUE /\ c.revision = revision
      BY <1>0, <1>5, <3>1 DEF ComposerType, Fresh
    <3>3. Based(c.revision, c.text) /\ c.revision \in Revisions
      BY <1>0, <3>2 DEF Based, StoreType, Revisions
    <3>. QED
      BY <1>2, <3>2, <3>3 DEF Known
  <2>7. CASE UseSaved(t) \/ KeepMine(t)
    <3>1. loaded[t] \in Loads /\ Reads(loaded[t].revision, loaded[t].text)
      BY <1>0, <2>7 DEF UseSaved, KeepMine, Chooses, LoadedType, Basing
    <3>2. loaded[t].revision \in Revisions
      BY <3>1 DEF Loads
    <3>3. CASE UseSaved(t)
      <4>1. composer' = [composer EXCEPT ![t] = Fresh(lids + 1, loaded[t].text, loaded[t].files, TRUE,
                                                      loaded[t].revision, loaded[t].sent)]
        BY <3>3 DEF UseSaved, Apply, Show
      <4>2. c.text = loaded[t].text /\ c.known = TRUE /\ c.revision = loaded[t].revision
        BY <1>0, <1>5, <4>1 DEF ComposerType, Fresh
      <4>. QED
        BY <1>2, <3>1, <3>2, <4>2, BasedGrows DEF Known
    <3>4. CASE KeepMine(t)
      <4>1. composer' = [composer EXCEPT ![t] = Fresh(lids + 1, composer[t].text,
                                     composer[t].files \union loaded[t].files, TRUE,
                                     loaded[t].revision, FALSE)]
            /\ dropped' = dropped \union (loaded[t].text \ composer[t].text) /\ UNCHANGED storeVars
        BY <3>4 DEF KeepMine, Show
      <4>2. c.text = composer[t].text /\ c.known = TRUE /\ c.revision = loaded[t].revision
        BY <2>5, <4>1
      <4>3. c.revision <= revision /\ (c.revision = revision /\ state = "open" => body \subseteq c.text \union dropped')
        BY <3>1, <4>1, <4>2 DEF Reads
      <4>. QED
        BY <4>1, <4>2, <4>3 DEF Known, Based, storeVars
    <3>. QED
      BY <2>7, <3>3, <3>4
  <2>8. ASSUME NEW l \in Lids, Restore(t, l)
        PROVE  Known(c)'
    <3> DEFINE s == copy[l].snap
    <3>1. composer' = [composer EXCEPT ![t] = Fresh(lids + 1, s.text, s.files, s.known, s.revision, FALSE)]
          /\ copy[l] # Absent
      BY <2>8 DEF Restore, Show
    <3>2. c.text = s.text /\ c.known = s.known /\ c.revision = s.revision
      BY <2>5, <3>1
    <3>3. s \in Live
      BY <3>1 DEF Live
    <3>4. s \in Snapshots
      BY <3>3, LiveType
    <3>5. s.revision \in Revisions
      BY <3>4 DEF Snapshots
    <3>. QED
      BY <1>2, <3>2, <3>3, <3>5 DEF Known, Basing
  <2>9. CASE Opens(t)
    BY <2>6, <2>7, <2>8, <2>9 DEF Opens
  <2>. QED
    BY <1>5, <2>1, <2>2, <2>3, <2>4, <2>9, ComposerBecomes
<1>6. ASSUME NEW t \in Tabs, NEW d, d = loaded'[t], d # Absent
      PROVE  Reads(d.revision, d.text)'
  <2>1. CASE loaded[t] = d
    BY <1>0, <1>1, <1>6, <2>1 DEF LoadedType, Loads, Basing
  <2>2. CASE d = Fetched
    <3>1. d.revision = revision /\ d.text = body
      BY <2>2 DEF Fetched
    <3>2. Reads(d.revision, d.text) /\ d.revision \in Revisions
      BY <1>0, <3>1 DEF Reads, StoreType, Revisions
    <3>. QED
      BY <1>1, <3>2
  <2>. QED
    BY <1>0, <1>6, <2>1, <2>2, LoadedChanges DEF Unloaded, Compare, LoadedType
<1>7. ASSUME NEW t \in Tabs, NEW u \in Tabs, NEW e \in flush'[t].synced, Shows(u, e.lid)', NEW T,
             T = composer'[u].text
      PROVE  Based(e.revision, T)'
  <2>1. flush[t] \in Flushes
    BY <1>0 DEF FlushType
  <2>2. CASE e \in flush[t].synced
    <3>1. e.lid \in 1..lids /\ e.revision \in Revisions
      BY <1>0, <2>1, <2>2, Constants DEF Flushes, Owned, CountType, Lids
    <3>2. Shows(u, e.lid) /\ composer[u].text \subseteq T
      BY <1>7, <3>1, ShowsStays DEF Shows
    <3>3. Based(e.revision, composer[u].text)
      BY <2>2, <3>2 DEF Basing
    <3>. QED
      BY <1>1, <3>1, <3>2, <3>3, BasedGrows
  <2>3. CASE /\ flush[t].at = "back" /\ flush[t].answer.status = "ok"
             /\ e = [lid |-> flush[t].lid, revision |-> flush[t].answer.revision]
    <3>1. e.lid = flush[t].lid /\ e.revision = flush[t].answer.revision /\ e.revision \in Revisions
      BY <2>1, <2>3 DEF Flushes, Answers
    <3>2. e.lid \in 1..lids
      BY <2>3, <3>1 DEF Owned, Pushing
    <3>3. Shows(u, e.lid) /\ composer[u].text \subseteq T
      BY <1>7, <3>2, ShowsStays DEF Shows
    <3>4. <<flush[t].lid, flush[t].snap.text>> \in Held
      BY <2>3 DEF Held, Pushing
    <3>5. flush[t].snap.text \subseteq T
      BY <3>1, <3>3, <3>4 DEF Growing
    <3>6. Reads(e.revision, flush[t].snap.text)
      BY <2>3, <3>1 DEF Answering, Acknowledged
    <3>. QED
      BY <1>1, <3>1, <3>5, <3>6, BasedGrows
  <2>. QED
    BY <1>7, <2>2, <2>3, FlushBecomes DEF NoFlush
<1>8. /\ \A s \in Live' : Known(s)'
      /\ \A t \in Tabs : Open(t)' => Known(composer[t])'
  BY <1>4, <1>5 DEF Known, Based
<1>9. \A t \in Tabs : loaded'[t] # Absent => Reads(loaded[t].revision, loaded[t].text)'
  BY <1>6 DEF Reads
<1>10. \A t, u \in Tabs : \A e \in flush'[t].synced :
          Shows(u, e.lid)' => Based(e.revision, composer[u].text)'
  BY <1>7 DEF Based
<1>. QED
  BY <1>8, <1>9, <1>10 DEF Basing

LEMMA AnsweringKept ==
    ASSUME TypeOK, Stored, Identified, Basing, Answering, [Next]_vars
    PROVE  Answering'
<1>0. RequestType /\ FlushType /\ CopyType
  BY TypeParts
<1>1. Safe \subseteq Safe'
  BY SafeStays
<1>2. ASSUME NEW s, NEW a \in Answers, Acknowledged(s, a)
      PROVE  Acknowledged(s, a)'
  BY <1>2, AcknowledgedStays DEF Acknowledged
<1>3. ASSUME NEW s \in Live, NEW a, a = Lost \/ Save(s, a)
      PROVE  Acknowledged(s, a)'
  <2>1. CASE a.status # "ok"
    BY <2>1 DEF Acknowledged
  <2>2. CASE a.status = "ok"
    <3>1. a.revision > 0 /\ a.revision = revision' /\ s.text = body'
      BY <1>3, <2>2, SaveAnswers DEF Lost
    <3>2. revision' \in Nat
      BY StoreTypeKept DEF StoreType, Revisions
    <3>3. Reads(a.revision, s.text)' /\ s.text \subseteq Safe'
      BY <3>1, <3>2 DEF Reads, Safe
    <3>. QED
      BY <3>1, <3>3 DEF Acknowledged
  <2>. QED
    BY <2>1, <2>2
<1>4. ASSUME NEW t \in Tabs, request'[t].at = "back", request'[t].kind = "save",
             NEW s, s = request'[t].snap, NEW a, a = request'[t].answer
      PROVE  Acknowledged(s, a)'
  <2>1. CASE request'[t] = request[t]
    <3>1. Acknowledged(s, a) /\ a \in Answers
      BY <1>0, <1>4, <2>1 DEF Answering, RequestType, Requests
    <3>. QED
      BY <1>2, <3>1
  <2>2. CASE /\ request[t].at = "wait" /\ request[t].kind = "save" /\ s = request[t].snap
             /\ a = Lost \/ Save(s, a)
    <3>1. s \in Live
      BY <2>2 DEF Live, Active
    <3>. QED
      BY <1>3, <2>2, <3>1
  <2>3. request'[t] # NoRequest
    BY <1>4 DEF NoRequest
  <2>. QED
    BY <1>4, <2>1, <2>2, <2>3, RequestBecomes
<1>5. ASSUME NEW t \in Tabs, flush'[t].at = "back", NEW s, s = flush'[t].snap, NEW a,
             a = flush'[t].answer
      PROVE  Acknowledged(s, a)'
  <2>1. CASE flush'[t] = flush[t]
    <3>1. Acknowledged(s, a) /\ a \in Answers
      BY <1>0, <1>5, <2>1 DEF Answering, FlushType, Flushes
    <3>. QED
      BY <1>2, <3>1
  <2>2. CASE flush[t].at = "wait" /\ s = flush[t].snap /\ (a = Lost \/ Save(s, a))
    <3>1. s \in Live
      BY <2>2 DEF Live, Pushing
    <3>. QED
      BY <1>3, <2>2, <3>1
  <2>. QED
    BY <1>5, <2>1, <2>2, FlushBecomes DEF NoFlush
<1>6. ASSUME NEW l \in Lids, copy'[l] # Absent, copy'[l].acked # Absent
      PROVE  copy'[l].acked.text \subseteq Safe'
  <2>1. CASE copy'[l] = copy[l]
    BY <1>1, <1>6, <2>1 DEF Answering
  <2>2. ASSUME NEW s \in Snapshots, NEW r \in Revisions, Acks(l, s, r), copy[l] # Absent,
               copy'[l] = Merged(copy[l], s, r)
        PROVE  copy'[l].acked.text \subseteq Safe'
    <3>1. s.text \subseteq Safe
      BY <2>2, AckFacts
    <3>2. Content(s).text = s.text
      BY DEF Content
    <3>3. \/ Merged(copy[l], s, r).acked = copy[l].acked
          \/ Merged(copy[l], s, r).acked = Content(s)
      BY DEF Merged
    <3>. QED
      BY <1>1, <1>6, <2>2, <3>1, <3>2, <3>3 DEF Answering
  <2>3. ASSUME NEW s, copy'[l] = [snap |-> s, acked |-> Absent]
        PROVE  FALSE
    BY <1>6, <2>3
  <2>. QED
    BY <1>6, <2>1, <2>2, <2>3, CopyBecomes
<1>7. ASSUME NEW t \in Tabs, NEW e \in flush'[t].todo, e.copy.acked # Absent
      PROVE  e.copy.acked.text \subseteq Safe'
  <2>1. CASE e \in flush[t].todo
    BY <1>1, <1>7, <2>1 DEF Answering
  <2>2. CASE e.lid \in Lids /\ copy[e.lid] # Absent /\ e.copy = copy[e.lid]
    BY <1>1, <1>7, <2>2 DEF Answering
  <2>. QED
    BY <1>7, <2>1, <2>2, FlushBecomes DEF NoFlush
<1>8. \A t \in Tabs : request'[t].at = "back" /\ request'[t].kind = "save" =>
         Acknowledged(request[t].snap, request[t].answer)'
  BY <1>4 DEF Acknowledged, Reads
<1>9. \A t \in Tabs : flush'[t].at = "back" => Acknowledged(flush[t].snap, flush[t].answer)'
  BY <1>5 DEF Acknowledged, Reads
<1>. QED
  BY <1>6, <1>7, <1>8, <1>9 DEF Answering

LEMMA SentKept ==
    ASSUME TypeOK, Stored, Basing, Answering, Sent, [Next]_vars
    PROVE  Sent'
<1>0. RequestType /\ LateType /\ StoreType
  BY TypeParts
<1>1. Safe \subseteq Safe'
  BY SafeStays
<1>2. \A r \in Revisions : \A T : Reads(r, T) => Reads(r, T)'
  BY BasedStays
<1>3. ASSUME state = "sent"
      PROVE  state' = "sent" /\ accepted' = accepted
  BY <1>3, RevisionMoves DEF draft
<1>4. ASSUME NEW t \in Tabs
      PROVE  request[t].snap.revision \in Revisions /\ request[t].answer.revision \in Revisions
  BY <1>0 DEF RequestType, Requests, Snapshots, Answers
<1>5. ASSUME NEW t \in Tabs, Active(t)', request'[t].kind = "send", NEW s, s = request'[t].snap
      PROVE  /\ Reads(s.revision, s.text)' /\ s.text \subseteq Safe'
             /\ request'[t].at = "back" /\ request'[t].answer.status = "ok" =>
                   state' = "sent" /\ accepted' = s.text
  <2>1. CASE request'[t] = request[t]
    <3>1. Active(t)
      BY <1>5, <2>1 DEF Active
    <3>2. /\ Reads(s.revision, s.text) /\ s.text \subseteq Safe
          /\ request'[t].at = "back" /\ request'[t].answer.status = "ok" =>
                state = "sent" /\ accepted = s.text
      BY <1>5, <2>1, <3>1 DEF Sent
    <3>. QED
      BY <1>1, <1>2, <1>3, <1>4, <1>5, <2>1, <3>2
  <2>2. CASE /\ SaveOk(t) /\ request'[t].at = "wait"
             /\ s = [request[t].snap EXCEPT !.known = TRUE, !.revision = request[t].answer.revision]
    <3>1. request[t].snap \in Snapshots
      BY <1>0 DEF RequestType, Requests
    <3>2. s.text = request[t].snap.text /\ s.revision = request[t].answer.revision
      BY <2>2, <3>1 DEF Snapshots
    <3>3. Acknowledged(request[t].snap, request[t].answer) /\ request[t].answer.status = "ok"
      BY <2>2 DEF SaveOk, Answering
    <3>4. Reads(s.revision, s.text) /\ s.text \subseteq Safe
      BY <3>2, <3>3 DEF Acknowledged
    <3>. QED
      BY <1>1, <1>2, <1>4, <2>2, <3>2, <3>4
  <2>3. ASSUME NEW a \in Answers, request[t].at = "wait", request'[t].at = "back",
               request'[t].answer = a, request[t].kind = "send", s = request[t].snap,
               a = Lost \/ SendAnswer(s, a) \/ SendCommit(t, s, a)
        PROVE  /\ Reads(s.revision, s.text)' /\ s.text \subseteq Safe'
               /\ a.status = "ok" => state' = "sent" /\ accepted' = s.text
    <3>1. Reads(s.revision, s.text) /\ s.text \subseteq Safe
      BY <2>3 DEF Sent, Active
    <3>2. ASSUME SendAnswer(s, a), a.status = "ok"
          PROVE  state' = "sent" /\ accepted' = s.text
      <4>1. UNCHANGED storeVars /\ state = "sent" /\ accepted = s.text
        BY <3>2 DEF SendAnswer, NotFound, Conflict
      <4>. QED
        BY <4>1 DEF storeVars
    <3>3. ASSUME SendCommit(t, s, a), a.status = "ok"
          PROVE  state' = "sent" /\ accepted' = s.text
      BY <3>3 DEF SendCommit, Complete, Conflict
    <3>. QED
      BY <1>1, <1>2, <1>4, <2>3, <3>1, <3>2, <3>3 DEF Lost
  <2>. QED
    <3>1. request'[t] # NoRequest
      BY <1>5 DEF Active, NoRequest
    <3>2. CASE \E b \in BOOLEAN : request'[t].kind = "save"
      BY <1>5, <3>2
    <3>3. CASE \E a \in Answers :
                  /\ request[t].at = "wait" /\ request'[t].at = "back" /\ request'[t].answer = a
                  /\ request'[t].kind = request[t].kind
                  /\ request'[t].snap = request[t].snap
                  /\ \/ a = Lost
                     \/ request[t].kind = "save" /\ Save(request[t].snap, a)
                     \/ request[t].kind = "send" /\ SendAnswer(request[t].snap, a)
                     \/ request[t].kind = "send" /\ SendCommit(t, request[t].snap, a)
      <4>1. PICK a \in Answers :
                  /\ request[t].at = "wait" /\ request'[t].at = "back" /\ request'[t].answer = a
                  /\ request[t].kind = "send" /\ s = request[t].snap
                  /\ a = Lost \/ SendAnswer(s, a) \/ SendCommit(t, s, a)
        BY <1>5, <3>3
      <4>. QED
        BY <2>3, <4>1
    <3>4. CASE SaveOk(t) /\ request'[t].at = "wait"
               /\ request'[t].snap = [request[t].snap EXCEPT !.known = TRUE,
                                         !.revision = request[t].answer.revision]
      BY <1>5, <2>2, <3>4
    <3>. QED
      BY <2>1, <3>1, <3>2, <3>3, <3>4, RequestBecomes
<1>6. ASSUME NEW q \in late', q.kind = "send"
      PROVE  Reads(q.snap.revision, q.snap.text)'
  <2>1. CASE q \in late
    <3>1. q.snap.revision \in Revisions
      BY <1>0, <2>1 DEF LateType, Snapshots
    <3>. QED
      BY <1>2, <1>6, <2>1, <3>1 DEF Sent
  <2>2. ASSUME NEW t \in Tabs, q \in Outstanding(t) \/ q \in AwaitedFlush(t)
        PROVE  Reads(q.snap.revision, q.snap.text)'
    <3>1. Active(t) /\ request[t].kind = "send" /\ q.snap = request[t].snap
      BY <1>6, <2>2 DEF Outstanding, AwaitedFlush, Active
    <3>2. Reads(q.snap.revision, q.snap.text) /\ q.snap.revision \in Revisions
      BY <1>4, <3>1 DEF Sent
    <3>. QED
      BY <1>2, <3>2
  <2>. QED
    BY <2>1, <2>2, LateChanges DEF RequestLost, FlushLost, Kill, LateArrives
<1>7. \A t \in Tabs : Active(t)' /\ request'[t].kind = "send" =>
         /\ Reads(request[t].snap.revision, request[t].snap.text)'
         /\ request'[t].snap.text \subseteq Safe'
         /\ request'[t].at = "back" /\ request'[t].answer.status = "ok" =>
               state' = "sent" /\ accepted' = request'[t].snap.text
  BY <1>5 DEF Reads
<1>. QED
  BY <1>6, <1>7 DEF Sent

LEMMA GrowingKept ==
    ASSUME TypeOK, Owned, Growing, [Next]_vars
    PROVE  Growing'
<1>0. ComposerType /\ CountType /\ CopyType
  BY TypeParts
<1>1. ASSUME NEW t \in Tabs, Open(t)
      PROVE  composer[t].lid \in Lids /\ composer[t].lid \in 1..lids
  BY <1>0, <1>1, OpenType, Constants DEF Owned, Lids, CountType
<1>2. ASSUME NEW l \in Lids, copy'[l] # Absent
      PROVE  \/ copy[l] # Absent /\ copy'[l].snap.text = copy[l].snap.text
             \/ \E t \in Tabs : /\ Shows(t, l) /\ copy'[l].snap.text = composer[t].text
                                /\ Preserved(t) \/ \E b \in BOOLEAN : Begun(t, b)
  <2>1. ASSUME NEW t, NEW m, copy'[l] = [snap |-> Snapshot(composer[t], m), acked |-> Absent]
        PROVE  copy'[l].snap.text = composer[t].text
    BY <2>1 DEF Snapshot
  <2>2. ASSUME NEW s \in Snapshots, NEW r \in Revisions, copy[l] # Absent,
               copy'[l] = Merged(copy[l], s, r)
        PROVE  copy'[l].snap.text = copy[l].snap.text
    <3>1. Merged(copy[l], s, r).snap.text = copy[l].snap.text
      BY <2>2, MergedKeeps
    <3>. QED
      BY <2>2, <3>1
  <2>. QED
    BY <1>2, <2>1, <2>2, CopyBecomes
<1>3. ASSUME NEW h \in Held', copy'[h[1]] # Absent, h[1] \in Lids
      PROVE  h[2] \subseteq copy'[h[1]].snap.text
  <2>1. CASE h \in Held
    BY <1>2, <1>3, <2>1 DEF Growing
  <2>2. ASSUME NEW t \in Tabs, NEW b \in BOOLEAN, Begun(t, b),
               h = <<composer[t].lid, composer[t].text>>
        PROVE  h[2] \subseteq copy'[h[1]].snap.text
    <3>1. Keeps(Snapshot(composer[t], saves + 1), composer[t].lid) /\ Open(t)
      BY <2>2 DEF Begun, Begins
    <3>2. copy'[composer[t].lid] = [snap |-> Snapshot(composer[t], saves + 1), acked |-> Absent]
      BY <1>0, <1>1, <3>1 DEF Keeps, CopyType
    <3>. QED
      BY <2>2, <3>2 DEF Snapshot
  <2>3. ASSUME NEW l \in Lids, copy[l] # Absent, h = <<l, copy[l].snap.text>>
        PROVE  h[2] \subseteq copy'[h[1]].snap.text
    BY <1>2, <1>3, <2>3 DEF Growing
  <2>. QED
    BY <2>1, <2>2, <2>3, HeldBecomes
<1>4. ASSUME NEW h \in Held'
      PROVE  /\ h[1] \in Lids /\ h[1] \in 1..lids
             /\ \A t \in Tabs : Shows(t, h[1]) => h[2] \subseteq composer[t].text
  <2>1. CASE h \in Held
    BY <2>1, HeldLids DEF Growing
  <2>2. ASSUME NEW t \in Tabs, Open(t), h = <<composer[t].lid, composer[t].text>>
        PROVE  /\ h[1] \in Lids /\ h[1] \in 1..lids
               /\ \A u \in Tabs : Shows(u, h[1]) => h[2] \subseteq composer[u].text
    BY <1>1, <2>2 DEF Owned
  <2>3. ASSUME NEW l \in Lids, copy[l] # Absent, h = <<l, copy[l].snap.text>>
        PROVE  /\ h[1] \in Lids /\ h[1] \in 1..lids
               /\ \A t \in Tabs : Shows(t, h[1]) => h[2] \subseteq composer[t].text
    BY <1>0, <2>3, Constants DEF Growing, Owned, Lids, CountType
  <2>. QED
    BY <2>1, <2>2, <2>3, HeldBecomes DEF Begun
<1>5. ASSUME NEW h \in Held', NEW t \in Tabs, Open(t)', composer'[t].lid = h[1]
      PROVE  h[2] \subseteq composer'[t].text
  <2>1. PICK l \in 1..lids : l = h[1]
    BY <1>4, <1>5
  <2>2. Shows(t, l)'
    BY <1>5, <2>1 DEF Shows
  <2>3. Shows(t, l) /\ composer[t].text \subseteq composer'[t].text
    BY <2>2, ShowsStays
  <2>. QED
    BY <1>4, <1>5, <2>1, <2>3
<1>6. ASSUME NEW l \in Lids, NEW t \in Tabs, copy'[l] # Absent, Shows(t, l)'
      PROVE  copy'[l].snap.text \subseteq composer'[t].text
  <2>1. l \in 1..lids
    BY <1>0, <1>1, <1>2, <1>6, Constants DEF Owned, Lids, CountType, Shows
  <2>2. Shows(t, l) /\ composer[t].text \subseteq composer'[t].text
    BY <1>6, <2>1, ShowsStays
  <2>3. CASE copy[l] # Absent /\ copy'[l].snap.text = copy[l].snap.text
    BY <2>2, <2>3 DEF Growing
  <2>4. ASSUME NEW u \in Tabs, Shows(u, l), copy'[l].snap.text = composer[u].text
        PROVE  copy'[l].snap.text \subseteq composer'[t].text
    <3>1. u = t
      BY <2>2, <2>4 DEF Owned, Shows
    <3>. QED
      BY <2>2, <2>4, <3>1
  <2>. QED
    BY <1>2, <1>6, <2>3, <2>4
<1>7. \A h \in Held' : h[1] \in Lids
  BY <1>4
<1>8. \A h \in Held' : copy'[h[1]] # Absent => h[2] \subseteq copy'[h[1]].snap.text
  BY <1>3, <1>7
<1>9. \A h \in Held' : \A t \in Tabs : Shows(t, h[1])' => h[2] \subseteq composer'[t].text
  BY <1>5 DEF Shows
<1>. QED
  BY <1>6, <1>7, <1>8, <1>9 DEF Growing

\* What replaces a device copy is a device copy.
LEMMA CopiesMade ==
    ASSUME TypeOK, NEW l \in Lids
    PROVE  /\ \A t \in Tabs, b \in BOOLEAN : Begun(t, b) =>
                 [snap |-> Snapshot(composer[t], saves + 1), acked |-> Absent] # Absent
           /\ \A t \in Tabs : Preserved(t) =>
                 [snap |-> Snapshot(composer[t], Last(composer[t])), acked |-> Absent] # Absent
           /\ \A z \in Snapshots, r \in Revisions :
                 copy[l] # Absent => Merged(copy[l], z, r) # Absent
<1>0. ComposerType /\ CountType /\ CopyType
  BY TypeParts
<1>1. ASSUME NEW s \in Snapshots
      PROVE  [snap |-> s, acked |-> Absent] # Absent
  <2>1. [snap |-> s, acked |-> Absent] \in Copies
    BY DEF Copies
  <2>. QED
    BY <2>1, Constants
<1>2. ASSUME NEW t \in Tabs, NEW b \in BOOLEAN, Begun(t, b)
      PROVE  Snapshot(composer[t], saves + 1) \in Snapshots
  <2>1. Open(t) /\ saves < MaxSaves
    BY <1>2 DEF Begun, Begins
  <2>2. saves + 1 \in Mutations
    BY <1>0, <2>1, Constants DEF CountType, Mutations
  <2>. QED
    BY <1>0, <2>1, <2>2, SnapshotType
<1>3. ASSUME NEW t \in Tabs, Preserved(t)
      PROVE  Snapshot(composer[t], Last(composer[t])) \in Snapshots
  <2>1. Open(t)
    BY <1>3 DEF Preserved, Leave, UseSaved, KeepMine, Chooses, Writable
  <2>2. Last(composer[t]) \in Mutations
    BY <1>0, <2>1, OpenType, Constants DEF Last, Mutations, Lids
  <2>. QED
    BY <1>0, <2>1, <2>2, SnapshotType
<1>4. ASSUME NEW z \in Snapshots, NEW r \in Revisions, copy[l] # Absent
      PROVE  Merged(copy[l], z, r) # Absent
  <2> DEFINE c == copy[l]
             snap == [c.snap EXCEPT !.known = TRUE, !.revision = IF c.snap.revision > r THEN @ ELSE r]
             acked == IF c.snap.revision > r THEN c.acked ELSE Content(z)
  <2>1. c \in Copies
    BY <1>0, <1>4 DEF CopyType
  <2>2. snap \in Snapshots
    BY <2>1 DEF Copies, Snapshots
  <2>3. acked \in Contents \union {Absent}
    BY <2>1 DEF Copies, Content, Contents, Snapshots
  <2>4. Merged(copy[l], z, r) = [snap |-> snap, acked |-> acked]
    BY DEF Merged
  <2> HIDE DEF snap, acked
  <2>5. Merged(copy[l], z, r) \in Copies
    BY <2>2, <2>3, <2>4 DEF Copies
  <2>. QED
    BY <2>5, Constants
<1>. QED
  BY <1>1, <1>2, <1>3, <1>4

LEMMA SubmittingKept ==
    ASSUME TypeOK, Stored, Owned, Basing, Answering, Growing, Submitting, [Next]_vars
    PROVE  Submitting'
<1>0. ComposerType /\ CountType /\ CopyType /\ RequestType
  BY TypeParts
<1>1. Safe \subseteq Safe'
  BY SafeStays
<1>2. ASSUME NEW t \in Tabs, request'[t].submits
      PROVE  /\ request'[t].lid \in Lids /\ request'[t].lid \in 1..lids
             /\ \/ /\ request[t].submits /\ request'[t].lid = request[t].lid
                   /\ request'[t].snap.text = request[t].snap.text
                \/ \E b \in BOOLEAN :
                      /\ Begun(t, b) /\ request'[t].lid = composer[t].lid
                      /\ request'[t].snap.text = composer[t].text
  <2>1. request'[t] # NoRequest
    BY <1>2 DEF NoRequest
  <2>2. request[t].snap \in Snapshots /\ request[t].lid \in {0} \union Lids
    BY <1>0 DEF RequestType, Requests
  <2>3. ASSUME request'[t].snap = [request[t].snap EXCEPT !.known = TRUE,
                                      !.revision = request[t].answer.revision]
        PROVE  request'[t].snap.text = request[t].snap.text
    BY <2>2, <2>3 DEF Snapshots
  <2>4. ASSUME request'[t].snap = Snapshot(composer[t], saves + 1)
        PROVE  request'[t].snap.text = composer[t].text
    BY <2>4 DEF Snapshot
  <2>5. \/ /\ request[t].submits /\ request'[t].lid = request[t].lid
           /\ request'[t].snap.text = request[t].snap.text
        \/ \E b \in BOOLEAN : /\ Begun(t, b) /\ request'[t].lid = composer[t].lid
                              /\ request'[t].snap.text = composer[t].text
    BY <1>2, <2>1, <2>3, <2>4, RequestBecomes
  <2>6. request[t].submits => request[t].lid \in 1..lids
    BY DEF Owned
  <2>7. ASSUME Open(t)
        PROVE  composer[t].lid \in Lids /\ composer[t].lid \in 1..lids
    BY <1>0, <2>7, OpenType, Constants DEF Owned, Lids, CountType
  <2>8. 1..lids \subseteq Lids
    BY <1>0, Constants DEF Lids, CountType
  <2>. QED
    BY <2>5, <2>6, <2>7, <2>8 DEF Begun
<1>3. ASSUME NEW t \in Tabs, request'[t].submits, NEW l, l = request'[t].lid, NEW T,
             T = request'[t].snap.text
      PROVE  /\ Shows(t, l) => composer[t].text = T
             /\ \A u \in Tabs : Shows(u, l) => u = t
             /\ \/ copy[l] # Absent => copy[l].snap.text \subseteq T
                \/ \E b \in BOOLEAN : Begun(t, b)
             /\ \/ T \subseteq Safe \/ (copy[l] # Absent /\ T \subseteq copy[l].snap.text)
                \/ \E b \in BOOLEAN : Begun(t, b)
             /\ (request[t].submits /\ request[t].lid = l) \/ \E b \in BOOLEAN : Begun(t, b)
  <2>1. CASE request[t].submits /\ l = request[t].lid /\ T = request[t].snap.text
    BY <2>1 DEF Submitting, Owned
  <2>2. CASE \E b \in BOOLEAN : Begun(t, b) /\ l = composer[t].lid /\ T = composer[t].text
    BY <2>2 DEF Owned, Shows, Begun
  <2>. QED
    BY <1>2, <1>3, <2>1, <2>2
<1>4. ASSUME NEW t \in Tabs, NEW b \in BOOLEAN, Begun(t, b)
      PROVE  /\ Open(t) /\ saves' = saves + 1
             /\ copy'[composer[t].lid] # Absent
             /\ copy'[composer[t].lid].snap.text = composer[t].text
  <2>1. /\ Keeps(Snapshot(composer[t], saves + 1), composer[t].lid) /\ Open(t)
        /\ saves' = saves + 1 /\ saves < MaxSaves
    BY <1>4 DEF Begun, Begins
  <2>2. saves + 1 \in Mutations
    BY <1>0, <2>1, Constants DEF CountType, Mutations
  <2>3. Snapshot(composer[t], saves + 1) \in Snapshots /\ composer[t].lid \in Lids
    BY <1>0, <2>1, <2>2, SnapshotType, OpenType
  <2>4. copy'[composer[t].lid] = [snap |-> Snapshot(composer[t], saves + 1), acked |-> Absent]
    BY <1>0, <2>1, <2>3 DEF Keeps, CopyType
  <2>5. [snap |-> Snapshot(composer[t], saves + 1), acked |-> Absent] \in Copies
    BY <2>3 DEF Copies
  <2>. QED
    BY <2>1, <2>4, <2>5, Constants DEF Snapshot
<1>5. ASSUME NEW t \in Tabs, request'[t].submits, NEW l, l = request'[t].lid, NEW T,
             T = request'[t].snap.text, Open(t)', composer'[t].lid = l
      PROVE  composer'[t].text = T
  <2>1. PICK k \in 1..lids : k = l
    BY <1>2, <1>5
  <2>2. Shows(t, k)'
    BY <1>5, <2>1 DEF Shows
  <2>3. Shows(t, l) /\ (composer'[t].text = composer[t].text \/ Edit(t))
    BY <2>1, <2>2, ShowsStays
  <2>4. ~Edit(t)
    <3>1. CASE \E b \in BOOLEAN : Begun(t, b)
      BY <1>0, <1>4, <3>1, Constants DEF Edit, CountType
    <3>2. CASE request[t].submits /\ request[t].lid = l
      BY <2>3, <3>2 DEF Edit, Writable, Sending
    <3>. QED
      BY <1>3, <1>5, <3>1, <3>2
  <2>. QED
    BY <1>3, <1>5, <2>3, <2>4
<1>6. ASSUME NEW t \in Tabs, request'[t].submits, NEW l, l = request'[t].lid, NEW T,
             T = request'[t].snap.text
      PROVE  /\ copy'[l] # Absent => copy'[l].snap.text \subseteq T
             /\ T \subseteq Safe' \/ (copy'[l] # Absent /\ T \subseteq copy'[l].snap.text)
  <2>0. l \in Lids
    BY <1>2, <1>6
  <2>1. CASE \E b \in BOOLEAN : Begun(t, b)
    <3>1. l = composer[t].lid /\ T = composer[t].text
      <4>1. ~request[t].submits
        <5>1. request[t].at = "idle"
          BY <2>1 DEF Begun, Begins
        <5>. QED
          BY <5>1 DEF Owned, Active
      <4>. QED
        BY <1>2, <1>6, <4>1
    <3>. QED
      BY <1>4, <2>1, <3>1
  <2>2. CASE ~\E b \in BOOLEAN : Begun(t, b)
    <3>0. /\ Shows(t, l) => composer[t].text = T
          /\ \A u \in Tabs : Shows(u, l) => u = t
          /\ copy[l] # Absent => copy[l].snap.text \subseteq T
          /\ T \subseteq Safe \/ (copy[l] # Absent /\ T \subseteq copy[l].snap.text)
          /\ request[t].submits /\ request[t].lid = l
      BY <1>3, <1>6, <2>2
    <3>1. CASE copy'[l] = copy[l]
      BY <1>1, <3>0, <3>1
    <3>2. CASE copy'[l] = Absent /\ copy[l] # Absent
      <4>1. ASSUME NEW s \in Snapshots, NEW r \in Revisions, Acks(l, s, r), copy[l].snap = s
            PROVE  T \subseteq Safe
        BY <2>0, <3>0, <4>1, <3>2, AckFacts
      <4>2. ASSUME NEW u \in Tabs, SendOk(u), request[u].lid = l
            PROVE  FALSE
        <5>1. Active(u) /\ Active(t)
          BY <3>0, <4>2 DEF SendOk, Active, Owned
        <5>2. u = t
          BY <3>0, <4>2, <5>1 DEF Owned
        <5>3. request'[t] = NoRequest
          BY <1>0, <4>2, <5>2 DEF SendOk, Done, RequestType
        <5>. QED
          BY <1>6, <5>3 DEF NoRequest
      <4>3. ASSUME NEW u \in Tabs, DeleteDraft(u), Shows(u, l)
            PROVE  FALSE
        BY <3>0, <4>3 DEF DeleteDraft, Sending
      <4>4. /\ \A u \in Tabs : Preserved(u) =>
                  copy'[l] # [snap |-> Snapshot(composer[u], Last(composer[u])), acked |-> Absent]
            /\ \A u \in Tabs, b \in BOOLEAN : Begun(u, b) =>
                  copy'[l] # [snap |-> Snapshot(composer[u], saves + 1), acked |-> Absent]
            /\ \A s \in Snapshots, r \in Revisions : copy'[l] # Merged(copy[l], s, r)
        BY <2>0, <3>2, CopiesMade
      <4>. QED
        BY <1>1, <2>0, <2>2, <3>2, <4>1, <4>2, <4>3, <4>4, CopyBecomes
    <3>3. ASSUME NEW u \in Tabs, Shows(u, l), NEW m,
                 copy'[l] = [snap |-> Snapshot(composer[u], m), acked |-> Absent], copy'[l] # Absent
          PROVE  copy'[l].snap.text = T
      BY <3>0, <3>3 DEF Snapshot
    <3>4. ASSUME NEW s \in Snapshots, NEW r \in Revisions, copy[l] # Absent,
                 copy'[l] = Merged(copy[l], s, r), copy'[l] # Absent
          PROVE  copy'[l].snap.text = copy[l].snap.text
      <4>1. Merged(copy[l], s, r).snap.text = copy[l].snap.text
        BY <2>0, <3>4, MergedKeeps
      <4>. QED
        BY <3>4, <4>1
    <3>5. CASE copy'[l] # Absent
      <4>1. \/ copy'[l] = copy[l] \/ copy'[l].snap.text = T
            \/ copy[l] # Absent /\ copy'[l].snap.text = copy[l].snap.text
        BY <2>0, <3>3, <3>4, <3>5, CopyBecomes
      <4>. QED
        BY <1>1, <3>0, <3>1, <3>5, <4>1
    <3>6. copy'[l] = Absent /\ copy[l] = Absent => copy'[l] = copy[l]
      OBVIOUS
    <3>. QED
      BY <3>1, <3>2, <3>5, <3>6
  <2>. QED
    BY <2>1, <2>2
<1>7. \A t \in Tabs : request'[t].submits =>
         (Open(t)' /\ composer'[t].lid = request'[t].lid => composer'[t].text = request'[t].snap.text)
  BY <1>5
<1>8. \A t \in Tabs : request'[t].submits =>
         /\ copy'[request'[t].lid] # Absent =>
               copy'[request'[t].lid].snap.text \subseteq request'[t].snap.text
         /\ \/ request'[t].snap.text \subseteq Safe'
            \/ /\ copy'[request'[t].lid] # Absent
               /\ request'[t].snap.text \subseteq copy'[request'[t].lid].snap.text
  BY <1>6
<1>. QED
  BY <1>7, <1>8 DEF Submitting, Shows

---------------------------------------------------------------------------
(* No edit gets lost. *)

\* What becomes of the writing a window shows.
LEMMA WindowGoes ==
    ASSUME TypeOK, [Next]_vars, NEW t \in Tabs, Open(t)
    PROVE  \/ Open(t)' /\ composer[t].text \subseteq composer'[t].text
           \/ UseSaved(t) \/ Closes(t)
<1>0. ComposerType
  BY TypeParts
<1>1. ASSUME Open(t)', ~UseSaved(t)
      PROVE  composer[t].text \subseteq composer'[t].text
  <2>1. CASE composer'[t].text = composer[t].text
    BY <2>1
  <2>2. CASE Edit(t)
    BY <1>0, <2>2 DEF Edit, Writable, Open, ComposerType, Composers
  <2>3. CASE KeepMine(t)
    BY <1>0, <2>3 DEF KeepMine, Show, Fresh, ComposerType
  <2>4. ~OpenDraft(t) /\ \A l \in Lids : ~Restore(t, l)
    BY DEF OpenDraft, Restore
  <2>. QED
    BY <1>1, <2>1, <2>2, <2>3, <2>4, ComposerBecomes DEF Opens
<1>2. ASSUME ~Open(t)'
      PROVE  Closes(t)
  <2>1. composer'[t] = Closed /\ composer[t] # Closed
    BY <1>2 DEF Open
  <2>2. ASSUME NEW u \in Tabs, NEW c \in Composers, composer' = [composer EXCEPT ![u] = c]
        PROVE  FALSE
    <3>1. composer'[t] = composer[t] \/ composer'[t] = c
      BY <1>0, <2>2 DEF ComposerType
    <3>. QED
      BY <2>1, <3>1, Constants
  <2>3. ASSUME NEW u \in Tabs, Closes(u), composer' = [composer EXCEPT ![u] = Closed]
        PROVE  Closes(t)
    <3>1. u = t \/ composer'[t] = composer[t]
      BY <1>0, <2>3 DEF ComposerType
    <3>. QED
      BY <2>1, <2>3, <3>1
  <2>. QED
    BY <2>1, <2>2, <2>3, ComposerSteps
<1>. QED
  BY <1>1, <1>2

LEMMA EditsMove == ASSUME [Next]_vars PROVE edits' = edits \/ \E t \in Tabs : Edit(t)
<1>1. ASSUME NEW t \in Tabs, Window(t)
      PROVE  edits' = edits \/ Edit(t)
  BY <1>1 DEF Window, Leave, OpenDraft, Compare, UseSaved, KeepMine, LearnSent, DeleteDraft,
      Restore, SaveBegin, FlushBegin, SaveOk, SaveFails, SendOk, SendFails, FlushNext,
      FlushReturn, FlushEnd, Upload, Remove, counts
<1>2. ASSUME Server
      PROVE  edits' = edits
  BY <1>2 DEF Server, SaveArrives, FlushArrives, SendArrives, UploadAgain, Erase, LateArrives, counts
<1>3. ASSUME NEW t \in Tabs, RequestLost(t) \/ FlushLost(t) \/ SendDies(t) \/ Kill(t)
      PROVE  edits' = edits
  BY <1>3 DEF RequestLost, FlushLost, SendDies, Kill, counts
<1>4. CASE UNCHANGED vars
  BY <1>4 DEF vars, clientVars, counts
<1>. QED
  BY <1>1, <1>2, <1>3, <1>4 DEF Next, Faults

\* Where the user finds edit x, or that they can do without it.
Placed(x) ==
    \/ \E t \in Tabs : Open(t) /\ x \in composer[t].text
    \/ \E l \in Lids : copy[l] # Absent /\ x \in copy[l].snap.text
    \/ x \in Safe
    \/ x \in shut

\* All that is kept.
Shown == UNION {composer[t].text : t \in {u \in Tabs : Open(u)}}
Copied == UNION {copy[l].snap.text : l \in {k \in Lids : copy[k] # Absent}}
Places == Shown \union Copied \union body \union accepted \union dropped \union shut

LEMMA PlacedIn == \A x : Placed(x) <=> x \in Places
<1>1. ASSUME NEW x
      PROVE  x \in Shown <=> \E t \in Tabs : Open(t) /\ x \in composer[t].text
  BY DEF Shown
<1>2. ASSUME NEW x
      PROVE  x \in Copied <=> \E l \in Lids : copy[l] # Absent /\ x \in copy[l].snap.text
  BY DEF Copied
<1>3. ASSUME NEW x
      PROVE  x \in Places <=> \/ x \in Shown \/ x \in Copied \/ x \in Safe \/ x \in shut
  BY DEF Places, Safe
<1>. QED
  BY <1>1, <1>2, <1>3 DEF Placed

LEMMA PlacedKept == WritingKept <=> \A x \in 1..edits : Placed(x)
<1>1. WritingKept <=> (1..edits) \ (dropped \union shut) \subseteq
                         Shown \union Copied \union body \union accepted
  BY DEF WritingKept, Shown, Copied
<1>2. WritingKept <=> 1..edits \subseteq Places
  BY <1>1 DEF Places
<1>. QED
  BY <1>2, PlacedIn

\* The writing of a device copy stays there, or is safe.
LEMMA CopyStays ==
    ASSUME TypeOK, Stored, Owned, Basing, Answering, Sent, Growing, Submitting, [Next]_vars,
           NEW l \in Lids, copy[l] # Absent
    PROVE  \/ copy'[l] # Absent /\ copy[l].snap.text \subseteq copy'[l].snap.text
           \/ copy[l].snap.text \subseteq Safe'
<1>0. CopyType /\ ComposerType
  BY TypeParts
<1>1. Safe \subseteq Safe'
  BY SafeStays
<1>2. ASSUME NEW s \in Snapshots, NEW r \in Revisions, Acks(l, s, r), copy[l].snap = s
      PROVE  copy[l].snap.text \subseteq Safe'
  BY <1>1, <1>2, AckFacts
<1>3. ASSUME NEW t \in Tabs, SendOk(t), request[t].lid = l
      PROVE  copy[l].snap.text \subseteq Safe'
  <2>1. Active(t) /\ request[t].kind = "send"
    BY <1>3 DEF SendOk, Active
  <2>2. request[t].submits
    BY <2>1 DEF Owned
  <2>3. copy[l].snap.text \subseteq request[t].snap.text
    BY <1>3, <2>2 DEF Submitting
  <2>4. request[t].snap.text \subseteq Safe
    BY <2>1 DEF Sent
  <2>. QED
    BY <1>1, <2>3, <2>4
<1>4. ASSUME NEW t \in Tabs, DeleteDraft(t), Shows(t, l), copy'[l] # copy[l]
      PROVE  copy[l].snap.text \subseteq Safe'
  <2>1. composer[t].text \subseteq dropped'
    BY <1>4 DEF DeleteDraft
  <2>2. copy[l].snap.text \subseteq composer[t].text
    BY <1>4 DEF Growing
  <2>. QED
    BY <2>1, <2>2 DEF Safe
<1>5. ASSUME NEW t \in Tabs, Shows(t, l), NEW m,
             copy'[l] = [snap |-> Snapshot(composer[t], m), acked |-> Absent], copy'[l] # Absent
      PROVE  copy'[l] # Absent /\ copy[l].snap.text \subseteq copy'[l].snap.text
  <2>1. copy'[l].snap.text = composer[t].text
    BY <1>5 DEF Snapshot
  <2>. QED
    BY <1>5, <2>1 DEF Growing
<1>6. ASSUME NEW s \in Snapshots, NEW r \in Revisions, copy'[l] = Merged(copy[l], s, r)
      PROVE  copy'[l] # Absent /\ copy[l].snap.text \subseteq copy'[l].snap.text
  <2>1. Merged(copy[l], s, r).snap.text = copy[l].snap.text
    BY MergedKeeps
  <2>2. Merged(copy[l], s, r) # Absent
    BY CopiesMade
  <2>. QED
    BY <1>6, <2>1, <2>2
<1>7. /\ \A t \in Tabs, b \in BOOLEAN : Begun(t, b) =>
            [snap |-> Snapshot(composer[t], saves + 1), acked |-> Absent] # Absent
      /\ \A t \in Tabs : Preserved(t) =>
            [snap |-> Snapshot(composer[t], Last(composer[t])), acked |-> Absent] # Absent
  BY CopiesMade
<1>. QED
  BY <1>2, <1>3, <1>4, <1>5, <1>6, <1>7, CopyBecomes

\* The writing of a window stays there, or goes to its device copy, or can be done without.
LEMMA WindowStays ==
    ASSUME TypeOK, Stored, Owned, Basing, Answering, Sent, Growing, Submitting, [Next]_vars,
           NEW t \in Tabs, Open(t), composer[t].text # {}
    PROVE  \/ Open(t)' /\ composer[t].text \subseteq composer'[t].text
           \/ \E l \in Lids : copy'[l] # Absent /\ composer[t].text \subseteq copy'[l].snap.text
           \/ composer[t].text \subseteq Safe' \union shut'
<1> DEFINE l == composer[t].lid
           T == composer[t].text
<1>0. ComposerType /\ CountType /\ CopyType /\ l \in Lids
  BY TypeParts, OpenType
<1>1. Safe \subseteq Safe'
  BY SafeStays
<1>2. ASSUME Sending(t)
      PROVE  T \subseteq Safe \/ (copy[l] # Absent /\ T \subseteq copy[l].snap.text)
  <2>1. request[t].submits /\ request[t].lid = l /\ Shows(t, request[t].lid)
    BY <1>2 DEF Sending, Shows
  <2>. QED
    BY <2>1 DEF Submitting
<1>3. ASSUME NEW m \in Mutations, Keeps(Snapshot(composer[t], m), l)
      PROVE  copy'[l] # Absent /\ T \subseteq copy'[l].snap.text
  <2>1. Snapshot(composer[t], m) \in Snapshots
    BY <1>0, <1>3, SnapshotType
  <2>2. copy'[l] = [snap |-> Snapshot(composer[t], m), acked |-> Absent]
    BY <1>0, <1>3 DEF Keeps, CopyType
  <2>3. copy'[l] \in Copies
    BY <2>1, <2>2 DEF Copies
  <2>4. copy'[l].snap.text = T
    BY <2>2 DEF Snapshot
  <2>. QED
    BY <2>3, <2>4, Constants
<1>4. ASSUME Preserve(t), ~composer[t].told
      PROVE  copy'[l] # Absent /\ T \subseteq copy'[l].snap.text
  <2>1. Last(composer[t]) \in Mutations
    BY <1>0, Constants DEF Last, Mutations, Lids
  <2>2. Keeps(Snapshot(composer[t], Last(composer[t])), l)
    BY <1>4 DEF Preserve
  <2>. QED
    BY <1>3, <2>1, <2>2
<1>5. ASSUME Leave(t), ~composer[t].told
      PROVE  \/ \E k \in Lids : copy'[k] # Absent /\ T \subseteq copy'[k].snap.text
             \/ T \subseteq Safe'
  <2>1. CASE Sending(t) /\ UNCHANGED copy
    BY <1>0, <1>1, <1>2, <2>1
  <2>2. CASE Preserve(t)
    BY <1>0, <1>4, <1>5, <2>2
  <2>3. CASE Begins(t, FALSE)
    <3>1. saves < MaxSaves /\ Keeps(Snapshot(composer[t], saves + 1), l)
      BY <2>3 DEF Begins
    <3>2. saves + 1 \in Mutations
      BY <1>0, <3>1, Constants DEF CountType, Mutations
    <3>. QED
      BY <1>0, <1>3, <3>1, <3>2
  <2>. QED
    BY <1>5, <2>1, <2>2, <2>3 DEF Leave
<1>6. ASSUME Leave(t), composer[t].told
      PROVE  T \subseteq shut'
  BY <1>6 DEF Leave
<1>7. ASSUME UseSaved(t)
      PROVE  copy'[l] # Absent /\ T \subseteq copy'[l].snap.text
  BY <1>4, <1>7 DEF UseSaved, Chooses, Writable
<1>8. ASSUME DeleteDraft(t), composer[t].known
      PROVE  T \subseteq Safe'
  BY <1>8 DEF DeleteDraft, Safe
<1>9. ASSUME SendOk(t), Shows(t, request[t].lid)
      PROVE  T \subseteq Safe'
  <2>1. Active(t) /\ request[t].kind = "send"
    BY <1>9 DEF SendOk, Active
  <2>2. request[t].submits
    BY <2>1 DEF Owned
  <2>3. T = request[t].snap.text
    BY <1>9, <2>2 DEF Submitting
  <2>. QED
    BY <1>1, <2>1, <2>3 DEF Sent
<1>10. ASSUME Kill(t)
       PROVE  T \subseteq shut'
  BY <1>10 DEF Kill
<1>. QED
  BY <1>0, <1>5, <1>6, <1>7, <1>8, <1>9, <1>10, WindowGoes DEF Closes

LEMMA WritingKeptKept ==
    ASSUME Inv, [Next]_vars
    PROVE  WritingKept'
<1>0. /\ TypeOK /\ Stored /\ Owned /\ Basing /\ Answering /\ Sent /\ Growing /\ Submitting
      /\ WritingKept
  BY DEF Inv
<1>1. ComposerType /\ CountType
  BY <1>0, TypeParts
<1>2. Safe \subseteq Safe' /\ shut \subseteq shut'
  BY <1>0, SafeStays, HistoryKept
<1>3. ASSUME NEW x \in 1..edits
      PROVE  Placed(x)'
  <2>1. Placed(x)
    BY <1>0, PlacedKept
  <2>2. ASSUME NEW l \in Lids, copy[l] # Absent, x \in copy[l].snap.text
        PROVE  Placed(x)'
    BY <1>0, <2>2, CopyStays DEF Placed
  <2>3. ASSUME NEW t \in Tabs, Open(t), x \in composer[t].text
        PROVE  Placed(x)'
    <3>1. composer[t].text # {}
      BY <2>3
    <3>. QED
      BY <1>0, <2>3, <3>1, WindowStays DEF Placed
  <2>. QED
    BY <1>2, <2>1, <2>2, <2>3 DEF Placed
<1>4. ASSUME NEW x \in 1..edits', x \notin 1..edits
      PROVE  Placed(x)'
  <2>1. edits' # edits
    BY <1>4
  <2>2. PICK t \in Tabs : Edit(t)
    BY <2>1, EditsMove
  <2>3. edits' = edits + 1 /\ x = edits + 1
    BY <1>1, <1>4, <2>2 DEF Edit, CountType
  <2>4. composer[t] \in Composers /\ Open(t)
    BY <1>1, <2>2, OpenType DEF Edit, Writable
  <2>5. composer'[t] = [composer[t] EXCEPT !.text = @ \union {edits + 1}]
    BY <1>1, <2>2 DEF Edit, ComposerType
  <2>6. x \in composer'[t].text
    BY <2>3, <2>4, <2>5 DEF Composers
  <2>7. composer'[t] # Closed
    <3>1. edits + 1 \in 1..MaxEdits
      BY <1>1, <2>2, Constants DEF Edit, CountType
    <3>2. composer'[t] \in Composers
      BY <2>4, <2>5, <3>1 DEF Composers, Writing
    <3>. QED
      BY <3>2, Constants
  <2>. QED
    BY <2>6, <2>7 DEF Placed, Open
<1>5. (\A x \in 1..edits : Placed(x))'
  BY <1>3, <1>4
<1>6. (WritingKept <=> \A x \in 1..edits : Placed(x))'
  BY PlacedKept, PTL
<1>. QED
  BY <1>5, <1>6

---------------------------------------------------------------------------
(* The invariant. *)

LEMMA InitTypes == ASSUME Init PROVE TypeOK /\ Attached
<1>1. StoreType
  BY Constants DEF Init, StoreInit, StoreType, Writing, Revisions, Mutations
<1>2. ComposerType
  <2>1. PICK t \in Tabs : composer = [u \in Tabs |->
          IF u = t THEN [lid |-> 1, text |-> {}, files |-> {}, known |-> FALSE, revision |-> 1,
                         conflict |-> FALSE, told |-> FALSE]
          ELSE Closed]
    BY DEF Init
  <2>2. 1 \in Lids
    BY Constants DEF Lids
  <2>3. [lid |-> 1, text |-> {}, files |-> {}, known |-> FALSE, revision |-> 1,
         conflict |-> FALSE, told |-> FALSE] \in Composers
    BY <2>2 DEF Composers, Writing, Revisions
  <2>. QED
    BY <2>1, <2>3 DEF ComposerType
<1>3. LoadedType /\ RequestType /\ FlushType /\ CopyType /\ LateType
  BY IdleTypes DEF Init, LoadedType, RequestType, FlushType, CopyType, LateType
<1>4. UploadType /\ Attached
  BY DEF Init, UploadType, Attached
<1>5. CountType
  BY Constants DEF Init, CountType, Writing
<1>6. SendingType
  BY Constants DEF Init, StoreInit, SendingType
<1>. QED
  BY <1>1, <1>2, <1>3, <1>4, <1>5, <1>6, TypeParts

LEMMA InvInit == ASSUME Init PROVE Inv
<1>1. /\ \A t \in Tabs : /\ request[t] = NoRequest /\ ~Active(t) /\ ~request[t].submits
                         /\ flush[t] = NoFlush /\ ~Pushing(t) /\ loaded[t] = Absent
                         /\ flush[t].todo = {} /\ flush[t].synced = {} /\ sending # t
                         /\ request[t].at = "idle" /\ flush[t].at = "idle"
      /\ \A l \in Lids : copy[l] = Absent
      /\ late = {} /\ edits = 0 /\ lids = 1
      /\ state = "none" /\ body = {} /\ revision = 0 /\ mutation = 0 /\ created = {}
      /\ accepted = {} /\ onJob = {}
  BY Constants DEF Init, StoreInit, Active, Pushing, NoRequest, NoFlush
<1>2. PICK w \in Tabs : /\ composer[w] # Closed => /\ composer[w].lid = 1
                                                   /\ ~composer[w].known /\ composer[w].revision = 1
                        /\ \A t \in Tabs : t # w => ~Open(t)
  BY DEF Init, Open
<1>3. Live = {} /\ Held = {}
  BY <1>1 DEF Live, Held
<1>4. Stored
  BY <1>1 DEF Stored
<1>5. Owned
  BY <1>1, <1>2 DEF Owned, Open, Shows
<1>6. Identified
  BY <1>1, <1>3 DEF Identified
<1>7. Basing
  BY <1>1, <1>2, <1>3 DEF Basing, Known, Open
<1>8. Answering
  BY <1>1 DEF Answering
<1>9. Sent /\ Growing /\ Submitting
  BY <1>1, <1>3 DEF Sent, Growing, Submitting
<1>10. SentAsSaved /\ WritingKept
  BY <1>1 DEF SentAsSaved, WritingKept
<1>. QED
  BY <1>4, <1>5, <1>6, <1>7, <1>8, <1>9, <1>10, InitTypes DEF Inv

LEMMA InvStep == ASSUME Inv, [Next]_vars PROVE Inv'
<1>0. /\ TypeOK /\ Attached /\ Stored /\ SentAsSaved /\ Owned /\ Identified /\ Basing /\ Answering
      /\ Sent /\ Growing /\ Submitting /\ WritingKept
  BY DEF Inv
<1>1. TypeOK' /\ Attached'
  BY <1>0, TypeKept
<1>2. Stored' /\ SentAsSaved'
  BY <1>0, StoredKept, SavedKept
<1>3. Owned' /\ Identified'
  BY <1>0, OwnedKept, IdentifiedKept
<1>4. Basing' /\ Answering'
  BY <1>0, BasingKept, AnsweringKept
<1>5. Sent' /\ Growing' /\ Submitting'
  BY <1>0, SentKept, GrowingKept, SubmittingKept
<1>6. WritingKept'
  BY WritingKeptKept
<1>. QED
  BY <1>1, <1>2, <1>3, <1>4, <1>5, <1>6 DEF Inv

LEMMA Invariant == Spec => []Inv
<1>1. Init => Inv
  BY InvInit
<1>2. Inv /\ [Next]_vars => Inv'
  BY InvStep
<1>. QED
  BY <1>1, <1>2, PTL DEF Spec

\* Every variable has its type, and a send holds the draft only while its window waits.
THEOREM Types == Spec => []TypeOK
<1>1. Inv => TypeOK
  BY DEF Inv
<1>. QED
  BY <1>1, Invariant, PTL

\* What manualEmailService.send gave to the queue is what the draft it completed held.
THEOREM Saved == Spec => []SentAsSaved
<1>1. Inv => SentAsSaved
  BY DEF Inv
<1>. QED
  BY <1>1, Invariant, PTL

\* However many windows save, flush, send, lose answers and die, an edit is on a screen,
\* on the device, in the saved draft or in the accepted email.
THEOREM Kept == Spec => []WritingKept
<1>1. Inv => WritingKept
  BY DEF Inv
<1>. QED
  BY <1>1, Invariant, PTL

\* No request takes an edit out of the saved draft but by a choice of the user.
THEOREM Overwrites == Spec => NothingOverwritten
<1>1. Inv /\ [Next]_vars => [body \subseteq body' \union dropped']_vars
  BY SafeStays DEF Inv
<1>. QED
  BY <1>1, Invariant, PTL DEF Spec, NothingOverwritten

\* A draft that was deleted is not sent, and one that was sent is not deleted.
THEOREM Ends == Spec => EndsOnce
<1>1. Inv /\ [Next]_vars => [(state \in {"deleted", "sent"}) => state' = state]_vars
  <2>1. ASSUME Inv, [Next]_vars
        PROVE  (state \in {"deleted", "sent"}) => state' = state
    BY <2>1, RevisionMoves DEF Inv, draft
  <2>. QED
    BY <2>1
<1>. QED
  BY <1>1, Invariant, PTL DEF Spec, EndsOnce

LEMMA AnswersTruthfully ==
    ASSUME TypeOK, [Next]_vars, NEW t \in Tabs, Sends(t),
           request'[t].at = "back", request'[t].answer.status = "ok"
    PROVE  accepted' = request[t].snap.text /\ onJob' = request[t].snap.files
<1>1. request[t].at = "wait" /\ request[t].kind = "send"
  BY DEF Sends
<1>2. request'[t] # request[t] /\ request'[t] # NoRequest
  BY <1>1 DEF NoRequest
<1>3. ~SaveOk(t) /\ \A b \in BOOLEAN : ~Begun(t, b)
  BY <1>1 DEF SaveOk, Begun, Begins
<1>4. PICK a \in Answers :
         /\ request'[t].answer = a
         /\ \/ a = Lost
            \/ SendAnswer(request[t].snap, a)
            \/ SendCommit(t, request[t].snap, a)
  BY <1>1, <1>2, <1>3, RequestBecomes
<1>5. a # Lost
  BY <1>4 DEF Lost
<1>6. CASE SendAnswer(request[t].snap, a)
  BY <1>4, <1>6 DEF SendAnswer, storeVars, NotFound, Conflict
<1>7. CASE SendCommit(t, request[t].snap, a)
  BY <1>4, <1>7 DEF SendCommit, Complete, Conflict
<1>. QED
  BY <1>4, <1>5, <1>6, <1>7

\* A composer that is told its send was accepted asked for the very email that was.
THEOREM Told == Spec => ToldTruthfully
<1>1. Inv /\ [Next]_vars =>
        [\A t \in Tabs :
          Sends(t) /\ request'[t].at = "back" /\ request'[t].answer.status = "ok" =>
              accepted' = request[t].snap.text /\ onJob' = request[t].snap.files]_vars
  BY AnswersTruthfully DEF Inv
<1>. QED
  BY <1>1, Invariant, PTL DEF Spec, ToldTruthfully

LEMMA FilesStay == ASSUME FilesKept, [Next]_vars PROVE FilesKept'
<1>1. ASSUME NEW s, NEW a, Save(s, a)
      PROVE  FilesKept'
  BY <1>1 DEF Save, Create, Update, storeVars, FilesKept
<1>2. ASSUME NEW s, Complete(s), s.files \subseteq onDraft, blobs' = blobs
      PROVE  FilesKept'
  BY <1>2 DEF Complete, FilesKept
<1>3. ASSUME NEW t \in Tabs, SendArrives(t)
      PROVE  FilesKept'
  <2>1. ASSUME NEW a, SendCommit(t, request[t].snap, a)
        PROVE  FilesKept'
    BY <1>2, <2>1 DEF SendCommit, FilesKept
  <2>. QED
    BY <1>3, <2>1 DEF SendArrives, SendBegin, SendAnswer, storeVars, FilesKept
<1>4. ASSUME LateArrives
      PROVE  FilesKept'
  <2>1. ASSUME NEW s, SendWhole(s)
        PROVE  FilesKept'
    BY <1>2, <2>1 DEF SendWhole, SendChecks
  <2>2. ASSUME NEW s, NEW a, SendAnswer(s, a)
        PROVE  FilesKept'
    BY <2>2 DEF SendAnswer, storeVars, FilesKept
  <2>. QED
    BY <1>1, <1>4, <2>1, <2>2 DEF LateArrives
<1>5. ASSUME NEW t \in Tabs, NEW f \in Files, Upload(t, f) \/ Remove(t, f)
      PROVE  FilesKept'
  BY <1>5 DEF Upload, CreateAttachment, Remove, RemoveRow, FilesKept
<1>6. ASSUME NEW f \in Files, Erase(f)
      PROVE  FilesKept'
  BY <1>6 DEF Erase, RemoveBlob, FilesKept
<1>7. ASSUME NEW t \in Tabs, DeleteDraft(t) \/ SendDies(t)
      PROVE  FilesKept'
  BY <1>7 DEF DeleteDraft, Delete, SendDies, Rollback, FilesKept
<1>8. CASE UNCHANGED storeVars
  BY <1>8 DEF storeVars, FilesKept
<1>. QED
  BY <1>1, <1>3, <1>4, <1>5, <1>6, <1>7, <1>8, StoreChanges DEF SaveArrives, FlushArrives

\* attachmentService and the send keep the contents of every file that some row names.
THEOREM FilesHeld == Spec => []FilesKept
<1>1. Init => FilesKept
  BY DEF Init, StoreInit, FilesKept
<1>2. FilesKept /\ [Next]_vars => FilesKept'
  BY FilesStay
<1>. QED
  BY <1>1, <1>2, PTL DEF Spec
=============================================================================
