----------------------------- MODULE DraftSync -----------------------------
(***************************************************************************)
(* The windows of a browser in which a user writes one message: what each  *)
(* composer shows, the device copies they share (IndexedDB), the save, the *)
(* flush of the device copies and the send, each a chain of requests that  *)
(* may be lost, late or refused while the writing goes on, and the choices *)
(* the user makes when two windows have changed the same draft.            *)
(***************************************************************************)
EXTENDS DraftStore

CONSTANTS
    Absent,    \* no device copy, nothing loaded
    Closed,    \* no composer for the message
    Uses,      \* bound: what is done besides writing and saving ("send", "delete")
    MaxLeaves, \* bound: composers left
    MaxPasses, \* bound: passes over the device copies
    MaxFaults  \* bound: faults

Lids == 1..MaxLids

VARIABLES
    composer, \* window: what it shows, and which draft and revision it believes that is
    loaded,   \* window: a draft it has fetched to open, or to compare
    request,  \* window: its save or send
    flush,    \* window: its pass over the device copies
    upload,   \* window: the upload of a file
    copy,     \* device: the pending draft of a localId
    late,     \* network: requests nobody waits for any more
    edits, saves, lids, leaves, passes,
    dropped,  \* history: edits the user chose to do without
    shut,     \* history: edits on a screen that was killed, or told of a send and left
    faults

counts == <<edits, saves, lids, leaves, passes>>
history == <<dropped, shut>>
clientVars == <<composer, loaded, request, flush, upload, copy, late, counts, history, faults>>
vars == <<storeVars, clientVars>>

Composers == [lid : Lids, text : Writing, files : SUBSET Files, known : BOOLEAN,
              revision : Revisions, conflict : BOOLEAN, told : BOOLEAN]
Loads == [text : Writing, files : SUBSET Files, revision : Revisions, sent : BOOLEAN]

\* A device copy: a snapshot, and the writing the server has acknowledged of it.
Contents == [text : Writing, files : SUBSET Files]
Content(s) == [text |-> s.text, files |-> s.files]
Copies == [snap : Snapshots, acked : Contents \union {Absent}]

ASSUME SyncAssumption ==
    /\ {MaxLeaves, MaxPasses, MaxFaults} \subseteq Nat
    /\ Closed \notin Composers /\ Absent \notin Loads \union Contents \union Copies

Empty == [text |-> {}, files |-> {}, known |-> FALSE, revision |-> 0, mutation |-> 0]
NoRequest == [at |-> "idle", kind |-> "save", submits |-> FALSE, lid |-> 0, snap |-> Empty,
              answer |-> Lost]
Requests == [at : {"idle", "wait", "back"}, kind : {"save", "send"}, submits : BOOLEAN,
             lid : {0} \union Lids, snap : Snapshots, answer : Answers]
Flushes == [at : {"idle", "next", "wait", "back"}, adopts : BOOLEAN,
            todo : SUBSET [lid : Lids, copy : Copies], lid : {0} \union Lids, snap : Snapshots,
            answer : Answers, synced : SUBSET [lid : Lids, revision : Revisions]]
NoFlush == [at |-> "idle", adopts |-> FALSE, todo |-> {}, lid |-> 0, snap |-> Empty,
            answer |-> Lost, synced |-> {}]

Init ==
    /\ StoreInit
    /\ \E t \in Tabs : composer = [u \in Tabs |->
          IF u = t THEN [lid |-> 1, text |-> {}, files |-> {}, known |-> FALSE, revision |-> 1,
                         conflict |-> FALSE, told |-> FALSE]
          ELSE Closed]
    /\ loaded = [t \in Tabs |-> Absent]
    /\ request = [t \in Tabs |-> NoRequest] /\ flush = [t \in Tabs |-> NoFlush]
    /\ upload = [f \in Files |-> [at |-> "new", tab |-> NoTab, lid |-> 0]]
    /\ copy = [l \in Lids |-> Absent]
    /\ late = {} /\ edits = 0 /\ saves = 0 /\ lids = 1 /\ leaves = 0 /\ passes = 0
    /\ dropped = {} /\ shut = {} /\ faults = 0

Open(t) == composer[t] # Closed
Shows(t, l) == Open(t) /\ composer[t].lid = l
Sending(t) == request[t].submits /\ Shows(t, request[t].lid)
\* The fields are disabled while a send runs and once it was accepted.
Writable(t) == Open(t) /\ ~composer[t].told /\ ~Sending(t)

Show(t, c) == composer' = [composer EXCEPT ![t] = c]
Unloads(t) == loaded' = [loaded EXCEPT ![t] = Absent]
Fault == faults < MaxFaults /\ faults' = faults + 1

Edit(t) ==
    /\ Writable(t) /\ edits < MaxEdits
    /\ edits' = edits + 1
    /\ composer' = [composer EXCEPT ![t].text = @ \union {edits + 1}]
    /\ UNCHANGED <<storeVars, loaded, request, flush, upload, copy, late, saves, lids, leaves,
                   passes, history, faults>>

----------------------------------------------------------------------------
(* Device copies. *)

\* A fresh mutationId: counted for a save, and one of its own for the last of a localId.
Snapshot(c, id) == [text |-> c.text, files |-> c.files, known |-> c.known,
                    revision |-> c.revision, mutation |-> id]
Last(c) == MaxSaves + c.lid

\* savePendingDraft: replaces the copy of the same localId.
Keeps(snap, lid) == copy' = [copy EXCEPT ![lid] = [snap |-> snap, acked |-> Absent]]

\* preserveWriting, before a composer goes or shows something else.
Preserve(t) ==
    LET c == composer[t]
    IN  IF c.text = {} \/ c.told THEN UNCHANGED copy ELSE Keeps(Snapshot(c, Last(c)), c.lid)

\* Mutant: the copy is deleted, whatever was written to it meanwhile.
AckAny(l, snap, r) == copy' = [copy EXCEPT ![l] = Absent]

\* acknowledgePendingDraft: deletes the copy only if it is the snapshot that was saved;
\* a newer one of the same draft takes over the draft's identity and revision.
Ack(l, snap, r) ==
    LET c == copy[l]
        newer == c.snap.revision > r
    IN  copy' = CASE c = Absent -> copy
                  [] c # Absent /\ c.snap = snap -> [copy EXCEPT ![l] = Absent]
                  [] c # Absent /\ c.snap # snap /\ c.snap.known = snap.known ->
                        [copy EXCEPT ![l] =
                            [snap |-> [c.snap EXCEPT !.known = TRUE,
                                                     !.revision = IF newer THEN @ ELSE r],
                             acked |-> IF newer THEN c.acked ELSE Content(snap)]]
                  [] OTHER -> copy

----------------------------------------------------------------------------
(* saveDraft and send. *)

NoUpload(t) == \A f \in Files : upload[f].at = "again" => upload[f].tab # t

\* The device copy first, then the request.
Begins(t, submits) ==
    LET c == composer[t]
        snap == Snapshot(c, saves + 1)
    IN  /\ ~c.told /\ c.text # {} /\ request[t].at = "idle"
        /\ saves < MaxSaves /\ saves' = saves + 1
        /\ Keeps(snap, c.lid)
        /\ request' = [request EXCEPT ![t] = [NoRequest EXCEPT !.at = "wait", !.lid = c.lid,
                                                 !.submits = submits, !.snap = snap]]

SaveBegin(t, submits) ==
    /\ Writable(t)
    /\ submits => "send" \in Uses /\ NoUpload(t)
    /\ Begins(t, submits)
    /\ UNCHANGED <<storeVars, composer, loaded, flush, upload, late, edits, lids, leaves, passes,
                   history, faults>>

\* What is sent is what the fields held when send was pressed.
Submit(t, snap, r) ==
    request' = [request EXCEPT ![t] = [NoRequest EXCEPT !.at = "wait", !.kind = "send",
                    !.submits = TRUE, !.lid = request[t].lid,
                    !.snap = [snap EXCEPT !.known = TRUE, !.revision = r]]]

Done(t) == request' = [request EXCEPT ![t] = NoRequest]

\* The composer adopts the draft's identity if it still shows the writing it saved.
SaveOk(t) ==
    LET q == request[t]
        r == q.answer.revision
    IN  /\ q.at = "back" /\ q.kind = "save" /\ q.answer.status = "ok"
        /\ Ack(q.lid, q.snap, r)
        /\ IF Shows(t, q.lid)
           THEN /\ composer' = [composer EXCEPT ![t].known = TRUE, ![t].revision = r,
                                                ![t].conflict = FALSE]
                /\ Unloads(t)
           ELSE UNCHANGED <<composer, loaded>>
        /\ IF q.submits THEN Submit(t, q.snap, r) ELSE Done(t)
        /\ UNCHANGED <<storeVars, flush, upload, late, counts, history, faults>>

\* Mutant: a save that was not answered does not keep the send back.
SaveFailsSends(t) ==
    LET q == request[t]
    IN  /\ q.at = "back" /\ q.kind = "save" /\ q.answer.status # "ok"
        /\ IF Shows(t, q.lid) /\ q.answer.status = "conflict"
           THEN composer' = [composer EXCEPT ![t].conflict = TRUE]
           ELSE UNCHANGED composer
        /\ IF q.submits THEN Submit(t, q.snap, q.snap.revision) ELSE Done(t)
        /\ UNCHANGED <<storeVars, loaded, flush, upload, copy, late, counts, history, faults>>

\* A refused or unanswered save leaves the device copy; the send, if any, is given up
\* unless the draft turns out to be sent.
SaveFails(t) ==
    LET q == request[t]
        shown == Shows(t, q.lid)
    IN  /\ q.at = "back" /\ q.kind = "save" /\ q.answer.status # "ok"
        /\ IF shown
           THEN composer' = [composer EXCEPT
                    ![t].conflict = @ \/ q.answer.status = "conflict",
                    ![t].told = q.submits /\ composer[t].known /\ state = "sent"]
           ELSE UNCHANGED composer
        /\ Done(t)
        /\ UNCHANGED <<storeVars, loaded, flush, upload, copy, late, counts, history, faults>>

\* resetComposer: the accepted message leaves the screen and the device.
SendOk(t) ==
    LET q == request[t]
    IN  /\ q.at = "back" /\ q.kind = "send" /\ q.answer.status = "ok"
        /\ IF Shows(t, q.lid) THEN Show(t, Closed) ELSE UNCHANGED composer
        /\ copy' = [copy EXCEPT ![q.lid] = Absent]
        /\ Done(t)
        /\ UNCHANGED <<storeVars, loaded, flush, upload, late, counts, history, faults>>

\* The draft is fetched to learn whether the send was accepted after all; the fetch may
\* be lost as well.
SendFails(t) ==
    LET q == request[t]
    IN  /\ q.at = "back" /\ q.kind = "send" /\ q.answer.status # "ok"
        /\ \/ Shows(t, q.lid) /\ UNCHANGED faults
              /\ composer' = [composer EXCEPT ![t].told = state = "sent"]
           \/ ~Shows(t, q.lid) /\ UNCHANGED <<composer, faults>>
           \/ Fault /\ UNCHANGED composer
        /\ Done(t)
        /\ UNCHANGED <<storeVars, loaded, flush, upload, copy, late, counts, history>>

----------------------------------------------------------------------------
(* flushPendingDrafts: a list of the device copies, pushed one by one.  *)

FlushBegin(t, adopts) ==
    LET todo == {l \in Lids : copy[l] # Absent}
    IN  /\ flush[t].at = "idle" /\ todo # {}
        /\ passes < MaxPasses /\ passes' = passes + 1
        /\ adopts => Open(t)
        /\ flush' = [flush EXCEPT ![t] = [NoFlush EXCEPT !.at = "next", !.adopts = adopts,
                         !.todo = {[lid |-> l, copy |-> copy[l]] : l \in todo}]]
        /\ UNCHANGED <<storeVars, composer, loaded, request, upload, copy, late, edits, saves,
                       lids, leaves, history, faults>>

\* A copy whose writing was acknowledged under another snapshot needs no request.
FlushNext(t) ==
    /\ flush[t].at = "next"
    /\ \E e \in flush[t].todo :
          LET s == e.copy.snap
          IN  IF s.known /\ e.copy.acked = Content(s)
              THEN /\ Ack(e.lid, s, s.revision)
                   /\ flush' = [flush EXCEPT ![t].todo = @ \ {e}]
              ELSE /\ flush' = [flush EXCEPT ![t].todo = @ \ {e}, ![t].at = "wait",
                                             ![t].lid = e.lid, ![t].snap = s]
                   /\ UNCHANGED copy
    /\ UNCHANGED <<storeVars, composer, loaded, request, upload, late, counts, history, faults>>

\* No answer ends the pass; a refusal does not.
FlushReturn(t) ==
    LET p == flush[t]
    IN  /\ p.at = "back"
        /\ IF p.answer.status = "ok" THEN Ack(p.lid, p.snap, p.answer.revision) ELSE UNCHANGED copy
        /\ IF p.answer.status = "conflict" /\ p.adopts /\ Shows(t, p.lid)
           THEN composer' = [composer EXCEPT ![t].conflict = TRUE]
           ELSE UNCHANGED composer
        /\ flush' = [flush EXCEPT
               ![t].at = "next", ![t].lid = 0, ![t].snap = Empty, ![t].answer = Lost,
               ![t].todo = IF p.answer.status = "lost" THEN {} ELSE @,
               ![t].synced = IF p.answer.status = "ok"
                             THEN @ \union {[lid |-> p.lid, revision |-> p.answer.revision]}
                             ELSE @]
        /\ UNCHANGED <<storeVars, loaded, request, upload, late, counts, history, faults>>

\* Mutant: the composer adopts what was synced for another writing.
FlushEndAny(t) ==
    /\ flush[t].at = "next" /\ flush[t].todo = {}
    /\ \/ \E e \in flush[t].synced :
             /\ flush[t].adopts /\ Open(t)
             /\ composer' = [composer EXCEPT ![t].known = TRUE, ![t].revision = e.revision]
       \/ ~(flush[t].adopts /\ Open(t) /\ flush[t].synced # {}) /\ UNCHANGED composer
    /\ flush' = [flush EXCEPT ![t] = NoFlush]
    /\ UNCHANGED <<storeVars, loaded, request, upload, copy, late, counts, history, faults>>

\* The composer's own pass ends by adopting what was synced for its writing.
FlushEnd(t) ==
    LET mine == {e \in flush[t].synced : flush[t].adopts /\ Shows(t, e.lid)}
    IN  /\ flush[t].at = "next" /\ flush[t].todo = {}
        /\ \/ mine = {} /\ UNCHANGED composer
           \/ \E e \in mine : composer' = [composer EXCEPT ![t].known = TRUE,
                                                           ![t].revision = e.revision]
        /\ flush' = [flush EXCEPT ![t] = NoFlush]
        /\ UNCHANGED <<storeVars, loaded, request, upload, copy, late, counts, history, faults>>

----------------------------------------------------------------------------
(* What a window shows. *)

Fresh(lid, text, files, known, r, told) ==
    [lid |-> lid, text |-> text, files |-> files, known |-> known, revision |-> r,
     conflict |-> FALSE, told |-> told]

NewLid == lids < MaxLids /\ lids' = lids + 1

\* The composer unmounts: a send goes on without it; other writing is kept and saved
\* once more, if the window lives on for it.
Leave(t) ==
    /\ Open(t) /\ leaves < MaxLeaves /\ leaves' = leaves + 1
    /\ \/ Sending(t) /\ UNCHANGED <<copy, request, saves>>
       \/ ~Sending(t) /\ Preserve(t) /\ UNCHANGED <<request, saves>>
       \/ ~Sending(t) /\ Begins(t, FALSE)
    /\ shut' = IF composer[t].told THEN shut \union composer[t].text ELSE shut
    /\ Show(t, Closed) /\ Unloads(t)
    /\ UNCHANGED <<storeVars, flush, upload, late, edits, lids, passes, dropped, faults>>

\* What is fetched of the saved draft.
Fetched == [text |-> body, files |-> onDraft, revision |-> revision, sent |-> state = "sent"]

\* applyDraft.
Apply(t, d) == Show(t, Fresh(lids + 1, d.text, d.files, TRUE, d.revision, d.sent))

\* A draft from the list is opened; the window does nothing else until it is shown.
OpenDraft(t) ==
    /\ ~Open(t) /\ state \in {"open", "sent"} /\ NewLid
    /\ Apply(t, Fetched)
    /\ UNCHANGED <<storeVars, loaded, request, flush, upload, copy, late, edits, saves, leaves,
                   passes, history, faults>>

\* The saved version of a draft in conflict is fetched to compare it.
Compare(t) ==
    /\ Writable(t) /\ composer[t].conflict /\ loaded[t] = Absent
    /\ state \in {"open", "sent"}
    /\ loaded' = [loaded EXCEPT ![t] = Fetched]
    /\ UNCHANGED <<storeVars, composer, request, flush, upload, copy, late, counts, history,
                   faults>>

Chooses(t) == loaded[t] # Absent /\ Writable(t)

\* "Use saved version": the writing it replaces stays on the device.
UseSaved(t) ==
    /\ Chooses(t) /\ ~loaded[t].sent /\ NewLid
    /\ Preserve(t)
    /\ Apply(t, loaded[t])
    /\ Unloads(t)
    /\ UNCHANGED <<storeVars, request, flush, upload, late, edits, saves, leaves, passes, history,
                   faults>>

\* "Keep my writing": over what was compared, which the user does without.
KeepMine(t) ==
    LET d == loaded[t]
        c == composer[t]
    IN  /\ Chooses(t) /\ ~d.sent /\ NewLid
        /\ Preserve(t)
        /\ Show(t, Fresh(lids + 1, c.text, c.files \union d.files, TRUE, d.revision, FALSE))
        /\ dropped' = dropped \union (d.text \ c.text)
        /\ Unloads(t)
        /\ UNCHANGED <<storeVars, request, flush, upload, late, edits, saves, leaves, passes, shut,
                       faults>>

\* The comparison shows that the draft was sent.
LearnSent(t) ==
    /\ Chooses(t) /\ loaded[t].sent
    /\ composer' = [composer EXCEPT ![t].told = TRUE]
    /\ Unloads(t)
    /\ UNCHANGED <<storeVars, request, flush, upload, copy, late, counts, history, faults>>

\* applyDeviceCopy: the copy stays under its own localId.
Restore(t, l) ==
    /\ ~Open(t) /\ copy[l] # Absent /\ NewLid
    /\ LET s == copy[l].snap
       IN  Show(t, Fresh(lids + 1, s.text, s.files, s.known, s.revision, FALSE))
    /\ UNCHANGED <<storeVars, loaded, request, flush, upload, copy, late, edits, saves, leaves,
                   passes, history, faults>>

\* confirmDeleteDraft: what the draft held goes, and what this window shows of it.
DeleteDraft(t) ==
    LET shows == Open(t) /\ composer[t].known
    IN  /\ "delete" \in Uses /\ ~Sending(t)
        /\ Delete
        /\ dropped' = dropped \union body \union (IF shows THEN composer[t].text ELSE {})
        /\ IF shows
           THEN /\ Show(t, Closed)
                /\ copy' = [copy EXCEPT ![composer[t].lid] = Absent]
           ELSE UNCHANGED <<composer, copy>>
        /\ UNCHANGED <<loaded, request, flush, upload, late, counts, shut, faults>>

----------------------------------------------------------------------------
(* Files: an upload that was not answered is tried again under its uploadId. *)

\* A file some window is at work on, for the writing it shows.
By(f, at, t) == upload' = [upload EXCEPT ![f] = [at |-> at, tab |-> t, lid |-> composer[t].lid]]
Settles(f, at) == upload' = [upload EXCEPT ![f] = [at |-> at, tab |-> NoTab, lid |-> 0]]

\* The file joins the writing it was picked for.
Joins(t, lid, f) ==
    IF Shows(t, lid) THEN composer' = [composer EXCEPT ![t].files = @ \union {f}]
    ELSE UNCHANGED composer

Upload(t, f) ==
    /\ Writable(t) /\ composer[t].known /\ upload[f].at = "new"
    /\ \/ /\ CreateAttachment(f, Ok(0))
          /\ \/ Settles(f, "stored") /\ Joins(t, composer[t].lid, f)
             \/ By(f, "again", t) /\ UNCHANGED composer
       \/ CreateAttachment(f, Conflict) /\ Settles(f, "gone") /\ UNCHANGED composer
    /\ UNCHANGED <<loaded, request, flush, copy, late, counts, history, faults>>

UploadAgain(f) ==
    /\ upload[f].at = "again"
    /\ Joins(upload[f].tab, upload[f].lid, f)
    /\ Settles(f, "stored")
    /\ UNCHANGED <<storeVars, loaded, request, flush, copy, late, counts, history, faults>>

\* removeAttachment: the row, then the contents and the answer.
Remove(t, f) ==
    /\ Writable(t) /\ f \in composer[t].files /\ upload[f].at = "stored"
    /\ RemoveRow(f)
    /\ By(f, "erase", t)
    /\ UNCHANGED <<composer, loaded, request, flush, copy, late, counts, history, faults>>

Erase(f) ==
    LET t == upload[f].tab
    IN  /\ upload[f].at = "erase"
        /\ RemoveBlob(f)
        /\ IF Open(t) THEN composer' = [composer EXCEPT ![t].files = @ \ {f}]
           ELSE UNCHANGED composer
        /\ Settles(f, "gone")
        /\ UNCHANGED <<loaded, request, flush, copy, late, counts, history, faults>>

----------------------------------------------------------------------------
(* The API executes the requests; the network may lose an answer, or delay a request *)
(* past its client's patience.                                                      *)

Saving(t) == request[t].at = "wait" /\ request[t].kind = "save"
Sends(t) == request[t].at = "wait" /\ request[t].kind = "send"
Answered(t, a) == request' = [request EXCEPT ![t].at = "back", ![t].answer = a]

SaveArrives(t) ==
    /\ Saving(t)
    /\ \E a \in Replies : Save(request[t].snap, a) /\ Answered(t, a)
    /\ UNCHANGED <<composer, loaded, flush, upload, copy, late, counts, history, faults>>

FlushArrives(t) ==
    /\ flush[t].at = "wait"
    /\ \E a \in Replies :
          Save(flush[t].snap, a) /\ flush' = [flush EXCEPT ![t].at = "back", ![t].answer = a]
    /\ UNCHANGED <<composer, loaded, request, upload, copy, late, counts, history, faults>>

SendArrives(t) ==
    /\ Sends(t)
    /\ \/ SendBegin(t, request[t].snap) /\ UNCHANGED request
       \/ \E a \in Replies : SendAnswer(request[t].snap, a) /\ Answered(t, a)
       \/ \E a \in Replies : SendCommit(t, request[t].snap, a) /\ Answered(t, a)
    /\ UNCHANGED <<composer, loaded, flush, upload, copy, late, counts, history, faults>>

LateArrives ==
    /\ \E q \in late :
          /\ late' = late \ {q}
          /\ \/ q.kind = "save" /\ \E a \in Replies : Save(q.snap, a)
             \/ q.kind = "send" /\ SendWhole(q.snap)
             \/ q.kind = "send" /\ \E a \in Replies : SendAnswer(q.snap, a)
    /\ UNCHANGED <<composer, loaded, request, flush, upload, copy, counts, history, faults>>

\* What a window waits for an answer to.
Outstanding(t) ==
    {[kind |-> q.kind, snap |-> q.snap] : q \in {r \in {request[t]} : r.at = "wait"}}
AwaitedFlush(t) ==
    {[kind |-> "save", snap |-> p.snap] : p \in {r \in {flush[t]} : r.at = "wait"}}

\* A lost answer is a request given up and executed all the same (LateArrives).
RequestLost(t) ==
    /\ request[t].at = "wait" /\ sending # t
    /\ Fault
    /\ Answered(t, Lost)
    /\ late' = late \union Outstanding(t)
    /\ UNCHANGED <<storeVars, composer, loaded, flush, upload, copy, counts, history>>

FlushLost(t) ==
    /\ flush[t].at = "wait"
    /\ Fault
    /\ flush' = [flush EXCEPT ![t].at = "back", ![t].answer = Lost]
    /\ late' = late \union AwaitedFlush(t)
    /\ UNCHANGED <<storeVars, composer, loaded, request, upload, copy, counts, history>>

SendDies(t) ==
    /\ Sends(t) /\ Rollback(t) /\ Fault
    /\ Answered(t, Lost)
    /\ UNCHANGED <<composer, loaded, flush, upload, copy, late, counts, history>>

\* The window is killed: what it showed is gone, what it asked for may still arrive.
Kill(t) ==
    /\ Open(t) /\ sending # t /\ Fault
    /\ Show(t, Closed) /\ Unloads(t)
    /\ Done(t) /\ flush' = [flush EXCEPT ![t] = NoFlush]
    /\ late' = late \union Outstanding(t) \union AwaitedFlush(t)
    /\ shut' = shut \union composer[t].text
    /\ UNCHANGED <<storeVars, upload, copy, counts, dropped>>

----------------------------------------------------------------------------

Window(t) ==
    \/ Edit(t) \/ Leave(t) \/ OpenDraft(t) \/ Compare(t) \/ UseSaved(t) \/ KeepMine(t)
    \/ LearnSent(t) \/ DeleteDraft(t)
    \/ \E l \in Lids : Restore(t, l)
    \/ \E b \in BOOLEAN : SaveBegin(t, b) \/ FlushBegin(t, b)
    \/ SaveOk(t) \/ SaveFails(t) \/ SendOk(t) \/ SendFails(t)
    \/ FlushNext(t) \/ FlushReturn(t) \/ FlushEnd(t)
    \/ \E f \in Files : Upload(t, f) \/ Remove(t, f)

Server ==
    \/ \E t \in Tabs : SaveArrives(t) \/ FlushArrives(t) \/ SendArrives(t)
    \/ \E f \in Files : UploadAgain(f) \/ Erase(f)
    \/ LateArrives

Faults == \E t \in Tabs : RequestLost(t) \/ FlushLost(t) \/ SendDies(t) \/ Kill(t)

Next == (\E t \in Tabs : Window(t)) \/ Server \/ Faults

Spec == Init /\ [][Next]_vars

----------------------------------------------------------------------------

\* Every variable has its type, and a send holds the draft only while its window waits.
TypeOK ==
    /\ StoreType
    /\ composer \in [Tabs -> Composers \union {Closed}]
    /\ loaded \in [Tabs -> Loads \union {Absent}]
    /\ request \in [Tabs -> Requests]
    /\ \A t \in Tabs : sending = t => Sends(t)
    /\ flush \in [Tabs -> Flushes]
    /\ upload \in [Files -> [at : {"new", "again", "stored", "erase", "gone"},
                             tab : Tabs \union {NoTab}, lid : {0} \union Lids]]
    /\ copy \in [Lids -> Copies \union {Absent}]
    /\ late \subseteq [kind : {"save", "send"}, snap : Snapshots]
    /\ edits \in 0..MaxEdits /\ saves \in 0..MaxSaves /\ lids \in 0..MaxLids
    /\ leaves \in 0..MaxLeaves /\ passes \in 0..MaxPasses
    /\ dropped \in Writing /\ shut \in Writing /\ faults \in 0..MaxFaults

\* No save, flush, retry or late request takes an edit out of the saved draft that
\* another window put there, unless the user has seen it and chosen to keep theirs.
NothingOverwritten == [][body \subseteq body' \union dropped']_vars

\* Every edit is still somewhere the user can reach it: on a screen, on the device, in
\* the saved draft or in the accepted email, whatever was lost, late or refused.
\* Only a choice of the user, or a screen that goes before it was saved, does without one.
WritingKept ==
    (1..edits) \ (dropped \union shut) \subseteq
        (UNION {composer[t].text : t \in {u \in Tabs : Open(u)}})
        \union (UNION {copy[l].snap.text : l \in {k \in Lids : copy[k] # Absent}})
        \union body \union accepted

\* What was accepted is what the draft that it completed held.
SentAsSaved == state = "sent" => accepted = body

\* The files of an accepted email, and those a draft shows, keep their contents.
FilesKept == onJob \union onDraft \subseteq blobs

\* A composer gives its writing up as sent only if what it asked to send is what was
\* accepted, however often and from wherever the draft was sent.
ToldTruthfully ==
    [][\A t \in Tabs :
          Sends(t) /\ request'[t].at = "back" /\ request'[t].answer.status = "ok" =>
              accepted' = request[t].snap.text /\ onJob' = request[t].snap.files]_vars

\* A draft deleted while it is being sent is not sent, and one that was sent is not deleted.
EndsOnce == [][(state \in {"deleted", "sent"}) => state' = state]_vars
============================================================================
