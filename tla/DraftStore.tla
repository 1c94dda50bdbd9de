----------------------------- MODULE DraftStore -----------------------------
(***************************************************************************)
(* One composed message as the API keeps it: the EmailDraft row with its   *)
(* optimistic revision, the uploaded files that hang on it, and the send   *)
(* that completes it.  Updates, uploads and sends hold the draft's         *)
(* advisory lock for their transaction; deleting the draft or one of its   *)
(* files does not, and may fall between the statements of a send.          *)
(*                                                                         *)
(* Writing is the set of edits it contains, so that writing that was left  *)
(* out by mistake is an edit nobody has any more.                          *)
(***************************************************************************)
EXTENDS Naturals, FiniteSets

CONSTANTS
    Tabs,    \* composers of the one user, each on a device of its own
    NoTab,
    Files,   \* files the user picks
    MaxEdits, \* bound: edits
    MaxSaves, \* bound: saves begun
    MaxLids   \* bound: composers opened

ASSUME StoreAssumption ==
    /\ NoTab \notin Tabs
    /\ {MaxEdits, MaxSaves, MaxLids} \subseteq Nat
    /\ MaxLids > 0

Writing == SUBSET (1..MaxEdits)
Mutations == 0..(MaxSaves + MaxLids)
Revisions == Nat

\* What a composer saves or sends: mutation 0 where there is none.
Snapshots == [text : Writing, files : SUBSET Files, known : BOOLEAN,
              revision : Revisions, mutation : Mutations]

VARIABLES
    state,     \* Postgres: "none", "open", "deleted" or "sent" (completedSendId)
    body,      \* Postgres: the draft's writing
    revision,  \* Postgres: its revision
    mutation,  \* Postgres: its lastMutationId
    created,   \* Postgres: the writing its creationHash is of
    onDraft,   \* Postgres: EmailAttachment rows of the draft
    accepted,  \* Postgres: the writing of the EmailJob rows of the send
    onJob,     \* Postgres: their EmailAttachment rows
    blobs,     \* object storage: the files' contents
    sending    \* Postgres: the tab whose send transaction has begun and not ended

storeVars == <<state, body, revision, mutation, created, onDraft, accepted, onJob, blobs, sending>>

StoreInit ==
    /\ state = "none" /\ body = {} /\ revision = 0 /\ mutation = 0 /\ created = {}
    /\ onDraft = {} /\ accepted = {} /\ onJob = {} /\ blobs = {} /\ sending = NoTab

StoreType ==
    /\ state \in {"none", "open", "deleted", "sent"}
    /\ body \in Writing /\ created \in Writing /\ accepted \in Writing
    /\ revision \in Revisions /\ mutation \in Mutations
    /\ onDraft \subseteq Files /\ onJob \subseteq Files /\ blobs \subseteq Files
    /\ sending \in Tabs \union {NoTab}

\* 200 with the revision, 409, 404, or no answer at all.
Ok(r) == [status |-> "ok", revision |-> r]
Conflict == [status |-> "conflict", revision |-> 0]
NotFound == [status |-> "gone", revision |-> 0]
Lost == [status |-> "lost", revision |-> 0]
Answers == [status : {"ok", "conflict", "gone", "lost"}, revision : Revisions]
\* What a request may be answered now.
Replies == {Ok(r) : r \in {0, 1, revision, revision + 1}} \union {Conflict, NotFound}

Unlocked == sending = NoTab

----------------------------------------------------------------------------
(* emailDraftService: each gives its answer, and changes the row or not. *)

\* create: the client's identity is unique, and a retry must be of the same writing.
Create(s, answer) ==
    \/ /\ state = "none"
       /\ state' = "open" /\ body' = s.text /\ created' = s.text /\ revision' = 1
       /\ answer = Ok(1)
       /\ UNCHANGED <<mutation, onDraft, accepted, onJob, blobs, sending>>
    \/ /\ state # "none"
       /\ answer = IF state = "open" /\ revision = 1 /\ created = s.text THEN Ok(1) ELSE Conflict
       /\ UNCHANGED storeVars

\* Mutant: the expected revision is not compared.
UpdateAnyRevision(s, answer) ==
    /\ Unlocked
    /\ \/ /\ state = "open" /\ mutation # s.mutation
          /\ body' = s.text /\ revision' = revision + 1 /\ mutation' = s.mutation
          /\ answer = Ok(revision + 1)
          /\ UNCHANGED <<state, created, onDraft, accepted, onJob, blobs, sending>>
       \/ /\ ~(state = "open" /\ mutation # s.mutation)
          /\ answer = CASE state = "open" -> Ok(revision)
                        [] state = "deleted" -> NotFound
                        [] OTHER -> Conflict
          /\ UNCHANGED storeVars

\* update: its last mutation again is answered as it was, another needs the revision.
Update(s, answer) ==
    LET applies == state = "open" /\ mutation # s.mutation /\ revision = s.revision
    IN  /\ Unlocked
        /\ \/ /\ applies
              /\ body' = s.text /\ revision' = revision + 1 /\ mutation' = s.mutation
              /\ answer = Ok(revision + 1)
              /\ UNCHANGED <<state, created, onDraft, accepted, onJob, blobs, sending>>
           \/ /\ ~applies
              /\ answer = CASE state = "open" /\ mutation = s.mutation -> Ok(revision)
                            [] state = "deleted" -> NotFound
                            [] OTHER -> Conflict
              /\ UNCHANGED storeVars

Save(s, answer) == IF s.known THEN Update(s, answer) ELSE Create(s, answer)

\* Mutant: the deletion leaves the revision.
DeleteSilently ==
    /\ state = "open"
    /\ state' = "deleted"
    /\ UNCHANGED <<body, revision, mutation, created, onDraft, accepted, onJob, blobs, sending>>

\* delete: a single statement, without the lock; it moves the revision on.
Delete ==
    /\ state = "open"
    /\ state' = "deleted" /\ revision' = revision + 1
    /\ UNCHANGED <<body, mutation, created, onDraft, accepted, onJob, blobs, sending>>

----------------------------------------------------------------------------
(* attachmentService. *)

\* upload: the contents are stored first, which nobody sees, then the row under the
\* draft's lock; the contents of a refused row are taken back.
CreateAttachment(f, answer) ==
    /\ Unlocked
    /\ IF state = "open"
       THEN answer = Ok(0) /\ onDraft' = onDraft \union {f} /\ blobs' = blobs \union {f}
       ELSE answer = Conflict /\ UNCHANGED <<onDraft, blobs>>
    /\ UNCHANGED <<state, body, revision, mutation, created, accepted, onJob, sending>>

\* delete: a row that no send has claimed.
RemoveRow(f) ==
    /\ f \in onDraft
    /\ onDraft' = onDraft \ {f}
    /\ UNCHANGED <<state, body, revision, mutation, created, accepted, onJob, blobs, sending>>

\* Then its contents, unless a row has come to share them.
RemoveBlob(f) ==
    /\ blobs' = IF f \in onDraft \union onJob THEN blobs ELSE blobs \ {f}
    /\ UNCHANGED <<state, body, revision, mutation, created, onDraft, accepted, onJob, sending>>

----------------------------------------------------------------------------
(* manualEmailService.send, by the draft's identity. *)

SendChecks(s) == state = "open" /\ onDraft = s.files /\ revision = s.revision

\* The locks are taken, and what the transaction reads of the draft is as expected.
SendBegin(t, s) ==
    /\ Unlocked /\ SendChecks(s)
    /\ sending' = t
    /\ UNCHANGED <<state, body, revision, mutation, created, onDraft, accepted, onJob, blobs>>

\* Mutant: a replay with other content is answered like the send there is.
SendAnswerAny(s, answer) ==
    /\ Unlocked /\ ~SendChecks(s)
    /\ answer = CASE state = "sent" -> Ok(0)
                  [] state = "deleted" -> NotFound
                  [] OTHER -> Conflict
    /\ UNCHANGED storeVars

\* A replay is answered with the send there is, if its content is the same.
SendAnswer(s, answer) ==
    /\ Unlocked /\ ~SendChecks(s)
    /\ answer = CASE state = "sent" /\ accepted = s.text /\ onJob = s.files -> Ok(0)
                  [] state = "deleted" -> NotFound
                  [] OTHER -> Conflict
    /\ UNCHANGED storeVars

Complete(s) ==
    /\ state' = "sent" /\ revision' = revision + 1
    /\ accepted' = s.text /\ onJob' = s.files /\ onDraft' = onDraft \ s.files

\* Mutant: files that went away are not missed.
SendCommitAnyFiles(t, s, answer) ==
    /\ sending = t /\ sending' = NoTab
    /\ IF revision = s.revision
       THEN Complete(s) /\ answer = Ok(0)
       ELSE answer = Conflict /\ UNCHANGED <<state, revision, accepted, onJob, onDraft>>
    /\ UNCHANGED <<body, mutation, created, blobs>>

\* Mutant: the locks are not given back.
SendCommitHolds(t, s, answer) ==
    /\ sending = t /\ UNCHANGED sending
    /\ IF s.files \subseteq onDraft /\ revision = s.revision
       THEN Complete(s) /\ answer = Ok(0)
       ELSE answer = Conflict /\ UNCHANGED <<state, revision, accepted, onJob, onDraft>>
    /\ UNCHANGED <<body, mutation, created, blobs>>

\* The files are claimed and the draft completed, each by a statement that counts the
\* rows it found as they were, or the whole transaction is undone.
SendCommit(t, s, answer) ==
    /\ sending = t /\ sending' = NoTab
    /\ IF s.files \subseteq onDraft /\ revision = s.revision
       THEN Complete(s) /\ answer = Ok(0)
       ELSE answer = Conflict /\ UNCHANGED <<state, revision, accepted, onJob, onDraft>>
    /\ UNCHANGED <<body, mutation, created, blobs>>

\* The process died, or the transaction timed out.
Rollback(t) ==
    /\ sending = t /\ sending' = NoTab
    /\ UNCHANGED <<state, body, revision, mutation, created, onDraft, accepted, onJob, blobs>>

\* A send that its client no longer waits for.
SendWhole(s) ==
    /\ Unlocked /\ SendChecks(s)
    /\ Complete(s)
    /\ UNCHANGED <<body, mutation, created, blobs, sending>>
============================================================================
