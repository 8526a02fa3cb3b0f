---------------------------- MODULE DurableImport ----------------------------
(***************************************************************************)
(* The durable import: a file is uploaded, parsed and validated row by row *)
(* in leased chunks, shown to its user, confirmed, and applied to the      *)
(* master data in one transaction under a lease of its own.                *)
(*                                                                         *)
(* The database half is supabase/migrations 0032, 0035, 0044, 0045, 0048   *)
(* and 0056; one action is one RPC, a transaction.  The workers are the    *)
(* polling process scripts/import/import-worker.ts and the Edge function   *)
(* supabase/functions/import-worker/index.ts, whose steps are the same but *)
(* for what starts and what continues them.                                *)
(*                                                                         *)
(* A chunk is one row here, and row n of every file is about key n of the  *)
(* master data.  A lease token is its generation: both are new at each     *)
(* claim.  Leases, retry delays and upload deadlines are timers that end.  *)
(*                                                                         *)
(* A definition commented "Mutant" is no part of the specification: it is  *)
(* the next definition with a bug in it, which a run must tell apart.      *)
(***************************************************************************)
EXTENDS Naturals, Sequences, FiniteSets

CONSTANTS
  NBatch,       \* bound: how many batches are ever started
  Chunk,        \* chunk numbers, in the order in which they are claimed
  Value,        \* values a key of the master data may have
  None,         \* no value, no row, no chunk
  Unreadable,   \* what the parser refuses
  Poller,       \* polling workers
  Edge,         \* Edge invocations that can run at once
  PollLimit,    \* batches a polling worker lists (10 in the code)
  EdgeLimit,    \* batches an Edge invocation lists (50 in the code)
  EdgeChunks,   \* chunks an Edge invocation completes at most (4 in the code)
  MaxAttempts,  \* import_batches.max_attempts (5 in the code)
  Masters,      \* what the master data may hold at first
  Files,        \* what an uploaded file may hold: its rows, or Unreadable
  MaxFaults     \* bound: crashes, lost answers, failed downloads, late work

Batch == 1 .. NBatch
Phase == {"PARSE", "VALIDATE"}
ChunkId == Batch \X Phase \X Chunk
Worker == Poller \cup Edge

ASSUME ImportConstants ==
  /\ NBatch \in Nat
  /\ Chunk \subseteq Nat /\ Chunk # {}
  /\ None \notin Value
  /\ Poller \cap Edge = {}
  /\ \A f \in Files : f = Unreadable \/ f \in [Chunk -> Value \cup {"invalid"}]
  /\ Masters \subseteq [Chunk -> Value \cup {None}]
  /\ {PollLimit, EdgeLimit, EdgeChunks, MaxAttempts, MaxFaults} \subseteq Nat

VARIABLES
  batch,     \* import_batches
  chunk,     \* import_batch_chunks
  rows,      \* import_rows: what the preview says of each row
  snapshot,  \* import_batch_reference_snapshots
  stored,    \* batches whose object is in Storage
  file,      \* file[b]: what that object holds
  master,    \* the master data the import is for
  public,    \* history: the previews of b that were applied, in order
  screen,    \* screen[b]: what the panel of b's user shows
  worker,    \* the workers' local state
  faults

tables == <<batch, chunk, rows, snapshot, master, public>>
world == <<stored, file, screen>>
vars == <<tables, world, worker, faults>>

MasterValue == Value \cup {None}
Row == [action : {"INSERT", "UPDATE", "SKIP", "ERROR"}, old : MasterValue]
ASSUME NoneIsNoRow == None \notin Row
NoRows == [n \in Chunk |-> None]

BatchStatus ==
  {"NONE", "AWAITING_UPLOAD", "UPLOADED", "PARSING", "VALIDATING",
   "VALIDATED", "APPLYING", "APPLIED", "FAILED", "CANCELLED"}
Terminal == {"APPLIED", "FAILED", "CANCELLED"}

\* Statuses list_import_work returns.
Work == BatchStatus \ ({"NONE"} \cup Terminal)

Status(b) == batch[b].status
Timers == {"off", "running", "ended"}

NewBatch ==
  [status |-> "NONE", confirmed |-> FALSE, late |-> FALSE,
   attempts |-> 0, gen |-> 0, timer |-> "off"]
NewChunk == [status |-> "NONE", gen |-> 0, attempts |-> 0, timer |-> "off"]
Idle == [pc |-> "idle", todo |-> {}, phase |-> "PARSE", c |-> None, gen |-> 0, done |-> 0]

Init ==
  /\ batch = [b \in Batch |-> NewBatch]
  /\ chunk = [c \in ChunkId |-> NewChunk]
  /\ rows = [b \in Batch |-> NoRows]
  /\ snapshot = [b \in Batch |-> None]
  /\ stored = {}
  /\ file \in [Batch -> Files]
  /\ master \in Masters
  /\ public = [b \in Batch |-> <<>>]
  /\ screen = [b \in Batch |-> [saw |-> "nothing", rows |-> NoRows]]
  /\ worker = [w \in Worker |-> Idle]
  /\ faults = 0

-----------------------------------------------------------------------------
(* The user, in DurableImportPanel.                                        *)

\* start_import_upload: batches are created in the order of their numbers.
Start(b) ==
  /\ Status(b) = "NONE"
  /\ \A a \in Batch : a < b => Status(a) # "NONE"
  /\ batch' = [batch EXCEPT ![b].status = "AWAITING_UPLOAD"]
  /\ UNCHANGED <<chunk, rows, snapshot, master, public, world, worker, faults>>

\* The direct upload to the batch's fixed key; upsert is false.
Upload(b) ==
  /\ Status(b) = "AWAITING_UPLOAD"
  /\ b \notin stored
  /\ stored' = stored \cup {b}
  /\ UNCHANGED <<tables, file, screen, worker, faults>>

\* refreshBatchDetailed reads the batch first ...
SeeStatus(b) ==
  /\ Status(b) \in {"VALIDATED", "FAILED"}
  /\ screen[b].saw = "nothing"
  /\ screen' = [screen EXCEPT ![b].saw = Status(b)]
  /\ UNCHANGED <<tables, stored, file, worker, faults>>

\* ... and then its rows, whatever has become of the batch meanwhile.
LoadRows(b) ==
  /\ screen[b].saw \in {"VALIDATED", "FAILED"}
  /\ screen' = [screen EXCEPT ![b] =
        [saw |-> IF @.saw = "VALIDATED" THEN "preview" ELSE "errors", rows |-> rows[b]]]
  /\ UNCHANGED <<tables, stored, file, worker, faults>>

\* Mutant: the button is there while the rows are loading.
ConfirmUnseen(b) ==
  /\ screen[b].saw \in {"VALIDATED", "preview"}
  /\ Status(b) = "VALIDATED"
  /\ batch' = [batch EXCEPT ![b].confirmed = TRUE]
  /\ UNCHANGED <<chunk, rows, snapshot, master, public, world, worker, faults>>
\* confirmBatch: only a loaded preview can be confirmed; confirm_import_batch.
Confirm(b) ==
  /\ screen[b].saw = "preview"
  /\ Status(b) = "VALIDATED"
  /\ batch' = [batch EXCEPT ![b].confirmed = TRUE]
  /\ UNCHANGED <<chunk, rows, snapshot, master, public, world, worker, faults>>

\* cancel_import_batch: every chunk that is not completed fails with it.
Cancel(b) ==
  /\ Status(b) \notin {"NONE", "APPLIED", "CANCELLED"}
  /\ batch' = [batch EXCEPT ![b].status = "CANCELLED"]
  /\ chunk' = [c \in ChunkId |->
        IF c[1] = b /\ chunk[c].status \notin {"NONE", "COMPLETED"}
          THEN [chunk[c] EXCEPT !.status = "FAILED", !.timer = "off"]
          ELSE chunk[c]]
  /\ UNCHANGED <<rows, snapshot, master, public, world, worker, faults>>

\* The declared lifetime of the upload runs out.
UploadExpires(b) ==
  /\ Status(b) = "AWAITING_UPLOAD"
  /\ ~batch[b].late
  /\ batch' = [batch EXCEPT ![b].late = TRUE]
  /\ UNCHANGED <<chunk, rows, snapshot, master, public, world, worker, faults>>

-----------------------------------------------------------------------------
(* What a worker is at.  todo holds the batches it has listed and not yet  *)
(* gone through, as they were when it listed them; it is at the first.     *)

\* Mutant: what has ended is listed too.
AtWorkAndDone == {b \in Batch : Status(b) # "NONE"}
AtWork == {b \in Batch : Status(b) \in Work}

\* list_import_work: the oldest batches first, no more than the limit.
ListWork(limit) ==
  {[b |-> b, status |-> Status(b), confirmed |-> batch[b].confirmed] :
     b \in {x \in AtWork : Cardinality({a \in AtWork : a < x}) < limit}}

IsAt(w, t) == t \in worker[w].todo /\ \A u \in worker[w].todo : t.b <= u.b

\* Done with t, whether it went well or an error was caught.
MovedOn(w, t) ==
  LET left == worker[w].todo \ {t}
  IN  IF left = {} THEN Idle ELSE [Idle EXCEPT !.pc = "next", !.todo = left]

Go(w, next) == worker' = [worker EXCEPT ![w] = next]
Leaves(w, t) == Go(w, MovedOn(w, t)) /\ UNCHANGED <<tables, world, faults>>

PollList(w) ==
  /\ w \in Poller /\ worker[w].pc = "idle"
  /\ ListWork(PollLimit) # {}
  /\ Go(w, [Idle EXCEPT !.pc = "next", !.todo = ListWork(PollLimit)])
  /\ UNCHANGED <<tables, world, faults>>

\* handleRequest: the panel asks for one batch, that must be on the list.
EdgeStart(w) ==
  /\ w \in Edge /\ worker[w].pc = "idle"
  /\ \E t \in ListWork(EdgeLimit) : Go(w, [Idle EXCEPT !.pc = "next", !.todo = {t}])
  /\ UNCHANGED <<tables, world, faults>>

-----------------------------------------------------------------------------
(* An upload is confirmed, or refused, or its batch failed.                *)

Readable(b) == b \in stored /\ file[b] # Unreadable

\* confirm_import_upload has succeeded before: its key finds the result.
UploadConfirmed(b) == chunk[<<b, "PARSE", CHOOSE n \in Chunk : TRUE>>].status # "NONE"

ConfirmUpload(w, t) ==
  /\ IsAt(w, t) /\ worker[w].pc = "next" /\ t.status = "AWAITING_UPLOAD"
  /\ Readable(t.b)
  /\ \/ /\ Status(t.b) = "AWAITING_UPLOAD" /\ ~batch[t.b].late
        /\ batch' = [batch EXCEPT ![t.b].status = "UPLOADED"]
        /\ chunk' = [c \in ChunkId |->
              IF c[1] = t.b /\ c[2] = "PARSE" THEN [chunk[c] EXCEPT !.status = "PENDING"]
              ELSE chunk[c]]
     \/ UploadConfirmed(t.b) /\ UNCHANGED <<batch, chunk>>
  /\ Go(w, [worker[w] EXCEPT !.pc = "claim", !.phase = "PARSE"])
  /\ UNCHANGED <<rows, snapshot, master, public, world, faults>>

\* No object yet, too late, or cancelled: an error, and the batch stays as it is.
UploadRefused(w, t) ==
  /\ IsAt(w, t) /\ worker[w].pc = "next" /\ t.status = "AWAITING_UPLOAD"
  /\ \/ t.b \notin stored
     \/ /\ Readable(t.b) /\ ~UploadConfirmed(t.b)
        /\ Status(t.b) # "AWAITING_UPLOAD" \/ batch[t.b].late
  /\ Leaves(w, t)

\* The parser refuses the file: fail_import_upload.
FailUpload(w, t) ==
  /\ IsAt(w, t) /\ worker[w].pc = "next" /\ t.status = "AWAITING_UPLOAD"
  /\ t.b \in stored /\ file[t.b] = Unreadable
  /\ batch' = IF Status(t.b) = "AWAITING_UPLOAD"
                THEN [batch EXCEPT ![t.b].status = "FAILED"] ELSE batch
  /\ Go(w, MovedOn(w, t))
  /\ UNCHANGED <<chunk, rows, snapshot, master, public, world, faults>>

-----------------------------------------------------------------------------
(* Chunks: claimed, computed, completed or failed.                         *)

\* The phase the worker is to claim in, from the listed status of its batch.
PhaseAt(w, t) ==
  CASE worker[w].pc = "claim" -> worker[w].phase
    [] worker[w].pc = "next" /\ t.status \in {"UPLOADED", "PARSING"} -> "PARSE"
    [] worker[w].pc = "next" /\ t.status = "VALIDATING" -> "VALIDATE"
    [] OTHER -> None

\* Batch statuses in which claim_import_chunk leases chunks of a phase.
ClaimableIn(phase) == IF phase = "PARSE" THEN {"UPLOADED", "PARSING"} ELSE {"VALIDATING"}

\* Mutant: a lease that has run out is never taken over.
ClaimableUnleased(c) ==
  \/ chunk[c].status = "PENDING"
  \/ chunk[c].status = "RETRY_WAIT" /\ chunk[c].timer = "ended"
Claimable(c) ==
  \/ chunk[c].status = "PENDING"
  \/ chunk[c].status \in {"RETRY_WAIT", "LEASED"} /\ chunk[c].timer = "ended"

ToClaim(b, phase) ==
  {c \in {<<b, phase, n>> : n \in Chunk} : Status(b) \in ClaimableIn(phase) /\ Claimable(c)}

ClaimChunk(w, t) ==
  /\ IsAt(w, t) /\ PhaseAt(w, t) # None
  /\ \E c \in ToClaim(t.b, PhaseAt(w, t)) :
       /\ \A d \in ToClaim(t.b, PhaseAt(w, t)) : c[3] <= d[3]
       /\ chunk' = [chunk EXCEPT ![c] =
             [status |-> "LEASED", gen |-> @.gen + 1,
              attempts |-> @.attempts + 1, timer |-> "running"]]
       /\ Go(w, [worker[w] EXCEPT !.pc = "work", !.phase = PhaseAt(w, t),
                                   !.c = c, !.gen = chunk[c].gen + 1])
  /\ batch' = [batch EXCEPT ![t.b].status =
        IF PhaseAt(w, t) = "PARSE" THEN "PARSING" ELSE "VALIDATING"]
  /\ UNCHANGED <<rows, snapshot, master, public, world, faults>>

\* Refused, or every chunk of the phase is leased or done.
NothingToClaim(w, t) ==
  /\ IsAt(w, t) /\ PhaseAt(w, t) # None
  /\ ToClaim(t.b, PhaseAt(w, t)) = {}
  /\ Leaves(w, t)

\* previewRows: the reference snapshot is taken once, and kept for the batch.
TakePreview(w, t) ==
  /\ IsAt(w, t) /\ worker[w].pc = "work"
  /\ IF Status(t.b) \in Terminal
       THEN Go(w, [worker[w] EXCEPT !.pc = "fail"]) /\ UNCHANGED snapshot
       ELSE /\ snapshot' = [snapshot EXCEPT ![t.b] = IF @ = None THEN master ELSE @]
            /\ Go(w, [worker[w] EXCEPT !.pc = "complete"])
  /\ UNCHANGED <<batch, chunk, rows, master, public, world, faults>>

\* The download or the database call fails before anything is written.
WorkFails(w, t) ==
  /\ IsAt(w, t) /\ worker[w].pc \in {"work", "complete"}
  /\ faults < MaxFaults /\ faults' = faults + 1
  /\ Go(w, [worker[w] EXCEPT !.pc = "fail"])
  /\ UNCHANGED <<tables, world>>

\* buildImportPreviewRows: row n of the file against what the snapshot has.
PreviewRow(b, n) ==
  LET new == file[b][n]
      old == snapshot[b][n]
  IN  CASE new = "invalid" -> [action |-> "ERROR", old |-> None]
        [] new # "invalid" /\ old = None -> [action |-> "INSERT", old |-> None]
        [] new # "invalid" /\ old # None /\ old # new -> [action |-> "UPDATE", old |-> old]
        [] OTHER -> [action |-> "SKIP", old |-> old]

HoldsLease(w) ==
  LET c == worker[w].c
  IN  /\ chunk[c].status = "LEASED"
      /\ chunk[c].gen = worker[w].gen
      /\ chunk[c].timer = "running"

Completed(table, b, phase) == \A n \in Chunk : table[<<b, phase, n>>].status = "COMPLETED"

\* Was chunk c the last of its phase?  Mutant: when none waits any more.
LastQueued(table, c) ==
  \A n \in Chunk : table[<<c[1], c[2], n>>].status \notin {"PENDING", "RETRY_WAIT"}
LastOfPhase(table, c) == Completed(table, c[1], c[2])

\* complete_import_chunk: the row, the chunk, and the phase when it was the last.
CompleteTx(w, t) ==
  LET c == worker[w].c
      row == [rows EXCEPT ![t.b][c[3]] = PreviewRow(t.b, c[3])]
      done == [chunk EXCEPT ![c].status = "COMPLETED", ![c].timer = "off"]
      parsed == c[2] = "PARSE" /\ LastOfPhase(done, c)
      validated == c[2] = "VALIDATE" /\ LastOfPhase(done, c)
  IN  /\ HoldsLease(w) /\ Status(t.b) \notin Terminal
      /\ rows' = row
      /\ chunk' = [d \in ChunkId |->
            IF parsed /\ d[1] = t.b /\ d[2] = "VALIDATE"
              THEN [NewChunk EXCEPT !.status = "PENDING"] ELSE done[d]]
      /\ batch' = [batch EXCEPT ![t.b].status =
            IF parsed THEN "VALIDATING"
            ELSE IF ~validated THEN @
            ELSE IF \E n \in Chunk : row[t.b][n].action = "ERROR" THEN "FAILED"
            ELSE "VALIDATED"]
      /\ UNCHANGED <<snapshot, master, public>>

\* An Edge invocation goes on in the same phase, a poller takes one chunk.
GoesOn(w, t) ==
  /\ w \in Edge /\ worker[w].done + 1 < EdgeChunks
  /\ batch'[t.b].status = IF worker[w].phase = "PARSE" THEN "PARSING" ELSE "VALIDATING"

CompleteChunk(w, t) ==
  /\ IsAt(w, t) /\ worker[w].pc = "complete"
  /\ CompleteTx(w, t)
  /\ Go(w, IF GoesOn(w, t)
             THEN [worker[w] EXCEPT !.pc = "claim", !.c = None, !.gen = 0, !.done = @ + 1]
             ELSE MovedOn(w, t))
  /\ UNCHANGED <<world, faults>>

\* The chunk is completed and the worker does not hear of it.
CompletionUnheard(w, t) ==
  /\ IsAt(w, t) /\ worker[w].pc = "complete"
  /\ faults < MaxFaults /\ faults' = faults + 1
  /\ CompleteTx(w, t)
  /\ Go(w, [worker[w] EXCEPT !.pc = "fail"])
  /\ UNCHANGED world

CompletionRefused(w, t) ==
  /\ IsAt(w, t) /\ worker[w].pc = "complete"
  /\ ~HoldsLease(w) \/ Status(t.b) \in Terminal
  /\ Go(w, [worker[w] EXCEPT !.pc = "fail"])
  /\ UNCHANGED <<tables, world, faults>>

\* fail_import_chunk: to be retried, or the end of the batch; a stale lease
\* is refused, and the worker does not mind.
FailChunk(w, t) ==
  /\ IsAt(w, t) /\ worker[w].pc = "fail"
  /\ LET c == worker[w].c
         again == chunk[c].attempts < MaxAttempts
     IN  IF HoldsLease(w)
           THEN /\ chunk' = [chunk EXCEPT
                      ![c].status = IF again THEN "RETRY_WAIT" ELSE "FAILED",
                      ![c].timer = IF again THEN "running" ELSE "off"]
                /\ batch' = IF again THEN batch ELSE [batch EXCEPT ![t.b].status = "FAILED"]
           ELSE UNCHANGED <<chunk, batch>>
  /\ Go(w, MovedOn(w, t))
  /\ UNCHANGED <<rows, snapshot, master, public, world, faults>>

-----------------------------------------------------------------------------
(* The confirmed batch is applied, under a lease of the whole batch.       *)

AtApply(w, t) ==
  IsAt(w, t) /\ worker[w].pc = "next" /\ t.status \in {"VALIDATED", "APPLYING"}

\* Mutant: an apply that has begun is never begun again.
ApplyNotBegun(b) == Status(b) = "VALIDATED"
ApplyLeaseFree(b) ==
  \/ Status(b) = "VALIDATED"
  \/ Status(b) = "APPLYING" /\ batch[b].timer = "ended"

\* claim_import_apply; after max_attempts claims the batch fails instead.
ClaimApply(w, t) ==
  /\ AtApply(w, t) /\ t.confirmed
  /\ ApplyLeaseFree(t.b) /\ batch[t.b].confirmed
  /\ IF batch[t.b].attempts < MaxAttempts
       THEN /\ batch' = [batch EXCEPT ![t.b] =
                  [batch[t.b] EXCEPT !.status = "APPLYING", !.gen = @ + 1,
                                     !.attempts = @ + 1, !.timer = "running"]]
            /\ Go(w, [worker[w] EXCEPT !.pc = "apply", !.gen = batch[t.b].gen + 1])
       ELSE /\ batch' = [batch EXCEPT ![t.b].status = "FAILED", ![t.b].timer = "off"]
            /\ Go(w, MovedOn(w, t))
  /\ UNCHANGED <<chunk, rows, snapshot, master, public, world, faults>>

\* Not confirmed when it was listed, or the claim is refused.
NoApply(w, t) ==
  /\ AtApply(w, t)
  /\ ~t.confirmed \/ ~ApplyLeaseFree(t.b)
  /\ Leaves(w, t)

\* Mutant: the token is compared, and the batch's status is not.
HoldsToken(w, b) ==
  /\ batch[b].gen = worker[w].gen
  /\ batch[b].timer = "running"
HoldsApply(w, b) ==
  /\ Status(b) = "APPLYING"
  /\ batch[b].gen = worker[w].gen
  /\ batch[b].timer = "running"

\* apply_import_batch: every row but the skipped ones, in one transaction.
Apply(w, t) ==
  /\ IsAt(w, t) /\ worker[w].pc = "apply"
  /\ HoldsApply(w, t.b) /\ batch[t.b].confirmed
  /\ \A n \in Chunk : rows[t.b][n].action # "ERROR"
  /\ master' = [n \in Chunk |->
        IF rows[t.b][n].action = "SKIP" THEN master[n] ELSE file[t.b][n]]
  /\ public' = [public EXCEPT ![t.b] = Append(@, rows[t.b])]
  /\ batch' = [batch EXCEPT ![t.b].status = "APPLIED", ![t.b].timer = "off"]
  /\ Go(w, MovedOn(w, t))
  /\ UNCHANGED <<chunk, rows, snapshot, world, faults>>

\* A stale lease, or a row the tables refuse: nothing of it is kept.
ApplyRaises(w, t) ==
  /\ IsAt(w, t) /\ worker[w].pc = "apply"
  /\ Leaves(w, t)

-----------------------------------------------------------------------------
(* Faults and the passing of time.                                         *)

\* The process or the invocation ends; what it leased stays leased.
Crash(w) ==
  /\ worker[w].pc # "idle"
  /\ faults < MaxFaults /\ faults' = faults + 1
  /\ Go(w, Idle)
  /\ UNCHANGED <<tables, world>>

Held(c) == \E w \in Worker : worker[w].c = c /\ worker[w].gen = chunk[c].gen

ApplyHeld(b) ==
  \E w \in Worker : /\ worker[w].pc = "apply" /\ worker[w].gen = batch[b].gen
                     /\ \E t \in worker[w].todo : IsAt(w, t) /\ t.b = b

\* A retry is due, or a lease that nobody works under has run out.
TimerEnds ==
  /\ \/ \E c \in ChunkId :
          /\ chunk[c].timer = "running" /\ ~Held(c)
          /\ chunk' = [chunk EXCEPT ![c].timer = "ended"]
          /\ UNCHANGED batch
     \/ \E b \in Batch :
          /\ batch[b].timer = "running" /\ ~ApplyHeld(b)
          /\ batch' = [batch EXCEPT ![b].timer = "ended"]
          /\ UNCHANGED chunk
  /\ UNCHANGED <<rows, snapshot, master, public, world, worker, faults>>

\* The work takes longer than its lease.
LeaseOverrun ==
  /\ faults < MaxFaults /\ faults' = faults + 1
  /\ \/ \E c \in ChunkId :
          /\ chunk[c].timer = "running" /\ Held(c)
          /\ chunk' = [chunk EXCEPT ![c].timer = "ended"]
          /\ UNCHANGED batch
     \/ \E b \in Batch :
          /\ batch[b].timer = "running" /\ ApplyHeld(b)
          /\ batch' = [batch EXCEPT ![b].timer = "ended"]
          /\ UNCHANGED chunk
  /\ UNCHANGED <<rows, snapshot, master, public, world, worker>>

-----------------------------------------------------------------------------
UserStep ==
  \E b \in Batch :
    \/ Start(b) \/ Upload(b) \/ UploadExpires(b) \/ SeeStatus(b) \/ LoadRows(b)
    \/ Confirm(b) \/ Cancel(b)

WorkOn(w, t) ==
  \/ ConfirmUpload(w, t) \/ UploadRefused(w, t) \/ FailUpload(w, t)
  \/ ClaimChunk(w, t) \/ NothingToClaim(w, t) \/ TakePreview(w, t)
  \/ CompleteChunk(w, t) \/ CompletionRefused(w, t) \/ FailChunk(w, t)
  \/ ClaimApply(w, t) \/ NoApply(w, t) \/ Apply(w, t) \/ ApplyRaises(w, t)

WorkerStep(w) == PollList(w) \/ EdgeStart(w) \/ \E t \in worker[w].todo : WorkOn(w, t)

FaultStep ==
  \/ LeaseOverrun
  \/ \E w \in Worker :
       \/ Crash(w)
       \/ \E t \in worker[w].todo : WorkFails(w, t) \/ CompletionUnheard(w, t)

Next == UserStep \/ (\E w \in Worker : WorkerStep(w)) \/ TimerEnds \/ FaultStep

(* A polling worker is restarted and goes on, and time passes.  Nothing is *)
(* assumed of users, and Edge invocations come only when a panel asks.     *)
Fairness ==
  /\ \A w \in Worker : WF_vars(WorkerStep(w) /\ (w \in Poller \/ worker[w].pc # "idle"))
  /\ WF_vars(TimerEnds)

Spec == Init /\ [][Next]_vars /\ Fairness

-----------------------------------------------------------------------------
(* Properties                                                              *)

ChunkStatus == {"NONE", "PENDING", "LEASED", "RETRY_WAIT", "COMPLETED", "FAILED"}
Preview == [Chunk -> Row \cup {None}]

(* The types of the tables, the screens and the workers.                   *)
TypeOK ==
  /\ batch \in [Batch -> [status : BatchStatus, confirmed : BOOLEAN, late : BOOLEAN,
                          attempts : Nat, gen : Nat, timer : Timers]]
  /\ chunk \in [ChunkId -> [status : ChunkStatus, gen : Nat, attempts : Nat, timer : Timers]]
  /\ rows \in [Batch -> Preview]
  /\ snapshot \in [Batch -> [Chunk -> MasterValue] \cup {None}]
  /\ stored \in SUBSET Batch
  /\ file \in [Batch -> Files]
  /\ master \in [Chunk -> MasterValue]
  /\ public \in [Batch -> Seq(Preview)]
  /\ screen \in [Batch -> [saw : {"nothing", "VALIDATED", "FAILED", "preview", "errors"},
                           rows : Preview]]
  /\ worker \in [Worker ->
        [pc : {"idle", "next", "claim", "work", "complete", "fail", "apply"},
         todo : SUBSET [b : Batch, status : Work, confirmed : BOOLEAN],
         phase : Phase, c : ChunkId \cup {None}, gen : Nat, done : Nat]]
  /\ faults \in Nat

(* The phases end in order and completely: the second phase has chunks only*)
(* when the first is completed, and a batch that waits for confirmation or *)
(* is being applied has every row validated, none of them an error, and no *)
(* chunk open that could still change one.                                 *)
PhasesComplete ==
  \A b \in Batch :
    /\ \A n \in Chunk : chunk[<<b, "VALIDATE", n>>].status # "NONE" => Completed(chunk, b, "PARSE")
    /\ Status(b) \in {"VALIDATED", "APPLYING", "APPLIED"} =>
         /\ Completed(chunk, b, "PARSE") /\ Completed(chunk, b, "VALIDATE")
         /\ \A n \in Chunk : rows[b][n] # None /\ rows[b][n].action # "ERROR"

(* What has been published of a batch is one preview, the one its user had *)
(* on the screen: no lease that ran out, no worker that comes back to it   *)
(* and no second claim publishes anything else, or anything twice.         *)
PublishedAsShown ==
  \A b \in Batch :
    /\ public[b] # <<>> => Status(b) = "APPLIED" /\ batch[b].confirmed
    /\ public[b] \in {<<>>, <<screen[b].rows>>}

(* A readable upload that is in time gets its preview, or its batch ends,  *)
(* whatever fails on the way, as long as its worker is restarted.          *)
UploadSettles ==
  \A b \in Batch :
    (b \in stored) ~> (batch[b].late \/ Status(b) \in {"VALIDATED", "APPLYING"} \cup Terminal)

(* A confirmed batch is applied, or fails for good: confirmation does not  *)
(* leave it in between, although nobody but a polling worker goes on.      *)
ConfirmedSettles == \A b \in Batch : batch[b].confirmed ~> Status(b) \in Terminal

(* The abstract promise: see ImportPromise.                                *)
Promise == INSTANCE ImportPromise WITH
  outcome <- [b \in Batch |->
    CASE Status(b) = "APPLIED" -> "published"
      [] Status(b) = "FAILED" -> "failed"
      [] Status(b) = "CANCELLED" -> "cancelled"
      [] OTHER -> "open"],
  shown <- [b \in Batch |-> IF batch[b].confirmed THEN {screen[b].rows} ELSE {}]
KeepsPromise == Promise!Spec
=============================================================================
