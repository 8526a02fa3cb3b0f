------------------------ MODULE DurableImportProofs ------------------------
(***************************************************************************)
(* Theorems about DurableImport, for every number of batches, chunks,      *)
(* workers, attempts and faults: its tables keep their types, the phases   *)
(* end in order and completely, only what was shown and confirmed is ever  *)
(* published, and that once.  Liveness is left to TLC.                     *)
(***************************************************************************)
EXTENDS DurableImport, TLAPS

-----------------------------------------------------------------------------
(* Names for the types of TypeOK.                                          *)

BatchRow ==
  [status : BatchStatus, confirmed : BOOLEAN, late : BOOLEAN,
   attempts : Nat, gen : Nat, timer : Timers]
ChunkRow == [status : ChunkStatus, gen : Nat, attempts : Nat, timer : Timers]
Listed == [b : Batch, status : Work, confirmed : BOOLEAN]
WorkerState ==
  [pc : {"idle", "next", "claim", "work", "complete", "fail", "apply"},
   todo : SUBSET Listed, phase : Phase, c : ChunkId \cup {None}, gen : Nat, done : Nat]

LEMMA Types ==
  ASSUME TypeOK
  PROVE  /\ batch \in [Batch -> BatchRow] /\ chunk \in [ChunkId -> ChunkRow]
         /\ worker \in [Worker -> WorkerState]
  BY DEF TypeOK, BatchRow, ChunkRow, Listed, WorkerState

\* The two tables a step of one worker or one user writes fields of.
LEMMA BatchWrite ==
  ASSUME TypeOK, NEW b \in Batch, NEW x \in BatchRow, batch' = [batch EXCEPT ![b] = x]
  PROVE  batch' \in [Batch -> BatchRow]
  BY Types

LEMMA StatusWrite ==
  ASSUME TypeOK, NEW b \in Batch, NEW s \in BatchStatus,
         batch' = [batch EXCEPT ![b].status = s]
  PROVE  batch' \in [Batch -> BatchRow]
<1>1. batch[b] \in BatchRow
  BY Types
<1>2. [batch[b] EXCEPT !.status = s] \in BatchRow
  BY <1>1 DEF BatchRow
<1> QED BY <1>2, BatchWrite

LEMMA ChunkWrite ==
  ASSUME TypeOK, NEW c \in ChunkId, NEW x \in ChunkRow, chunk' = [chunk EXCEPT ![c] = x]
  PROVE  chunk' \in [ChunkId -> ChunkRow]
  BY Types

LEMMA GoType ==
  ASSUME TypeOK, NEW w \in Worker, NEW x \in WorkerState, Go(w, x)
  PROVE  worker' \in [Worker -> WorkerState]
  BY Types DEF Go

LEMMA IdleType == Idle \in WorkerState
  BY DEF Idle, WorkerState, Phase

LEMMA MovedOnType ==
  ASSUME TypeOK, NEW w \in Worker, NEW t
  PROVE  MovedOn(w, t) \in WorkerState
<1>1. worker[w].todo \in SUBSET Listed
  BY Types DEF WorkerState
<1>2. worker[w].todo \ {t} \in SUBSET Listed
  BY <1>1
<1> DEFINE left == worker[w].todo \ {t}
<1> HIDE DEF left
<1>3. [Idle EXCEPT !.pc = "next", !.todo = left] \in WorkerState
  BY <1>2, IdleType DEF left, WorkerState
<1> QED BY <1>3, IdleType DEF MovedOn, left

LEMMA ListedType ==
  ASSUME TypeOK, NEW limit
  PROVE  ListWork(limit) \in SUBSET Listed
<1>1. ASSUME NEW b \in AtWork
      PROVE  [b |-> b, status |-> Status(b), confirmed |-> batch[b].confirmed] \in Listed
  <2>1. b \in Batch /\ Status(b) \in Work
    BY DEF AtWork
  <2>2. batch[b].confirmed \in BOOLEAN
    BY <2>1, Types DEF BatchRow
  <2> QED BY <2>1, <2>2 DEF Listed
<1> QED BY <1>1 DEF ListWork

\* What the others leave alone.
LEMMA TypeKept ==
  ASSUME TypeOK,
         batch' \in [Batch -> BatchRow], chunk' \in [ChunkId -> ChunkRow],
         rows' \in [Batch -> Preview], snapshot' \in [Batch -> [Chunk -> MasterValue] \cup {None}],
         stored' \in SUBSET Batch, file' = file, master' \in [Chunk -> MasterValue],
         public' \in [Batch -> Seq(Preview)], screen' = screen \/ screen' \in
           [Batch -> [saw : {"nothing", "VALIDATED", "FAILED", "preview", "errors"},
                      rows : Preview]],
         worker' \in [Worker -> WorkerState], faults' \in Nat
  PROVE  TypeOK'
  BY DEF TypeOK, BatchRow, ChunkRow, Listed, WorkerState

-----------------------------------------------------------------------------
(* The inductive invariant.                                                *)

Unfinished == {"PENDING", "LEASED", "RETRY_WAIT"}

\* A chunk exists once the upload was confirmed, is open only while its batch
\* can still take it or has failed, and leaves a row when it is completed.
Chunks(b) ==
  \A p \in Phase, n \in Chunk :
    LET s == chunk[<<b, p, n>>].status
    IN  /\ s # "NONE" => Status(b) \notin {"NONE", "AWAITING_UPLOAD"} /\ file[b] # Unreadable
        /\ s \in Unfinished => Status(b) \in {"UPLOADED", "PARSING", "VALIDATING", "FAILED"}
        /\ s = "COMPLETED" => rows[b][n] # None

\* A preview row of what does not validate is an error.
Previewed(b) ==
  \A n \in Chunk : rows[b][n] # None =>
    /\ file[b] # Unreadable
    /\ file[b][n] = "invalid" => rows[b][n].action = "ERROR"

Phases(b) ==
  /\ \A n \in Chunk : chunk[<<b, "VALIDATE", n>>].status # "NONE" => Completed(chunk, b, "PARSE")
  /\ Status(b) \in {"VALIDATED", "APPLYING", "APPLIED"} =>
       /\ Completed(chunk, b, "PARSE") /\ Completed(chunk, b, "VALIDATE")
       /\ \A n \in Chunk : rows[b][n] # None /\ rows[b][n].action # "ERROR"

\* Whoever saw a validated batch saw rows that no longer change; only what is
\* on the screen is confirmed; only the applied batch has published, once.
Shown(b) ==
  /\ screen[b].saw \in {"VALIDATED", "preview"} =>
       Status(b) \in {"VALIDATED", "APPLYING"} \cup Terminal
  /\ screen[b].saw = "preview" => screen[b].rows = rows[b]
  /\ batch[b].confirmed => screen[b].saw = "preview"
  /\ IF Status(b) = "APPLIED"
       THEN batch[b].confirmed /\ public[b] = <<screen[b].rows>>
       ELSE public[b] = <<>>

Sound(b) == Chunks(b) /\ Previewed(b) /\ Phases(b) /\ Shown(b)

\* A worker at a chunk is at a chunk of the batch it is at, and completes it
\* only after the reference data were frozen.
Working(w) ==
  \A t \in worker[w].todo : IsAt(w, t) =>
    /\ worker[w].pc \in {"work", "complete", "fail"} =>
         worker[w].c \in ChunkId /\ worker[w].c[1] = t.b
    /\ worker[w].pc = "complete" => snapshot[t.b] \in [Chunk -> MasterValue]

Inv ==
  /\ TypeOK
  /\ \A b \in Batch : Sound(b)
  /\ \A w \in Worker : Working(w)

LEMMA SoundSplit ==
  ASSUME \A b \in Batch : Sound(b)
  PROVE  PhasesComplete /\ PublishedAsShown
  BY DEF Sound, Phases, PhasesComplete, Shown, PublishedAsShown

\* A batch whose data a step leaves alone stays sound.
LEMMA SoundKept ==
  ASSUME NEW b \in Batch, Sound(b),
         batch'[b].status = batch[b].status, batch'[b].confirmed = batch[b].confirmed,
         \A p \in Phase, n \in Chunk : chunk'[<<b, p, n>>].status = chunk[<<b, p, n>>].status,
         rows'[b] = rows[b], file' = file, screen'[b] = screen[b], public'[b] = public[b]
  PROVE  Sound(b)'
<1>1. Status(b)' = Status(b)
  BY DEF Status
<1>2. Chunks(b)'
  BY <1>1 DEF Sound, Chunks
<1>3. Previewed(b)'
  BY DEF Sound, Previewed
<1>4. Phases(b)'
  BY <1>1 DEF Sound, Phases, Completed, Phase
<1>5. Shown(b)'
  BY <1>1 DEF Sound, Shown
<1> QED BY <1>2, <1>3, <1>4, <1>5 DEF Sound

LEMMA WorkingKept ==
  ASSUME NEW w \in Worker, Working(w), worker'[w] = worker[w],
         \A b \in Batch : snapshot[b] \in [Chunk -> MasterValue] =>
                            snapshot'[b] \in [Chunk -> MasterValue],
         worker[w].todo \subseteq Listed
  PROVE  Working(w)'
  BY DEF Working, IsAt, Listed

LEMMA StatusFields ==
  ASSUME TypeOK, NEW b \in Batch, NEW s, batch' = [batch EXCEPT ![b].status = s], NEW a \in Batch
  PROVE  /\ Status(a)' = IF a = b THEN s ELSE Status(a)
         /\ batch'[a].status = IF a = b THEN s ELSE batch[a].status
         /\ batch'[a].confirmed = batch[a].confirmed
<1> DEFINE x == [batch[b] EXCEPT !.status = s]
<1>1. batch[a] \in BatchRow /\ batch[b] \in BatchRow
  BY Types
<1>2. batch'[a] = IF a = b THEN x ELSE batch[a]
  BY Types
<1>3. x.status = s
  BY <1>1 DEF BatchRow
<1>4. x.confirmed = batch[b].confirmed
  BY <1>1 DEF BatchRow
<1> HIDE DEF x
<1>5. /\ batch'[a].status = IF a = b THEN s ELSE batch[a].status
      /\ batch'[a].confirmed = batch[a].confirmed
  BY <1>2, <1>3, <1>4
<1> QED BY <1>5 DEF Status

\* The status of one batch changes, and none of its chunks.
LEMMA StatusChange ==
  ASSUME TypeOK, \A a \in Batch : Sound(a), NEW b \in Batch, NEW s,
         batch' = [batch EXCEPT ![b].status = s],
         UNCHANGED <<chunk, rows, public, world>>,
         Chunks(b)', Phases(b)', Shown(b)', NEW a \in Batch
  PROVE  Sound(a)'
<1>1. CASE a = b
  <2>1. Previewed(b)'
    BY DEF Sound, Previewed, world
  <2> QED BY <1>1, <2>1 DEF Sound
<1>2. CASE a # b
  BY <1>2, StatusFields, SoundKept DEF world
<1> QED BY <1>1, <1>2

LEMMA StartSound ==
  ASSUME Inv, NEW b \in Batch, Start(b), NEW a \in Batch
  PROVE  Sound(a)'
<1>1. TypeOK /\ Sound(b) /\ Status(b) = "NONE"
  BY DEF Inv, Start
<1>2. batch' = [batch EXCEPT ![b].status = "AWAITING_UPLOAD"]
  BY DEF Start
<1>3. /\ Status(b)' = "AWAITING_UPLOAD" /\ batch'[b].confirmed = batch[b].confirmed
  BY <1>1, <1>2, StatusFields
<1>4. UNCHANGED <<chunk, rows, public, world>>
  BY DEF Start
<1>5. \A p \in Phase, n \in Chunk : chunk[<<b, p, n>>].status = "NONE"
  BY <1>1 DEF Sound, Chunks
<1>6. Chunks(b)'
  BY <1>4, <1>5 DEF Chunks, Unfinished
<1>7. Phases(b)'
  BY <1>3, <1>4, <1>5 DEF Phases, Phase
<1>8. Shown(b)'
  BY <1>1, <1>3, <1>4 DEF Sound, Shown, Terminal, world
<1> QED BY <1>1, <1>2, <1>4, <1>6, <1>7, <1>8, StatusChange DEF Inv

LEMMA ConfirmSound ==
  ASSUME Inv, NEW b \in Batch, Confirm(b), NEW a \in Batch
  PROVE  Sound(a)'
<1>1. TypeOK /\ Sound(a) /\ screen[b].saw = "preview" /\ Status(b) = "VALIDATED"
  BY DEF Inv, Confirm
<1>2. UNCHANGED <<chunk, rows, public, world>>
  BY DEF Confirm
<1>3. batch'[a].status = batch[a].status /\ batch'[a].confirmed = (a = b \/ batch[a].confirmed)
  <2>1. batch[a] \in BatchRow /\ batch[b] \in BatchRow
    BY <1>1, Types
  <2>2. batch'[a] = IF a = b THEN [batch[b] EXCEPT !.confirmed = TRUE] ELSE batch[a]
    BY <1>1, Types DEF Confirm
  <2>3. [batch[b] EXCEPT !.confirmed = TRUE].confirmed = TRUE
    BY <2>1 DEF BatchRow
  <2>4. [batch[b] EXCEPT !.confirmed = TRUE].status = batch[b].status
    BY <2>1 DEF BatchRow
  <2>5. batch[a].confirmed \in BOOLEAN
    BY <2>1 DEF BatchRow
  <2> QED BY <2>2, <2>3, <2>4, <2>5
<1>4. CASE a # b
  <2>1. batch'[a].confirmed = batch[a].confirmed
    <3>1. batch' = [batch EXCEPT ![b].confirmed = TRUE]
      BY DEF Confirm
    <3> QED BY <1>1, <1>4, <3>1, Types
  <2> QED BY <1>1, <1>2, <1>3, <1>4, <2>1, SoundKept DEF world
<1>5. CASE a = b
  <2>1. Chunks(a)' /\ Previewed(a)' /\ Phases(a)'
    BY <1>1, <1>2, <1>3 DEF Sound, Chunks, Previewed, Phases, Completed, Status, world
  <2>2. Shown(a)'
    BY <1>1, <1>2, <1>3, <1>5 DEF Sound, Shown, Status, world, Terminal
  <2> QED BY <2>1, <2>2 DEF Sound
<1> QED BY <1>4, <1>5

LEMMA CancelSound ==
  ASSUME Inv, NEW b \in Batch, Cancel(b), NEW a \in Batch
  PROVE  Sound(a)'
<1>1. TypeOK /\ Sound(a) /\ Status(b) \notin {"NONE", "APPLIED", "CANCELLED"}
  BY DEF Inv, Cancel
<1>2. UNCHANGED <<rows, public, world>>
  BY DEF Cancel
<1>3. /\ Status(a)' = IF a = b THEN "CANCELLED" ELSE Status(a)
      /\ batch'[a].status = IF a = b THEN "CANCELLED" ELSE batch[a].status
      /\ batch'[a].confirmed = batch[a].confirmed
  BY <1>1, StatusFields DEF Cancel
<1>4. ASSUME NEW p \in Phase, NEW n \in Chunk
      PROVE  chunk'[<<a, p, n>>].status =
               IF a = b /\ chunk[<<a, p, n>>].status \notin {"NONE", "COMPLETED"}
                 THEN "FAILED" ELSE chunk[<<a, p, n>>].status
  <2> DEFINE c == <<a, p, n>>
  <2>1. c \in ChunkId /\ c[1] = a
    BY DEF ChunkId
  <2>2. chunk[c] \in ChunkRow
    BY <1>1, <2>1, Types
  <2>3. chunk'[c] = IF c[1] = b /\ chunk[c].status \notin {"NONE", "COMPLETED"}
                      THEN [chunk[c] EXCEPT !.status = "FAILED", !.timer = "off"] ELSE chunk[c]
    BY <2>1 DEF Cancel
  <2>4. [chunk[c] EXCEPT !.status = "FAILED", !.timer = "off"].status = "FAILED"
    BY <2>2 DEF ChunkRow
  <2> HIDE DEF c
  <2>5. chunk'[c].status = IF a = b /\ chunk[c].status \notin {"NONE", "COMPLETED"}
                             THEN "FAILED" ELSE chunk[c].status
    BY <2>1, <2>3, <2>4
  <2> QED BY <2>5 DEF c
<1>5. CASE a # b
  BY <1>1, <1>2, <1>3, <1>4, <1>5, SoundKept DEF world
<1>6. CASE a = b
  <2>1. \A p \in Phase, n \in Chunk :
          /\ chunk'[<<b, p, n>>].status \notin Unfinished
          /\ chunk'[<<b, p, n>>].status = "COMPLETED" <=> chunk[<<b, p, n>>].status = "COMPLETED"
          /\ chunk'[<<b, p, n>>].status = "NONE" <=> chunk[<<b, p, n>>].status = "NONE"
    <3>1. \A p \in Phase, n \in Chunk : chunk[<<b, p, n>>] \in ChunkRow
      BY <1>1, Types DEF ChunkId
    <3> QED BY <1>4, <1>6, <3>1 DEF Unfinished, ChunkRow, ChunkStatus
  <2>2. Chunks(b)'
    BY <1>1, <1>2, <1>3, <1>6, <2>1 DEF Sound, Chunks, world
  <2>3. Previewed(b)'
    BY <1>1, <1>2, <1>6 DEF Sound, Previewed, world
  <2>4. Phases(b)'
    BY <1>1, <1>3, <1>6, <2>1 DEF Sound, Phases, Completed, Phase
  <2>5. Shown(b)'
    BY <1>1, <1>2, <1>3, <1>6 DEF Sound, Shown, world, Terminal
  <2> QED BY <1>6, <2>2, <2>3, <2>4, <2>5 DEF Sound
<1> QED BY <1>5, <1>6

LEMMA LookSound ==
  ASSUME Inv, NEW b \in Batch, SeeStatus(b) \/ LoadRows(b), NEW a \in Batch
  PROVE  Sound(a)'
<1> DEFINE ScreenRow == [saw : {"nothing", "VALIDATED", "FAILED", "preview", "errors"},
                         rows : Preview]
<1>1. TypeOK /\ Sound(a) /\ UNCHANGED <<tables, file>>
  BY DEF Inv, SeeStatus, LoadRows
<1>2. screen \in [Batch -> ScreenRow]
  BY <1>1 DEF TypeOK
<1>3. CASE a # b
  <2>1. screen'[a] = screen[a]
    BY <1>2, <1>3 DEF SeeStatus, LoadRows
  <2> QED BY <1>1, <2>1, SoundKept DEF tables
<1>4. CASE a = b
  <2>1. Chunks(a)' /\ Previewed(a)' /\ Phases(a)'
    BY <1>1 DEF Sound, Chunks, Previewed, Phases, Completed, Status, tables
  <2>2. screen[b] \in ScreenRow
    BY <1>2
  <2>3. CASE SeeStatus(b)
    <3>1. screen'[b] = [screen[b] EXCEPT !.saw = Status(b)]
      BY <1>2, <2>3 DEF SeeStatus
    <3>2. screen'[b].saw = Status(b) /\ screen[b].saw = "nothing"
      BY <2>2, <2>3, <3>1 DEF SeeStatus
    <3>3. Status(b) \in {"VALIDATED", "FAILED"}
      BY <2>3 DEF SeeStatus
    <3>4. Shown(b)'
      BY <1>1, <1>4, <3>2, <3>3 DEF Sound, Shown, Status, tables, Terminal
    <3> QED BY <1>4, <2>1, <3>4 DEF Sound
  <2>4. CASE LoadRows(b)
    <3>1. /\ screen[b].saw \in {"VALIDATED", "FAILED"}
          /\ screen'[b] = [saw |-> IF screen[b].saw = "VALIDATED" THEN "preview" ELSE "errors",
                           rows |-> rows[b]]
      BY <1>2, <2>4 DEF LoadRows
    <3>2. Shown(b)'
      BY <1>1, <1>4, <3>1 DEF Sound, Shown, Status, tables, Terminal
    <3> QED BY <1>4, <2>1, <3>2 DEF Sound
  <2> QED BY <2>3, <2>4
<1> QED BY <1>3, <1>4

\* Steps that only write timers, the object store or the lateness of an upload.
LEMMA QuietUserSound ==
  ASSUME Inv, NEW b \in Batch, Upload(b) \/ UploadExpires(b), NEW a \in Batch
  PROVE  Sound(a)'
<1>1. TypeOK /\ Sound(a)
  BY DEF Inv
<1>2. batch'[a].status = batch[a].status /\ batch'[a].confirmed = batch[a].confirmed
  <2>1. CASE Upload(b)
    BY <2>1 DEF Upload, tables
  <2>2. CASE UploadExpires(b)
    <3>1. batch[b] \in BatchRow
      BY <1>1, Types
    <3>2. batch'[a] = IF a = b THEN [batch[b] EXCEPT !.late = TRUE] ELSE batch[a]
      BY <1>1, <2>2, Types DEF UploadExpires
    <3> QED BY <3>1, <3>2 DEF BatchRow
  <2> QED BY <2>1, <2>2
<1>3. UNCHANGED <<chunk, rows, public, file, screen>>
  BY DEF Upload, UploadExpires, tables, world
<1> QED BY <1>1, <1>2, <1>3, SoundKept

LEMMA TimerSound ==
  ASSUME Inv, TimerEnds \/ LeaseOverrun, NEW a \in Batch
  PROVE  Sound(a)'
<1>1. TypeOK /\ Sound(a) /\ UNCHANGED <<rows, snapshot, master, public, world, worker>>
  BY DEF Inv, TimerEnds, LeaseOverrun
<1>2. \/ UNCHANGED batch /\ \E c \in ChunkId : chunk' = [chunk EXCEPT ![c].timer = "ended"]
      \/ UNCHANGED chunk /\ \E b \in Batch : batch' = [batch EXCEPT ![b].timer = "ended"]
  BY DEF TimerEnds, LeaseOverrun
<1>3. batch'[a].status = batch[a].status /\ batch'[a].confirmed = batch[a].confirmed
  BY <1>1, <1>2, Types DEF BatchRow
<1>4. ASSUME NEW p \in Phase, NEW n \in Chunk
      PROVE  chunk'[<<a, p, n>>].status = chunk[<<a, p, n>>].status
  <2>1. <<a, p, n>> \in ChunkId
    BY DEF ChunkId
  <2> QED BY <1>1, <1>2, <2>1, Types DEF ChunkRow
<1> QED BY <1>1, <1>3, <1>4, SoundKept DEF world

-----------------------------------------------------------------------------
(* What the workers do to the tables.                                      *)

LEMMA ConfirmUploadSound ==
  ASSUME Inv, NEW w \in Worker, NEW t \in worker[w].todo, ConfirmUpload(w, t), NEW a \in Batch
  PROVE  Sound(a)'
<1>1. TypeOK /\ Sound(a) /\ UNCHANGED <<rows, public, world>>
  BY DEF Inv, ConfirmUpload
<1>2. t.b \in Batch
  BY <1>1, Types DEF WorkerState, Listed
<1>3. CASE UNCHANGED <<batch, chunk>>
  BY <1>1, <1>3, SoundKept DEF world
<1>4. CASE ~UNCHANGED <<batch, chunk>>
  <2>1. /\ Status(t.b) = "AWAITING_UPLOAD" /\ file[t.b] # Unreadable
        /\ batch' = [batch EXCEPT ![t.b].status = "UPLOADED"]
        /\ chunk' = [c \in ChunkId |->
              IF c[1] = t.b /\ c[2] = "PARSE" THEN [chunk[c] EXCEPT !.status = "PENDING"]
              ELSE chunk[c]]
    BY <1>4 DEF ConfirmUpload, Readable
  <2>2. /\ Status(a)' = IF a = t.b THEN "UPLOADED" ELSE Status(a)
        /\ batch'[a].status = IF a = t.b THEN "UPLOADED" ELSE batch[a].status
        /\ batch'[a].confirmed = batch[a].confirmed
    BY <1>1, <1>2, <2>1, StatusFields
  <2>3. ASSUME NEW p \in Phase, NEW n \in Chunk
        PROVE  chunk'[<<a, p, n>>].status =
                 IF a = t.b /\ p = "PARSE" THEN "PENDING" ELSE chunk[<<a, p, n>>].status
    <3> DEFINE c == <<a, p, n>>
    <3>1. c \in ChunkId /\ c[1] = a /\ c[2] = p
      BY DEF ChunkId
    <3>2. chunk[c] \in ChunkRow
      BY <1>1, <3>1, Types
    <3> HIDE DEF c
    <3>3. chunk'[c] = IF a = t.b /\ p = "PARSE" THEN [chunk[c] EXCEPT !.status = "PENDING"]
                      ELSE chunk[c]
      BY <2>1, <3>1
    <3>4. [chunk[c] EXCEPT !.status = "PENDING"].status = "PENDING"
      BY <3>2 DEF ChunkRow
    <3>5. chunk'[c].status = IF a = t.b /\ p = "PARSE" THEN "PENDING" ELSE chunk[c].status
      BY <3>3, <3>4
    <3> QED BY <3>5 DEF c
  <2>4. CASE a # t.b
    BY <1>1, <2>2, <2>3, <2>4, SoundKept DEF world
  <2>5. CASE a = t.b
    <3>1. \A p \in Phase, n \in Chunk : chunk[<<a, p, n>>].status = "NONE"
      BY <1>1, <2>1, <2>5 DEF Sound, Chunks
    <3>2. Chunks(a)'
      BY <1>1, <2>1, <2>2, <2>3, <2>5, <3>1 DEF Chunks, Unfinished, world
    <3>3. Previewed(a)'
      BY <1>1 DEF Sound, Previewed, world
    <3>4. Phases(a)'
      BY <2>2, <2>3, <2>5, <3>1 DEF Phases, Phase
    <3>5. Shown(a)'
      BY <1>1, <2>1, <2>2, <2>5 DEF Sound, Shown, world, Terminal
    <3> QED BY <3>2, <3>3, <3>4, <3>5 DEF Sound
  <2> QED BY <2>4, <2>5
<1> QED BY <1>3, <1>4

LEMMA FailUploadSound ==
  ASSUME Inv, NEW w \in Worker, NEW t \in worker[w].todo, FailUpload(w, t), NEW a \in Batch
  PROVE  Sound(a)'
<1>1. TypeOK /\ Sound(a) /\ UNCHANGED <<chunk, rows, public, world>>
  BY DEF Inv, FailUpload
<1>2. t.b \in Batch
  BY <1>1, Types DEF WorkerState, Listed
<1>3. CASE Status(t.b) # "AWAITING_UPLOAD"
  BY <1>1, <1>3, SoundKept DEF FailUpload, world
<1>4. CASE Status(t.b) = "AWAITING_UPLOAD"
  <2> DEFINE b == t.b
  <2>1. batch' = [batch EXCEPT ![b].status = "FAILED"] /\ Sound(b)
    BY <1>2, <1>4 DEF FailUpload, Inv
  <2>2. Status(b)' = "FAILED" /\ batch'[b].confirmed = batch[b].confirmed
    BY <1>1, <1>2, <2>1, StatusFields
  <2>3. \A p \in Phase, n \in Chunk : chunk[<<b, p, n>>].status = "NONE"
    BY <1>4, <2>1 DEF Sound, Chunks
  <2>4. Chunks(b)'
    BY <1>1, <2>3 DEF Chunks, Unfinished
  <2>5. Phases(b)'
    BY <1>1, <2>2, <2>3 DEF Phases, Phase
  <2>6. Shown(b)'
    BY <1>1, <1>4, <2>1, <2>2 DEF Sound, Shown, Terminal, world
  <2> QED BY <1>1, <1>2, <2>1, <2>4, <2>5, <2>6, StatusChange DEF Inv
<1> QED BY <1>3, <1>4

\* One chunk of one batch takes another status.
LEMMA ChunkStatus1 ==
  ASSUME TypeOK, NEW c \in ChunkId, NEW x \in ChunkRow, chunk' = [chunk EXCEPT ![c] = x],
         NEW d \in ChunkId
  PROVE  chunk'[d].status = IF d = c THEN x.status ELSE chunk[d].status
  BY Types

LEMMA ClaimChunkSound ==
  ASSUME Inv, NEW w \in Worker, NEW t \in worker[w].todo, ClaimChunk(w, t), NEW a \in Batch
  PROVE  Sound(a)'
<1>1. TypeOK /\ Sound(a) /\ UNCHANGED <<rows, public, world>>
  BY DEF Inv, ClaimChunk
<1>2. t.b \in Batch
  BY <1>1, Types DEF WorkerState, Listed
<1> DEFINE phase == PhaseAt(w, t)
<1>3. PICK c \in ToClaim(t.b, phase) :
        chunk' = [chunk EXCEPT ![c] = [status |-> "LEASED", gen |-> chunk[c].gen + 1,
                                       attempts |-> chunk[c].attempts + 1, timer |-> "running"]]
  BY DEF ClaimChunk
<1>4. phase \in Phase
  <2>1. phase # None
    BY DEF ClaimChunk
  <2>2. worker[w].phase \in Phase
    BY <1>1, Types DEF WorkerState
  <2> QED BY <2>1, <2>2 DEF PhaseAt, Phase
<1> HIDE DEF phase
<1>5. PICK m \in Chunk : c = <<t.b, phase, m>>
  BY <1>3 DEF ToClaim
<1>6. Status(t.b) \in ClaimableIn(phase) /\ chunk[c].status \in Unfinished
  BY <1>3 DEF ToClaim, Claimable, Unfinished
<1>7. c \in ChunkId
  BY <1>2, <1>4, <1>5 DEF ChunkId
<1> DEFINE s == IF phase = "PARSE" THEN "PARSING" ELSE "VALIDATING"
<1>8. /\ Status(a)' = IF a = t.b THEN s ELSE Status(a)
      /\ batch'[a].status = IF a = t.b THEN s ELSE batch[a].status
      /\ batch'[a].confirmed = batch[a].confirmed
  <2>1. batch' = [batch EXCEPT ![t.b].status = s]
    BY DEF ClaimChunk, phase
  <2> HIDE DEF s
  <2> QED BY <1>1, <1>2, <2>1, StatusFields
<1>9. s \in {"PARSING", "VALIDATING"}
  OBVIOUS
<1> HIDE DEF s
<1>10. ASSUME NEW p \in Phase, NEW n \in Chunk
       PROVE  chunk'[<<a, p, n>>].status =
                IF <<a, p, n>> = c THEN "LEASED" ELSE chunk[<<a, p, n>>].status
  <2>1. <<a, p, n>> \in ChunkId
    BY DEF ChunkId
  <2> QED BY <1>1, <1>3, <2>1, Types
<1>11. CASE a # t.b
  <2>1. \A p \in Phase, n \in Chunk : chunk'[<<a, p, n>>].status = chunk[<<a, p, n>>].status
    BY <1>5, <1>10, <1>11
  <2> QED BY <1>1, <1>8, <1>11, <2>1, SoundKept DEF world
<1>12. CASE a = t.b
  <2>1. Status(a) \in {"UPLOADED", "PARSING", "VALIDATING"}
    BY <1>6, <1>12 DEF ClaimableIn
  <2>2. \A p \in Phase, n \in Chunk :
          /\ chunk'[<<a, p, n>>].status = "COMPLETED" <=> chunk[<<a, p, n>>].status = "COMPLETED"
          /\ chunk'[<<a, p, n>>].status = "NONE" <=> chunk[<<a, p, n>>].status = "NONE"
    BY <1>6, <1>10 DEF Unfinished
  <2>3. file[a] # Unreadable
    BY <1>1, <1>4, <1>5, <1>6, <1>12 DEF Sound, Chunks, Unfinished
  <2>4. Chunks(a)'
    BY <1>1, <1>8, <1>9, <1>12, <2>2, <2>3 DEF Sound, Chunks, world
  <2>5. Previewed(a)'
    BY <1>1 DEF Sound, Previewed, world
  <2>6. Phases(a)'
    BY <1>1, <1>8, <1>9, <1>12, <2>2 DEF Sound, Phases, Completed, Phase
  <2>7. Shown(a)'
    BY <1>1, <1>8, <1>9, <1>12, <2>1 DEF Sound, Shown, world, Terminal
  <2> QED BY <2>4, <2>5, <2>6, <2>7 DEF Sound
<1> QED BY <1>11, <1>12

\* Who holds a lease is at a chunk of an open batch.
LEMMA LeaseHolder ==
  ASSUME Inv, NEW w \in Worker, NEW t \in worker[w].todo, IsAt(w, t),
         worker[w].pc \in {"work", "complete", "fail"}, HoldsLease(w)
  PROVE  /\ t.b \in Batch
         /\ worker[w].c = <<t.b, worker[w].c[2], worker[w].c[3]>>
         /\ worker[w].c[2] \in Phase /\ worker[w].c[3] \in Chunk
         /\ worker[w].c \in ChunkId /\ chunk[worker[w].c].status = "LEASED"
         /\ Status(t.b) \in {"UPLOADED", "PARSING", "VALIDATING", "FAILED"}
         /\ file[t.b] # Unreadable
<1>1. TypeOK /\ Working(w)
  BY DEF Inv
<1>2. t.b \in Batch
  BY <1>1, Types DEF WorkerState, Listed
<1>3. worker[w].c \in ChunkId /\ worker[w].c[1] = t.b
  BY <1>1 DEF Working
<1>4. /\ worker[w].c = <<t.b, worker[w].c[2], worker[w].c[3]>>
      /\ worker[w].c[2] \in Phase /\ worker[w].c[3] \in Chunk
  BY <1>3 DEF ChunkId
<1>5. chunk[worker[w].c].status = "LEASED"
  BY DEF HoldsLease
<1>6. Chunks(t.b)
  BY <1>2 DEF Inv, Sound
<1>7. /\ Status(t.b) \in {"UPLOADED", "PARSING", "VALIDATING", "FAILED"}
      /\ file[t.b] # Unreadable
  BY <1>4, <1>5, <1>6 DEF Chunks, Unfinished
<1> QED BY <1>2, <1>3, <1>4, <1>5, <1>7

LEMMA PreviewRowType ==
  ASSUME NEW b \in Batch, NEW n \in Chunk, snapshot[b] \in [Chunk -> MasterValue]
  PROVE  /\ PreviewRow(b, n) \in Row
         /\ file[b][n] = "invalid" => PreviewRow(b, n).action = "ERROR"
<1> DEFINE new == file[b][n]
           old == snapshot[b][n]
<1>1. old \in MasterValue /\ None \in MasterValue
  BY DEF MasterValue
<1>2. PreviewRow(b, n) \in
        {[action |-> "ERROR", old |-> None], [action |-> "INSERT", old |-> None],
         [action |-> "UPDATE", old |-> old], [action |-> "SKIP", old |-> old]}
  BY DEF PreviewRow
<1>3. new = "invalid" => PreviewRow(b, n) = [action |-> "ERROR", old |-> None]
  BY DEF PreviewRow
<1> HIDE DEF new, old
<1>4. PreviewRow(b, n) \in Row
  BY <1>1, <1>2 DEF Row
<1> QED BY <1>3, <1>4 DEF new

\* Is every other chunk of the phase completed?
LastBut(b, p, m) == \A n \in Chunk : n # m => chunk[<<b, p, n>>].status = "COMPLETED"

\* The status of the batch once chunk m of a phase is completed.
StatusAfter(b, p, m) ==
  IF p = "PARSE" /\ LastBut(b, p, m) THEN "VALIDATING"
  ELSE IF ~(p = "VALIDATE" /\ LastBut(b, p, m)) THEN Status(b)
  ELSE IF \E n \in Chunk : rows'[b][n].action = "ERROR" THEN "FAILED"
  ELSE "VALIDATED"

\* The status of every chunk once chunk m of a phase is completed.
ChunksAfter(b, p, m) ==
  \A a \in Batch, q \in Phase, n \in Chunk :
    chunk'[<<a, q, n>>].status =
      IF a = b /\ p = "PARSE" /\ LastBut(b, p, m) /\ q = "VALIDATE" THEN "PENDING"
      ELSE IF <<a, q, n>> = <<b, p, m>> THEN "COMPLETED"
      ELSE chunk[<<a, q, n>>].status

\* What completing a chunk writes, table by table.
Completes(b, p, m) ==
  /\ PreviewRow(b, m) \in Row
  /\ rows' \in [Batch -> Preview]
  /\ \A a \in Batch, n \in Chunk :
       rows'[a][n] = IF a = b /\ n = m THEN PreviewRow(b, m) ELSE rows[a][n]
  /\ \A a \in Batch : a # b => rows'[a] = rows[a]
  /\ chunk' \in [ChunkId -> ChunkRow]
  /\ ChunksAfter(b, p, m)
  /\ \E s \in BatchStatus :
       /\ batch' = [batch EXCEPT ![b].status = s]
       /\ s = StatusAfter(b, p, m)

LEMMA CompletionWrites ==
  ASSUME Inv, NEW w \in Worker, NEW t \in worker[w].todo, IsAt(w, t),
         worker[w].pc = "complete", CompleteTx(w, t),
         NEW b \in Batch, b = t.b, NEW p \in Phase, NEW m \in Chunk,
         worker[w].c = <<b, p, m>>
  PROVE  Completes(b, p, m)
<1> DEFINE c == worker[w].c
           row == [rows EXCEPT ![b][m] = PreviewRow(b, m)]
           done == [chunk EXCEPT ![c].status = "COMPLETED", ![c].timer = "off"]
           last == LastOfPhase(done, c)
           over == LastBut(b, p, m)
<1>1. TypeOK /\ Working(w)
  BY DEF Inv
<1>2. PreviewRow(b, m) \in Row
  BY <1>1, PreviewRowType DEF Working
<1>3. c = <<b, p, m>> /\ c \in ChunkId /\ c[1] = b /\ c[2] = p /\ c[3] = m
  BY DEF ChunkId
<1>4. /\ rows' = row
      /\ chunk' = [d \in ChunkId |-> IF c[2] = "PARSE" /\ last /\ d[1] = b /\ d[2] = "VALIDATE"
                                       THEN [NewChunk EXCEPT !.status = "PENDING"] ELSE done[d]]
      /\ batch' = [batch EXCEPT ![b].status =
            IF c[2] = "PARSE" /\ last THEN "VALIDATING"
            ELSE IF ~(c[2] = "VALIDATE" /\ last) THEN @
            ELSE IF \E n \in Chunk : row[b][n].action = "ERROR" THEN "FAILED"
            ELSE "VALIDATED"]
  BY <1>3 DEF CompleteTx
<1>5. rows \in [Batch -> Preview]
  BY <1>1 DEF TypeOK
<1>6. /\ row \in [Batch -> Preview]
      /\ \A a \in Batch, n \in Chunk :
           row[a][n] = IF a = b /\ n = m THEN PreviewRow(b, m) ELSE rows[a][n]
      /\ \A a \in Batch : a # b => row[a] = rows[a]
  BY <1>2, <1>5 DEF Preview
<1>7. /\ done \in [ChunkId -> ChunkRow]
      /\ \A d \in ChunkId : done[d].status = IF d = c THEN "COMPLETED" ELSE chunk[d].status
  <2> DEFINE x == [chunk[c] EXCEPT !.status = "COMPLETED", !.timer = "off"]
  <2>1. chunk[c] \in ChunkRow
    BY <1>1, <1>3, Types
  <2>2. x \in ChunkRow /\ x.status = "COMPLETED"
    BY <2>1 DEF ChunkRow, ChunkStatus, Timers
  <2>3. done = [chunk EXCEPT ![c] = x]
    BY <1>1, <1>3, <2>1, Types DEF ChunkRow
  <2> HIDE DEF x, c, done
  <2> QED BY <1>1, <1>3, <2>2, <2>3, Types
<1> HIDE DEF c, row, done
<1>8. last = over
  <2>1. last <=> \A n \in Chunk : done[<<b, p, n>>].status = "COMPLETED"
    BY <1>3 DEF LastOfPhase, Completed
  <2>2. \A n \in Chunk : <<b, p, n>> \in ChunkId
    BY DEF ChunkId
  <2>3. \A n \in Chunk : done[<<b, p, n>>].status =
                           IF n = m THEN "COMPLETED" ELSE chunk[<<b, p, n>>].status
    BY <1>3, <1>7, <2>2
  <2>4. last \in BOOLEAN /\ over \in BOOLEAN
    BY DEF LastOfPhase, Completed, LastBut
  <2> QED BY <2>1, <2>3, <2>4 DEF LastBut
<1> HIDE DEF last
<1>9. NewChunk \in ChunkRow /\ [NewChunk EXCEPT !.status = "PENDING"] \in ChunkRow
      /\ [NewChunk EXCEPT !.status = "PENDING"].status = "PENDING"
  BY DEF NewChunk, ChunkRow, ChunkStatus, Timers
<1>10. chunk' \in [ChunkId -> ChunkRow]
  <2> DEFINE fresh == [NewChunk EXCEPT !.status = "PENDING"]
  <2>1. fresh \in ChunkRow
    BY <1>9
  <2> HIDE DEF fresh
  <2>2. chunk' = [d \in ChunkId |-> IF c[2] = "PARSE" /\ last /\ d[1] = b /\ d[2] = "VALIDATE"
                                      THEN fresh ELSE done[d]]
    BY <1>4 DEF fresh
  <2> QED BY <1>7, <2>1, <2>2
<1>11. ASSUME NEW a \in Batch, NEW q \in Phase, NEW n \in Chunk
       PROVE  chunk'[<<a, q, n>>].status =
                IF a = b /\ p = "PARSE" /\ over /\ q = "VALIDATE" THEN "PENDING"
                ELSE IF <<a, q, n>> = <<b, p, m>> THEN "COMPLETED"
                ELSE chunk[<<a, q, n>>].status
  <2> DEFINE d == <<a, q, n>>
  <2>1. d \in ChunkId /\ d[1] = a /\ d[2] = q
    BY DEF ChunkId
  <2> DEFINE fresh == [NewChunk EXCEPT !.status = "PENDING"]
  <2>2. fresh.status = "PENDING"
    BY <1>9
  <2> HIDE DEF fresh, d
  <2>3. chunk'[d] = IF p = "PARSE" /\ over /\ a = b /\ q = "VALIDATE" THEN fresh ELSE done[d]
    BY <1>3, <1>4, <1>8, <2>1 DEF fresh
  <2>4. done[d].status = IF d = c THEN "COMPLETED" ELSE chunk[d].status
    BY <1>7, <2>1
  <2> QED BY <1>3, <2>2, <2>3, <2>4 DEF d
<1>12. StatusAfter(b, p, m) \in BatchStatus /\ batch' = [batch EXCEPT ![b].status = StatusAfter(b, p, m)]
  <2> DEFINE x == IF c[2] = "PARSE" /\ last THEN "VALIDATING"
                  ELSE IF ~(c[2] = "VALIDATE" /\ last) THEN batch[b].status
                  ELSE IF \E n \in Chunk : row[b][n].action = "ERROR" THEN "FAILED"
                  ELSE "VALIDATED"
  <2>1. Status(b) \in BatchStatus
    BY <1>1, Types DEF Status, BatchRow
  <2>2. StatusAfter(b, p, m) \in BatchStatus
    BY <2>1 DEF BatchStatus, StatusAfter
  <2>3. batch' = [batch EXCEPT ![b].status = x]
    BY <1>4
  <2>4. x = StatusAfter(b, p, m)
    BY <1>3, <1>4, <1>8 DEF Status, StatusAfter
  <2> HIDE DEF x
  <2> QED BY <2>2, <2>3, <2>4
<1>13. \E s \in BatchStatus : batch' = [batch EXCEPT ![b].status = s] /\ s = StatusAfter(b, p, m)
  BY <1>12
<1>14. ChunksAfter(b, p, m)
  BY <1>11 DEF ChunksAfter
<1> QED BY <1>2, <1>4, <1>6, <1>10, <1>13, <1>14 DEF Completes

LEMMA CompletionSound ==
  ASSUME Inv, NEW w \in Worker, NEW t \in worker[w].todo, IsAt(w, t),
         worker[w].pc = "complete", CompleteTx(w, t), UNCHANGED world, NEW a \in Batch
  PROVE  Sound(a)'
<1>1. TypeOK /\ Sound(a) /\ UNCHANGED public
  <2>1. TypeOK /\ Sound(a)
    BY Zenon DEF Inv
  <2> QED BY <2>1 DEF CompleteTx
<1>2. HoldsLease(w) /\ Status(t.b) \notin Terminal
  BY DEF CompleteTx
<1>3. PICK b \in Batch, p \in Phase, m \in Chunk : b = t.b /\ worker[w].c = <<b, p, m>>
  BY <1>2, LeaseHolder
<1>4. chunk[<<b, p, m>>].status = "LEASED" /\ file[b] # Unreadable
      /\ Status(b) \in {"UPLOADED", "PARSING", "VALIDATING"}
  BY <1>2, <1>3, LeaseHolder DEF Terminal
<1> DEFINE over == LastBut(b, p, m)
<1>5. /\ PreviewRow(b, m) \in Row
      /\ \A d \in Batch, n \in Chunk :
           rows'[d][n] = IF d = b /\ n = m THEN PreviewRow(b, m) ELSE rows[d][n]
      /\ \A d \in Batch : d # b => rows'[d] = rows[d]
      /\ \A d \in Batch, q \in Phase, n \in Chunk :
              chunk'[<<d, q, n>>].status =
                IF d = b /\ p = "PARSE" /\ over /\ q = "VALIDATE" THEN "PENDING"
                ELSE IF <<d, q, n>> = <<b, p, m>> THEN "COMPLETED"
                ELSE chunk[<<d, q, n>>].status
  <2>1. Completes(b, p, m)
    BY <1>3, CompletionWrites
  <2>2. /\ PreviewRow(b, m) \in Row
        /\ \A d \in Batch, n \in Chunk :
             rows'[d][n] = IF d = b /\ n = m THEN PreviewRow(b, m) ELSE rows[d][n]
        /\ \A d \in Batch : d # b => rows'[d] = rows[d]
        /\ ChunksAfter(b, p, m)
    BY <2>1 DEF Completes
  <2>3. over = LastBut(b, p, m)
    OBVIOUS
  <2> HIDE DEF over
  <2>4. ASSUME NEW d \in Batch, NEW q \in Phase, NEW n \in Chunk
        PROVE  chunk'[<<d, q, n>>].status =
                 IF d = b /\ p = "PARSE" /\ over /\ q = "VALIDATE" THEN "PENDING"
                 ELSE IF <<d, q, n>> = <<b, p, m>> THEN "COMPLETED"
                 ELSE chunk[<<d, q, n>>].status
    <3>1. ChunksAfter(b, p, m)
      BY <2>2
    <3> QED BY <2>3, <3>1, SMTT(30) DEF ChunksAfter
  <2> QED BY <2>2, <2>4
<1>6. PICK s \in BatchStatus :
        /\ batch' = [batch EXCEPT ![b].status = s]
        /\ s = IF p = "PARSE" /\ over THEN "VALIDATING"
               ELSE IF ~(p = "VALIDATE" /\ over) THEN Status(b)
               ELSE IF \E n \in Chunk : rows'[b][n].action = "ERROR" THEN "FAILED"
               ELSE "VALIDATED"
  <2>1. Completes(b, p, m)
    BY <1>3, CompletionWrites
  <2>2. \E s \in BatchStatus : batch' = [batch EXCEPT ![b].status = s] /\ s = StatusAfter(b, p, m)
    BY <2>1 DEF Completes
  <2> QED BY <2>2 DEF StatusAfter
<1>7. /\ Status(a)' = IF a = b THEN s ELSE Status(a)
      /\ batch'[a].status = IF a = b THEN s ELSE batch[a].status
      /\ batch'[a].confirmed = batch[a].confirmed
  <2>1. batch' = [batch EXCEPT ![b].status = s]
    BY <1>6
  <2> QED BY <1>1, <2>1, StatusFields
<1>8. CASE a # b
  <2>1. \A q \in Phase, n \in Chunk : chunk'[<<a, q, n>>].status = chunk[<<a, q, n>>].status
    BY <1>5, <1>8
  <2> QED BY <1>1, <1>5, <1>7, <1>8, <2>1, SoundKept DEF world
<1>9. CASE a = b
  <2>1. s \in {"UPLOADED", "PARSING", "VALIDATING", "VALIDATED", "FAILED"}
    BY <1>4, <1>6
  <2>2. rows'[b][m] = PreviewRow(b, m) /\ rows'[b][m] # None
    BY <1>5, NoneIsNoRow
  <2>3. /\ \A n \in Chunk : n # m => rows'[b][n] = rows[b][n]
        /\ \A n \in Chunk : rows[b][n] # None => rows'[b][n] # None
    BY <1>5, <2>2
  <2>4. \A n \in Chunk : chunk[<<b, "VALIDATE", n>>].status # "NONE" => p = "VALIDATE"
    BY <1>1, <1>4, <1>9 DEF Sound, Phases, Completed, Phase
  <2>5. over <=> \A n \in Chunk : n # m => chunk[<<b, p, n>>].status = "COMPLETED"
    BY DEF LastBut
  <2>6. \A q \in Phase, n \in Chunk :
          chunk'[<<b, q, n>>].status =
                IF p = "PARSE" /\ over /\ q = "VALIDATE" THEN "PENDING"
                ELSE IF q = p /\ n = m THEN "COMPLETED"
                ELSE chunk[<<b, q, n>>].status
    BY <1>5
  <2>7. Chunks(b)'
    <3> SUFFICES ASSUME NEW q \in Phase, NEW n \in Chunk
                 PROVE  LET u == chunk'[<<b, q, n>>].status
                        IN  /\ u # "NONE" => s \notin {"NONE", "AWAITING_UPLOAD"}
                                             /\ file[b] # Unreadable
                            /\ u \in Unfinished => s \in {"UPLOADED", "PARSING", "VALIDATING", "FAILED"}
                            /\ u = "COMPLETED" => rows'[b][n] # None
      BY <1>7, <1>9 DEF Chunks, world
    <3>1. s = "VALIDATED" => p = "VALIDATE" /\ over
      BY <1>4, <1>6
    <3>2. s = "VALIDATED" => chunk'[<<b, q, n>>].status = "COMPLETED"
      <4>1. SUFFICES ASSUME p = "VALIDATE", over
                     PROVE  chunk'[<<b, q, n>>].status = "COMPLETED"
        BY <3>1
      <4>2. Completed(chunk, b, "PARSE")
        BY <1>1, <1>4, <1>9, <4>1 DEF Sound, Phases
      <4> QED BY <2>5, <2>6, <4>1, <4>2 DEF Completed, Phase
    <3>3. chunk'[<<b, q, n>>].status = "COMPLETED" => rows'[b][n] # None
      <4>1. chunk[<<b, q, n>>].status = "COMPLETED" => rows[b][n] # None
        BY <1>1, <1>9 DEF Sound, Chunks
      <4> QED BY <2>2, <2>3, <2>6, <4>1
    <3> QED BY <1>4, <2>1, <3>2, <3>3 DEF Unfinished
  <2>8. Previewed(b)'
    <3>1. file[b][m] = "invalid" => PreviewRow(b, m).action = "ERROR"
      <4>1. Working(w)
        BY DEF Inv
      <4>2. snapshot[b] \in [Chunk -> MasterValue]
        BY <1>3, <4>1 DEF Working
      <4> QED BY <4>2, PreviewRowType
    <3> QED BY <1>1, <1>4, <1>9, <2>2, <2>3, <3>1 DEF Sound, Previewed, world
  <2>9. Phases(b)'
    <3>1. ASSUME p = "PARSE", over PROVE Completed(chunk', b, "PARSE")
      BY <2>5, <2>6, <3>1 DEF Completed, Phase
    <3>2. ASSUME Completed(chunk, b, "PARSE") PROVE Completed(chunk', b, "PARSE")
      BY <2>6, <3>2 DEF Completed, Phase
    <3>3. ASSUME NEW n \in Chunk, chunk'[<<b, "VALIDATE", n>>].status # "NONE"
          PROVE  Completed(chunk', b, "PARSE")
      <4>1. CASE p = "PARSE" /\ over
        BY <3>1, <4>1
      <4>2. CASE p = "PARSE" /\ ~over
        BY <2>4, <2>6, <3>3, <4>2 DEF Phase
      <4>3. CASE p = "VALIDATE"
        <5>1. Completed(chunk, b, "PARSE")
          BY <1>1, <1>4, <1>9, <4>3 DEF Sound, Phases
        <5> QED BY <3>2, <5>1
      <4> QED BY <4>1, <4>2, <4>3 DEF Phase
    <3>4. ASSUME s \in {"VALIDATED", "APPLYING", "APPLIED"}
          PROVE  /\ Completed(chunk', b, "PARSE") /\ Completed(chunk', b, "VALIDATE")
                 /\ \A n \in Chunk : rows'[b][n] # None /\ rows'[b][n].action # "ERROR"
      <4>1. p = "VALIDATE" /\ over /\ ~\E n \in Chunk : rows'[b][n].action = "ERROR"
        BY <1>4, <1>6, <3>4
      <4>2. Completed(chunk, b, "PARSE")
        BY <1>1, <1>4, <1>9, <4>1 DEF Sound, Phases
      <4>3. Completed(chunk', b, "VALIDATE")
        BY <2>5, <2>6, <4>1 DEF Completed, Phase
      <4>4. \A n \in Chunk : rows'[b][n] # None
        BY <1>1, <1>9, <2>2, <2>3, <2>5, <4>1 DEF Sound, Chunks, Phase
      <4> QED BY <3>2, <4>1, <4>2, <4>3, <4>4
    <3> QED BY <1>7, <1>9, <3>3, <3>4 DEF Phases, Completed
  <2>10. Shown(b)'
    BY <1>1, <1>4, <1>7, <1>9, <2>1 DEF Sound, Shown, world, Terminal
  <2> QED BY <1>9, <2>7, <2>8, <2>9, <2>10 DEF Sound
<1> QED BY <1>8, <1>9

LEMMA FailChunkSound ==
  ASSUME Inv, NEW w \in Worker, NEW t \in worker[w].todo, FailChunk(w, t), NEW a \in Batch
  PROVE  Sound(a)'
<1>1. /\ TypeOK /\ Sound(a) /\ UNCHANGED <<rows, public, world>>
      /\ IsAt(w, t) /\ worker[w].pc = "fail"
  BY DEF Inv, FailChunk
<1>2. CASE ~HoldsLease(w)
  BY <1>1, <1>2, SoundKept DEF FailChunk, world
<1>3. CASE HoldsLease(w)
  <2>1. PICK b \in Batch, p \in Phase, m \in Chunk : b = t.b /\ worker[w].c = <<b, p, m>>
    BY <1>1, <1>3, LeaseHolder
  <2> DEFINE c == <<b, p, m>>
             again == chunk[c].attempts < MaxAttempts
             x == [chunk[c] EXCEPT !.status = IF again THEN "RETRY_WAIT" ELSE "FAILED",
                                   !.timer = IF again THEN "running" ELSE "off"]
  <2>2. /\ Status(b) \in {"UPLOADED", "PARSING", "VALIDATING", "FAILED"}
        /\ file[b] # Unreadable /\ chunk[c].status = "LEASED"
    BY <1>1, <1>3, <2>1, LeaseHolder
  <2>3. c \in ChunkId
    BY DEF ChunkId
  <2>4. chunk[c] \in ChunkRow
    BY <1>1, <2>3, Types
  <2>5. x.status = (IF again THEN "RETRY_WAIT" ELSE "FAILED")
    BY <2>4 DEF ChunkRow
  <2>6. chunk' = [chunk EXCEPT ![c] = x]
    BY <1>1, <1>3, <2>1, <2>3, <2>4, Types DEF FailChunk, ChunkRow
  <2>7. batch' = IF again THEN batch ELSE [batch EXCEPT ![b].status = "FAILED"]
    BY <1>3, <2>1 DEF FailChunk
  <2> HIDE DEF x, again, c
  <2>8. ASSUME NEW q \in Phase, NEW n \in Chunk
        PROVE  chunk'[<<a, q, n>>].status =
                 IF <<a, q, n>> = c THEN IF again THEN "RETRY_WAIT" ELSE "FAILED"
                 ELSE chunk[<<a, q, n>>].status
    <3>1. <<a, q, n>> \in ChunkId
      BY DEF ChunkId
    <3> QED BY <1>1, <2>3, <2>5, <2>6, <3>1, Types
  <2>9. /\ Status(a)' = IF a = b /\ ~again THEN "FAILED" ELSE Status(a)
        /\ batch'[a].status = IF a = b /\ ~again THEN "FAILED" ELSE batch[a].status
        /\ batch'[a].confirmed = batch[a].confirmed
    <3>1. CASE again
      BY <2>7, <3>1 DEF Status
    <3>2. CASE ~again
      <4>1. batch' = [batch EXCEPT ![b].status = "FAILED"]
        BY <2>7, <3>2
      <4>2. /\ Status(a)' = IF a = b THEN "FAILED" ELSE Status(a)
            /\ batch'[a].status = IF a = b THEN "FAILED" ELSE batch[a].status
            /\ batch'[a].confirmed = batch[a].confirmed
        BY <1>1, <4>1, StatusFields
      <4> QED BY <3>2, <4>2
    <3> QED BY <3>1, <3>2
  <2>10. CASE a # b
    <3>1. \A q \in Phase, n \in Chunk : chunk'[<<a, q, n>>].status = chunk[<<a, q, n>>].status
      BY <2>8, <2>10 DEF c
    <3> QED BY <1>1, <2>9, <2>10, <3>1, SoundKept DEF world
  <2>11. CASE a = b
    <3>1. \A q \in Phase, n \in Chunk :
            /\ chunk'[<<a, q, n>>].status = "COMPLETED" <=> chunk[<<a, q, n>>].status = "COMPLETED"
            /\ chunk'[<<a, q, n>>].status = "NONE" <=> chunk[<<a, q, n>>].status = "NONE"
      BY <2>2, <2>8
    <3>2. Status(a)' \in {"UPLOADED", "PARSING", "VALIDATING", "FAILED"}
      BY <2>2, <2>9, <2>11
    <3>3. Chunks(a)'
      BY <1>1, <2>2, <2>11, <3>1, <3>2 DEF Sound, Chunks, world
    <3>4. Previewed(a)'
      BY <1>1 DEF Sound, Previewed, world
    <3>5. Phases(a)'
      BY <1>1, <3>1, <3>2 DEF Sound, Phases, Completed, Phase
    <3>6. Shown(a)'
      BY <1>1, <2>2, <2>9, <2>11 DEF Sound, Shown, world, Terminal
    <3> QED BY <3>3, <3>4, <3>5, <3>6 DEF Sound
  <2> QED BY <2>10, <2>11
<1> QED BY <1>2, <1>3

\* A batch that only its lease of itself changes.
LEMMA ApplyStatusFields ==
  ASSUME TypeOK, NEW b \in Batch, NEW x \in BatchRow, batch' = [batch EXCEPT ![b] = x],
         x.confirmed = batch[b].confirmed, NEW a \in Batch
  PROVE  /\ Status(a)' = IF a = b THEN x.status ELSE Status(a)
         /\ batch'[a].status = IF a = b THEN x.status ELSE batch[a].status
         /\ batch'[a].confirmed = batch[a].confirmed
  BY Types DEF Status

\* What claiming a batch, or giving up on it, writes.
LEMMA ClaimApplyWrites ==
  ASSUME TypeOK, NEW w \in Worker, NEW t \in worker[w].todo, ClaimApply(w, t),
         NEW b \in Batch, b = t.b
  PROVE  \E x \in BatchRow : /\ batch' = [batch EXCEPT ![b] = x]
                             /\ x.confirmed = batch[b].confirmed
                             /\ x.status \in {"APPLYING", "FAILED"}
<1>1. batch[b] \in BatchRow
  BY Types
<1>2. CASE batch[b].attempts < MaxAttempts
  <2> DEFINE g == batch[b].gen + 1
             k == batch[b].attempts + 1
             x == [batch[b] EXCEPT !.status = "APPLYING", !.gen = g, !.attempts = k,
                                   !.timer = "running"]
  <2>1. batch' = [batch EXCEPT ![b] = x]
    BY <1>2 DEF ClaimApply
  <2>2. batch[b].gen \in Nat /\ batch[b].attempts \in Nat
    BY <1>1 DEF BatchRow
  <2>3. g \in Nat /\ k \in Nat
    BY <2>2
  <2> HIDE DEF g, k
  <2>4. x \in BatchRow
    BY <1>1, <2>3 DEF BatchRow, BatchStatus, Timers
  <2>5. x.confirmed = batch[b].confirmed /\ x.status = "APPLYING"
    BY <1>1 DEF BatchRow
  <2> HIDE DEF x
  <2> QED BY <2>1, <2>4, <2>5
<1>3. CASE ~(batch[b].attempts < MaxAttempts)
  <2> DEFINE x == [batch[b] EXCEPT !.status = "FAILED", !.timer = "off"]
  <2>1. batch' = [batch EXCEPT ![b].status = "FAILED", ![b].timer = "off"]
    BY <1>3 DEF ClaimApply
  <2>2. batch' = [batch EXCEPT ![b] = x]
    BY <1>1, <2>1, Types DEF BatchRow
  <2>3. x \in BatchRow
    BY <1>1 DEF BatchRow, BatchStatus, Timers
  <2>4. x.confirmed = batch[b].confirmed /\ x.status = "FAILED"
    BY <1>1 DEF BatchRow
  <2> HIDE DEF x
  <2> QED BY <2>2, <2>3, <2>4
<1> QED BY <1>2, <1>3

LEMMA ClaimApplySound ==
  ASSUME Inv, NEW w \in Worker, NEW t \in worker[w].todo, ClaimApply(w, t), NEW a \in Batch
  PROVE  Sound(a)'
<1>1. TypeOK /\ Sound(a) /\ UNCHANGED <<chunk, rows, public, world>>
  BY DEF Inv, ClaimApply
<1>2. PICK b \in Batch : b = t.b
  BY <1>1, Types DEF WorkerState, Listed
<1>3. Status(b) \in {"VALIDATED", "APPLYING"}
  BY <1>2 DEF ClaimApply, ApplyLeaseFree
<1>5. PICK x \in BatchRow : /\ batch' = [batch EXCEPT ![b] = x]
                           /\ x.confirmed = batch[b].confirmed
                           /\ x.status \in {"APPLYING", "FAILED"}
  BY <1>1, <1>2, ClaimApplyWrites
<1>6. /\ Status(a)' = IF a = b THEN x.status ELSE Status(a)
      /\ batch'[a].status = IF a = b THEN x.status ELSE batch[a].status
      /\ batch'[a].confirmed = batch[a].confirmed
  BY <1>1, <1>5, ApplyStatusFields
<1>7. CASE a # b
  BY <1>1, <1>6, <1>7, SoundKept DEF world
<1>8. CASE a = b
  <2>1. Chunks(a)'
    BY <1>1, <1>3, <1>5, <1>6, <1>8 DEF Sound, Chunks, Unfinished, world
  <2>2. Previewed(a)'
    BY <1>1 DEF Sound, Previewed, world
  <2>3. Phases(a)'
    BY <1>1, <1>3, <1>5, <1>6, <1>8 DEF Sound, Phases, Completed
  <2>4. Shown(a)'
    BY <1>1, <1>3, <1>5, <1>6, <1>8 DEF Sound, Shown, world, Terminal
  <2> QED BY <2>1, <2>2, <2>3, <2>4 DEF Sound
<1> QED BY <1>7, <1>8

\* What applying a batch writes.
LEMMA ApplyWrites ==
  ASSUME Inv, NEW w \in Worker, NEW t \in worker[w].todo, Apply(w, t), NEW b \in Batch, b = t.b
  PROVE  /\ Status(b) = "APPLYING" /\ batch[b].confirmed /\ public[b] = <<>>
         /\ screen[b].rows = rows[b]
         /\ public' = [public EXCEPT ![b] = <<rows[b]>>]
         /\ \E x \in BatchRow :
              /\ batch' = [batch EXCEPT ![b] = x]
              /\ x.status = "APPLIED" /\ x.confirmed = batch[b].confirmed
<1>1. TypeOK /\ Sound(b)
  BY DEF Inv
<1>2. Status(b) = "APPLYING" /\ batch[b].confirmed
  BY DEF Apply, HoldsApply
<1>3. public[b] = <<>> /\ screen[b].rows = rows[b]
  BY <1>1, <1>2 DEF Sound, Shown
<1>4. public' = [public EXCEPT ![b] = Append(public[b], rows[b])]
  BY <1>1 DEF Apply, TypeOK
<1>5. Append(public[b], rows[b]) = <<rows[b]>>
  BY <1>3
<1> DEFINE x == [batch[b] EXCEPT !.status = "APPLIED", !.timer = "off"]
<1>6. batch[b] \in BatchRow
  BY <1>1, Types
<1>7. batch' = [batch EXCEPT ![b] = x]
  BY <1>1, <1>6, Types DEF Apply, BatchRow
<1>8. x \in BatchRow /\ x.status = "APPLIED" /\ x.confirmed = batch[b].confirmed
  BY <1>6 DEF BatchRow, BatchStatus, Timers
<1> HIDE DEF x
<1> QED BY <1>2, <1>3, <1>4, <1>5, <1>7, <1>8

LEMMA ApplySound ==
  ASSUME Inv, NEW w \in Worker, NEW t \in worker[w].todo, Apply(w, t), NEW a \in Batch
  PROVE  Sound(a)'
<1>1. TypeOK /\ Sound(a) /\ UNCHANGED <<chunk, rows, world>>
  BY DEF Inv, Apply
<1>2. PICK b \in Batch : b = t.b
  BY <1>1, Types DEF WorkerState, Listed
<1>3. /\ Status(b) = "APPLYING" /\ batch[b].confirmed /\ screen[b].rows = rows[b]
      /\ public' = [public EXCEPT ![b] = <<rows[b]>>]
  BY <1>2, ApplyWrites
<1>4. PICK x \in BatchRow : /\ batch' = [batch EXCEPT ![b] = x]
                            /\ x.status = "APPLIED" /\ x.confirmed = batch[b].confirmed
  BY <1>2, ApplyWrites
<1>5. /\ Status(a)' = IF a = b THEN "APPLIED" ELSE Status(a)
      /\ batch'[a].status = IF a = b THEN "APPLIED" ELSE batch[a].status
      /\ batch'[a].confirmed = batch[a].confirmed
  <2>1. /\ Status(a)' = IF a = b THEN x.status ELSE Status(a)
        /\ batch'[a].status = IF a = b THEN x.status ELSE batch[a].status
        /\ batch'[a].confirmed = batch[a].confirmed
    BY <1>1, <1>4, ApplyStatusFields
  <2> QED BY <1>4, <2>1
<1>6. public'[a] = IF a = b THEN <<rows[b]>> ELSE public[a]
  BY <1>1, <1>3 DEF TypeOK
<1>7. CASE a # b
  BY <1>1, <1>5, <1>6, <1>7, SoundKept DEF world
<1>8. CASE a = b
  <2>1. Chunks(a)'
    BY <1>1, <1>3, <1>5, <1>8 DEF Sound, Chunks, Unfinished, world
  <2>2. Previewed(a)'
    BY <1>1 DEF Sound, Previewed, world
  <2>3. Phases(a)'
    BY <1>1, <1>3, <1>5, <1>8 DEF Sound, Phases, Completed
  <2>4. Shown(a)'
    BY <1>1, <1>3, <1>5, <1>6, <1>8 DEF Sound, Shown, world, Terminal
  <2> QED BY <2>1, <2>2, <2>3, <2>4 DEF Sound
<1> QED BY <1>7, <1>8

-----------------------------------------------------------------------------
(* All steps.                                                              *)

\* A worker reads, decides or stops, and writes no table but the snapshot.
Thinks(w) ==
  \/ PollList(w) \/ EdgeStart(w) \/ Crash(w)
  \/ \E t \in worker[w].todo :
       \/ UploadRefused(w, t) \/ NothingToClaim(w, t) \/ TakePreview(w, t) \/ WorkFails(w, t)
       \/ CompletionRefused(w, t) \/ NoApply(w, t) \/ ApplyRaises(w, t)

Completing(w, t) ==
  /\ CompleteChunk(w, t) \/ CompletionUnheard(w, t)
  /\ IsAt(w, t) /\ worker[w].pc = "complete" /\ CompleteTx(w, t) /\ UNCHANGED world

LEMMA StepCases ==
  ASSUME [Next]_vars
  PROVE  \/ UNCHANGED vars
         \/ \E b \in Batch :
              \/ Start(b) \/ Upload(b) \/ UploadExpires(b) \/ SeeStatus(b) \/ LoadRows(b)
              \/ Confirm(b) \/ Cancel(b)
         \/ TimerEnds \/ LeaseOverrun
         \/ \E w \in Worker : Thinks(w)
         \/ \E w \in Worker : \E t \in worker[w].todo :
              \/ ConfirmUpload(w, t) \/ FailUpload(w, t) \/ ClaimChunk(w, t) \/ Completing(w, t)
              \/ FailChunk(w, t) \/ ClaimApply(w, t) \/ Apply(w, t)
<1>1. CASE UserStep
  BY <1>1 DEF UserStep
<1>2. ASSUME NEW w \in Worker, NEW t \in worker[w].todo, CompleteChunk(w, t) \/ CompletionUnheard(w, t)
      PROVE  Completing(w, t)
  BY <1>2 DEF Completing, CompleteChunk, CompletionUnheard
<1>3. ASSUME NEW w \in Worker, NEW t \in worker[w].todo, WorkOn(w, t)
      PROVE  \/ Thinks(w)
             \/ ConfirmUpload(w, t) \/ FailUpload(w, t) \/ ClaimChunk(w, t) \/ Completing(w, t)
             \/ FailChunk(w, t) \/ ClaimApply(w, t) \/ Apply(w, t)
  BY <1>2, <1>3 DEF WorkOn, Thinks
<1>4. ASSUME NEW w \in Worker, WorkerStep(w)
      PROVE  \/ Thinks(w)
             \/ \E t \in worker[w].todo :
                  \/ ConfirmUpload(w, t) \/ FailUpload(w, t) \/ ClaimChunk(w, t) \/ Completing(w, t)
                  \/ FailChunk(w, t) \/ ClaimApply(w, t) \/ Apply(w, t)
  BY <1>3, <1>4 DEF WorkerStep, Thinks
<1>5. CASE FaultStep
  BY <1>2, <1>5 DEF FaultStep, Thinks
<1> QED BY <1>1, <1>4, <1>5 DEF Next

LEMMA ThinkingWritesNoTable ==
  ASSUME NEW w \in Worker, Thinks(w)
  PROVE  UNCHANGED <<batch, chunk, rows, master, public, world>>
  BY DEF Thinks, PollList, EdgeStart, Crash, UploadRefused, NothingToClaim, TakePreview,
         WorkFails, CompletionRefused, NoApply, ApplyRaises, Leaves, tables

LEMMA SoundPreserved ==
  ASSUME Inv, [Next]_vars, NEW a \in Batch
  PROVE  Sound(a)'
<1>1. Sound(a)
  BY DEF Inv
<1>2. CASE UNCHANGED <<batch, chunk, rows, master, public, world>>
  BY <1>1, <1>2, SoundKept DEF world
<1>3. ASSUME NEW b \in Batch,
             \/ Start(b) \/ Upload(b) \/ UploadExpires(b) \/ SeeStatus(b) \/ LoadRows(b)
             \/ Confirm(b) \/ Cancel(b)
      PROVE  Sound(a)'
  BY <1>3, StartSound, QuietUserSound, LookSound, ConfirmSound, CancelSound
<1>4. ASSUME NEW w \in Worker, NEW t \in worker[w].todo,
             \/ ConfirmUpload(w, t) \/ FailUpload(w, t) \/ ClaimChunk(w, t) \/ Completing(w, t)
             \/ FailChunk(w, t) \/ ClaimApply(w, t) \/ Apply(w, t)
      PROVE  Sound(a)'
  <2>1. CASE Completing(w, t)
    BY <2>1, CompletionSound DEF Completing
  <2> QED BY <1>4, <2>1, ConfirmUploadSound, FailUploadSound, ClaimChunkSound, FailChunkSound,
             ClaimApplySound, ApplySound
<1> QED BY <1>2, <1>3, <1>4, StepCases, ThinkingWritesNoTable, TimerSound DEF vars, tables

-----------------------------------------------------------------------------
(* The workers and the snapshots.                                          *)

Snapshot == [Chunk -> MasterValue]
AtChunk == {"work", "complete", "fail"}

\* Only worker w goes on, to a state that fits the batch it is at.
Moves(w) ==
  \E x \in WorkerState :
    /\ worker' = [worker EXCEPT ![w] = x]
    /\ \/ x.pc \notin AtChunk
       \/ /\ x.todo = worker[w].todo /\ x.c \in ChunkId
          /\ \E t \in worker[w].todo : /\ IsAt(w, t) /\ x.c[1] = t.b
                                       /\ x.pc = "complete" => snapshot'[t.b] \in Snapshot

\* A snapshot, once taken, stays one.
Freezes ==
  /\ snapshot' \in [Batch -> Snapshot \cup {None}]
  /\ \A b \in Batch : snapshot[b] \in Snapshot => snapshot'[b] \in Snapshot

LEMMA SnapshotType ==
  ASSUME TypeOK
  PROVE  snapshot \in [Batch -> Snapshot \cup {None}] /\ master \in Snapshot
  BY DEF TypeOK, Snapshot

LEMMA SnapshotUnchanged ==
  ASSUME TypeOK, UNCHANGED snapshot
  PROVE  Freezes
  BY SnapshotType DEF Freezes

LEMMA MovesWorking ==
  ASSUME Inv, Freezes, NEW w \in Worker, Moves(w), NEW v \in Worker
  PROVE  Working(v)'
<1>1. TypeOK /\ Working(v) /\ worker \in [Worker -> WorkerState]
  BY Types DEF Inv
<1>2. worker[v].todo \subseteq Listed
  BY <1>1 DEF WorkerState
<1>3. PICK x \in WorkerState :
        /\ worker' = [worker EXCEPT ![w] = x]
        /\ \/ x.pc \notin AtChunk
           \/ /\ x.todo = worker[w].todo /\ x.c \in ChunkId
              /\ \E t \in worker[w].todo : /\ IsAt(w, t) /\ x.c[1] = t.b
                                           /\ x.pc = "complete" => snapshot'[t.b] \in Snapshot
  BY DEF Moves
<1>4. CASE v # w
  <2>1. worker'[v] = worker[v]
    BY <1>1, <1>3, <1>4
  <2> QED BY <1>1, <1>2, <2>1, WorkingKept DEF Freezes, Snapshot
<1>5. CASE v = w
  <2>1. worker'[w] = x
    BY <1>1, <1>3
  <2>2. CASE x.pc \notin AtChunk
    BY <1>5, <2>1, <2>2 DEF Working, AtChunk
  <2>3. CASE x.pc \in AtChunk
    <3>1. PICK t \in worker[w].todo : /\ IsAt(w, t) /\ x.c[1] = t.b
                                      /\ x.pc = "complete" => snapshot'[t.b] \in Snapshot
      BY <1>3, <2>3
    <3>2. x.todo = worker[w].todo /\ x.c \in ChunkId
      BY <1>3, <2>3
    <3>3. ASSUME NEW u \in worker[w].todo, \A y \in worker[w].todo : u.b <= y.b
          PROVE  u.b = t.b
      <4>1. u.b <= t.b /\ t.b <= u.b
        BY <3>1, <3>3 DEF IsAt
      <4>2. u.b \in Nat /\ t.b \in Nat
        BY <1>2, <1>5, <3>1, <3>3 DEF Listed, Batch
      <4> QED BY <4>1, <4>2
    <3> QED BY <1>5, <2>1, <3>1, <3>2, <3>3 DEF Working, IsAt, Snapshot
  <2> QED BY <2>2, <2>3
<1> QED BY <1>4, <1>5

LEMMA MovesType ==
  ASSUME TypeOK, NEW w \in Worker, Moves(w)
  PROVE  worker' \in [Worker -> WorkerState]
  BY Types DEF Moves

\* To a state in which w is at no chunk, or still at the chunk it was at.
LEMMA MovesAway ==
  ASSUME NEW w \in Worker, NEW x \in WorkerState, Go(w, x), x.pc \notin AtChunk
  PROVE  Moves(w)
  BY DEF Moves, Go

LEMMA MovesOnward ==
  ASSUME TypeOK, NEW w \in Worker, NEW t, Go(w, MovedOn(w, t))
  PROVE  Moves(w)
<1>1. MovedOn(w, t) \in WorkerState
  BY MovedOnType
<1>2. MovedOn(w, t).pc \notin AtChunk
  BY DEF MovedOn, Idle, AtChunk
<1> QED BY <1>1, <1>2, MovesAway

LEMMA MovesToIdle ==
  ASSUME NEW w \in Worker, Go(w, Idle)
  PROVE  Moves(w)
<1>1. Idle.pc \notin AtChunk
  BY DEF Idle, AtChunk
<1> QED BY <1>1, IdleType, MovesAway

LEMMA MovesAtChunk ==
  ASSUME Inv, NEW w \in Worker, NEW t \in worker[w].todo, IsAt(w, t),
         worker[w].pc \in AtChunk, NEW next \in {"complete", "fail"},
         next = "complete" => snapshot'[t.b] \in Snapshot,
         Go(w, [worker[w] EXCEPT !.pc = next])
  PROVE  Moves(w)
<1> DEFINE x == [worker[w] EXCEPT !.pc = next]
<1>1. worker[w] \in WorkerState /\ Working(w)
  BY Types DEF Inv
<1>2. x \in WorkerState /\ x.pc = next /\ x.todo = worker[w].todo /\ x.c = worker[w].c
  BY <1>1 DEF WorkerState
<1>3. worker[w].c \in ChunkId /\ worker[w].c[1] = t.b
  BY <1>1 DEF Working, AtChunk
<1>4. worker' = [worker EXCEPT ![w] = x]
  BY DEF Go
<1> HIDE DEF x
<1> QED BY <1>2, <1>3, <1>4 DEF Moves

\* A worker that thinks: the listings, the refusals and the failures ...
LEMMA ListingMoves ==
  ASSUME TypeOK, NEW w \in Worker, PollList(w) \/ EdgeStart(w)
  PROVE  Moves(w)
<1>1. PICK todo \in SUBSET Listed : Go(w, [Idle EXCEPT !.pc = "next", !.todo = todo])
  <2>1. CASE PollList(w)
    <3>1. ListWork(PollLimit) \in SUBSET Listed
      BY ListedType
    <3> QED BY <2>1, <3>1 DEF PollList
  <2>2. CASE EdgeStart(w)
    <3>1. PICK t \in ListWork(EdgeLimit) : Go(w, [Idle EXCEPT !.pc = "next", !.todo = {t}])
      BY <2>2 DEF EdgeStart
    <3>2. ListWork(EdgeLimit) \in SUBSET Listed
      BY ListedType
    <3>3. {t} \in SUBSET Listed
      BY <3>1, <3>2
    <3> QED BY <3>1, <3>3
  <2> QED BY <2>1, <2>2
<1> DEFINE x == [Idle EXCEPT !.pc = "next", !.todo = todo]
<1>2. x \in WorkerState
  BY IdleType DEF WorkerState
<1>3. x.pc \notin AtChunk
  BY IdleType DEF WorkerState, AtChunk
<1> HIDE DEF x
<1>4. Go(w, x)
  BY <1>1 DEF x
<1> QED BY <1>2, <1>3, <1>4, MovesAway

LEMMA ThinksMoves ==
  ASSUME Inv, NEW w \in Worker, Thinks(w)
  PROVE  Moves(w) /\ Freezes
<1>1. TypeOK
  BY DEF Inv
<1>2. CASE PollList(w) \/ EdgeStart(w)
  BY <1>1, <1>2, ListingMoves, SnapshotUnchanged DEF PollList, EdgeStart, tables
<1>3. CASE Crash(w)
  BY <1>1, <1>3, MovesToIdle, SnapshotUnchanged DEF Crash, tables
<1>4. ASSUME NEW t \in worker[w].todo,
             UploadRefused(w, t) \/ NothingToClaim(w, t) \/ NoApply(w, t) \/ ApplyRaises(w, t)
      PROVE  Moves(w) /\ Freezes
  <2>1. Go(w, MovedOn(w, t)) /\ UNCHANGED snapshot
    BY <1>4 DEF UploadRefused, NothingToClaim, NoApply, ApplyRaises, Leaves, tables
  <2> QED BY <1>1, <2>1, MovesOnward, SnapshotUnchanged
<1>5. ASSUME NEW t \in worker[w].todo, WorkFails(w, t) \/ CompletionRefused(w, t)
      PROVE  Moves(w) /\ Freezes
  <2>1. /\ IsAt(w, t) /\ worker[w].pc \in AtChunk /\ UNCHANGED snapshot
        /\ Go(w, [worker[w] EXCEPT !.pc = "fail"])
    BY <1>5 DEF WorkFails, CompletionRefused, tables, AtChunk
  <2> QED BY <1>1, <2>1, MovesAtChunk, SnapshotUnchanged
<1>6. ASSUME NEW t \in worker[w].todo, TakePreview(w, t)
      PROVE  Moves(w) /\ Freezes
  <2>1. IsAt(w, t) /\ worker[w].pc \in AtChunk
    BY <1>6 DEF TakePreview, AtChunk
  <2>2. t.b \in Batch
    BY <1>1, Types DEF WorkerState, Listed
  <2>3. CASE Status(t.b) \in Terminal
    <3>1. Go(w, [worker[w] EXCEPT !.pc = "fail"]) /\ UNCHANGED snapshot
      BY <1>6, <2>3 DEF TakePreview
    <3> QED BY <1>1, <2>1, <3>1, MovesAtChunk, SnapshotUnchanged
  <2>4. CASE Status(t.b) \notin Terminal
    <3> DEFINE f == IF snapshot[t.b] = None THEN master ELSE snapshot[t.b]
    <3>1. /\ snapshot' = [snapshot EXCEPT ![t.b] = f]
          /\ Go(w, [worker[w] EXCEPT !.pc = "complete"])
      BY <1>6, <2>4 DEF TakePreview
    <3>2. f \in Snapshot
      BY <1>1, <2>2, SnapshotType
    <3> HIDE DEF f
    <3>3. Freezes /\ snapshot'[t.b] \in Snapshot
      BY <1>1, <2>2, <3>1, <3>2, SnapshotType DEF Freezes
    <3> QED BY <2>1, <3>1, <3>3, MovesAtChunk
  <2> QED BY <2>3, <2>4
<1> QED BY <1>2, <1>3, <1>4, <1>5, <1>6 DEF Thinks

\* ... and one that writes.
LEMMA ConfirmUploadMoves ==
  ASSUME TypeOK, NEW w \in Worker, NEW t, ConfirmUpload(w, t)
  PROVE  Moves(w)
<1> DEFINE x == [worker[w] EXCEPT !.pc = "claim", !.phase = "PARSE"]
<1>1. worker[w] \in WorkerState
  BY Types
<1>2. x \in WorkerState /\ x.pc \notin AtChunk
  BY <1>1 DEF WorkerState, Phase, AtChunk
<1>3. Go(w, x)
  BY DEF ConfirmUpload
<1> HIDE DEF x
<1> QED BY <1>2, <1>3, MovesAway

LEMMA ClaimChunkMoves ==
  ASSUME Inv, NEW w \in Worker, NEW t \in worker[w].todo, ClaimChunk(w, t)
  PROVE  Moves(w)
<1>1. TypeOK /\ worker[w] \in WorkerState
  BY Types DEF Inv
<1>2. t.b \in Batch /\ IsAt(w, t)
  BY <1>1, Types DEF WorkerState, Listed, ClaimChunk
<1> DEFINE phase == PhaseAt(w, t)
<1>3. phase \in Phase
  <2>1. worker[w].phase \in Phase /\ phase # None
    BY <1>1 DEF WorkerState, ClaimChunk
  <2> QED BY <2>1 DEF PhaseAt, Phase
<1>4. PICK c \in ToClaim(t.b, phase) :
        Go(w, [worker[w] EXCEPT !.pc = "work", !.phase = phase,
                                !.c = c, !.gen = chunk[c].gen + 1])
  BY DEF ClaimChunk
<1> HIDE DEF phase
<1>5. c \in ChunkId /\ c[1] = t.b
  BY <1>2, <1>3, <1>4 DEF ToClaim, ChunkId
<1> DEFINE g == chunk[c].gen + 1
<1>6. g \in Nat
  BY <1>1, <1>5, Types DEF ChunkRow
<1> HIDE DEF g
<1> DEFINE x == [worker[w] EXCEPT !.pc = "work", !.phase = phase, !.c = c, !.gen = g]
<1>7. worker' = [worker EXCEPT ![w] = x]
  BY <1>4 DEF Go, g
<1>8. x \in WorkerState
  BY <1>1, <1>3, <1>5, <1>6 DEF WorkerState
<1>9. x.todo = worker[w].todo /\ x.c = c /\ x.pc = "work"
  BY <1>1 DEF WorkerState
<1> HIDE DEF x
<1> QED BY <1>2, <1>5, <1>7, <1>8, <1>9 DEF Moves

LEMMA CompletingMoves ==
  ASSUME Inv, NEW w \in Worker, NEW t \in worker[w].todo, Completing(w, t)
  PROVE  Moves(w)
<1>1. TypeOK /\ worker[w] \in WorkerState
  BY Types DEF Inv
<1>2. CASE Go(w, MovedOn(w, t))
  BY <1>1, <1>2, MovesOnward
<1>3. CASE Go(w, [worker[w] EXCEPT !.pc = "fail"])
  BY <1>3, MovesAtChunk DEF Completing, AtChunk
<1>4. CASE Go(w, [worker[w] EXCEPT !.pc = "claim", !.c = None, !.gen = 0, !.done = @ + 1])
  <2> DEFINE k == worker[w].done + 1
  <2>1. k \in Nat
    BY <1>1 DEF WorkerState
  <2> HIDE DEF k
  <2> DEFINE x == [worker[w] EXCEPT !.pc = "claim", !.c = None, !.gen = 0, !.done = k]
  <2>2. Go(w, x)
    BY <1>4 DEF k
  <2>3. x \in WorkerState /\ x.pc \notin AtChunk
    BY <1>1, <2>1 DEF WorkerState, AtChunk
  <2> HIDE DEF x
  <2> QED BY <2>2, <2>3, MovesAway
<1>5. \/ Go(w, MovedOn(w, t)) \/ Go(w, [worker[w] EXCEPT !.pc = "fail"])
      \/ Go(w, [worker[w] EXCEPT !.pc = "claim", !.c = None, !.gen = 0, !.done = @ + 1])
  <2>1. CASE CompletionUnheard(w, t)
    BY <2>1 DEF CompletionUnheard
  <2>2. CASE CompleteChunk(w, t)
    <3>1. CASE GoesOn(w, t)
      BY <2>2, <3>1 DEF CompleteChunk
    <3>2. CASE ~GoesOn(w, t)
      BY <2>2, <3>2 DEF CompleteChunk
    <3> QED BY <3>1, <3>2
  <2> QED BY <2>1, <2>2 DEF Completing
<1> QED BY <1>2, <1>3, <1>4, <1>5

LEMMA ClaimApplyMoves ==
  ASSUME TypeOK, NEW w \in Worker, NEW t \in worker[w].todo, ClaimApply(w, t)
  PROVE  Moves(w)
<1>1. worker[w] \in WorkerState
  BY Types
<1>2. t.b \in Batch
  BY <1>1 DEF WorkerState, Listed
<1> DEFINE g == batch[t.b].gen + 1
<1>3. g \in Nat
  BY <1>2, Types DEF BatchRow
<1>4. Go(w, MovedOn(w, t)) \/ Go(w, [worker[w] EXCEPT !.pc = "apply", !.gen = g])
  <2>1. CASE batch[t.b].attempts < MaxAttempts
    BY <2>1 DEF ClaimApply
  <2>2. CASE ~(batch[t.b].attempts < MaxAttempts)
    BY <2>2 DEF ClaimApply
  <2> QED BY <2>1, <2>2
<1> HIDE DEF g
<1> DEFINE x == [worker[w] EXCEPT !.pc = "apply", !.gen = g]
<1>5. x \in WorkerState /\ x.pc \notin AtChunk
  BY <1>1, <1>3 DEF WorkerState, AtChunk
<1> HIDE DEF x
<1>6. CASE Go(w, x)
  BY <1>5, <1>6, MovesAway
<1> QED BY <1>4, <1>6, MovesOnward DEF x

LEMMA WritesMoves ==
  ASSUME Inv, NEW w \in Worker, NEW t \in worker[w].todo,
         \/ ConfirmUpload(w, t) \/ FailUpload(w, t) \/ ClaimChunk(w, t) \/ Completing(w, t)
         \/ FailChunk(w, t) \/ ClaimApply(w, t) \/ Apply(w, t)
  PROVE  Moves(w) /\ Freezes
<1>1. TypeOK
  BY DEF Inv
<1>2. UNCHANGED snapshot
  BY DEF ConfirmUpload, FailUpload, ClaimChunk, Completing, CompleteTx, FailChunk,
         ClaimApply, Apply
<1>3. CASE FailUpload(w, t) \/ FailChunk(w, t) \/ Apply(w, t)
  <2>1. Go(w, MovedOn(w, t))
    BY <1>3 DEF FailUpload, FailChunk, Apply
  <2> QED BY <1>1, <1>2, <2>1, MovesOnward, SnapshotUnchanged
<1> QED BY <1>1, <1>2, <1>3, SnapshotUnchanged, ConfirmUploadMoves, ClaimChunkMoves,
           CompletingMoves, ClaimApplyMoves

-----------------------------------------------------------------------------
(* The types of the tables, and the invariant of every step.               *)

ScreenRow == [saw : {"nothing", "VALIDATED", "FAILED", "preview", "errors"}, rows : Preview]

TablesTyped ==
  /\ batch' \in [Batch -> BatchRow] /\ chunk' \in [ChunkId -> ChunkRow]
  /\ rows' \in [Batch -> Preview] /\ master' \in Snapshot
  /\ public' \in [Batch -> Seq(Preview)]

LEMMA TableTypes ==
  ASSUME TypeOK
  PROVE  /\ batch \in [Batch -> BatchRow] /\ chunk \in [ChunkId -> ChunkRow]
         /\ rows \in [Batch -> Preview] /\ master \in Snapshot
         /\ public \in [Batch -> Seq(Preview)] /\ screen \in [Batch -> ScreenRow]
         /\ stored \in SUBSET Batch /\ faults \in Nat
  BY Types DEF TypeOK, Snapshot, ScreenRow

LEMMA UserTyped ==
  ASSUME TypeOK, NEW b \in Batch,
         \/ Start(b) \/ Upload(b) \/ UploadExpires(b) \/ SeeStatus(b) \/ LoadRows(b)
         \/ Confirm(b) \/ Cancel(b)
  PROVE  TablesTyped /\ stored' \in SUBSET Batch /\ screen' \in [Batch -> ScreenRow]
<1>1. batch[b] \in BatchRow
  BY Types
<1>2. CASE Start(b)
  <2>1. batch' = [batch EXCEPT ![b].status = "AWAITING_UPLOAD"]
    BY <1>2 DEF Start
  <2>2. batch' \in [Batch -> BatchRow]
    BY <2>1, StatusWrite DEF BatchStatus
  <2> QED BY <1>2, <2>2, TableTypes DEF Start, TablesTyped, world
<1>3. CASE Upload(b)
  BY <1>3, TableTypes DEF Upload, TablesTyped, tables
<1>4. CASE UploadExpires(b)
  <2>1. [batch[b] EXCEPT !.late = TRUE] \in BatchRow
    BY <1>1 DEF BatchRow
  <2>2. batch' = [batch EXCEPT ![b] = [batch[b] EXCEPT !.late = TRUE]]
    BY <1>4 DEF UploadExpires
  <2>3. batch' \in [Batch -> BatchRow]
    BY <2>1, <2>2, BatchWrite
  <2> QED BY <1>4, <2>3, TableTypes DEF UploadExpires, TablesTyped, world
<1>5. CASE SeeStatus(b)
  <2>1. /\ Status(b) \in {"VALIDATED", "FAILED"}
        /\ screen' = [screen EXCEPT ![b] = [screen[b] EXCEPT !.saw = Status(b)]]
    BY <1>5 DEF SeeStatus
  <2>2. screen[b] \in ScreenRow
    BY TableTypes
  <2>3. [screen[b] EXCEPT !.saw = Status(b)] \in ScreenRow
    BY <2>1, <2>2 DEF ScreenRow
  <2>4. screen' \in [Batch -> ScreenRow]
    BY <2>1, <2>3, TableTypes
  <2> QED BY <1>5, <2>4, TableTypes DEF SeeStatus, TablesTyped, tables
<1>6. CASE LoadRows(b)
  <2>1. PICK saw \in {"preview", "errors"} :
          screen' = [screen EXCEPT ![b] = [saw |-> saw, rows |-> rows[b]]]
    BY <1>6 DEF LoadRows
  <2>2. [saw |-> saw, rows |-> rows[b]] \in ScreenRow
    BY TableTypes DEF ScreenRow
  <2>3. screen' \in [Batch -> ScreenRow]
    BY <2>1, <2>2, TableTypes
  <2> QED BY <1>6, <2>3, TableTypes DEF LoadRows, TablesTyped, tables
<1>7. CASE Confirm(b)
  <2>1. [batch[b] EXCEPT !.confirmed = TRUE] \in BatchRow
    BY <1>1 DEF BatchRow
  <2>2. batch' = [batch EXCEPT ![b] = [batch[b] EXCEPT !.confirmed = TRUE]]
    BY <1>7 DEF Confirm
  <2>3. batch' \in [Batch -> BatchRow]
    BY <2>1, <2>2, BatchWrite
  <2> QED BY <1>7, <2>3, TableTypes DEF Confirm, TablesTyped, world
<1>8. CASE Cancel(b)
  <2>1. batch' = [batch EXCEPT ![b].status = "CANCELLED"]
    BY <1>8 DEF Cancel
  <2>2. batch' \in [Batch -> BatchRow]
    BY <2>1, StatusWrite DEF BatchStatus
  <2>3. ASSUME NEW c \in ChunkId
        PROVE  [chunk[c] EXCEPT !.status = "FAILED", !.timer = "off"] \in ChunkRow
    <3>1. chunk[c] \in ChunkRow
      BY Types
    <3> QED BY <3>1 DEF ChunkRow, ChunkStatus, Timers
  <2>4. chunk' \in [ChunkId -> ChunkRow]
    BY <1>8, <2>3, Types DEF Cancel
  <2> QED BY <1>8, <2>2, <2>4, TableTypes DEF Cancel, TablesTyped, world
<1> QED BY <1>2, <1>3, <1>4, <1>5, <1>6, <1>7, <1>8

LEMMA TimerTyped ==
  ASSUME TypeOK, TimerEnds \/ LeaseOverrun
  PROVE  TablesTyped
<1>1. UNCHANGED <<rows, master, public>>
  BY DEF TimerEnds, LeaseOverrun
<1>2. CASE UNCHANGED batch /\ \E c \in ChunkId : chunk' = [chunk EXCEPT ![c].timer = "ended"]
  <2>1. PICK c \in ChunkId : chunk' = [chunk EXCEPT ![c] = [chunk[c] EXCEPT !.timer = "ended"]]
    BY <1>2
  <2>2. chunk[c] \in ChunkRow
    BY Types
  <2>3. [chunk[c] EXCEPT !.timer = "ended"] \in ChunkRow
    BY <2>2 DEF ChunkRow, Timers
  <2>4. chunk' \in [ChunkId -> ChunkRow]
    BY <2>1, <2>3, ChunkWrite
  <2> QED BY <1>1, <1>2, <2>4, TableTypes DEF TablesTyped
<1>3. CASE UNCHANGED chunk /\ \E b \in Batch : batch' = [batch EXCEPT ![b].timer = "ended"]
  <2>1. PICK b \in Batch : batch' = [batch EXCEPT ![b] = [batch[b] EXCEPT !.timer = "ended"]]
    BY <1>3
  <2>2. batch[b] \in BatchRow
    BY Types
  <2>3. [batch[b] EXCEPT !.timer = "ended"] \in BatchRow
    BY <2>2 DEF BatchRow, Timers
  <2>4. batch' \in [Batch -> BatchRow]
    BY <2>1, <2>3, BatchWrite
  <2> QED BY <1>1, <1>3, <2>4, TableTypes DEF TablesTyped
<1> QED BY <1>2, <1>3 DEF TimerEnds, LeaseOverrun

LEMMA UploadTyped ==
  ASSUME TypeOK, NEW w \in Worker, NEW t \in worker[w].todo,
         ConfirmUpload(w, t) \/ FailUpload(w, t)
  PROVE  TablesTyped
<1>1. UNCHANGED <<rows, master, public>>
  BY DEF ConfirmUpload, FailUpload
<1>2. PICK b \in Batch : b = t.b
  BY Types DEF WorkerState, Listed
<1>3. batch' \in [Batch -> BatchRow]
  <2>1. CASE UNCHANGED batch
    BY <2>1, Types
  <2>2. CASE ~UNCHANGED batch
    <3>1. PICK s \in {"UPLOADED", "FAILED"} : batch' = [batch EXCEPT ![b].status = s]
      BY <1>2, <2>2 DEF ConfirmUpload, FailUpload
    <3> QED BY <3>1, StatusWrite DEF BatchStatus
  <2> QED BY <2>1, <2>2
<1>4. chunk' \in [ChunkId -> ChunkRow]
  <2>1. CASE UNCHANGED chunk
    BY <2>1, Types
  <2>2. CASE ~UNCHANGED chunk
    <3>1. chunk' = [c \in ChunkId |->
              IF c[1] = t.b /\ c[2] = "PARSE" THEN [chunk[c] EXCEPT !.status = "PENDING"]
              ELSE chunk[c]]
      BY <2>2 DEF ConfirmUpload, FailUpload
    <3>2. ASSUME NEW c \in ChunkId PROVE [chunk[c] EXCEPT !.status = "PENDING"] \in ChunkRow
      <4>1. chunk[c] \in ChunkRow
        BY Types
      <4> QED BY <4>1 DEF ChunkRow, ChunkStatus
    <3> QED BY <3>1, <3>2, Types
  <2> QED BY <2>1, <2>2
<1> QED BY <1>1, <1>3, <1>4, TableTypes DEF TablesTyped

LEMMA ClaimChunkTyped ==
  ASSUME TypeOK, NEW w \in Worker, NEW t \in worker[w].todo, ClaimChunk(w, t)
  PROVE  TablesTyped
<1>1. worker[w] \in WorkerState
  BY Types
<1>2. PICK b \in Batch : b = t.b
  BY <1>1 DEF WorkerState, Listed
<1>3. PICK s \in {"PARSING", "VALIDATING"} : batch' = [batch EXCEPT ![b].status = s]
  BY <1>2 DEF ClaimChunk
<1>4. batch' \in [Batch -> BatchRow]
  BY <1>3, StatusWrite DEF BatchStatus
<1>5. PICK p \in Phase : p = PhaseAt(w, t)
  <2>1. worker[w].phase \in Phase /\ PhaseAt(w, t) # None
    BY <1>1 DEF WorkerState, ClaimChunk
  <2> QED BY <2>1 DEF PhaseAt, Phase
<1>6. PICK c \in ToClaim(t.b, PhaseAt(w, t)) :
        chunk' = [chunk EXCEPT ![c] = [status |-> "LEASED", gen |-> chunk[c].gen + 1,
                                       attempts |-> chunk[c].attempts + 1, timer |-> "running"]]
  BY DEF ClaimChunk
<1>7. c \in ChunkId
  BY <1>2, <1>5, <1>6 DEF ToClaim, ChunkId
<1> DEFINE g == chunk[c].gen + 1
           k == chunk[c].attempts + 1
<1>8. g \in Nat /\ k \in Nat
  <2>1. chunk[c].gen \in Nat /\ chunk[c].attempts \in Nat
    BY <1>7, Types DEF ChunkRow
  <2> QED BY <2>1
<1> HIDE DEF g, k
<1> DEFINE x == [status |-> "LEASED", gen |-> g, attempts |-> k, timer |-> "running"]
<1>9. x \in ChunkRow
  BY <1>8 DEF ChunkRow, ChunkStatus, Timers
<1>10. chunk' = [chunk EXCEPT ![c] = x]
  BY <1>6 DEF g, k
<1> HIDE DEF x
<1>11. chunk' \in [ChunkId -> ChunkRow]
  BY <1>7, <1>9, <1>10, ChunkWrite
<1>12. UNCHANGED <<rows, master, public>>
  BY DEF ClaimChunk
<1> QED BY <1>4, <1>11, <1>12, TableTypes DEF TablesTyped

\* The chunk, the batch and the phase of a worker that completes it.
LEMMA CompletingWrites ==
  ASSUME Inv, NEW w \in Worker, NEW t \in worker[w].todo, Completing(w, t)
  PROVE  \E b \in Batch, p \in Phase, m \in Chunk : b = t.b /\ Completes(b, p, m)
<1>1. /\ IsAt(w, t) /\ worker[w].pc = "complete" /\ CompleteTx(w, t) /\ HoldsLease(w)
  BY DEF Completing, CompleteTx
<1>2. PICK b \in Batch, p \in Phase, m \in Chunk : b = t.b /\ worker[w].c = <<b, p, m>>
  BY <1>1, LeaseHolder
<1>3. Completes(b, p, m)
  BY <1>1, <1>2, CompletionWrites
<1> QED BY <1>2, <1>3

LEMMA CompletingTyped ==
  ASSUME Inv, NEW w \in Worker, NEW t \in worker[w].todo, Completing(w, t)
  PROVE  TablesTyped
<1>1. TypeOK /\ UNCHANGED <<master, public>>
  BY DEF Inv, Completing, CompleteTx
<1>2. PICK b \in Batch, p \in Phase, m \in Chunk : Completes(b, p, m)
  BY CompletingWrites
<1>3. PICK s \in BatchStatus : batch' = [batch EXCEPT ![b].status = s]
  BY <1>2 DEF Completes
<1>4. batch' \in [Batch -> BatchRow]
  BY <1>1, <1>3, StatusWrite
<1>5. rows' \in [Batch -> Preview] /\ chunk' \in [ChunkId -> ChunkRow]
  BY <1>2 DEF Completes
<1> QED BY <1>1, <1>4, <1>5, TableTypes DEF TablesTyped

LEMMA FailChunkTyped ==
  ASSUME Inv, NEW w \in Worker, NEW t \in worker[w].todo, FailChunk(w, t)
  PROVE  TablesTyped
<1>1. TypeOK /\ UNCHANGED <<rows, master, public>>
  BY DEF Inv, FailChunk
<1>2. CASE ~HoldsLease(w)
  BY <1>1, <1>2, TableTypes DEF FailChunk, TablesTyped
<1>3. CASE HoldsLease(w)
  <2> DEFINE c == worker[w].c
             again == chunk[c].attempts < MaxAttempts
             s == IF again THEN "RETRY_WAIT" ELSE "FAILED"
             m == IF again THEN "running" ELSE "off"
             x == [chunk[c] EXCEPT !.status = s, !.timer = m]
  <2>1. c \in ChunkId /\ t.b \in Batch
    BY <1>3, LeaseHolder DEF FailChunk
  <2>2. chunk' = [chunk EXCEPT ![c].status = s, ![c].timer = m]
    BY <1>3 DEF FailChunk
  <2>3. batch' = IF again THEN batch ELSE [batch EXCEPT ![t.b].status = "FAILED"]
    BY <1>3 DEF FailChunk
  <2>4. batch' \in [Batch -> BatchRow]
    <3>1. CASE again
      BY <1>1, <2>3, <3>1, Types
    <3>2. CASE ~again
      <4>1. batch' = [batch EXCEPT ![t.b].status = "FAILED"]
        BY <2>3, <3>2
      <4> QED BY <1>1, <2>1, <4>1, StatusWrite DEF BatchStatus
    <3> QED BY <3>1, <3>2
  <2>5. s \in ChunkStatus /\ m \in Timers
    BY DEF ChunkStatus, Timers
  <2> HIDE DEF s, m, again, c
  <2>6. chunk[c] \in ChunkRow
    BY <1>1, <2>1, Types
  <2>7. x \in ChunkRow
    BY <2>5, <2>6 DEF ChunkRow
  <2>8. chunk' = [chunk EXCEPT ![c] = x]
    BY <1>1, <2>1, <2>2, <2>6, Types DEF ChunkRow
  <2> HIDE DEF x
  <2>9. chunk' \in [ChunkId -> ChunkRow]
    BY <1>1, <2>1, <2>7, <2>8, ChunkWrite
  <2> QED BY <1>1, <2>4, <2>9, TableTypes DEF TablesTyped
<1> QED BY <1>2, <1>3

LEMMA ClaimApplyTyped ==
  ASSUME TypeOK, NEW w \in Worker, NEW t \in worker[w].todo, ClaimApply(w, t)
  PROVE  TablesTyped
<1>1. PICK b \in Batch : b = t.b
  BY Types DEF WorkerState, Listed
<1>2. batch' \in [Batch -> BatchRow]
  BY <1>1, ClaimApplyWrites, BatchWrite
<1>3. UNCHANGED <<chunk, rows, master, public>>
  BY DEF ClaimApply
<1> QED BY <1>2, <1>3, TableTypes DEF TablesTyped

\* The values of an error-free preview are values of the file.
LEMMA ApplyTyped ==
  ASSUME Inv, NEW w \in Worker, NEW t \in worker[w].todo, Apply(w, t)
  PROVE  TablesTyped
<1>1. TypeOK /\ UNCHANGED <<chunk, rows>>
  BY DEF Inv, Apply
<1>2. PICK b \in Batch : b = t.b
  BY <1>1, Types DEF WorkerState, Listed
<1>3. Sound(b)
  BY DEF Inv
<1>4. /\ Status(b) = "APPLYING" /\ public' = [public EXCEPT ![b] = <<rows[b]>>]
  BY <1>2, ApplyWrites
<1>5. PICK x \in BatchRow : batch' = [batch EXCEPT ![b] = x]
  BY <1>2, ApplyWrites
<1>6. batch' \in [Batch -> BatchRow]
  BY <1>1, <1>5, BatchWrite
<1>7. public' \in [Batch -> Seq(Preview)]
  <2>1. <<rows[b]>> \in Seq(Preview)
    BY <1>1, TableTypes
  <2> QED BY <1>1, <1>4, <2>1, TableTypes
<1>8. ASSUME NEW n \in Chunk PROVE file[b][n] \in Value
  <2>1. rows[b][n] # None /\ rows[b][n].action # "ERROR"
    BY <1>3, <1>4 DEF Sound, Phases
  <2>2. file[b] # Unreadable /\ file[b][n] # "invalid"
    BY <1>3, <2>1 DEF Sound, Previewed
  <2>3. file[b] \in [Chunk -> Value \cup {"invalid"}]
    BY <1>1, <2>2, ImportConstants DEF TypeOK
  <2> QED BY <2>2, <2>3
<1>9. master' \in Snapshot
  <2>1. master' = [n \in Chunk |-> IF rows[b][n].action = "SKIP" THEN master[n] ELSE file[b][n]]
    BY <1>2 DEF Apply
  <2> QED BY <1>1, <1>8, <2>1, TableTypes DEF Snapshot, MasterValue
<1> QED BY <1>1, <1>6, <1>7, <1>9, TableTypes DEF TablesTyped

LEMMA ThinksTyped ==
  ASSUME TypeOK, NEW w \in Worker, Thinks(w)
  PROVE  TablesTyped /\ UNCHANGED world
  BY ThinkingWritesNoTable, TableTypes DEF TablesTyped

LEMMA WritesTyped ==
  ASSUME Inv, NEW w \in Worker, NEW t \in worker[w].todo,
         \/ ConfirmUpload(w, t) \/ FailUpload(w, t) \/ ClaimChunk(w, t) \/ Completing(w, t)
         \/ FailChunk(w, t) \/ ClaimApply(w, t) \/ Apply(w, t)
  PROVE  TablesTyped /\ UNCHANGED world
<1>1. TypeOK
  BY DEF Inv
<1>2. UNCHANGED world
  BY DEF ConfirmUpload, FailUpload, ClaimChunk, Completing, FailChunk, ClaimApply, Apply
<1> QED BY <1>1, <1>2, UploadTyped, ClaimChunkTyped, CompletingTyped, FailChunkTyped,
           ClaimApplyTyped, ApplyTyped

LEMMA InitInv == Init => Inv
<1> SUFFICES ASSUME Init PROVE Inv
  OBVIOUS
<1>1. /\ \A b \in Batch : batch[b] = NewBatch /\ rows[b] = NoRows /\ public[b] = <<>>
      /\ \A c \in ChunkId : chunk[c] = NewChunk
      /\ \A b \in Batch : screen[b] = [saw |-> "nothing", rows |-> NoRows]
      /\ \A w \in Worker : worker[w] = Idle
  BY DEF Init
<1>2. NewBatch \in BatchRow /\ NewBatch.status = "NONE" /\ NewBatch.confirmed = FALSE
  BY DEF NewBatch, BatchRow, BatchStatus, Timers
<1>3. NewChunk \in ChunkRow /\ NewChunk.status = "NONE"
  BY DEF NewChunk, ChunkRow, ChunkStatus, Timers
<1>4. NoRows \in Preview /\ \A n \in Chunk : NoRows[n] = None
  BY DEF NoRows, Preview
<1>5. TypeOK
  <2>1. /\ batch \in [Batch -> BatchRow] /\ chunk \in [ChunkId -> ChunkRow]
        /\ worker \in [Worker -> WorkerState]
    BY <1>2, <1>3, IdleType DEF Init
  <2>2. rows \in [Batch -> Preview] /\ public \in [Batch -> Seq(Preview)]
    BY <1>4 DEF Init
  <2>3. screen \in [Batch -> [saw : {"nothing", "VALIDATED", "FAILED", "preview", "errors"},
                              rows : Preview]]
    BY <1>4 DEF Init
  <2>4. master \in [Chunk -> MasterValue]
    BY ImportConstants DEF Init, MasterValue
  <2>5. /\ snapshot \in [Batch -> [Chunk -> MasterValue] \cup {None}]
        /\ stored \in SUBSET Batch /\ file \in [Batch -> Files] /\ faults \in Nat
    BY DEF Init
  <2> QED BY <2>1, <2>2, <2>3, <2>4, <2>5 DEF TypeOK, BatchRow, ChunkRow, Listed, WorkerState
<1>6. ASSUME NEW b \in Batch PROVE Sound(b)
  <2>1. \A p \in Phase, n \in Chunk : chunk[<<b, p, n>>].status = "NONE"
    BY <1>1, <1>3 DEF ChunkId
  <2>2. Status(b) = "NONE" /\ batch[b].confirmed = FALSE
    BY <1>1, <1>2 DEF Status
  <2>3. \A n \in Chunk : rows[b][n] = None
    BY <1>1, <1>4
  <2>4. Chunks(b) /\ Previewed(b)
    BY <2>1, <2>3 DEF Chunks, Previewed, Unfinished
  <2>5. Phases(b)
    BY <2>1, <2>2 DEF Phases, Phase
  <2>6. Shown(b)
    BY <1>1, <2>2 DEF Shown
  <2> QED BY <2>4, <2>5, <2>6 DEF Sound
<1>7. ASSUME NEW w \in Worker PROVE Working(w)
  BY <1>1 DEF Working, Idle
<1> QED BY <1>5, <1>6, <1>7 DEF Inv

LEMMA FaultsType ==
  ASSUME TypeOK, [Next]_vars
  PROVE  faults' \in Nat
<1>1. faults \in Nat
  BY DEF TypeOK
<1> DEFINE Counted == faults' = faults \/ faults' = faults + 1
<1> SUFFICES Counted
  BY <1>1
<1>2. CASE UNCHANGED vars
  BY <1>2 DEF vars
<1>3. ASSUME NEW b \in Batch,
             \/ Start(b) \/ Upload(b) \/ UploadExpires(b) \/ SeeStatus(b) \/ LoadRows(b)
             \/ Confirm(b) \/ Cancel(b)
      PROVE  Counted
  BY <1>3 DEF Start, Upload, UploadExpires, SeeStatus, LoadRows, Confirm, Cancel
<1>4. CASE TimerEnds \/ LeaseOverrun
  BY <1>4 DEF TimerEnds, LeaseOverrun
<1>5. ASSUME NEW w \in Worker, Thinks(w) PROVE Counted
  BY <1>5 DEF Thinks, PollList, EdgeStart, Leaves, UploadRefused, NothingToClaim, TakePreview,
              WorkFails, CompletionRefused, NoApply, ApplyRaises, Crash
<1>6. ASSUME NEW w \in Worker, NEW t \in worker[w].todo,
             \/ ConfirmUpload(w, t) \/ FailUpload(w, t) \/ ClaimChunk(w, t) \/ Completing(w, t)
             \/ FailChunk(w, t) \/ ClaimApply(w, t) \/ Apply(w, t)
      PROVE  Counted
  BY <1>6 DEF ConfirmUpload, FailUpload, ClaimChunk, Completing, CompleteChunk,
              CompletionUnheard, FailChunk, ClaimApply, Apply
<1> HIDE DEF Counted
<1> QED BY <1>2, <1>3, <1>4, <1>5, <1>6, StepCases

LEMMA TypePreserved ==
  ASSUME Inv, [Next]_vars
  PROVE  TypeOK' /\ (\A w \in Worker : Working(w)')
<1>1. TypeOK /\ faults' \in Nat
  BY FaultsType DEF Inv
<1>2. ASSUME TablesTyped, Freezes, stored' \in SUBSET Batch, file' = file,
             screen' \in [Batch -> ScreenRow], worker' \in [Worker -> WorkerState]
      PROVE  TypeOK'
  BY <1>1, <1>2, TypeKept DEF TablesTyped, Freezes, Snapshot, ScreenRow
<1>3. ASSUME UNCHANGED <<snapshot, worker>>
      PROVE  Freezes /\ worker' \in [Worker -> WorkerState] /\ \A w \in Worker : Working(w)'
  <2>1. Freezes /\ worker \in [Worker -> WorkerState]
    BY <1>1, <1>3, SnapshotUnchanged, Types
  <2>2. ASSUME NEW w \in Worker PROVE Working(w)'
    BY <1>3, <2>1, WorkingKept DEF Inv, WorkerState
  <2> QED BY <1>3, <2>1, <2>2
<1>4. CASE UNCHANGED vars
  BY <1>1, <1>3, <1>4, TableTypes DEF vars, tables, world, TypeOK
<1>5. ASSUME NEW b \in Batch,
             \/ Start(b) \/ Upload(b) \/ UploadExpires(b) \/ SeeStatus(b) \/ LoadRows(b)
             \/ Confirm(b) \/ Cancel(b)
      PROVE  TypeOK' /\ \A w \in Worker : Working(w)'
  <2>1. UNCHANGED <<snapshot, file, worker>>
    BY <1>5 DEF Start, Upload, UploadExpires, SeeStatus, LoadRows, Confirm, Cancel, tables, world
  <2> QED BY <1>1, <1>2, <1>3, <1>5, <2>1, UserTyped
<1>6. CASE TimerEnds \/ LeaseOverrun
  <2>1. UNCHANGED <<snapshot, world, worker>>
    BY <1>6 DEF TimerEnds, LeaseOverrun
  <2>2. TablesTyped
    BY <1>1, <1>6, TimerTyped
  <2> QED BY <1>1, <1>2, <1>3, <2>1, <2>2, TableTypes DEF world
<1>7. ASSUME NEW w \in Worker, Moves(w), Freezes, TablesTyped, UNCHANGED world
      PROVE  TypeOK' /\ \A v \in Worker : Working(v)'
  BY <1>1, <1>2, <1>7, MovesType, MovesWorking, TableTypes DEF world
<1>8. ASSUME NEW w \in Worker, Thinks(w)
      PROVE  TypeOK' /\ \A v \in Worker : Working(v)'
  BY <1>1, <1>7, <1>8, ThinksMoves, ThinksTyped
<1>9. ASSUME NEW w \in Worker, NEW t \in worker[w].todo,
             \/ ConfirmUpload(w, t) \/ FailUpload(w, t) \/ ClaimChunk(w, t) \/ Completing(w, t)
             \/ FailChunk(w, t) \/ ClaimApply(w, t) \/ Apply(w, t)
      PROVE  TypeOK' /\ \A v \in Worker : Working(v)'
  <2>1. Moves(w) /\ Freezes /\ TablesTyped /\ UNCHANGED world
    BY <1>9, WritesMoves, WritesTyped
  <2> QED BY <1>7, <2>1
<1> QED BY <1>4, <1>5, <1>6, <1>8, <1>9, StepCases

LEMMA InvPreserved == Inv /\ [Next]_vars => Inv'
<1> SUFFICES ASSUME Inv, [Next]_vars PROVE Inv'
  OBVIOUS
<1>1. \A b \in Batch : Sound(b)'
  BY SoundPreserved
<1> QED BY <1>1, TypePreserved DEF Inv

(* The inductive invariant: tables, screens and workers fit together in    *)
(* every state, whatever crashes, runs late or is cancelled.               *)
THEOREM Invariance == Spec => []Inv
BY InitInv, InvPreserved, PTL DEF Spec

(* The tables, screens and workers keep their types; so nothing but values *)
(* of the uploaded files ever reaches the master data.                     *)
THEOREM TypeCorrect == Spec => []TypeOK
<1>1. Inv => TypeOK
  BY DEF Inv
<1> QED BY <1>1, Invariance, PTL

(* The phases end in order and completely, for every number of batches,    *)
(* chunks and workers, and whatever leases run out.                        *)
THEOREM PhasesInOrder == Spec => []PhasesComplete
<1>1. Inv => PhasesComplete
  BY SoundSplit DEF Inv
<1> QED BY <1>1, Invariance, PTL

(* What is published of a batch is one preview, the one its user had on    *)
(* the screen and confirmed.                                               *)
THEOREM PublishedSafe == Spec => []PublishedAsShown
<1>1. Inv => PublishedAsShown
  BY SoundSplit DEF Inv
<1> QED BY <1>1, Invariance, PTL

-----------------------------------------------------------------------------
(* DurableImport implements ImportPromise.                                 *)

\* What a status is to the user who was promised something.
Outcome(s) ==
  CASE s = "APPLIED" -> "published"
    [] s = "FAILED" -> "failed"
    [] s = "CANCELLED" -> "cancelled"
    [] OTHER -> "open"
ShownOf(b) == IF batch[b].confirmed THEN {screen[b].rows} ELSE {}

OutcomeBar == [b \in Batch |-> Outcome(Status(b))]
ShownBar == [b \in Batch |-> ShownOf(b)]
promised == <<OutcomeBar, ShownBar, public>>

LEMMA BarInit == OutcomeBar = [b \in Batch |-> "open"] /\ ShownBar = [b \in Batch |-> {}]
                   /\ public = [b \in Batch |-> <<>>] => Promise!Init
  BY DEF Promise!Init, OutcomeBar, ShownBar, ShownOf, Outcome

LEMMA BarConfirm ==
  ASSUME NEW b \in Batch, NEW p \in Preview, OutcomeBar[b] = "open",
         ShownBar' = [ShownBar EXCEPT ![b] = ShownBar[b] \cup {p}],
         OutcomeBar' = OutcomeBar, public' = public
  PROVE  Promise!Next
<1>1. Promise!Confirm(b)
  BY DEF Promise!Confirm, OutcomeBar, ShownBar, ShownOf, Outcome
<1> QED BY <1>1 DEF Promise!Next

LEMMA BarPublish ==
  ASSUME NEW b \in Batch, OutcomeBar[b] = "open",
         OutcomeBar' = [OutcomeBar EXCEPT ![b] = "published"],
         NEW p \in ShownBar[b], public' = [public EXCEPT ![b] = <<p>>], ShownBar' = ShownBar
  PROVE  Promise!Next
<1>1. Promise!Publish(b)
  BY DEF Promise!Publish, OutcomeBar, ShownBar, ShownOf, Outcome
<1> QED BY <1>1 DEF Promise!Next

LEMMA BarEnd ==
  ASSUME NEW b \in Batch, NEW o,
         \/ o = "failed" /\ OutcomeBar[b] = "open"
         \/ o = "cancelled" /\ OutcomeBar[b] \in {"open", "failed"},
         OutcomeBar' = [OutcomeBar EXCEPT ![b] = o], ShownBar' = ShownBar, public' = public
  PROVE  Promise!Next
<1>1. CASE o = "failed"
  <2>1. Promise!Fail(b)
    BY <1>1 DEF Promise!Fail, OutcomeBar, ShownBar, ShownOf, Outcome
  <2> QED BY <2>1 DEF Promise!Next
<1>2. CASE o = "cancelled"
  <2>1. Promise!Cancel(b)
    BY <1>2 DEF Promise!Cancel, OutcomeBar, ShownBar, ShownOf, Outcome
  <2> QED BY <2>1 DEF Promise!Next
<1> QED BY <1>1, <1>2

\* Nothing of it happens to what was promised ...
LEMMA BarKept ==
  ASSUME \A a \in Batch : Outcome(Status(a))' = Outcome(Status(a)) /\ ShownOf(a)' = ShownOf(a),
         public' = public
  PROVE  UNCHANGED promised
  BY DEF promised, OutcomeBar, ShownBar

\* ... and the batch of a step takes status s, which may be the end of it.
BecomesOf(b, s) ==
  /\ \A a \in Batch : /\ Status(a)' = IF a = b THEN s ELSE Status(a)
                      /\ batch'[a].confirmed = batch[a].confirmed
  /\ \/ Outcome(s) = Outcome(Status(b))
     \/ s = "FAILED" /\ Outcome(Status(b)) = "open"
     \/ s = "CANCELLED" /\ Outcome(Status(b)) \in {"open", "failed"}

LEMMA BarBecomes ==
  ASSUME NEW b \in Batch, NEW s, BecomesOf(b, s), UNCHANGED <<public, screen>>
  PROVE  [Promise!Next]_promised
<1>1. \A a \in Batch : ShownOf(a)' = ShownOf(a)
  BY DEF BecomesOf, ShownOf
<1>2. ShownBar' = ShownBar
  BY <1>1 DEF ShownBar
<1>3. \A a \in Batch : Outcome(Status(a))' = IF a = b THEN Outcome(s) ELSE Outcome(Status(a))
  BY DEF BecomesOf, Outcome
<1>4. OutcomeBar' = [OutcomeBar EXCEPT ![b] = Outcome(s)]
  BY <1>3 DEF OutcomeBar
<1>5. OutcomeBar[b] = Outcome(Status(b))
  BY DEF OutcomeBar
<1>6. CASE Outcome(s) = Outcome(Status(b))
  <2>1. UNCHANGED promised
    BY <1>1, <1>3, <1>6, BarKept
  <2> QED BY <2>1
<1>7. CASE s = "FAILED" /\ Outcome(Status(b)) = "open"
  <2>1. Outcome(s) = "failed"
    BY <1>7 DEF Outcome
  <2> QED BY <1>2, <1>4, <1>5, <1>7, <2>1, BarEnd
<1>8. CASE s = "CANCELLED" /\ Outcome(Status(b)) \in {"open", "failed"}
  <2>1. Outcome(s) = "cancelled"
    BY <1>8 DEF Outcome
  <2> QED BY <1>2, <1>4, <1>5, <1>8, <2>1, BarEnd
<1> QED BY <1>6, <1>7, <1>8 DEF BecomesOf

LEMMA Becomes ==
  ASSUME TypeOK, NEW b \in Batch, NEW s, batch' = [batch EXCEPT ![b].status = s],
         \/ Outcome(s) = Outcome(Status(b))
         \/ s = "FAILED" /\ Outcome(Status(b)) = "open"
         \/ s = "CANCELLED" /\ Outcome(Status(b)) \in {"open", "failed"},
         UNCHANGED <<public, screen>>
  PROVE  [Promise!Next]_promised
<1>1. BecomesOf(b, s)
  BY StatusFields DEF BecomesOf
<1> QED BY <1>1, BarBecomes

LEMMA BatchKept ==
  ASSUME \A a \in Batch : /\ batch'[a].status = batch[a].status
                          /\ batch'[a].confirmed = batch[a].confirmed,
         UNCHANGED <<public, screen>>
  PROVE  UNCHANGED promised
<1>1. \A a \in Batch : Outcome(Status(a))' = Outcome(Status(a)) /\ ShownOf(a)' = ShownOf(a)
  BY DEF Outcome, Status, ShownOf
<1> QED BY <1>1, BarKept

LEMMA UserImplements ==
  ASSUME Inv, NEW b \in Batch,
         \/ Start(b) \/ Upload(b) \/ UploadExpires(b) \/ SeeStatus(b) \/ LoadRows(b)
         \/ Confirm(b) \/ Cancel(b)
  PROVE  [Promise!Next]_promised
<1>1. TypeOK /\ Sound(b) /\ batch \in [Batch -> BatchRow] /\ screen \in [Batch -> ScreenRow]
  BY TableTypes DEF Inv
<1>2. CASE Start(b)
  <2>1. /\ Status(b) = "NONE" /\ batch' = [batch EXCEPT ![b].status = "AWAITING_UPLOAD"]
        /\ UNCHANGED <<public, screen>>
    BY <1>2 DEF Start, world
  <2>2. Outcome("AWAITING_UPLOAD") = Outcome(Status(b))
    BY <2>1 DEF Outcome
  <2> QED BY <1>1, <2>1, <2>2, Becomes
<1>3. CASE Upload(b)
  BY <1>3, BatchKept DEF Upload, tables
<1>4. CASE UploadExpires(b)
  <2>1. UNCHANGED <<public, screen>> /\ batch' = [batch EXCEPT ![b].late = TRUE]
    BY <1>4 DEF UploadExpires, world
  <2>2. \A a \in Batch : batch'[a].status = batch[a].status /\ batch'[a].confirmed = batch[a].confirmed
    BY <1>1, <2>1 DEF BatchRow
  <2> QED BY <2>1, <2>2, BatchKept
<1>5. CASE SeeStatus(b) \/ LoadRows(b)
  <2>1. UNCHANGED <<batch, public>> /\ screen[b].saw # "preview"
    BY <1>5 DEF SeeStatus, LoadRows, tables
  <2>2. ~batch[b].confirmed
    BY <1>1, <2>1 DEF Sound, Shown
  <2>3. \A a \in Batch : a # b => screen'[a] = screen[a]
    BY <1>1, <1>5 DEF SeeStatus, LoadRows
  <2>4. \A a \in Batch : Outcome(Status(a))' = Outcome(Status(a)) /\ ShownOf(a)' = ShownOf(a)
    BY <2>1, <2>2, <2>3 DEF Outcome, Status, ShownOf
  <2> QED BY <2>1, <2>4, BarKept
<1>6. CASE Confirm(b)
  <2> DEFINE p == screen[b].rows
  <2>1. UNCHANGED <<public, screen>> /\ batch' = [batch EXCEPT ![b].confirmed = TRUE]
    BY <1>6 DEF Confirm, world
  <2>2. Status(b) = "VALIDATED"
    BY <1>6 DEF Confirm
  <2>3. screen[b] \in ScreenRow
    BY <1>1
  <2>4. p \in Preview
    BY <2>3 DEF ScreenRow
  <2>5. \A a \in Batch : /\ batch'[a].status = batch[a].status
                         /\ batch'[a].confirmed = (a = b \/ batch[a].confirmed)
    <3> DEFINE x == [batch[b] EXCEPT !.confirmed = TRUE]
    <3>1. \A a \in Batch : batch'[a] = IF a = b THEN x ELSE batch[a]
      BY <1>1, <2>1
    <3>2. batch[b] \in BatchRow
      BY <1>1
    <3>3. x.status = batch[b].status /\ x.confirmed = TRUE
      BY <3>2 DEF BatchRow
    <3>4. \A a \in Batch : batch[a].confirmed \in BOOLEAN
      BY <1>1 DEF BatchRow
    <3> HIDE DEF x
    <3> QED BY <3>1, <3>3, <3>4
  <2>6. \A a \in Batch : ShownOf(a)' = IF a = b THEN {p} ELSE ShownOf(a)
    <3>1. ShownOf(b)' = {p}
      BY <2>1, <2>5 DEF ShownOf
    <3>2. ASSUME NEW a \in Batch, a # b PROVE ShownOf(a)' = ShownOf(a)
      <4>1. batch[a].confirmed \in BOOLEAN
        BY <1>1 DEF BatchRow
      <4>2. batch'[a].confirmed = batch[a].confirmed
        BY <2>5, <3>2, <4>1
      <4> QED BY <2>1, <4>2 DEF ShownOf
    <3> QED BY <3>1, <3>2
  <2>7. ShownOf(b) \subseteq {p}
    BY DEF ShownOf
  <2> HIDE DEF p
  <2>8. ShownBar' = [ShownBar EXCEPT ![b] = ShownBar[b] \cup {p}]
    BY <2>6, <2>7 DEF ShownBar
  <2>9. \A a \in Batch : Outcome(Status(a))' = Outcome(Status(a))
    BY <2>5 DEF Outcome, Status
  <2>10. OutcomeBar' = OutcomeBar /\ OutcomeBar[b] = "open"
    BY <2>2, <2>9 DEF OutcomeBar, Outcome
  <2>11. Promise!Next
    BY <2>1, <2>4, <2>8, <2>10, BarConfirm
  <2> QED BY <2>11
<1>7. CASE Cancel(b)
  <2>1. /\ Status(b) \notin {"NONE", "APPLIED", "CANCELLED"}
        /\ batch' = [batch EXCEPT ![b].status = "CANCELLED"] /\ UNCHANGED <<public, screen>>
    BY <1>7 DEF Cancel, world
  <2>2. Outcome(Status(b)) \in {"open", "failed"}
    BY <2>1 DEF Outcome
  <2> QED BY <1>1, <2>1, <2>2, Becomes
<1> QED BY <1>2, <1>3, <1>4, <1>5, <1>6, <1>7

LEMMA TimerImplements ==
  ASSUME Inv, TimerEnds \/ LeaseOverrun
  PROVE  UNCHANGED promised
<1>1. TypeOK /\ UNCHANGED <<public, screen>>
  BY DEF Inv, TimerEnds, LeaseOverrun, world
<1>2. batch' = batch \/ \E b \in Batch : batch' = [batch EXCEPT ![b].timer = "ended"]
  BY DEF TimerEnds, LeaseOverrun
<1>3. \A a \in Batch : batch'[a].status = batch[a].status /\ batch'[a].confirmed = batch[a].confirmed
  BY <1>1, <1>2, Types DEF BatchRow
<1> QED BY <1>1, <1>3, BatchKept

\* The worker steps that give a batch another status.
LEMMA UploadImplements ==
  ASSUME Inv, NEW w \in Worker, NEW t \in worker[w].todo, ConfirmUpload(w, t) \/ FailUpload(w, t)
  PROVE  [Promise!Next]_promised
<1>1. TypeOK /\ UNCHANGED <<public, screen>>
  BY DEF Inv, ConfirmUpload, FailUpload, world
<1>2. PICK b \in Batch : b = t.b
  BY <1>1, Types DEF WorkerState, Listed
<1>3. CASE UNCHANGED batch
  BY <1>1, <1>3, BatchKept
<1>4. CASE ~UNCHANGED batch
  <2>1. PICK s \in {"UPLOADED", "FAILED"} :
          Status(b) = "AWAITING_UPLOAD" /\ batch' = [batch EXCEPT ![b].status = s]
    BY <1>2, <1>4 DEF ConfirmUpload, FailUpload
  <2>2. Outcome(Status(b)) = "open" /\ Outcome("UPLOADED") = "open"
    BY <2>1 DEF Outcome
  <2> QED BY <1>1, <2>1, <2>2, Becomes
<1> QED BY <1>3, <1>4

LEMMA ClaimChunkImplements ==
  ASSUME Inv, NEW w \in Worker, NEW t \in worker[w].todo, ClaimChunk(w, t)
  PROVE  [Promise!Next]_promised
<1>1. TypeOK /\ UNCHANGED <<public, screen>>
  BY DEF Inv, ClaimChunk, world
<1>2. PICK b \in Batch : b = t.b
  BY <1>1, Types DEF WorkerState, Listed
<1>3. PICK s \in {"PARSING", "VALIDATING"} : batch' = [batch EXCEPT ![b].status = s]
  BY <1>2 DEF ClaimChunk
<1>4. Status(b) \in {"UPLOADED", "PARSING", "VALIDATING"}
  BY <1>2 DEF ClaimChunk, ToClaim, ClaimableIn
<1>5. Outcome(s) = Outcome(Status(b))
  BY <1>3, <1>4 DEF Outcome
<1> QED BY <1>1, <1>3, <1>5, Becomes

LEMMA CompletingImplements ==
  ASSUME Inv, NEW w \in Worker, NEW t \in worker[w].todo, Completing(w, t)
  PROVE  [Promise!Next]_promised
<1>1. TypeOK /\ UNCHANGED <<public, screen>>
  BY DEF Inv, Completing, CompleteTx, world
<1>2. PICK b \in Batch, p \in Phase, m \in Chunk : b = t.b /\ Completes(b, p, m)
  BY CompletingWrites
<1>3. Status(b) \notin Terminal
  BY <1>2 DEF Completing, CompleteTx
<1>4. PICK s : /\ batch' = [batch EXCEPT ![b].status = s]
               /\ s \in {"VALIDATING", "FAILED", "VALIDATED", Status(b)}
  BY <1>2 DEF Completes, StatusAfter
<1>5. Outcome(Status(b)) = "open" /\ (s # "FAILED" => Outcome(s) = "open")
  BY <1>3, <1>4 DEF Outcome, Terminal
<1> QED BY <1>1, <1>4, <1>5, Becomes

LEMMA FailChunkImplements ==
  ASSUME Inv, NEW w \in Worker, NEW t \in worker[w].todo, FailChunk(w, t)
  PROVE  [Promise!Next]_promised
<1>1. TypeOK /\ UNCHANGED <<public, screen>>
  BY DEF Inv, FailChunk, world
<1>2. CASE UNCHANGED batch
  BY <1>1, <1>2, BatchKept
<1>3. CASE ~UNCHANGED batch
  <2>1. /\ HoldsLease(w) /\ IsAt(w, t) /\ worker[w].pc = "fail"
        /\ batch' = [batch EXCEPT ![t.b].status = "FAILED"]
    BY <1>3 DEF FailChunk
  <2>2. t.b \in Batch /\ Status(t.b) \in {"UPLOADED", "PARSING", "VALIDATING", "FAILED"}
    BY <2>1, LeaseHolder
  <2>3. Outcome(Status(t.b)) = "open" \/ Outcome("FAILED") = Outcome(Status(t.b))
    BY <2>2 DEF Outcome
  <2> QED BY <1>1, <2>1, <2>2, <2>3, Becomes
<1> QED BY <1>2, <1>3

LEMMA ClaimApplyImplements ==
  ASSUME Inv, NEW w \in Worker, NEW t \in worker[w].todo, ClaimApply(w, t)
  PROVE  [Promise!Next]_promised
<1>1. TypeOK /\ UNCHANGED <<public, screen>>
  BY DEF Inv, ClaimApply, world
<1>2. PICK b \in Batch : b = t.b
  BY <1>1, Types DEF WorkerState, Listed
<1>3. PICK x \in BatchRow : /\ batch' = [batch EXCEPT ![b] = x]
                            /\ x.confirmed = batch[b].confirmed
                            /\ x.status \in {"APPLYING", "FAILED"}
  BY <1>1, <1>2, ClaimApplyWrites
<1>4. Status(b) \in {"VALIDATED", "APPLYING"}
  BY <1>2 DEF ClaimApply, ApplyLeaseFree
<1>5. ASSUME NEW a \in Batch
      PROVE  /\ Status(a)' = IF a = b THEN x.status ELSE Status(a)
             /\ batch'[a].confirmed = batch[a].confirmed
  BY <1>1, <1>3, ApplyStatusFields
<1>6. Outcome(Status(b)) = "open" /\ (x.status = "APPLYING" => Outcome(x.status) = "open")
  BY <1>4 DEF Outcome
<1>7. BecomesOf(b, x.status)
  BY <1>3, <1>5, <1>6 DEF BecomesOf
<1> QED BY <1>1, <1>7, BarBecomes

LEMMA ApplyImplements ==
  ASSUME Inv, NEW w \in Worker, NEW t \in worker[w].todo, Apply(w, t)
  PROVE  Promise!Next
<1>1. TypeOK /\ UNCHANGED screen
  BY DEF Inv, Apply, world
<1>2. PICK b \in Batch : b = t.b
  BY <1>1, Types DEF WorkerState, Listed
<1>3. /\ Status(b) = "APPLYING" /\ batch[b].confirmed /\ screen[b].rows = rows[b]
      /\ public' = [public EXCEPT ![b] = <<rows[b]>>]
  BY <1>2, ApplyWrites
<1>4. PICK x \in BatchRow : /\ batch' = [batch EXCEPT ![b] = x]
                            /\ x.status = "APPLIED" /\ x.confirmed = batch[b].confirmed
  BY <1>2, ApplyWrites
<1>5. ASSUME NEW a \in Batch
      PROVE  /\ Status(a)' = IF a = b THEN "APPLIED" ELSE Status(a)
             /\ batch'[a].confirmed = batch[a].confirmed
  <2>1. /\ Status(a)' = IF a = b THEN x.status ELSE Status(a)
        /\ batch'[a].confirmed = batch[a].confirmed
    BY <1>1, <1>4, ApplyStatusFields
  <2> QED BY <1>4, <2>1
<1>6. \A a \in Batch : ShownOf(a)' = ShownOf(a)
  BY <1>1, <1>5 DEF ShownOf
<1>7. ShownBar' = ShownBar
  BY <1>6 DEF ShownBar
<1>8. \A a \in Batch : Outcome(Status(a))' = IF a = b THEN "published" ELSE Outcome(Status(a))
  BY <1>5 DEF Outcome
<1>9. OutcomeBar' = [OutcomeBar EXCEPT ![b] = "published"] /\ OutcomeBar[b] = "open"
  BY <1>3, <1>8 DEF OutcomeBar, Outcome
<1>10. rows[b] \in ShownBar[b]
  BY <1>3 DEF ShownBar, ShownOf
<1> QED BY <1>3, <1>7, <1>9, <1>10, BarPublish

LEMMA StepsImplement ==
  ASSUME Inv, [Next]_vars
  PROVE  [Promise!Next]_promised
<1>1. CASE UNCHANGED <<batch, chunk, rows, master, public, world>>
  BY <1>1, BatchKept DEF world
<1>2. ASSUME NEW w \in Worker, NEW t \in worker[w].todo,
             \/ ConfirmUpload(w, t) \/ FailUpload(w, t) \/ ClaimChunk(w, t) \/ Completing(w, t)
             \/ FailChunk(w, t) \/ ClaimApply(w, t) \/ Apply(w, t)
      PROVE  [Promise!Next]_promised
  BY <1>2, UploadImplements, ClaimChunkImplements, CompletingImplements, FailChunkImplements,
     ClaimApplyImplements, ApplyImplements
<1> QED BY <1>1, <1>2, StepCases, ThinkingWritesNoTable, UserImplements, TimerImplements
        DEF vars, tables

LEMMA InitImplements == Init => Promise!Init
<1> SUFFICES ASSUME Init PROVE Promise!Init
  OBVIOUS
<1>1. \A b \in Batch : Status(b) = "NONE" /\ batch[b].confirmed = FALSE
  BY DEF Init, Status, NewBatch
<1>2. OutcomeBar = [b \in Batch |-> "open"] /\ ShownBar = [b \in Batch |-> {}]
  BY <1>1 DEF OutcomeBar, Outcome, ShownBar, ShownOf
<1> QED BY <1>2, BarInit DEF Init

(* The durable import keeps the promise of ImportPromise: a batch is       *)
(* published at most once, in one step, only after somebody confirmed it,  *)
(* and as it was on the screen when it was confirmed.                      *)
THEOREM PromiseKept == Spec => KeepsPromise
<1>1. Inv /\ [Next]_vars => [Promise!Next]_promised
  BY StepsImplement
<1>2. Inv /\ [Next]_vars => [Promise!Next]_(Promise!vars)
  BY <1>1 DEF promised, OutcomeBar, ShownBar, ShownOf, Outcome, Promise!vars
<1> QED BY <1>2, InitImplements, Invariance, PTL DEF Spec, KeepsPromise, Promise!Spec
=============================================================================
