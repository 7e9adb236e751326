--------------------------- MODULE CaptureProofs ---------------------------
(***************************************************************************)
(* Proofs about Capture, for every number of attempts, page loads, chunks, *)
(* requests, sweeps and crashes.                                           *)
(***************************************************************************)
EXTENDS Capture, FiniteSetTheorems, TLAPS

(* The chunk numbers of a recording are finitely many, so counting the     *)
(* rows of a recording yields a number.                                    *)
LEMMA HeldFinite == \A r \in Recs : IsFiniteSet(Held(r))
<1>1. MaxChunks - 1 \in Int
  BY CaptureAssumption
<1>2. IsFiniteSet(Seqs)
  BY <1>1, FS_Interval DEF Seqs
<1>3. \A r \in Recs : Held(r) \subseteq Seqs
  BY DEF Held
<1>4. QED
  BY <1>2, <1>3, FS_Subset

LEMMA HeldCount == \A r \in Recs : Cardinality(Held(r)) \in Nat
BY HeldFinite, FS_CardinalityType

(* What ties the page's variables together: a page without a recording has *)
(* no recorder and no chunks, and a page that waits for an answer waits    *)
(* for the request its place in the uploader calls for.                    *)
PageShape ==
    /\ recorder # "off" \/ seq > 0 \/ up # "off" \/ phase # "idle" => cur \in Recs
    /\ wait # NoReq => /\ cur \in Recs /\ wait.rec = cur
                       /\ \/ up \in {"scan", "resend"} /\ wait.kind = "chunk"
                          \/ up = "complete" /\ wait.kind = "complete"

(* The worker only works for a recording that has a job.                   *)
WorkHasJob == work[1] # None => jobs[work[1]] > 0

Shape == TypeOK /\ PageShape /\ WorkHasJob

LEMMA ShapeInit == Init => Shape
BY CaptureAssumption
   DEF Init, Shape, TypeOK, DbTypes, ServerTypes, PageTypes, UploadTypes,
       IdbTypes, WorldTypes, PageShape, WorkHasJob, NoWork, NoReq, NoReply, None, Empty,
       Contents, States, HealthyStates, OpenStates, Lives, Seqs, NoTotal, Recs

(* What the fields of a request range over.                                *)
LEMMA RequestFields ==
    \A m \in Requests :
        /\ m # NoReq
        /\ m.kind = "chunk" => m.rec \in Recs /\ m.seq \in Seqs /\ m.life \in Lives
        /\ m.kind = "complete" => m.rec \in Recs /\ m.total \in 0 .. MaxChunks
BY DEF Requests, NoReq

(* Writing one cell of a table of chunks leaves a table of chunks.         *)
LEMMA CellUpdate ==
    ASSUME NEW V, NEW f \in [Recs -> [Seqs -> V]],
           NEW r \in Recs, NEW s \in Seqs, NEW v \in V
    PROVE  [f EXCEPT ![r][s] = v] \in [Recs -> [Seqs -> V]]
OBVIOUS

(* The page only posts well-formed requests.                               *)
LEMMA ChunkPosted ==
    \A r \in Recs, s \in Seqs :
        IdbTypes /\ local[r][s] # None => ChunkReq(r, s, local[r][s]) \in Requests
BY DEF IdbTypes, Contents, None, ChunkReq, Requests

LEMMA CompletePosted ==
    \A r \in Recs, t \in 0 .. MaxChunks : CompleteReq(r, t) \in Requests
BY DEF CompleteReq, Requests

(* One step per action: every step keeps the types and the shape.          *)
LEMMA ShapeStep == Shape /\ [Next]_vars => Shape'
<1> SUFFICES ASSUME Shape, [Next]_vars PROVE Shape'
  OBVIOUS
<1> USE DEF Shape, TypeOK, dbVars, diskVars, pageVars, uploadVars, idbVars, envVars
<1>1. CASE StartCapture
  <2>1. ServerTypes' /\ WorldTypes' /\ WorkHasJob'
    BY <1>1 DEF StartCapture, ServerTypes, WorldTypes, WorkHasJob
  <2>2. DbTypes'
    BY <1>1 DEF StartCapture, DbTypes, States, HealthyStates, OpenStates
  <2>3. PageTypes'
    BY <1>1 DEF StartCapture, PageTypes, None
  <2>4. UploadTypes'
    BY <1>1 DEF StartCapture, UploadTypes, NoReq, NoReply
  <2>5. IdbTypes'
    BY <1>1 DEF StartCapture, IdbTypes, NoTotal
  <2>6. PageShape'
    BY <1>1 DEF StartCapture, PageShape, PageTypes, UploadTypes, NoReq, None, Recs
  <2>7. QED
    BY <2>1, <2>2, <2>3, <2>4, <2>5, <2>6
<1>2. CASE RecordChunk
  <2>1. DbTypes' /\ ServerTypes' /\ UploadTypes' /\ IdbTypes' /\ WorldTypes' /\ WorkHasJob'
    BY <1>2 DEF RecordChunk, DbTypes, ServerTypes, UploadTypes, IdbTypes, WorldTypes, WorkHasJob
  <2>2. PageTypes'
    BY <1>2, CaptureAssumption DEF RecordChunk, PageTypes, None
  <2>3. PageShape'
    BY <1>2 DEF RecordChunk, PageShape, PageTypes, UploadTypes, NoReq, None
  <2>4. QED
    BY <2>1, <2>2, <2>3
<1>3. CASE PersistChunk
  <2>1. DbTypes' /\ ServerTypes' /\ UploadTypes' /\ WorldTypes' /\ PageShape' /\ WorkHasJob'
    BY <1>3 DEF PersistChunk, DbTypes, ServerTypes, UploadTypes, WorldTypes, PageShape, WorkHasJob
  <2>2. PageTypes'
    BY <1>3 DEF PersistChunk, PageTypes, None
  <2>3. IdbTypes'
    <3>1. cur \in Recs /\ written \in Seqs /\ life \in Contents
      BY <1>3, CaptureAssumption DEF PersistChunk, PageShape, PageTypes, Contents, Seqs
    <3>2. [local EXCEPT ![cur][written] = life] \in [Recs -> [Seqs -> Contents]]
      BY <3>1, CellUpdate DEF IdbTypes
    <3>3. [acked EXCEPT ![cur][written] = FALSE] \in [Recs -> [Seqs -> BOOLEAN]]
      BY <3>1, CellUpdate DEF IdbTypes
    <3>4. QED
      BY <1>3, <3>2, <3>3 DEF PersistChunk, IdbTypes
  <2>4. QED
    BY <2>1, <2>2, <2>3
<1>4. CASE StopCapture
  <2>1. DbTypes' /\ ServerTypes' /\ UploadTypes' /\ IdbTypes' /\ WorldTypes' /\ WorkHasJob'
    BY <1>4 DEF StopCapture, DbTypes, ServerTypes, UploadTypes, IdbTypes, WorldTypes, WorkHasJob
  <2>2. PageTypes'
    BY <1>4 DEF StopCapture, PageTypes, None
  <2>3. PageShape'
    BY <1>4 DEF StopCapture, PageShape, PageTypes, UploadTypes, NoReq, None
  <2>4. QED
    BY <2>1, <2>2, <2>3
<1>5. CASE DeclareTotal
  <2>1. DbTypes' /\ ServerTypes' /\ WorldTypes' /\ WorkHasJob'
    BY <1>5 DEF DeclareTotal, DbTypes, ServerTypes, WorldTypes, WorkHasJob
  <2>2. PageTypes'
    BY <1>5 DEF DeclareTotal, PageTypes, None
  <2>3. UploadTypes'
    BY <1>5 DEF DeclareTotal, UploadTypes, NoReq, NoReply
  <2>4. IdbTypes'
    BY <1>5, CaptureAssumption DEF DeclareTotal, IdbTypes, NoTotal, PageShape, PageTypes
  <2>5. PageShape'
    BY <1>5 DEF DeclareTotal, PageShape, PageTypes, UploadTypes, NoReq, None
  <2>6. QED
    BY <2>1, <2>2, <2>3, <2>4, <2>5
<1>5a. CASE DrainPipeline
  <2>1. DbTypes' /\ ServerTypes' /\ UploadTypes' /\ IdbTypes' /\ WorldTypes' /\ WorkHasJob'
    BY <1>5a DEF DrainPipeline, DbTypes, ServerTypes, UploadTypes, IdbTypes, WorldTypes,
       WorkHasJob
  <2>2. PageTypes'
    BY <1>5a DEF DrainPipeline, PageTypes, None
  <2>3. PageShape'
    BY <1>5a DEF DrainPipeline, PageShape, PageTypes, UploadTypes, NoReq, None
  <2>4. QED
    BY <2>1, <2>2, <2>3
<1>6. CASE Reload
  <2>1. DbTypes' /\ ServerTypes' /\ IdbTypes' /\ WorldTypes' /\ WorkHasJob'
    BY <1>6 DEF Reload, DbTypes, ServerTypes, IdbTypes, WorldTypes, WorkHasJob
  <2>2. PageTypes'
    BY <1>6, CaptureAssumption DEF Reload, PageTypes, None, Lives
  <2>3. UploadTypes'
    BY <1>6 DEF Reload, UploadTypes, NoReq, NoReply
  <2>4. PageShape'
    BY <1>6 DEF Reload, PageShape, PageTypes, UploadTypes, NoReq, None
  <2>5. QED
    BY <2>1, <2>2, <2>3, <2>4
<1>7. CASE ScanPost
  <2>1. DbTypes' /\ ServerTypes' /\ PageTypes' /\ IdbTypes' /\ WorkHasJob'
    BY <1>7 DEF ScanPost, DbTypes, ServerTypes, PageTypes, IdbTypes, WorkHasJob
  <2>2. UploadTypes'
    BY <1>7, ChunkPosted DEF ScanPost, UploadTypes, NoReq, NoReply, Post, PageIdle,
        Lowest, Pending, PageTypes, IdbTypes
  <2>3. WorldTypes'
    BY <1>7, ChunkPosted DEF ScanPost, WorldTypes, Post, PageIdle, Lowest, Pending,
        PageTypes, IdbTypes
  <2>4. PageShape'
    BY <1>7 DEF ScanPost, PageShape, PageTypes, UploadTypes, NoReq, None, Post,
        PageIdle, ChunkReq
  <2>5. QED
    BY <2>1, <2>2, <2>3, <2>4
<1>8. CASE ScanEmpty
  <2>1. DbTypes' /\ ServerTypes' /\ PageTypes' /\ IdbTypes' /\ WorldTypes' /\ WorkHasJob'
    BY <1>8 DEF ScanEmpty, DbTypes, ServerTypes, PageTypes, IdbTypes, WorldTypes, WorkHasJob
  <2>2. UploadTypes'
    BY <1>8 DEF ScanEmpty, UploadTypes, NoReq, NoReply
  <2>3. PageShape'
    BY <1>8 DEF ScanEmpty, PageShape, PageTypes, UploadTypes, NoReq, None, PageIdle
  <2>4. QED
    BY <2>1, <2>2, <2>3
<1>9. CASE ScanDecide
  <2>1. DbTypes' /\ ServerTypes' /\ PageTypes' /\ IdbTypes' /\ WorldTypes' /\ WorkHasJob'
    BY <1>9 DEF ScanDecide, DbTypes, ServerTypes, PageTypes, IdbTypes, WorldTypes, WorkHasJob
  <2>2. UploadTypes'
    BY <1>9 DEF ScanDecide, UploadTypes, NoReq, NoReply
  <2>3. PageShape'
    BY <1>9 DEF ScanDecide, PageShape, PageTypes, UploadTypes, NoReq, None
  <2>4. QED
    BY <2>1, <2>2, <2>3
<1>10. CASE CompletePost
  <2>1. DbTypes' /\ ServerTypes' /\ PageTypes' /\ IdbTypes' /\ WorkHasJob'
    BY <1>10 DEF CompletePost, DbTypes, ServerTypes, PageTypes, IdbTypes, WorkHasJob
  <2>2. UploadTypes'
    BY <1>10, CompletePosted DEF CompletePost, UploadTypes, NoReq, NoReply, Post,
        PageIdle, PageTypes, IdbTypes, NoTotal
  <2>3. WorldTypes'
    BY <1>10, CompletePosted DEF CompletePost, WorldTypes, Post, PageIdle, PageTypes,
        IdbTypes, NoTotal
  <2>4. PageShape'
    BY <1>10 DEF CompletePost, PageShape, PageTypes, UploadTypes, NoReq, None, Post,
        PageIdle, CompleteReq
  <2>5. QED
    BY <2>1, <2>2, <2>3, <2>4
<1>11. CASE GiveUp
  <2>1. DbTypes' /\ ServerTypes' /\ IdbTypes' /\ WorldTypes' /\ WorkHasJob'
    BY <1>11 DEF GiveUp, DbTypes, ServerTypes, IdbTypes, WorldTypes, WorkHasJob
  <2>2. PageTypes'
    BY <1>11 DEF GiveUp, PageTypes, None
  <2>3. UploadTypes'
    BY <1>11 DEF GiveUp, UploadTypes, NoReq, NoReply
  <2>4. PageShape'
    BY <1>11 DEF GiveUp, PageShape, PageTypes, UploadTypes, NoReq, None, PageIdle
  <2>5. QED
    BY <2>1, <2>2, <2>3, <2>4
<1>12. CASE ResendPost
  <2>1. DbTypes' /\ ServerTypes' /\ PageTypes' /\ IdbTypes' /\ WorkHasJob'
    BY <1>12 DEF ResendPost, DbTypes, ServerTypes, PageTypes, IdbTypes, WorkHasJob
  <2>2. UploadTypes'
    BY <1>12, ChunkPosted DEF ResendPost, UploadTypes, NoReq, NoReply, Post,
        PageIdle, Lowest, PageTypes, IdbTypes
  <2>3. WorldTypes'
    BY <1>12, ChunkPosted DEF ResendPost, WorldTypes, Post, PageIdle, Lowest,
        PageTypes, IdbTypes, UploadTypes
  <2>4. PageShape'
    BY <1>12 DEF ResendPost, PageShape, PageTypes, UploadTypes, NoReq, None, Post,
        PageIdle, ChunkReq
  <2>5. QED
    BY <2>1, <2>2, <2>3, <2>4
<1>13. CASE ResendEnd
  <2>1. DbTypes' /\ ServerTypes' /\ PageTypes' /\ IdbTypes' /\ WorldTypes' /\ WorkHasJob'
    BY <1>13 DEF ResendEnd, DbTypes, ServerTypes, PageTypes, IdbTypes, WorldTypes, WorkHasJob
  <2>2. UploadTypes'
    BY <1>13 DEF ResendEnd, UploadTypes, NoReq, NoReply
  <2>3. PageShape'
    BY <1>13 DEF ResendEnd, PageShape, PageTypes, UploadTypes, NoReq, None, PageIdle
  <2>4. QED
    BY <2>1, <2>2, <2>3
<1>14. CASE ScanReply
  <2>1. DbTypes' /\ ServerTypes' /\ WorldTypes' /\ WorkHasJob'
    BY <1>14 DEF ScanReply, DbTypes, ServerTypes, WorldTypes, WorkHasJob
  <2>2. PageTypes'
    BY <1>14 DEF ScanReply, PageTypes, None
  <2>3. UploadTypes'
    BY <1>14 DEF ScanReply, UploadTypes, NoReq, NoReply
  <2>4. IdbTypes'
    <3>1. cur \in Recs /\ wait.seq \in Seqs /\ wait.life \in Contents
      BY <1>14, RequestFields DEF ScanReply, PageShape, UploadTypes, Contents
    <3>2. ASSUME NEW a \in BOOLEAN, PutBack(a), UNCHANGED idbTotal PROVE IdbTypes'
      BY <3>1, <3>2, CellUpdate DEF PutBack, IdbTypes
    <3>3. QED
      BY <1>14, <3>2 DEF ScanReply, IdbTypes
  <2>5. PageShape'
    BY <1>14 DEF ScanReply, PageShape, PageTypes, UploadTypes, NoReq, None
  <2>6. QED
    BY <2>1, <2>2, <2>3, <2>4, <2>5
<1>15. CASE CompleteReply
  <2>1. DbTypes' /\ ServerTypes' /\ IdbTypes' /\ WorldTypes' /\ WorkHasJob'
    BY <1>15 DEF CompleteReply, DbTypes, ServerTypes, IdbTypes, WorldTypes, WorkHasJob
  <2>2. PageTypes'
    BY <1>15 DEF CompleteReply, PageTypes, None
  <2>3. UploadTypes'
    BY <1>15 DEF CompleteReply, UploadTypes, NoReq, NoReply
  <2>4. PageShape'
    BY <1>15 DEF CompleteReply, PageShape, PageTypes, UploadTypes, NoReq, None
  <2>5. QED
    BY <2>1, <2>2, <2>3, <2>4
<1>16. CASE ResendReply
  <2>1. DbTypes' /\ ServerTypes' /\ WorldTypes' /\ WorkHasJob'
    BY <1>16 DEF ResendReply, DbTypes, ServerTypes, WorldTypes, WorkHasJob
  <2>2. PageTypes'
    BY <1>16 DEF ResendReply, PageTypes, None
  <2>3. UploadTypes'
    BY <1>16 DEF ResendReply, UploadTypes, NoReq, NoReply
  <2>4. IdbTypes'
    <3>1. cur \in Recs /\ wait.seq \in Seqs /\ wait.life \in Contents
      BY <1>16, RequestFields DEF ResendReply, PageShape, UploadTypes, Contents
    <3>2. ASSUME NEW a \in BOOLEAN, PutBack(a), UNCHANGED idbTotal PROVE IdbTypes'
      BY <3>1, <3>2, CellUpdate DEF PutBack, IdbTypes
    <3>3. QED
      BY <1>16, <3>2 DEF ResendReply, IdbTypes
  <2>5. PageShape'
    BY <1>16 DEF ResendReply, PageShape, PageTypes, UploadTypes, NoReq, None
  <2>6. QED
    BY <2>1, <2>2, <2>3, <2>4, <2>5
<1>17. CASE NetworkError
  <2>1. DbTypes' /\ ServerTypes' /\ PageTypes' /\ IdbTypes' /\ WorldTypes' /\ PageShape'
           /\ WorkHasJob'
    BY <1>17 DEF NetworkError, DbTypes, ServerTypes, PageTypes, IdbTypes, WorldTypes,
       PageShape, WorkHasJob
  <2>2. UploadTypes'
    BY <1>17 DEF NetworkError, UploadTypes, NoReq, NoReply
  <2>3. QED
    BY <2>1, <2>2
<1>18. CASE LoseRequest
  <2>1. DbTypes' /\ ServerTypes' /\ PageTypes' /\ UploadTypes' /\ IdbTypes' /\ PageShape'
           /\ WorkHasJob'
    BY <1>18 DEF LoseRequest, DbTypes, ServerTypes, PageTypes, UploadTypes, IdbTypes,
       PageShape, WorkHasJob
  <2>2. WorldTypes'
    BY <1>18 DEF LoseRequest, WorldTypes
  <2>3. QED
    BY <2>1, <2>2
<1>19. CASE LapseLogin
  <2>1. DbTypes' /\ ServerTypes' /\ PageTypes' /\ UploadTypes' /\ IdbTypes' /\ PageShape'
           /\ WorkHasJob'
    BY <1>19 DEF LapseLogin, DbTypes, ServerTypes, PageTypes, UploadTypes, IdbTypes, PageShape,
       WorkHasJob
  <2>2. WorldTypes'
    BY <1>19 DEF LapseLogin, WorldTypes
  <2>3. QED
    BY <2>1, <2>2
<1>20. CASE EndRound
  <2>1. ServerTypes' /\ PageTypes' /\ UploadTypes' /\ IdbTypes' /\ WorldTypes' /\ PageShape'
           /\ WorkHasJob'
    BY <1>20 DEF EndRound, ServerTypes, PageTypes, UploadTypes, IdbTypes, WorldTypes,
       PageShape, WorkHasJob
  <2>2. DbTypes'
    BY <1>20 DEF EndRound, DbTypes
  <2>3. QED
    BY <2>1, <2>2
<1>21. CASE SweepStalledUploads
  <2>1. ServerTypes' /\ PageTypes' /\ UploadTypes' /\ IdbTypes' /\ PageShape' /\ WorkHasJob'
    BY <1>21 DEF SweepStalledUploads, ServerTypes, PageTypes, UploadTypes, IdbTypes, PageShape,
       WorkHasJob
  <2>2. DbTypes'
    BY <1>21 DEF SweepStalledUploads, DbTypes, States, HealthyStates, OpenStates
  <2>3. WorldTypes'
    BY <1>21 DEF SweepStalledUploads, WorldTypes
  <2>4. QED
    BY <2>1, <2>2, <2>3
<1>22. CASE FinalizeRound
  <2>1. PageTypes' /\ UploadTypes' /\ IdbTypes' /\ WorldTypes' /\ PageShape'
    BY <1>22 DEF FinalizeRound, PageTypes, UploadTypes, IdbTypes, WorldTypes, PageShape
  <2>2. DbTypes'
    BY <1>22, HeldCount DEF FinalizeRound, DbTypes, States, HealthyStates, OpenStates
  <2>3. ServerTypes'
    BY <1>22 DEF FinalizeRound, ServerTypes, NoWork, None
  <2>4. WorkHasJob'
    BY <1>22 DEF FinalizeRound, WorkHasJob, DbTypes, ServerTypes, NoWork, None
  <2>5. QED
    BY <2>1, <2>2, <2>3, <2>4
<1>23. CASE SettleJob
  <2>1. PageTypes' /\ UploadTypes' /\ IdbTypes' /\ WorldTypes' /\ PageShape'
    BY <1>23 DEF SettleJob, PageTypes, UploadTypes, IdbTypes, WorldTypes, PageShape
  <2>2. DbTypes'
    <3>1. work = <<work[1], work[2]>> /\ work[1] \in Recs \union {None}
      BY DEF ServerTypes
    <3>2. jobs' \in [Recs -> Nat]
      BY <1>23, <3>1 DEF SettleJob, DbTypes, WorkHasJob, None
    <3>3. round' \in {"active", "finalizing", "over"}
      BY <1>23 DEF SettleJob, DbTypes
    <3>4. QED
      BY <1>23, <3>2, <3>3 DEF SettleJob, DbTypes
  <2>3. ServerTypes'
    BY <1>23 DEF SettleJob, ServerTypes, NoWork, None
  <2>4. WorkHasJob'
    BY <1>23 DEF SettleJob, WorkHasJob, DbTypes, ServerTypes, NoWork, None
  <2>5. QED
    BY <2>1, <2>2, <2>3, <2>4
<1>24. CASE Crash
  <2>1. DbTypes' /\ PageTypes' /\ UploadTypes' /\ IdbTypes' /\ PageShape'
    BY <1>24 DEF Crash, DbTypes, PageTypes, UploadTypes, IdbTypes, PageShape
  <2>2. ServerTypes'
    <3>1. ASSUME NEW m \in net, m.kind = "chunk"
          PROVE  [disk EXCEPT ![m.rec][m.seq] = m.life] \in [Recs -> [Seqs -> Contents]]
      <4>1. m.rec \in Recs /\ m.seq \in Seqs /\ m.life \in Contents
        BY <3>1, RequestFields DEF WorldTypes, Contents
      <4>2. QED
        BY <4>1, CellUpdate DEF ServerTypes
    <3>2. disk' \in [Recs -> [Seqs -> Contents]]
      <4>1. disk' = disk \/ \E m \in net :
              m.kind = "chunk" /\ disk' = [disk EXCEPT ![m.rec][m.seq] = m.life]
        BY <1>24 DEF Crash
      <4>2. CASE disk' = disk
        BY <4>2 DEF ServerTypes
      <4>3. CASE disk' # disk
        <5>1. PICK m \in net : m.kind = "chunk"
                             /\ disk' = [disk EXCEPT ![m.rec][m.seq] = m.life]
          BY <4>1, <4>3
        <5>2. QED
          BY <3>1, <5>1
      <4>4. QED
        BY <4>2, <4>3
    <3>3. QED
      BY <1>24, <3>2 DEF Crash, ServerTypes, NoWork, None
  <2>3. WorldTypes'
    <3>1. net' \subseteq net /\ access' = access /\ sweeps' = sweeps /\ crashes' = crashes + 1
      BY <1>24 DEF Crash
    <3>2. QED
      BY <3>1 DEF WorldTypes
  <2>4. WorkHasJob'
    BY <1>24 DEF Crash, WorkHasJob, DbTypes, ServerTypes, NoWork, None
  <2>5. QED
    BY <2>1, <2>2, <2>3, <2>4
<1>25. ASSUME NEW m \in net, ServeChunk(m) PROVE Shape'
  <2>1. m.rec \in Recs /\ m.seq \in Seqs /\ m.life \in Contents
    BY <1>25, RequestFields DEF ServeChunk, WorldTypes, Contents
  <2>2. PageTypes' /\ IdbTypes' /\ PageShape' /\ WorkHasJob'
    BY <1>25 DEF ServeChunk, PageTypes, IdbTypes, PageShape, WorkHasJob
  <2>3. DbTypes'
    <3>1. rows' = rows \/ rows' = [rows EXCEPT ![m.rec][m.seq] = m.life]
      BY <1>25 DEF ServeChunk
    <3>2. rows' \in [Recs -> [Seqs -> Contents]]
      <4>1. rows \in [Recs -> [Seqs -> Contents]]
        BY DEF DbTypes
      <4>2. [rows EXCEPT ![m.rec][m.seq] = m.life] \in [Recs -> [Seqs -> Contents]]
        BY <2>1, <4>1, CellUpdate
      <4>3. QED
        BY <3>1, <4>1, <4>2
    <3>3. state' = state \/ state' = [state EXCEPT ![m.rec] = Reopened(@)]
      BY <1>25 DEF ServeChunk
    <3>4. state' \in [Recs -> States]
      <4>1. \A st \in States : Reopened(st) \in States
        BY DEF Reopened, States, HealthyStates, OpenStates
      <4>2. state[m.rec] \in States
        BY <2>1 DEF DbTypes
      <4>3. Reopened(state[m.rec]) \in States
        BY <4>1, <4>2
      <4>4. QED
        BY <3>3, <4>3 DEF DbTypes
    <3>5. QED
      BY <1>25, <3>2, <3>4 DEF ServeChunk, DbTypes
  <2>4. ServerTypes'
    <3>1. [disk EXCEPT ![m.rec][m.seq] = m.life] \in [Recs -> [Seqs -> Contents]]
      BY <2>1, CellUpdate DEF ServerTypes
    <3>2. disk' \in [Recs -> [Seqs -> Contents]]
      BY <1>25, <3>1 DEF ServeChunk, ServerTypes
    <3>3. QED
      BY <1>25, <3>2 DEF ServeChunk, ServerTypes
  <2>5. UploadTypes'
    BY <1>25 DEF ServeChunk, UploadTypes, NoReq, NoReply, Answer
  <2>6. WorldTypes'
    BY <1>25 DEF ServeChunk, WorldTypes
  <2>7. QED
    BY <2>2, <2>3, <2>4, <2>5, <2>6
<1>26. ASSUME NEW m \in net, ServeComplete(m) PROVE Shape'
  <2>1. ServerTypes' /\ PageTypes' /\ IdbTypes' /\ PageShape'
    BY <1>26 DEF ServeComplete, ServerTypes, PageTypes, IdbTypes, PageShape
  <2>2. DbTypes'
    <3>1. m.rec \in Recs /\ m.total \in Nat
      BY <1>26, RequestFields, CaptureAssumption DEF ServeComplete, WorldTypes
    <3>2. total' \in [Recs -> Nat]
      BY <1>26, <3>1 DEF ServeComplete, DbTypes
    <3>3. jobs' \in [Recs -> Nat]
      BY <1>26, <3>1 DEF ServeComplete, DbTypes
    <3>4. state' \in [Recs -> States]
      BY <1>26, <3>1 DEF ServeComplete, DbTypes, States, HealthyStates, OpenStates
    <3>5. QED
      BY <1>26, <3>2, <3>3, <3>4 DEF ServeComplete, DbTypes
  <2>3. UploadTypes'
    BY <1>26 DEF ServeComplete, UploadTypes, NoReq, NoReply, Answer, Missing
  <2>4. WorldTypes'
    BY <1>26 DEF ServeComplete, WorldTypes
  <2>5. WorkHasJob'
    BY <1>26 DEF ServeComplete, WorkHasJob, DbTypes, ServerTypes, NoWork, None
  <2>6. QED
    BY <2>1, <2>2, <2>3, <2>4, <2>5
<1>27. ASSUME NEW r \in Recs, AssembleBegin(r) PROVE Shape'
  <2>1. PageTypes' /\ UploadTypes' /\ IdbTypes' /\ WorldTypes' /\ PageShape'
    BY <1>27 DEF AssembleBegin, PageTypes, UploadTypes, IdbTypes, WorldTypes, PageShape
  <2>2. DbTypes'
    BY <1>27 DEF AssembleBegin, DbTypes, States, HealthyStates, OpenStates
  <2>3. ServerTypes'
    BY <1>27 DEF AssembleBegin, ServerTypes, NoWork, None
  <2>4. WorkHasJob'
    BY <1>27 DEF AssembleBegin, WorkHasJob, DbTypes, ServerTypes, NoWork, None
  <2>5. QED
    BY <2>1, <2>2, <2>3, <2>4
<1>28. ASSUME NEW r \in Recs, AssembleFiles(r) PROVE Shape'
  <2>1. PageTypes' /\ UploadTypes' /\ IdbTypes' /\ WorldTypes' /\ PageShape'
    BY <1>28 DEF AssembleFiles, PageTypes, UploadTypes, IdbTypes, WorldTypes, PageShape
  <2>2. DbTypes'
    <3>1. jobs[r] > 0
      BY <1>28 DEF AssembleFiles, WorkHasJob, None, Recs
    <3>2. jobs' \in [Recs -> Nat] /\ failed' \subseteq Recs
      BY <1>28, <3>1 DEF AssembleFiles, DbTypes, RetryOrFail, GiveJobUp
    <3>3. state' \in [Recs -> States]
      BY <1>28 DEF AssembleFiles, DbTypes, States
    <3>4. QED
      BY <1>28, <3>2, <3>3 DEF AssembleFiles, DbTypes
  <2>3. ServerTypes'
    <3>1. canon' \in [Recs -> [Seqs -> Contents]]
      BY <1>28 DEF AssembleFiles, ServerTypes, DbTypes
    <3>2. disk' \in [Recs -> [Seqs -> Contents]]
      BY <1>28 DEF AssembleFiles, ServerTypes, Contents
    <3>3. work' \in (Recs \union {None}) \X {"idle", "settle", "files", "commit"}
      BY <1>28 DEF AssembleFiles, NoWork, None
    <3>4. QED
      BY <3>1, <3>2, <3>3 DEF ServerTypes
  <2>4. WorkHasJob'
    BY <1>28 DEF AssembleFiles, WorkHasJob, DbTypes, ServerTypes, NoWork, None
  <2>5. QED
    BY <2>1, <2>2, <2>3, <2>4
<1>29. ASSUME NEW r \in Recs, AssembleCommit(r) PROVE Shape'
  <2>1. PageTypes' /\ UploadTypes' /\ IdbTypes' /\ WorldTypes' /\ PageShape'
    BY <1>29 DEF AssembleCommit, PageTypes, UploadTypes, IdbTypes, WorldTypes, PageShape
  <2>2. DbTypes'
    BY <1>29 DEF AssembleCommit, DbTypes, Empty, Contents, States, HealthyStates
  <2>3. ServerTypes'
    BY <1>29 DEF AssembleCommit, ServerTypes, NoWork, None
  <2>4. WorkHasJob'
    BY <1>29 DEF AssembleCommit, WorkHasJob, DbTypes, ServerTypes, NoWork, None
  <2>5. QED
    BY <2>1, <2>2, <2>3, <2>4
<1>29a. ASSUME NEW r \in Recs, AssemblyRaises(r) PROVE Shape'
  <2>1. PageTypes' /\ UploadTypes' /\ IdbTypes' /\ WorldTypes' /\ PageShape'
    BY <1>29a DEF AssemblyRaises, PageTypes, UploadTypes, IdbTypes, WorldTypes, PageShape
  <2>2. jobs[r] > 0
    BY <1>29a DEF AssemblyRaises, WorkHasJob, None, Recs
  <2>3. DbTypes'
    BY <1>29a, <2>2 DEF AssemblyRaises, DbTypes, RetryOrFail, GiveJobUp
  <2>4. ServerTypes' /\ WorkHasJob'
    BY <1>29a DEF AssemblyRaises, ServerTypes, WorkHasJob, NoWork, None
  <2>5. QED
    BY <2>1, <2>3, <2>4
<1>30. CASE UNCHANGED vars
  BY <1>30 DEF vars, DbTypes, ServerTypes, PageTypes, UploadTypes, IdbTypes, WorldTypes,
     PageShape, WorkHasJob
<1>31. QED
  BY <1>1, <1>2, <1>3, <1>4, <1>5, <1>5a, <1>6, <1>7, <1>8, <1>9, <1>10, <1>11, <1>12, <1>13,
     <1>14, <1>15, <1>16, <1>17, <1>18, <1>19, <1>20, <1>21, <1>22, <1>23, <1>24, <1>25,
     <1>26, <1>27, <1>28, <1>29, <1>29a, <1>30 DEF Next, Page, Uploader, Network, Server, Worker

(* Types hold in every reachable state.                                    *)
THEOREM TypeCorrect == Spec => []TypeOK
<1>1. Spec => []Shape
  BY ShapeInit, ShapeStep, PTL DEF Spec
<1>2. Shape => TypeOK
  BY DEF Shape
<1>3. QED
  BY <1>1, <1>2, PTL

-----------------------------------------------------------------------------
(* The server's side.  Most steps belong to the page or to the network and *)
(* leave the database, the disk and the worker alone.                      *)
JobRaises == \E r \in Recs : AssemblyRaises(r)

ServerStep ==
    \/ StartCapture
    \/ \E m \in net : ServeChunk(m) \/ ServeComplete(m)
    \/ SweepStalledUploads \/ FinalizeRound \/ SettleJob \/ Crash \/ JobRaises
    \/ \E r \in Recs : AssembleBegin(r) \/ AssembleFiles(r) \/ AssembleCommit(r)

LEMMA ServerStepOrFrame ==
    [Next]_vars => ServerStep \/ UNCHANGED <<state, total, rows, disk, canon, work>>
BY DEF Next, vars, Page, Uploader, Network, Server, Worker, ServerStep, JobRaises, dbVars,
       diskVars, DrainPipeline,
       RecordChunk, PersistChunk, StopCapture, DeclareTotal, Reload, ScanPost, ScanEmpty,
       ScanDecide, CompletePost, GiveUp, ResendPost, ResendEnd, ScanReply, CompleteReply,
       ResendReply, NetworkError, LoseRequest, LapseLogin, EndRound

(* While the worker holds a recording in assembly the recording stays in   *)
(* assembly with every chunk there, and the file it has written holds them.*)
WorkerHolds ==
    \A r \in Recs :
        /\ work = <<r, "files">> \/ work = <<r, "commit">> =>
               state[r] = "ASSEMBLING" /\ Missing(r, total[r]) = {}
        /\ work = <<r, "commit">> => canon[r] = rows[r]

(* A request changes nothing of a recording that takes no more chunks.     *)
LEMMA ClosedToRequests ==
    ASSUME Shape, NEW m \in net, ServeChunk(m) \/ ServeComplete(m),
           NEW r \in Recs, state[r] \notin OpenStates \union {"UPLOAD_INCOMPLETE"}
    PROVE  /\ state'[r] = state[r] /\ total'[r] = total[r] /\ rows'[r] = rows[r]
           /\ disk'[r] = disk[r] /\ canon' = canon /\ work' = work
BY DEF ServeChunk, ServeComplete, Accepts, Reopened, OpenStates, Shape, TypeOK, DbTypes,
       ServerTypes, diskVars, dbVars

(* Starting a capture changes the state of a new recording only.           *)
LEMMA StartTouchesNewOnly ==
    ASSUME Shape, StartCapture, NEW r \in Recs, state[r] # "NONE"
    PROVE  state'[r] = state[r]
BY DEF StartCapture, Shape, TypeOK, DbTypes

LEMMA WorkerStep == Shape /\ WorkerHolds /\ [Next]_vars => WorkerHolds'
<1> SUFFICES ASSUME Shape, WorkerHolds, [Next]_vars,
                    NEW r \in Recs, work' = <<r, "files">> \/ work' = <<r, "commit">>
             PROVE  /\ state'[r] = "ASSEMBLING" /\ Missing(r, total[r])' = {}
                    /\ work' = <<r, "commit">> => canon'[r] = rows'[r]
  BY DEF WorkerHolds
<1>1. CASE UNCHANGED <<state, total, rows, disk, canon, work>>
  BY <1>1 DEF WorkerHolds, Missing, Held
<1>2. CASE StartCapture
  BY <1>2, StartTouchesNewOnly DEF StartCapture, WorkerHolds, Missing, Held, diskVars
<1>3. ASSUME NEW m \in net, ServeChunk(m) \/ ServeComplete(m)
      PROVE  /\ state'[r] = "ASSEMBLING" /\ Missing(r, total[r])' = {}
             /\ work' = <<r, "commit">> => canon'[r] = rows'[r]
  <2>1. work' = work
    BY <1>3 DEF ServeChunk, ServeComplete
  <2>2. state[r] = "ASSEMBLING" /\ Missing(r, total[r]) = {}
    BY <2>1 DEF WorkerHolds
  <2>3. /\ state'[r] = state[r] /\ total'[r] = total[r] /\ rows'[r] = rows[r]
        /\ canon' = canon
    BY <1>3, <2>2, ClosedToRequests DEF OpenStates
  <2>4. QED
    BY <2>1, <2>2, <2>3 DEF WorkerHolds, Missing, Held
<1>4. CASE SweepStalledUploads \/ FinalizeRound \/ SettleJob \/ Crash \/ JobRaises
  <2>1. work' = NoWork \/ work' = <<None, "settle">>
    BY <1>4
       DEF SweepStalledUploads, FinalizeRound, SettleJob, Crash, JobRaises,
           AssemblyRaises, diskVars
  <2>2. QED
    BY <2>1 DEF NoWork
<1>5. ASSUME NEW q \in Recs, AssembleBegin(q)
      PROVE  /\ state'[r] = "ASSEMBLING" /\ Missing(r, total[r])' = {}
             /\ work' = <<r, "commit">> => canon'[r] = rows'[r]
  BY <1>5 DEF AssembleBegin, Missing, Held, NoWork, diskVars
<1>6. ASSUME NEW q \in Recs, AssembleFiles(q)
      PROVE  /\ state'[r] = "ASSEMBLING" /\ Missing(r, total[r])' = {}
             /\ work' = <<r, "commit">> => canon'[r] = rows'[r]
  BY <1>6 DEF AssembleFiles, WorkerHolds, Missing, Held, NoWork, Shape, TypeOK, ServerTypes
<1>7. ASSUME NEW q \in Recs, AssembleCommit(q)
      PROVE  /\ state'[r] = "ASSEMBLING" /\ Missing(r, total[r])' = {}
             /\ work' = <<r, "commit">> => canon'[r] = rows'[r]
  BY <1>7 DEF AssembleCommit
<1>8. QED
  BY <1>1, <1>2, <1>3, <1>4, <1>5, <1>6, <1>7, ServerStepOrFrame DEF ServerStep

(* The contents a recording has stored stay stored.                        *)
LEMMA KeptStep ==
    ASSUME Shape, WorkerHolds, [Next]_vars,
           NEW r \in Recs, NEW s \in Seqs, NEW c \in Lives, Stored(r, s, c)
    PROVE  Stored(r, s, c)'
<1>1. CASE UNCHANGED <<state, total, rows, disk, canon, work>>
  BY <1>1 DEF Stored
<1>2. CASE StartCapture
  BY <1>2, StartTouchesNewOnly DEF StartCapture, Stored, diskVars
<1>3. ASSUME NEW m \in net, ServeChunk(m) PROVE Stored(r, s, c)'
  <2>1. CASE state[r] = "AUDIO_READY"
    BY <1>3, <2>1, ClosedToRequests DEF OpenStates, Stored
  <2>2. CASE rows[r][s] = c
    <3>1. c # None
      BY DEF Lives, None
    <3>2. rows'[r][s] = c
      BY <1>3, <2>2, <3>1, RequestFields
         DEF ServeChunk, Shape, TypeOK, DbTypes, WorldTypes
    <3>3. QED
      BY <3>2 DEF Stored
  <2>3. QED
    BY <2>1, <2>2 DEF Stored
<1>4. ASSUME NEW m \in net, ServeComplete(m) PROVE Stored(r, s, c)'
  <2>1. CASE state[r] = "AUDIO_READY"
    BY <1>4, <2>1, ClosedToRequests DEF OpenStates, Stored
  <2>2. CASE rows[r][s] = c
    BY <1>4, <2>2 DEF ServeComplete, Stored
  <2>3. QED
    BY <2>1, <2>2 DEF Stored
<1>5. CASE SweepStalledUploads \/ FinalizeRound \/ SettleJob \/ Crash \/ JobRaises
  <2>1. rows' = rows /\ canon' = canon
    BY <1>5
       DEF SweepStalledUploads, FinalizeRound, SettleJob, Crash, JobRaises,
           AssemblyRaises, diskVars, dbVars
  <2>2. state[r] = "AUDIO_READY" => state'[r] = "AUDIO_READY"
    BY <1>5
       DEF SweepStalledUploads, FinalizeRound, SettleJob, Crash, JobRaises,
           AssemblyRaises, diskVars, dbVars, OpenStates
  <2>3. QED
    BY <2>1, <2>2 DEF Stored
<1>6. ASSUME NEW q \in Recs, AssembleBegin(q) PROVE Stored(r, s, c)'
  BY <1>6 DEF AssembleBegin, Stored, diskVars, Shape, TypeOK, DbTypes
<1>7. ASSUME NEW q \in Recs, AssembleFiles(q) PROVE Stored(r, s, c)'
  BY <1>7 DEF AssembleFiles, WorkerHolds, Stored, Shape, TypeOK, DbTypes, ServerTypes
<1>8. ASSUME NEW q \in Recs, AssembleCommit(q) PROVE Stored(r, s, c)'
  BY <1>8 DEF AssembleCommit, WorkerHolds, Stored, Shape, TypeOK, DbTypes, ServerTypes,
              diskVars
<1>9. QED
  BY <1>1, <1>2, <1>3, <1>4, <1>5, <1>6, <1>7, <1>8, ServerStepOrFrame DEF ServerStep

LEMMA ServerInvariant == Spec => [](Shape /\ WorkerHolds)
<1>1. Init => Shape /\ WorkerHolds
  BY ShapeInit DEF Init, WorkerHolds, NoWork
<1>2. (Shape /\ WorkerHolds) /\ [Next]_vars => (Shape /\ WorkerHolds)'
  BY ShapeStep, WorkerStep
<1>3. QED
  BY <1>1, <1>2, PTL DEF Spec

(* Nothing the server stored is replaced or dropped, whatever the page,    *)
(* the network, the sweep, the worker and crashes of the process do.       *)
THEOREM NothingStoredIsLost == Spec => StoredIsKept
<1>1. Shape /\ WorkerHolds /\ [Next]_vars =>
          [\A r \in Recs, s \in Seqs, c \in Lives : Stored(r, s, c) => Stored(r, s, c)']_vars
  BY KeptStep
<1>2. QED
  BY <1>1, ServerInvariant, PTL DEF Spec, StoredIsKept

-----------------------------------------------------------------------------
(* The browser's side.  An "ok" to a chunk upload that waits to be read    *)
(* means that the content of that request is stored.                       *)
AnswerHonest ==
    wait.kind = "chunk" /\ reply.code = "ok" => Stored(wait.rec, wait.seq, wait.life)

LEMMA AnswerStep == Shape /\ WorkerHolds /\ AnswerHonest /\ [Next]_vars => AnswerHonest'
<1> SUFFICES ASSUME Shape, WorkerHolds, AnswerHonest, [Next]_vars,
                    wait'.kind = "chunk", reply'.code = "ok"
             PROVE  Stored(wait.rec, wait.seq, wait.life)'
  BY DEF AnswerHonest
<1>1. CASE wait' = wait /\ reply' = reply
  <2>1. wait.rec \in Recs /\ wait.seq \in Seqs /\ wait.life \in Lives
    BY <1>1, RequestFields DEF Shape, TypeOK, UploadTypes, NoReq
  <2>2. Stored(wait.rec, wait.seq, wait.life)
    BY <1>1 DEF AnswerHonest
  <2>3. QED
    BY <2>1, <2>2, <1>1, KeptStep DEF Stored
<1>2. ASSUME NEW m \in net, ServeChunk(m), reply' # reply
      PROVE  Stored(wait.rec, wait.seq, wait.life)'
  <2>1. wait' = wait /\ wait = m /\ m.kind = "chunk"
    BY <1>2 DEF ServeChunk, Answer
  <2>2. access /\ Accepts(m.rec) /\ rows[m.rec][m.seq] = m.life /\ rows' = rows
    BY <1>2 DEF ServeChunk, Answer
  <2>3. QED
    BY <2>1, <2>2 DEF Stored
<1>3. ASSUME NEW m \in net, ServeComplete(m), reply' # reply PROVE FALSE
  BY <1>3 DEF ServeComplete, Answer
<1>4. CASE Reload \/ Uploader \/ NetworkError
  <2>1. CASE ScanEmpty \/ ScanDecide \/ GiveUp \/ ResendEnd
    BY <1>1, <2>1 DEF ScanEmpty, ScanDecide, GiveUp, ResendEnd
  <2>2. CASE ScanPost \/ CompletePost \/ ResendPost
    <3>1. reply' = NoReply
      BY <2>2 DEF ScanPost, CompletePost, ResendPost, Post
    <3>2. QED
      BY <3>1 DEF NoReply
  <2>3. CASE Reload \/ ScanReply \/ CompleteReply \/ ResendReply \/ NetworkError
    <3>1. reply' = NoReply \/ reply' = [code |-> "error", missing |-> {}]
      BY <2>3 DEF Reload, ScanReply, CompleteReply, ResendReply, NetworkError
    <3>2. QED
      BY <3>1 DEF NoReply
  <2>4. QED
    BY <1>4, <2>1, <2>2, <2>3 DEF Uploader
<1>5. CASE UNCHANGED uploadVars
  BY <1>1, <1>5 DEF uploadVars
<1>6. CASE StartCapture \/ DeclareTotal
  BY <1>1, <1>6 DEF StartCapture, DeclareTotal
<1>7. CASE \/ RecordChunk \/ PersistChunk \/ StopCapture \/ DrainPipeline \/ LoseRequest
           \/ LapseLogin \/ EndRound \/ Crash
  BY <1>5, <1>7 DEF RecordChunk, PersistChunk, StopCapture, DrainPipeline, LoseRequest, LapseLogin,
                    EndRound, Crash
<1>8. CASE Worker
  BY <1>5, <1>8 DEF Worker, SweepStalledUploads, FinalizeRound, SettleJob, AssembleBegin,
                    AssembleFiles, AssembleCommit, AssemblyRaises
<1>9. CASE Server
  BY <1>1, <1>2, <1>3, <1>9 DEF Server, ServeChunk, ServeComplete
<1>10. QED
  BY <1>4, <1>5, <1>6, <1>7, <1>8, <1>9 DEF Next, Page, Network, vars

(* A chunk that was ticked off has content.                                *)
Ticked == \A r \in Recs, s \in Seqs : acked[r][s] => local[r][s] \in Lives

(* The browser's tick survives every step: a chunk is ticked off only when *)
(* its answer said so, with the content that was sent, and any later write *)
(* of the key takes the tick back.                                         *)
LEMMA AckStep ==
    /\ Shape /\ WorkerHolds /\ AnswerHonest /\ Ticked /\ AckedIsStored
    /\ [Next]_vars
    => Ticked' /\ AckedIsStored'
<1> SUFFICES ASSUME Shape, WorkerHolds, AnswerHonest, Ticked, AckedIsStored, [Next]_vars,
                    NEW r \in Recs, NEW s \in Seqs, acked'[r][s]
             PROVE  local'[r][s] \in Lives /\ Stored(r, s, local[r][s])'
  BY DEF Ticked, AckedIsStored
<1>1. ASSUME acked[r][s], local'[r][s] = local[r][s]
      PROVE  local'[r][s] \in Lives /\ Stored(r, s, local[r][s])'
  <2>1. local[r][s] \in Lives /\ Stored(r, s, local[r][s])
    BY <1>1 DEF Ticked, AckedIsStored
  <2>2. QED
    BY <1>1, <2>1, KeptStep DEF Stored
<1>2. CASE local' = local /\ acked' = acked
  BY <1>1, <1>2
<1>3. CASE PersistChunk
  <2>1. CASE UNCHANGED <<local, acked>>
    BY <1>2, <2>1
  <2>2. CASE /\ local' = [local EXCEPT ![cur][written] = life]
             /\ acked' = [acked EXCEPT ![cur][written] = FALSE]
    <3>1. r # cur \/ s # written
      BY <2>2 DEF Shape, TypeOK, IdbTypes
    <3>2. QED
      BY <1>1, <2>2, <3>1 DEF Shape, TypeOK, IdbTypes
  <2>3. QED
    BY <1>3, <2>1, <2>2 DEF PersistChunk
<1>4. ASSUME NEW a \in BOOLEAN, PutBack(a), a => reply.code = "ok",
             wait.kind = "chunk", wait.rec = cur, wait # NoReq
      PROVE  local'[r][s] \in Lives /\ Stored(r, s, local[r][s])'
  <2>1. CASE r = cur /\ s = wait.seq
    <3>1. a /\ local'[r][s] = wait.life
      BY <1>4, <2>1 DEF PutBack, Shape, TypeOK, IdbTypes
    <3>2. wait.life \in Lives
      BY <1>4, RequestFields DEF Shape, TypeOK, UploadTypes
    <3>3. Stored(r, s, wait.life)
      BY <1>4, <2>1, <3>1 DEF AnswerHonest
    <3>4. QED
      BY <3>1, <3>2, <3>3, KeptStep DEF Stored
  <2>2. CASE ~(r = cur /\ s = wait.seq)
    BY <1>1, <1>4, <2>2 DEF PutBack, Shape, TypeOK, IdbTypes
  <2>3. QED
    BY <2>1, <2>2
<1>5. CASE ScanReply
  <2>1. wait.kind = "chunk" /\ wait.rec = cur /\ wait # NoReq
    BY <1>5 DEF ScanReply, Shape, PageShape
  <2>2. UNCHANGED <<local, acked>> \/ PutBack(reply.code = "ok")
    BY <1>5 DEF ScanReply
  <2>3. QED
    BY <1>2, <1>4, <2>1, <2>2
<1>6. CASE ResendReply
  <2>1. wait.kind = "chunk" /\ wait.rec = cur /\ wait # NoReq
    BY <1>6 DEF ResendReply, Shape, PageShape
  <2>2. UNCHANGED <<local, acked>> \/ (PutBack(TRUE) /\ reply.code = "ok")
    BY <1>6 DEF ResendReply
  <2>3. QED
    BY <1>2, <1>4, <2>1, <2>2
<1>7. CASE UNCHANGED idbVars \/ StartCapture \/ DeclareTotal
  BY <1>2, <1>7 DEF idbVars, StartCapture, DeclareTotal
<1>8. CASE \/ RecordChunk \/ StopCapture \/ DrainPipeline \/ Reload \/ ScanPost
           \/ ScanEmpty \/ ScanDecide \/ CompletePost \/ GiveUp \/ ResendPost \/ ResendEnd
           \/ CompleteReply \/ Network \/ EndRound \/ Crash
  BY <1>7, <1>8 DEF RecordChunk, StopCapture, DrainPipeline, Reload, ScanPost, ScanEmpty,
       ScanDecide, CompletePost, GiveUp, ResendPost, ResendEnd, CompleteReply, Network,
       NetworkError, LoseRequest, LapseLogin, EndRound, Crash
<1>9. CASE Server \/ Worker
  BY <1>7, <1>9 DEF Server, Worker, ServeChunk, ServeComplete, SweepStalledUploads,
       FinalizeRound, SettleJob, AssembleBegin, AssembleFiles, AssembleCommit, AssemblyRaises
<1>10. QED
  BY <1>2, <1>3, <1>5, <1>6, <1>7, <1>8, <1>9 DEF Next, Page, Uploader, vars, idbVars

(* Whatever the page believes to be uploaded is on the server, with the    *)
(* content the browser keeps.                                              *)
THEOREM AcknowledgedIsStored == Spec => []AckedIsStored
<1> DEFINE Inv == Shape /\ WorkerHolds /\ AnswerHonest /\ Ticked /\ AckedIsStored
<1>1. Init => Inv
  BY ShapeInit DEF Init, WorkerHolds, NoWork, AnswerHonest, Ticked, AckedIsStored, NoReq
<1>2. Inv /\ [Next]_vars => Inv'
  BY ShapeStep, WorkerStep, AnswerStep, AckStep
<1>3. Spec => []Inv
  BY <1>1, <1>2, PTL DEF Spec
<1>4. QED
  BY <1>3, PTL

-----------------------------------------------------------------------------
(* Assembly.  Only the last commit makes a recording ready, with the file  *)
(* the worker wrote while nothing could change the recording's rows.       *)
LEMMA ReadyStep ==
    Shape /\ WorkerHolds /\ ReadyIsGapless /\ [Next]_vars => ReadyIsGapless'
<1> SUFFICES ASSUME Shape, WorkerHolds, ReadyIsGapless, [Next]_vars,
                    NEW r \in Recs, state'[r] = "AUDIO_READY", NEW s \in Seqs, s < total'[r]
             PROVE  canon'[r][s] # None
  BY DEF ReadyIsGapless
<1>1. CASE state[r] = "AUDIO_READY" /\ total'[r] = total[r] /\ canon'[r] = canon[r]
  BY <1>1 DEF ReadyIsGapless
<1>2. CASE UNCHANGED <<state, total, rows, disk, canon, work>>
  BY <1>1, <1>2
<1>3. CASE StartCapture
  BY <1>1, <1>3, StartTouchesNewOnly DEF StartCapture, diskVars, Shape, TypeOK, DbTypes
<1>4. ASSUME NEW m \in net, ServeChunk(m) \/ ServeComplete(m) PROVE canon'[r][s] # None
  <2>1. state[r] = "AUDIO_READY"
    BY <1>4 DEF ServeChunk, ServeComplete, Reopened, Shape, TypeOK, DbTypes
  <2>2. QED
    BY <1>1, <1>4, <2>1, ClosedToRequests DEF OpenStates
<1>5. CASE SweepStalledUploads \/ FinalizeRound \/ SettleJob \/ Crash \/ JobRaises
  BY <1>1, <1>5
     DEF SweepStalledUploads, FinalizeRound, SettleJob, Crash, JobRaises,
         AssemblyRaises, diskVars, Folded, OpenStates,
                    dbVars, diskVars
<1>6. ASSUME NEW q \in Recs, AssembleBegin(q) PROVE canon'[r][s] # None
  BY <1>1, <1>6 DEF AssembleBegin, diskVars, Shape, TypeOK, DbTypes
<1>7. ASSUME NEW q \in Recs, AssembleFiles(q) PROVE canon'[r][s] # None
  BY <1>1, <1>7 DEF AssembleFiles, WorkerHolds, Shape, TypeOK, DbTypes, ServerTypes
<1>8. ASSUME NEW q \in Recs, AssembleCommit(q) PROVE canon'[r][s] # None
  <2>1. CASE q = r
    <3>1. canon'[r] = rows[r] /\ total'[r] = total[r] /\ Missing(r, total[r]) = {}
      BY <1>8, <2>1 DEF AssembleCommit, WorkerHolds, diskVars
    <3>2. s \in Held(r)
      BY <3>1 DEF Missing
    <3>3. QED
      BY <3>1, <3>2 DEF Held
  <2>2. CASE q # r
    BY <1>1, <1>8, <2>2 DEF AssembleCommit, diskVars, Shape, TypeOK, DbTypes
  <2>3. QED
    BY <2>1, <2>2
<1>9. QED
  BY <1>2, <1>3, <1>4, <1>5, <1>6, <1>7, <1>8, ServerStepOrFrame DEF ServerStep

(* A recording is never made ready with a gap below its total.             *)
THEOREM ReadyRecordingsAreGapless == Spec => []ReadyIsGapless
<1>1. Init => ReadyIsGapless
  BY DEF Init, ReadyIsGapless
<1>2. QED
  BY <1>1, ServerInvariant, ReadyStep, PTL DEF Spec

(* Bytes on disk: the chunk files of a recording that may still receive    *)
(* chunks, or that waits in assembly for missing ones, are all there.      *)
BytesHeld ==
    \A r \in Recs :
        \/ state[r] \in OpenStates \union {"UPLOAD_INCOMPLETE"}
        \/ state[r] = "ASSEMBLING" /\ Missing(r, total[r]) # {}
        => \A s \in Held(r) : disk[r][s] = rows[r][s]

(* A recording that has not been started has no rows.                      *)
NewIsEmpty == \A r \in Recs : state[r] = "NONE" => Held(r) = {}

LEMMA BytesStep ==
    Shape /\ WorkerHolds /\ BytesHeld /\ NewIsEmpty /\ [Next]_vars => BytesHeld' /\ NewIsEmpty'
<1> SUFFICES ASSUME Shape, WorkerHolds, BytesHeld, NewIsEmpty, [Next]_vars, NEW r \in Recs
             PROVE  /\ state'[r] = "NONE" => Held(r)' = {}
                    /\ \/ state'[r] \in OpenStates \union {"UPLOAD_INCOMPLETE"}
                       \/ state'[r] = "ASSEMBLING" /\ Missing(r, total[r])' # {}
                       => \A s \in Held(r)' : disk'[r][s] = rows'[r][s]
  BY DEF BytesHeld, NewIsEmpty
<1> DEFINE Antecedent == \/ state[r] \in OpenStates \union {"UPLOAD_INCOMPLETE"}
                         \/ state[r] = "ASSEMBLING" /\ Missing(r, total[r]) # {}
           Goal == /\ state'[r] = "NONE" => Held(r)' = {}
                   /\ Antecedent' => \A s \in Held(r)' : disk'[r][s] = rows'[r][s]
<1> HIDE DEF Antecedent, Goal
<1>1. ASSUME rows'[r] = rows[r], \A s \in Held(r) : disk'[r][s] = disk[r][s],
             state'[r] = "NONE" => state[r] = "NONE",
             Antecedent' => Antecedent \/ state[r] = "NONE"
      PROVE  Goal
  <2>1. Held(r)' = Held(r)
    BY <1>1 DEF Held
  <2>2. Antecedent => \A s \in Held(r) : disk[r][s] = rows[r][s]
    BY DEF BytesHeld, Antecedent
  <2>3. QED
    BY <1>1, <2>1, <2>2 DEF NewIsEmpty, Goal
<1>2. ASSUME rows'[r] = rows[r], disk'[r] = disk[r], state'[r] = state[r], total'[r] = total[r]
      PROVE  Goal
  BY <1>1, <1>2 DEF Antecedent, Missing, Held
<1>3. ASSUME UNCHANGED <<state, total, rows, disk, canon, work>> PROVE Goal
  BY <1>2, <1>3
<1>4. ASSUME StartCapture PROVE Goal
  BY <1>1, <1>4, StartTouchesNewOnly
     DEF StartCapture, diskVars, Antecedent, Missing, Held, Shape, TypeOK, DbTypes
<1>5. ASSUME NEW m \in net, ServeChunk(m) PROVE Goal
  <2>1. CASE m.rec # r \/ ~Accepts(r)
    BY <1>2, <1>5, <2>1 DEF ServeChunk, Shape, TypeOK, DbTypes, ServerTypes
  <2>2. CASE m.rec = r /\ Accepts(r)
    <3>1. state[r] \in OpenStates \union {"UPLOAD_INCOMPLETE"}
      BY <2>2 DEF Accepts, Reopened
    <3>2. \A s \in Held(r) : disk[r][s] = rows[r][s]
      BY <3>1 DEF BytesHeld
    <3>3. state'[r] \in OpenStates \union {"UPLOAD_INCOMPLETE"}
      BY <1>5, <2>2, <3>1 DEF ServeChunk, Reopened, OpenStates, Shape, TypeOK, DbTypes
    <3>4. \A s \in Held(r)' : disk'[r][s] = rows'[r][s]
      BY <1>5, <2>2, <3>2 DEF ServeChunk, Held, Shape, TypeOK, DbTypes, ServerTypes
    <3>5. QED
      BY <3>3, <3>4 DEF Goal, OpenStates
  <2>3. QED
    BY <2>1, <2>2
<1>6. ASSUME NEW m \in net, ServeComplete(m) PROVE Goal
  <2>1. CASE m.rec # r \/ ~Accepts(r)
    BY <1>2, <1>6, <2>1 DEF ServeComplete, diskVars, Shape, TypeOK, DbTypes
  <2>2. CASE m.rec = r /\ Accepts(r)
    <3>1. Antecedent
      BY <2>2 DEF Accepts, Reopened, Antecedent
    <3>2. state'[r] # "NONE"
      BY <1>6, <2>2 DEF ServeComplete, Accepts, Reopened, OpenStates, Shape, TypeOK, DbTypes
    <3>3. QED
      BY <1>1, <1>6, <3>1, <3>2 DEF ServeComplete, diskVars
  <2>3. QED
    BY <2>1, <2>2
<1>7. ASSUME SweepStalledUploads \/ FinalizeRound PROVE Goal
  <2>1. rows' = rows /\ disk' = disk
    BY <1>7 DEF SweepStalledUploads, FinalizeRound, diskVars
  <2>2. \/ state'[r] = state[r] /\ total'[r] = total[r]
        \/ state[r] \in OpenStates /\ state'[r] # "NONE"
    BY <1>7 DEF SweepStalledUploads, FinalizeRound, Folded, OpenStates, Shape, TypeOK, DbTypes
  <2>3. QED
    BY <1>1, <1>2, <2>1, <2>2 DEF Antecedent
<1>8. ASSUME SettleJob \/ JobRaises PROVE Goal
  BY <1>2, <1>8 DEF SettleJob, JobRaises, AssemblyRaises, diskVars
<1>9. ASSUME Crash PROVE Goal
  <2>1. rows' = rows /\ state' = state /\ total' = total
    BY <1>9 DEF Crash, dbVars
  <2>2. ASSUME NEW s \in Held(r) PROVE disk'[r][s] = disk[r][s]
    <3>1. CASE UNCHANGED <<disk, net>>
      BY <3>1
    <3>2. ASSUME NEW m \in net, rows[m.rec][m.seq] = None,
                 disk' = [disk EXCEPT ![m.rec][m.seq] = m.life]
          PROVE  disk'[r][s] = disk[r][s]
      <4>1. s \in Seqs /\ (m.rec # r \/ m.seq # s)
        BY <3>2 DEF Held
      <4>2. QED
        BY <3>2, <4>1 DEF Shape, TypeOK, ServerTypes
    <3>3. QED
      BY <1>9, <3>1, <3>2 DEF Crash
  <2>3. QED
    BY <1>1, <2>1, <2>2 DEF Antecedent, Missing, Held
<1>10. ASSUME NEW q \in Recs, AssembleBegin(q) PROVE Goal
  BY <1>1, <1>10 DEF AssembleBegin, diskVars, Antecedent, Missing, Held, Shape, TypeOK, DbTypes
<1>11. ASSUME NEW q \in Recs, AssembleFiles(q) PROVE Goal
  <2>1. CASE q = r
    <3>1. state[r] = "ASSEMBLING" /\ Missing(r, total[r]) = {}
      BY <1>11, <2>1 DEF AssembleFiles, WorkerHolds
    <3>2. state'[r] \in {"ASSEMBLING", "AUDIO_INVALID"}
      BY <1>11, <2>1, <3>1 DEF AssembleFiles, Shape, TypeOK, DbTypes
    <3>3. Missing(r, total[r])' = {}
      BY <1>11, <3>1 DEF AssembleFiles, Missing, Held
    <3>4. QED
      BY <3>2, <3>3 DEF Goal, Antecedent, OpenStates
  <2>2. CASE q # r
    BY <1>2, <1>11, <2>2 DEF AssembleFiles, Shape, TypeOK, DbTypes, ServerTypes
  <2>3. QED
    BY <2>1, <2>2
<1>12. ASSUME NEW q \in Recs, AssembleCommit(q) PROVE Goal
  <2>1. CASE q = r
    <3>1. state'[r] = "AUDIO_READY"
      BY <1>12, <2>1 DEF AssembleCommit, Shape, TypeOK, DbTypes
    <3>2. QED
      BY <3>1 DEF Goal, Antecedent, OpenStates
  <2>2. CASE q # r
    BY <1>2, <1>12, <2>2 DEF AssembleCommit, diskVars, Shape, TypeOK, DbTypes
  <2>3. QED
    BY <2>1, <2>2
<1>13. Goal
  BY <1>3, <1>4, <1>5, <1>6, <1>7, <1>8, <1>9, <1>10, <1>11, <1>12, ServerStepOrFrame
     DEF ServerStep
<1>14. QED
  BY <1>13 DEF Goal, Antecedent

(* A crash between writing a chunk's file and its row, or between any two  *)
(* steps of the worker, never leaves an open recording with a row whose    *)
(* bytes are gone.                                                         *)
THEOREM OpenRecordingsKeepTheirBytes == Spec => []OpenRowsHaveBytes
<1>1. Init => BytesHeld /\ NewIsEmpty
  BY DEF Init, BytesHeld, NewIsEmpty, Held, Empty, OpenStates
<1>2. BytesHeld => OpenRowsHaveBytes
  BY DEF BytesHeld, OpenRowsHaveBytes
<1>3. Spec => [](BytesHeld /\ NewIsEmpty)
  BY <1>1, ServerInvariant, BytesStep, PTL DEF Spec
<1>4. QED
  BY <1>2, <1>3, PTL

-----------------------------------------------------------------------------
(* The job of an assembly: a recording in assembly has a job besides the   *)
(* one that is just being settled, or one that failed for good.            *)
Scheduled(r) ==
    state[r] = "ASSEMBLING" =>
        r \in failed \/ (jobs[r] > 0 /\ (work = <<r, "settle">> => jobs[r] > 1))

AllScheduled == \A r \in Recs : Scheduled(r)

LEMMA JobsFrame == [Next]_vars => ServerStep \/ UNCHANGED <<state, jobs, failed, work>>
BY DEF Next, vars, Page, Uploader, Network, Server, Worker, ServerStep, JobRaises, dbVars,
       RecordChunk, PersistChunk, StopCapture, DrainPipeline, DeclareTotal, Reload,
       ScanPost, ScanEmpty, ScanDecide, CompletePost, GiveUp, ResendPost, ResendEnd,
       ScanReply, CompleteReply, ResendReply, NetworkError, LoseRequest, LapseLogin, EndRound

LEMMA ScheduledStep == Shape /\ Shape' /\ AllScheduled /\ [Next]_vars => AllScheduled'
<1> SUFFICES ASSUME Shape, Shape', AllScheduled, [Next]_vars, NEW r \in Recs
             PROVE  Scheduled(r)'
  BY DEF AllScheduled
<1>1. /\ Scheduled(r) /\ jobs[r] \in Nat /\ jobs'[r] \in Nat
      /\ r # None /\ <<r, "settle">> # NoWork
  BY CaptureAssumption DEF AllScheduled, Shape, TypeOK, DbTypes, Recs, None, NoWork
<1>2. ASSUME state'[r] # "ASSEMBLING" PROVE Scheduled(r)'
  BY <1>2 DEF Scheduled
<1>3. ASSUME state'[r] = state[r], failed \subseteq failed',
             \/ jobs'[r] >= jobs[r] \/ r \in failed',
             work' = <<r, "settle">> => work = <<r, "settle">>
      PROVE  Scheduled(r)'
  BY <1>1, <1>3 DEF Scheduled
<1>4. CASE UNCHANGED <<state, jobs, failed, work>>
  BY <1>1, <1>3, <1>4
<1>5. CASE StartCapture
  <2>1. state'[r] = state[r] \/ state'[r] = "RECORDING"
    BY <1>5 DEF StartCapture, Shape, TypeOK, DbTypes
  <2>2. QED
    BY <1>1, <1>2, <1>3, <1>5, <2>1 DEF StartCapture
<1>6. ASSUME NEW m \in net, ServeChunk(m) PROVE Scheduled(r)'
  <2>1. state'[r] = state[r] \/ state'[r] # "ASSEMBLING"
    BY <1>6 DEF ServeChunk, Reopened, Shape, TypeOK, DbTypes
  <2>2. QED
    BY <1>1, <1>2, <1>3, <1>6, <2>1 DEF ServeChunk
<1>7. ASSUME NEW m \in net, ServeComplete(m) PROVE Scheduled(r)'
  <2>1. UNCHANGED <<failed, work>>
    BY <1>7 DEF ServeComplete
  <2>2. CASE state'[r] = state[r] /\ jobs'[r] = jobs[r]
    BY <1>1, <1>3, <2>1, <2>2
  <2>3. CASE ~(state'[r] = state[r] /\ jobs'[r] = jobs[r])
    <3>1. state'[r] = "ASSEMBLING" => jobs'[r] = jobs[r] + 1
      BY <1>7, <2>3 DEF ServeComplete, Shape, TypeOK, DbTypes
    <3>2. work = <<r, "settle">> => jobs[r] > 0
      BY <1>1 DEF Shape, WorkHasJob
    <3>3. QED
      BY <1>1, <2>1, <3>1, <3>2 DEF Scheduled
  <2>4. QED
    BY <2>2, <2>3
<1>8. CASE SweepStalledUploads
  <2>1. state'[r] = state[r] \/ state'[r] = "UPLOAD_INCOMPLETE"
    BY <1>8 DEF SweepStalledUploads
  <2>2. QED
    BY <1>1, <1>2, <1>3, <1>8, <2>1 DEF SweepStalledUploads
<1>9. CASE FinalizeRound
  <2>1. failed' = failed /\ work' = <<None, "settle">>
    BY <1>9 DEF FinalizeRound
  <2>2. \/ state'[r] = state[r] /\ jobs'[r] = jobs[r]
        \/ jobs'[r] = jobs[r] + 1
    BY <1>9 DEF FinalizeRound
  <2>3. QED
    BY <1>1, <1>3, <2>1, <2>2 DEF Scheduled
<1>10. CASE SettleJob
  <2>1. /\ UNCHANGED <<state, failed>> /\ work' = NoWork
        /\ work[2] = "settle" /\ work = <<work[1], work[2]>>
    BY <1>10 DEF SettleJob, Shape, TypeOK, ServerTypes
  <2>2. CASE work[1] # r
    <3>1. jobs'[r] = jobs[r]
      BY <1>10, <2>2 DEF SettleJob, Shape, TypeOK, DbTypes
    <3>2. QED
      BY <1>1, <1>3, <2>1, <3>1
  <2>3. CASE work[1] = r
    <3>1. jobs'[r] = jobs[r] - 1
      BY <1>1, <1>10, <2>3 DEF SettleJob, Shape, TypeOK, DbTypes
    <3>2. QED
      BY <1>1, <2>1, <2>3, <3>1 DEF Scheduled
  <2>4. QED
    BY <2>2, <2>3
<1>11. CASE Crash
  BY <1>1, <1>3, <1>11 DEF Crash, dbVars
<1>12. ASSUME NEW q \in Recs, AssembleBegin(q) PROVE Scheduled(r)'
  <2>1. \/ state'[r] # "ASSEMBLING"
        \/ state'[r] = state[r] /\ work' # <<r, "settle">>
    BY <1>1, <1>12 DEF AssembleBegin, Shape, TypeOK, DbTypes
  <2>2. QED
    BY <1>1, <1>2, <1>3, <1>12, <2>1 DEF AssembleBegin
<1>13. ASSUME NEW q \in Recs, RetryOrFail(q)
       PROVE  failed \subseteq failed' /\ (jobs'[r] >= jobs[r] \/ r \in failed')
  BY <1>1, <1>13 DEF RetryOrFail, GiveJobUp, Shape, TypeOK, DbTypes
<1>14. ASSUME NEW q \in Recs, AssembleFiles(q) PROVE Scheduled(r)'
  <2>1. \/ state'[r] = "AUDIO_INVALID"
        \/ state'[r] = state[r] /\ work' # <<r, "settle">>
    BY <1>1, <1>14 DEF AssembleFiles, Shape, TypeOK, DbTypes
  <2>2. UNCHANGED <<jobs, failed>> \/ RetryOrFail(q)
    BY <1>14 DEF AssembleFiles
  <2>3. QED
    BY <1>1, <1>2, <1>3, <1>13, <2>1, <2>2
<1>15. ASSUME NEW q \in Recs, AssembleCommit(q) PROVE Scheduled(r)'
  <2>1. \/ state'[r] = "AUDIO_READY"
        \/ state'[r] = state[r] /\ work' # <<r, "settle">>
    BY <1>15 DEF AssembleCommit, Shape, TypeOK, DbTypes
  <2>2. QED
    BY <1>1, <1>2, <1>3, <1>15, <2>1 DEF AssembleCommit
<1>16. ASSUME NEW q \in Recs, AssemblyRaises(q) PROVE Scheduled(r)'
  BY <1>1, <1>3, <1>13, <1>16 DEF AssemblyRaises
<1>17. QED
  BY <1>4, <1>5, <1>6, <1>7, <1>8, <1>9, <1>10, <1>11, <1>12, <1>14, <1>15, <1>16,
     JobsFrame DEF ServerStep, JobRaises

(* A recording in assembly always has a live job or one that failed for    *)
(* good, whatever order requests, sweep, end of the round and worker come  *)
(* in, whatever raises and however often it was completed.                 *)
THEOREM AssemblyIsScheduled == Spec => []AssemblingHasJob
<1>1. Init => AllScheduled
  BY DEF Init, AllScheduled, Scheduled
<1>2. AllScheduled => AssemblingHasJob
  BY DEF AllScheduled, Scheduled, AssemblingHasJob
<1>3. Spec => []AllScheduled
  BY <1>1, ServerInvariant, ShapeStep, ScheduledStep, PTL DEF Spec
<1>4. QED
  BY <1>2, <1>3, PTL

-----------------------------------------------------------------------------
(* The hand-over.  A recording that was sent to assembly with nothing      *)
(* missing never waits for chunks again.                                   *)
HandedOver(r) ==
    \/ state[r] \in {"AUDIO_READY", "AUDIO_INVALID"}
    \/ state[r] = "ASSEMBLING" /\ Missing(r, total[r]) = {}

LEMMA HandedOverStep ==
    ASSUME Shape, WorkerHolds, [Next]_vars, NEW r \in Recs, HandedOver(r)
    PROVE  HandedOver(r)'
<1>1. CASE state'[r] = state[r] /\ rows'[r] = rows[r] /\ total'[r] = total[r]
  BY <1>1 DEF HandedOver, Missing, Held
<1>2. CASE UNCHANGED <<state, total, rows, disk, canon, work>>
  BY <1>1, <1>2
<1>3. CASE StartCapture
  BY <1>1, <1>3, StartTouchesNewOnly DEF StartCapture, HandedOver
<1>4. ASSUME NEW m \in net, ServeChunk(m) \/ ServeComplete(m) PROVE HandedOver(r)'
  BY <1>1, <1>4, ClosedToRequests DEF HandedOver, OpenStates
<1>5. CASE SweepStalledUploads \/ FinalizeRound \/ SettleJob \/ Crash \/ JobRaises
  BY <1>1, <1>5
     DEF SweepStalledUploads, FinalizeRound, SettleJob, Crash, JobRaises,
         AssemblyRaises, diskVars, Folded, OpenStates,
                    HandedOver, dbVars, Shape, TypeOK, DbTypes
<1>6. ASSUME NEW q \in Recs, AssembleBegin(q) PROVE HandedOver(r)'
  BY <1>1, <1>6 DEF AssembleBegin, HandedOver, Shape, TypeOK, DbTypes
<1>7. ASSUME NEW q \in Recs, AssembleFiles(q) PROVE HandedOver(r)'
  <2>1. state'[r] = state[r] \/ state'[r] = "AUDIO_INVALID"
    BY <1>7 DEF AssembleFiles, Shape, TypeOK, DbTypes
  <2>2. QED
    BY <1>1, <1>7, <2>1 DEF AssembleFiles, HandedOver
<1>8. ASSUME NEW q \in Recs, AssembleCommit(q) PROVE HandedOver(r)'
  <2>1. CASE q = r
    BY <1>8, <2>1 DEF AssembleCommit, HandedOver, Shape, TypeOK, DbTypes
  <2>2. CASE q # r
    BY <1>1, <1>8, <2>2 DEF AssembleCommit, Shape, TypeOK, DbTypes
  <2>3. QED
    BY <2>1, <2>2
<1>9. QED
  BY <1>2, <1>3, <1>4, <1>5, <1>6, <1>7, <1>8, ServerStepOrFrame DEF ServerStep

(* The page says "done", or is about to, only of a recording handed over.  *)
DoneOrTold ==
    \/ phase = "done"
    \/ wait.kind = "complete" /\ reply.code = "ok" /\ reply.missing = {}

DoneHonest == DoneOrTold => HandedOver(cur)

LEMMA DoneStep == Shape /\ WorkerHolds /\ DoneHonest /\ [Next]_vars => DoneHonest'
<1> SUFFICES ASSUME Shape, WorkerHolds, DoneHonest, [Next]_vars, DoneOrTold'
             PROVE  HandedOver(cur)'
  BY DEF DoneHonest
<1>1. ASSUME DoneOrTold, cur' = cur PROVE HandedOver(cur)'
  <2>1. cur \in Recs /\ HandedOver(cur)
    BY <1>1 DEF DoneHonest, DoneOrTold, Shape, PageShape, NoReq
  <2>2. QED
    BY <1>1, <2>1, HandedOverStep DEF HandedOver, Missing, Held
<1>2. CASE UNCHANGED <<phase, wait, reply, cur>>
  BY <1>1, <1>2 DEF DoneOrTold
<1>3. CASE StartCapture
  BY <1>1, <1>2, <1>3 DEF StartCapture, DoneOrTold, Shape, PageShape, TypeOK, UploadTypes,
                          PageTypes, NoReq, None, Recs
<1>4. CASE \/ RecordChunk \/ PersistChunk \/ LoseRequest \/ LapseLogin \/ EndRound \/ Crash
           \/ ScanEmpty \/ ScanDecide \/ ResendEnd \/ Worker
  BY <1>2, <1>4 DEF RecordChunk, PersistChunk, LoseRequest, LapseLogin, EndRound, Crash,
       ScanEmpty, ScanDecide, ResendEnd, Worker, SweepStalledUploads, FinalizeRound,
       SettleJob, AssembleBegin, AssembleFiles, AssembleCommit, AssemblyRaises, pageVars, uploadVars
<1>5. CASE StopCapture \/ DrainPipeline \/ DeclareTotal \/ GiveUp
  BY <1>1, <1>5 DEF StopCapture, DrainPipeline, DeclareTotal, GiveUp, DoneOrTold, uploadVars
<1>6. CASE Reload
  BY <1>6 DEF Reload, DoneOrTold, NoReq
<1>7. CASE ScanPost \/ CompletePost \/ ResendPost
  <2>1. phase' = phase /\ cur' = cur /\ reply' = NoReply
    BY <1>7 DEF ScanPost, CompletePost, ResendPost, Post, pageVars
  <2>2. QED
    BY <1>1, <2>1 DEF DoneOrTold, NoReply
<1>8. CASE ScanReply \/ ResendReply
  <2>1. phase' \in {phase, "failed"} /\ cur' = cur /\ wait' = NoReq
    BY <1>8 DEF ScanReply, ResendReply
  <2>2. QED
    BY <1>1, <2>1 DEF DoneOrTold, NoReq
<1>9. CASE CompleteReply
  <2>1. wait.kind = "complete" /\ cur' = cur /\ wait' = NoReq
    BY <1>9 DEF CompleteReply, Shape, PageShape
  <2>2. phase' = "done" => phase = "done" \/ (reply.code = "ok" /\ reply.missing = {})
    BY <1>9 DEF CompleteReply
  <2>3. QED
    BY <1>1, <2>1, <2>2 DEF DoneOrTold, NoReq
<1>10. CASE NetworkError
  <2>1. phase' = phase /\ cur' = cur /\ reply' = [code |-> "error", missing |-> {}]
    BY <1>10 DEF NetworkError, pageVars
  <2>2. QED
    BY <1>1, <2>1 DEF DoneOrTold
<1>11. ASSUME NEW m \in net, ServeChunk(m) PROVE HandedOver(cur)'
  <2>1. phase' = phase /\ cur' = cur /\ wait' = wait /\ m.kind = "chunk"
    BY <1>11 DEF ServeChunk, pageVars
  <2>2. reply' = reply \/ wait = m
    BY <1>11 DEF ServeChunk, Answer
  <2>3. QED
    BY <1>1, <2>1, <2>2 DEF DoneOrTold
<1>12. ASSUME NEW m \in net, ServeComplete(m) PROVE HandedOver(cur)'
  <2>1. phase' = phase /\ cur' = cur /\ wait' = wait
    BY <1>12 DEF ServeComplete, pageVars
  <2>2. CASE reply' = reply \/ phase = "done"
    BY <1>1, <2>1, <2>2 DEF DoneOrTold
  <2>3. CASE reply' # reply /\ phase # "done"
    <3>1. wait = m /\ m.rec = cur /\ cur \in Recs
      BY <1>12, <2>3, RequestFields
         DEF ServeComplete, Answer, Shape, PageShape, TypeOK, WorldTypes
    <3>2. reply'.code = "ok" /\ reply'.missing = {}
      BY <2>1, <2>3 DEF DoneOrTold
    <3>3. /\ Accepts(cur) /\ reply'.missing = Missing(cur, m.total)
          /\ total' = [total EXCEPT ![cur] = m.total]
          /\ state' = [state EXCEPT ![cur] = IF Missing(cur, m.total) = {}
                                             THEN "ASSEMBLING" ELSE "WAITING_FOR_CHUNKS"]
          /\ rows' = rows
      BY <1>12, <2>3, <3>1, <3>2 DEF ServeComplete, Answer
    <3>4. state'[cur] = "ASSEMBLING" /\ total'[cur] = m.total
      BY <3>1, <3>2, <3>3 DEF Shape, TypeOK, DbTypes
    <3>5. Missing(cur, total[cur])' = {}
      BY <2>1, <3>2, <3>3, <3>4 DEF Missing, Held
    <3>6. QED
      BY <2>1, <3>4, <3>5 DEF HandedOver
  <2>4. QED
    BY <2>2, <2>3
<1>13. QED
  BY <1>2, <1>3, <1>4, <1>5, <1>6, <1>7, <1>8, <1>9, <1>10, <1>11, <1>12
     DEF Next, Page, Uploader, Network, Server, vars, pageVars, uploadVars

(* When the engine says "done", the recording is ready, found invalid or   *)
(* in assembly with every chunk: it never falls back to waiting.           *)
THEOREM DoneMeansHandedOver == Spec => []DoneIsHandedOver
<1>1. Init => DoneHonest
  BY DEF Init, DoneHonest, DoneOrTold, NoReq
<1>2. DoneHonest => DoneIsHandedOver
  BY DEF DoneHonest, DoneOrTold, HandedOver, DoneIsHandedOver
<1>3. Spec => []DoneHonest
  BY <1>1, ServerInvariant, DoneStep, PTL DEF Spec
<1>4. QED
  BY <1>2, <1>3, PTL

-----------------------------------------------------------------------------
(* Refinement.  Assembly only starts with a positive total.                *)
TotalDeclared == \A r \in Recs : state[r] = "ASSEMBLING" => total[r] > 0

LEMMA TotalStep == Shape /\ TotalDeclared /\ [Next]_vars => TotalDeclared'
<1> SUFFICES ASSUME Shape, TotalDeclared, [Next]_vars,
                    NEW r \in Recs, state'[r] = "ASSEMBLING"
             PROVE  total'[r] > 0
  BY DEF TotalDeclared
<1>1. CASE state[r] = "ASSEMBLING" /\ total'[r] = total[r]
  BY <1>1 DEF TotalDeclared
<1>2. CASE UNCHANGED <<state, total, rows, disk, canon, work>>
  BY <1>1, <1>2
<1>3. CASE StartCapture
  BY <1>1, <1>3 DEF StartCapture, Shape, TypeOK, DbTypes
<1>4. ASSUME NEW m \in net, ServeChunk(m) PROVE total'[r] > 0
  BY <1>1, <1>4 DEF ServeChunk, Reopened, Shape, TypeOK, DbTypes
<1>5. ASSUME NEW m \in net, ServeComplete(m) PROVE total'[r] > 0
  <2>1. CASE m.rec = r /\ total' # total
    BY <1>5, <2>1, RequestFields DEF ServeComplete, Shape, TypeOK, DbTypes, WorldTypes
  <2>2. CASE state'[r] = state[r]
    BY <1>1, <1>5, <2>1, <2>2 DEF ServeComplete, TotalDeclared, Shape, TypeOK, DbTypes
  <2>3. CASE m.rec = r /\ state'[r] # state[r]
    BY <1>5, <2>3, RequestFields DEF ServeComplete, Shape, TypeOK, DbTypes, WorldTypes
  <2>4. QED
    BY <1>5, <2>1, <2>2, <2>3 DEF ServeComplete, Shape, TypeOK, DbTypes
<1>6. CASE FinalizeRound
  <2>1. CASE Folded(r)
    <3>1. Cardinality(Held(r)) > 0
      BY <2>1, HeldCount, HeldFinite, FS_EmptySet DEF Folded
    <3>2. QED
      BY <1>6, <2>1, <3>1 DEF FinalizeRound, Shape, TypeOK, DbTypes
  <2>2. CASE ~Folded(r)
    BY <1>1, <1>6, <2>2 DEF FinalizeRound, Shape, TypeOK, DbTypes
  <2>3. QED
    BY <2>1, <2>2
<1>7. CASE SweepStalledUploads \/ SettleJob \/ Crash \/ JobRaises
  BY <1>1, <1>7 DEF SweepStalledUploads, SettleJob, Crash, JobRaises, AssemblyRaises, dbVars,
       Shape, TypeOK, DbTypes
<1>8. ASSUME NEW q \in Recs, AssembleBegin(q) \/ AssembleFiles(q) \/ AssembleCommit(q)
      PROVE  total'[r] > 0
  BY <1>1, <1>8 DEF AssembleBegin, AssembleFiles, AssembleCommit, Shape, TypeOK, DbTypes
<1>9. QED
  BY <1>2, <1>3, <1>4, <1>5, <1>6, <1>7, <1>8, ServerStepOrFrame DEF ServerStep

(* Every step of the pipeline is a step of the archive or changes nothing  *)
(* the archive shows.                                                      *)
Slot   == [r \in Recs |-> IF state[r] = "AUDIO_READY" THEN canon[r] ELSE rows[r]]
Sealed == {r \in Recs : state[r] \in {"AUDIO_READY", "AUDIO_INVALID"}}

StoresOne ==
    \E r \in Recs, s \in Seqs, c \in Lives :
        /\ r \notin Sealed /\ Slot[r][s] = None
        /\ Slot' = [Slot EXCEPT ![r][s] = c]
        /\ UNCHANGED <<total, Sealed>>

Redeclares ==
    /\ total' \in [Recs -> Nat]
    /\ \A r \in Sealed : total'[r] = total[r]
    /\ UNCHANGED <<Slot, Sealed>>

SealsOne ==
    \E r \in Recs :
        /\ r \notin Sealed /\ total[r] > 0
        /\ \A s \in Seqs : s < total[r] => Slot[r][s] # None
        /\ Sealed' = Sealed \union {r}
        /\ UNCHANGED <<Slot, total>>

LEMMA ArchiveEffect ==
    ASSUME Shape, WorkerHolds, TotalDeclared, [Next]_vars
    PROVE  StoresOne \/ Redeclares \/ SealsOne
<1>1. total' \in [Recs -> Nat]
  BY ShapeStep DEF Shape, TypeOK, DbTypes
<1>2. ASSUME \A r \in Recs : Slot'[r] = Slot[r], Sealed' = Sealed,
             \A r \in Sealed : total'[r] = total[r]
      PROVE  Redeclares
  BY <1>1, <1>2 DEF Redeclares, Slot, Sealed
<1>3. CASE UNCHANGED <<state, total, rows, disk, canon, work>>
  BY <1>2, <1>3 DEF Slot, Sealed
<1>4. CASE StartCapture
  BY <1>2, <1>4 DEF StartCapture, diskVars, Slot, Sealed, Shape, TypeOK, DbTypes
<1>5. ASSUME NEW m \in net, ServeChunk(m) PROVE StoresOne \/ Redeclares \/ SealsOne
  <2>1. CASE rows' = rows
    BY <1>2, <1>5, <2>1 DEF ServeChunk, Reopened, Slot, Sealed, Shape, TypeOK, DbTypes
  <2>2. CASE rows' # rows
    <3>1. m.rec \in Recs /\ m.seq \in Seqs /\ m.life \in Lives
      BY <1>5, RequestFields DEF ServeChunk, Shape, TypeOK, WorldTypes
    <3>2. /\ Accepts(m.rec) /\ rows[m.rec][m.seq] = None
          /\ rows' = [rows EXCEPT ![m.rec][m.seq] = m.life]
          /\ state' = [state EXCEPT ![m.rec] = Reopened(@)]
          /\ UNCHANGED <<total, canon>>
      BY <1>5, <2>2 DEF ServeChunk
    <3>3. Slot' = [Slot EXCEPT ![m.rec][m.seq] = m.life]
      BY <3>1, <3>2 DEF Slot, Accepts, Reopened, OpenStates, Shape, TypeOK, DbTypes
    <3>4. /\ state[m.rec] \notin {"AUDIO_READY", "AUDIO_INVALID"}
          /\ state'[m.rec] \notin {"AUDIO_READY", "AUDIO_INVALID"}
          /\ \A r \in Recs : r # m.rec => state'[r] = state[r]
      BY <3>1, <3>2 DEF Accepts, Reopened, OpenStates, Shape, TypeOK, DbTypes
    <3>5. Sealed' = Sealed
      BY <3>1, <3>4 DEF Sealed
    <3>6. m.rec \notin Sealed /\ Slot[m.rec][m.seq] = None
      BY <3>1, <3>2, <3>4 DEF Slot, Sealed
    <3>7. QED
      BY <3>1, <3>2, <3>3, <3>5, <3>6 DEF StoresOne
  <2>3. QED
    BY <2>1, <2>2
<1>6. ASSUME NEW m \in net, ServeComplete(m) PROVE Redeclares
  <2>1. rows' = rows /\ canon' = canon
    BY <1>6 DEF ServeComplete, diskVars
  <2>2. ASSUME NEW r \in Recs
        PROVE  \/ state'[r] = state[r] /\ total'[r] = total[r]
               \/ /\ state[r] \notin {"AUDIO_READY", "AUDIO_INVALID"}
                  /\ state'[r] \notin {"AUDIO_READY", "AUDIO_INVALID"}
    BY <1>6 DEF ServeComplete, Accepts, Reopened, OpenStates, Shape, TypeOK, DbTypes
  <2>3. \A r \in Recs : Slot'[r] = Slot[r]
    BY <2>1, <2>2 DEF Slot
  <2>4. Sealed' = Sealed
    BY <2>2 DEF Sealed
  <2>5. \A r \in Sealed : total'[r] = total[r]
    BY <2>2 DEF Sealed
  <2>6. QED
    BY <1>2, <2>3, <2>4, <2>5
<1>7. CASE SweepStalledUploads \/ FinalizeRound \/ SettleJob \/ Crash \/ JobRaises
  <2>1. rows' = rows /\ canon' = canon
    BY <1>7
       DEF SweepStalledUploads, FinalizeRound, SettleJob, Crash, JobRaises,
           AssemblyRaises, diskVars, dbVars
  <2>2. ASSUME NEW r \in Recs
        PROVE  \/ state'[r] = state[r] /\ total'[r] = total[r]
               \/ /\ state[r] \notin {"AUDIO_READY", "AUDIO_INVALID"}
                  /\ state'[r] \notin {"AUDIO_READY", "AUDIO_INVALID"}
    BY <1>7
       DEF SweepStalledUploads, FinalizeRound, SettleJob, Crash, JobRaises,
           AssemblyRaises, diskVars, Folded, OpenStates,
                dbVars, Shape, TypeOK, DbTypes
  <2>3. \A r \in Recs : Slot'[r] = Slot[r]
    BY <2>1, <2>2 DEF Slot
  <2>4. Sealed' = Sealed
    BY <2>2 DEF Sealed
  <2>5. \A r \in Sealed : total'[r] = total[r]
    BY <2>2 DEF Sealed
  <2>6. QED
    BY <1>2, <2>3, <2>4, <2>5
<1>8. ASSUME NEW q \in Recs, AssembleBegin(q) PROVE Redeclares
  BY <1>2, <1>8 DEF AssembleBegin, Slot, Sealed, diskVars, Shape, TypeOK, DbTypes
<1>9. ASSUME NEW q \in Recs, state[q] = "ASSEMBLING", Missing(q, total[q]) = {},
             state' = [state EXCEPT ![q] = "AUDIO_INVALID"], UNCHANGED <<total, rows, canon>>
      PROVE  SealsOne
  <2>1. total[q] > 0
    BY <1>9 DEF TotalDeclared
  <2>2. \A s \in Seqs : s < total[q] => Slot[q][s] # None
    BY <1>9 DEF Slot, Missing, Held
  <2>3. Sealed' = Sealed \union {q} /\ q \notin Sealed
    BY <1>9 DEF Sealed, Shape, TypeOK, DbTypes
  <2>4. Slot' = Slot
    BY <1>9 DEF Slot, Shape, TypeOK, DbTypes
  <2>5. QED
    BY <1>9, <2>1, <2>2, <2>3, <2>4 DEF SealsOne
<1>10. ASSUME NEW q \in Recs, AssembleFiles(q) PROVE Redeclares \/ SealsOne
  <2>1. state[q] = "ASSEMBLING" /\ Missing(q, total[q]) = {}
    BY <1>10 DEF AssembleFiles, WorkerHolds
  <2>2. CASE state' = state
    BY <1>2, <1>10, <2>1, <2>2 DEF AssembleFiles, Slot, Sealed, Shape, TypeOK, ServerTypes
  <2>3. CASE state' # state
    BY <1>9, <1>10, <2>1, <2>3 DEF AssembleFiles
  <2>4. QED
    BY <2>2, <2>3
<1>11. ASSUME NEW q \in Recs, AssembleCommit(q) PROVE SealsOne
  <2>1. state[q] = "ASSEMBLING" /\ Missing(q, total[q]) = {} /\ canon[q] = rows[q]
    BY <1>11 DEF AssembleCommit, WorkerHolds
  <2>2. total[q] > 0
    BY <2>1 DEF TotalDeclared
  <2>3. \A s \in Seqs : s < total[q] => Slot[q][s] # None
    BY <2>1 DEF Slot, Missing, Held
  <2>4. Sealed' = Sealed \union {q} /\ q \notin Sealed
    BY <1>11, <2>1 DEF AssembleCommit, Sealed, Shape, TypeOK, DbTypes
  <2>5. Slot' = Slot
    BY <1>11, <2>1 DEF AssembleCommit, Slot, diskVars, Shape, TypeOK, DbTypes, ServerTypes
  <2>6. QED
    BY <1>11, <2>2, <2>3, <2>4, <2>5 DEF SealsOne, AssembleCommit
<1>12. QED
  BY <1>3, <1>4, <1>5, <1>6, <1>7, <1>8, <1>10, <1>11, ServerStepOrFrame DEF ServerStep

LEMMA ArchiveStep ==
    Shape /\ WorkerHolds /\ TotalDeclared /\ [Next]_vars => [Archive!Next]_Archive!vars
<1>1. StoresOne => Archive!Next
  BY DEF StoresOne, Archive!Next, Archive!Store, Slot, Sealed
<1>2. Redeclares => Archive!Next
  BY DEF Redeclares, Archive!Next, Archive!Declare, Slot, Sealed
<1>3. SealsOne => Archive!Next
  BY DEF SealsOne, Archive!Next, Archive!Seal, Slot, Sealed
<1>4. QED
  BY <1>1, <1>2, <1>3, ArchiveEffect

(* The capture pipeline, with its retries, sweeps, crashes and reloads,    *)
(* implements the archive of write-once slots.                             *)
THEOREM CaptureImplementsArchive == Spec => ImplementsArchive
<1>1. Init => Archive!Init
  <2> SUFFICES ASSUME Init PROVE Archive!Init
    OBVIOUS
  <2>1. \A r \in Recs : ~(state[r] \in {"AUDIO_READY", "AUDIO_INVALID"})
    BY DEF Init
  <2>2. \A r \in Recs : rows[r] = [s \in Seqs |-> None]
    BY DEF Init, Empty
  <2>3. Slot = [r \in Recs |-> [s \in Seqs |-> None]]
    BY <2>1, <2>2 DEF Slot
  <2>4. Sealed = {}
    BY <2>1 DEF Sealed
  <2>5. QED
    BY <2>3, <2>4 DEF Init, Archive!Init, Slot, Sealed
<1>2. Init => TotalDeclared
  BY DEF Init, TotalDeclared
<1>3. Spec => [](Shape /\ WorkerHolds /\ TotalDeclared)
  BY <1>2, ServerInvariant, TotalStep, PTL DEF Spec
<1>4. QED
  BY <1>1, <1>3, ArchiveStep, PTL DEF Spec, ImplementsArchive, Archive!Spec
=============================================================================
