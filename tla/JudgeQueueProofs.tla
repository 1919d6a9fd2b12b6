-------------------------- MODULE JudgeQueueProofs --------------------------
(***************************************************************************)
(* Proofs about JudgeQueue, for any number of teams, uploads, jobs and      *)
(* system tests, any queue depth, and any number of crashes and errors.     *)
(***************************************************************************)
EXTENDS JudgeQueue, FiniteSetTheorems, TLAPS

Record == [status : Statuses, team : Teams \cup {""}, score : Scores \cup {Nil}]

\* The types that the arguments use.
TypeOK ==
    /\ queue \in Seq(Jobs) /\ job \in [Jobs -> Record]
    /\ \A j \in Jobs : job[j].status # "absent" => job[j].team \in Teams
    /\ board \in [Teams -> Scores \cup {0, Nil}]
    /\ active_jobs \in Int
    /\ rpc \in [Requests -> {"idle", "upload", "push"}]
    /\ rjob \in [Requests -> Jobs \cup {NoJob}]
    /\ wpc \in {"pop", "mark", "start", "run", "score", "fail", "best", "rank"}
    /\ wjob \in Jobs \cup {NoJob}
    /\ wresult \in Scores \cup {Nil} /\ wbest \in Scores \cup {0, Nil}
    /\ lost \subseteq Jobs

-----------------------------------------------------------------------------
(* Where a job is.                                                          *)

InQueue(j) == \E i \in DOMAIN queue : queue[i] = j
Uploaded(j) == \E r \in Requests : rjob[r] = j
AtWorker(j) == Working /\ wjob = j

\* An upload holds its job from the record to the push, and the worker holds one, with the
\* status of its place.
HoldInv ==
    /\ \A r \in Requests : rpc[r] = "push" <=> rjob[r] # NoJob
    /\ Working => wjob \in Jobs
    /\ wpc = "mark" => job[wjob].status = "queued"
    /\ wpc = "start" => job[wjob].status = "compiling"
    /\ wpc \in {"run", "score", "fail"} => job[wjob].status = "running"
    /\ wpc \in {"best", "rank"} => job[wjob].status = "scored"

\* A job is at most once in one of the three places, a record is there from the first
\* place on, and a job whose handling was cut off is in none.
PlaceInv ==
    /\ \A i, k \in DOMAIN queue : queue[i] = queue[k] => i = k
    /\ \A r, q \in Requests : rjob[r] = rjob[q] /\ rjob[r] # NoJob => r = q
    /\ \A j \in Jobs :
         /\ ~(InQueue(j) /\ Uploaded(j)) /\ ~(AtWorker(j) /\ (InQueue(j) \/ Uploaded(j)))
         /\ InQueue(j) \/ Uploaded(j) => job[j].status = "queued"
         /\ j \in lost => /\ ~InQueue(j) /\ ~Uploaded(j) /\ ~AtWorker(j)
                          /\ job[j].status # "absent"
         /\ job[j].status \in {"queued", "compiling", "running"} =>
              InQueue(j) \/ Uploaded(j) \/ AtWorker(j) \/ j \in lost

-----------------------------------------------------------------------------
(* The leaderboard.                                                         *)

ScoredFor(j, t) == job[j].status = "scored" /\ job[j].team = t

\* A team's entry is the score of one of its jobs and no job that was ranked beats it; while
\* the worker ranks, its result is the job's score and the entry is what it read.
BoardInv ==
    /\ wpc \in {"best", "rank"} => job[wjob].score = wresult
    /\ \A t \in Teams \ touched :
         /\ \A j \in Jobs : ScoredFor(j, t) /\ j \notin lost /\ ~AtWorker(j) =>
                              board[t] >= job[j].score
         /\ board[t] = Nil \/ \E j \in Jobs : ScoredFor(j, t) /\ job[j].score = board[t]
         /\ wpc = "rank" /\ job[wjob].team = t => wbest = board[t]

-----------------------------------------------------------------------------
(* The steps.                                                               *)

\* A submission that was not made yet has a record too, of status absent.
LEMMA AbsentRecord == Absent \in Record /\ Absent.status = "absent"
BY DEF Record, Absent, Statuses

\* The steps that move no job and leave the worker alone.
Quiet ==
    \/ \E r \in Requests : SubmitDepth(r) \/ SubmitAborted(r)
    \/ \E s \in Testers : SystemTest(s)
    \/ admin_reset_leaderboard \/ UNCHANGED vars

\* The steps of the worker that write its job's record.
StatusWrite == WorkerMark \/ WorkerStart \/ WorkerFail \/ WorkerScore

\* The next-state relation as the proofs take it apart.
LEMMA Steps ==
    ASSUME [Next]_vars
    PROVE  \/ Quiet
           \/ \E r \in Requests, t \in Teams, j \in Jobs : SubmitRecord(r, t, j)
           \/ \E r \in Requests : SubmitPush(r) \/ SubmitError(r)
           \/ WorkerPop \/ StatusWrite
           \/ \E result \in Scores \cup {Nil} : WorkerRun(result)
           \/ WorkerReadBest \/ WorkerRank \/ WorkerError \/ Crash
BY Zenon DEF Next, Quiet, StatusWrite, Upload, submission_worker

\* The quiet steps leave the queue, the records, the uploads and the worker alone.
LEMMA QuietFrame ==
    ASSUME Quiet
    PROVE  UNCHANGED <<queue, job, active_jobs, rjob, wpc, wjob, wresult, wbest, lost>>
BY DEF Quiet, SubmitDepth, SubmitAborted, SystemTest, SystestCheck, SystestList,
   SystestState, SystestBegin, SystestTeam, SystestDone, SystestError,
   admin_reset_leaderboard, vars, redis, requestVars, workerVars

\* Entries change by a reset or a system test only, which touch them.
LEMMA QuietBoard ==
    ASSUME TypeOK, Quiet
    PROVE  /\ board' \in [Teams -> Scores \cup {0, Nil}]
           /\ \A t \in Teams \ touched' : t \notin touched /\ board'[t] = board[t]
<1>1. ASSUME NEW s \in Testers, SystestTeam(s)
      PROVE  /\ board' \in [Teams -> Scores \cup {0, Nil}]
             /\ \A t \in Teams \ touched' : t \notin touched /\ board'[t] = board[t]
  BY <1>1 DEF SystestTeam, TypeOK
<1>2. CASE \A s \in Testers : ~SystestTeam(s)
  BY <1>2 DEF TypeOK, Quiet, SubmitDepth, SubmitAborted, SystemTest, SystestCheck,
     SystestList, SystestState, SystestBegin, SystestDone, SystestError,
     admin_reset_leaderboard, vars, redis
<1> QED BY <1>1, <1>2

\* A new record is queued and has its team.
LEMMA RecordSet ==
    ASSUME TypeOK, NEW r \in Requests, NEW t \in Teams, NEW j \in Jobs, SubmitRecord(r, t, j)
    PROVE  /\ job[j].status = "absent" /\ job' \in [Jobs -> Record]
           /\ job'[j].status = "queued" /\ job'[j].team = t
           /\ \A k \in Jobs : k # j => job'[k] = job[k]
<1>1. job[j].status = "absent"
  BY AbsentRecord DEF SubmitRecord
<1> QED BY Zenon, <1>1 DEF TypeOK, SubmitRecord, Record, Statuses

\* A job in the worker's hands has a record.
LEMMA WorkerHas ==
    ASSUME TypeOK, HoldInv, Working
    PROVE  wjob \in Jobs /\ job[wjob].status # "absent"
BY DEF TypeOK, HoldInv, Working

\* What a write of the worker does to its job, from its place.
LEMMA StatusSet ==
    ASSUME TypeOK, HoldInv, StatusWrite
    PROVE  /\ wjob \in Jobs /\ job[wjob].status \in {"queued", "compiling", "running"}
           /\ job' \in [Jobs -> Record] /\ \A k \in Jobs : k # wjob => job'[k] = job[k]
           /\ job'[wjob].team = job[wjob].team
           /\ \/ wpc = "mark" /\ wpc' = "start" /\ job'[wjob].status = "compiling"
              \/ wpc = "start" /\ wpc' = "run" /\ job'[wjob].status = "running"
              \/ wpc = "fail" /\ wpc' = "pop" /\ job'[wjob].status = "failed"
              \/ wpc = "score" /\ wpc' = "best" /\ job'[wjob].status = "scored"
           /\ wpc = "score" => job'[wjob].score = wresult
           /\ UNCHANGED <<queue, rpc, rjob, board, touched, lost, wjob, wresult, wbest>>
<1>1. /\ wjob \in Jobs /\ job[wjob].status \in {"queued", "compiling", "running"}
      /\ job[wjob] # Absent
  BY AbsentRecord DEF HoldInv, Working, StatusWrite, WorkerMark, WorkerStart, WorkerFail,
     WorkerScore
<1>2. CASE WorkerMark
  <2>1. SetStatus(wjob, "compiling") /\ wpc = "mark" /\ wpc' = "start"
    BY <1>1, <1>2 DEF WorkerMark
  <2> QED BY ZenonT(60), <1>1, <1>2, <2>1
          DEF WorkerMark, SetStatus, TypeOK, Record, Statuses, requestVars
<1>3. CASE WorkerStart
  BY ZenonT(60), <1>1, <1>3 DEF WorkerStart, SetStatus, TypeOK, Record, Statuses, requestVars
<1>4. CASE WorkerFail
  BY ZenonT(60), <1>1, <1>4 DEF WorkerFail, SetStatus, TypeOK, Record, Statuses, requestVars
<1>5. CASE WorkerScore
  BY ZenonT(60), <1>1, <1>5 DEF WorkerScore, TypeOK, Record, Statuses, requestVars
<1> QED BY <1>2, <1>3, <1>4, <1>5 DEF StatusWrite

-----------------------------------------------------------------------------
(* Types, and who holds which job.                                          *)

\* At the start everything is well typed and nobody holds a submission.
LEMMA HoldInit == Init => TypeOK /\ HoldInv
<1> SUFFICES ASSUME Init PROVE TypeOK /\ HoldInv
  OBVIOUS
<1>1. job \in [Jobs -> Record] /\ \A j \in Jobs : job[j].status = "absent"
  BY AbsentRecord DEF Init
<1> QED BY <1>1 DEF Init, TypeOK, HoldInv, Working

\* Every step keeps the types, and who holds which submission.
LEMMA HoldNext == TypeOK /\ HoldInv /\ PlaceInv /\ [Next]_vars => TypeOK' /\ HoldInv'
<1> SUFFICES ASSUME TypeOK, HoldInv, PlaceInv, [Next]_vars PROVE TypeOK' /\ HoldInv'
  OBVIOUS
<1> USE JudgeAssumption DEF TypeOK, HoldInv, Working
<1>1. CASE Quiet
  <2>1. /\ rpc' \in [Requests -> {"idle", "upload", "push"}]
        /\ \A r \in Requests : rpc'[r] = "push" <=> rpc[r] = "push"
    BY <1>1 DEF Quiet, SubmitDepth, SubmitAborted, SystemTest, SystestCheck, SystestList,
       SystestState, SystestBegin, SystestTeam, SystestDone, SystestError,
       admin_reset_leaderboard, vars, requestVars
  <2> QED BY SMTT(60), <1>1, <2>1, QuietFrame, QuietBoard
<1>2. ASSUME NEW r \in Requests, NEW t \in Teams, NEW j \in Jobs, SubmitRecord(r, t, j)
      PROVE  TypeOK' /\ HoldInv'
  <2>1. /\ Working => job'[wjob] = job[wjob]
        /\ \A k \in Jobs : job'[k].status # "absent" => job'[k].team \in Teams
    BY <1>2, RecordSet, WorkerHas
  <2>2. TypeOK'
    BY ZenonT(60), <1>2, <2>1, RecordSet DEF SubmitRecord, workerVars
  <2> QED BY <1>2, <2>1, <2>2 DEF SubmitRecord, workerVars
<1>3. ASSUME NEW r \in Requests, SubmitPush(r) \/ SubmitError(r) PROVE TypeOK' /\ HoldInv'
  <2>1. rjob[r] \in Jobs
    BY <1>3 DEF SubmitPush, SubmitError
  <2>2. CASE SubmitPush(r)
    BY <2>1, <2>2 DEF SubmitPush, workerVars
  <2>3. CASE SubmitError(r)
    BY <2>1, <2>3 DEF SubmitError, redis, workerVars
  <2> QED BY <1>3, <2>2, <2>3
<1>4. CASE WorkerPop
  <2>1. 1 \in DOMAIN queue /\ Head(queue) = queue[1] /\ queue[1] \in Jobs
    BY <1>4 DEF WorkerPop
  <2> QED BY <1>4, <2>1 DEF WorkerPop, requestVars, PlaceInv, InQueue
<1>5. CASE StatusWrite
  <2>1. active_jobs' \in Int
    BY <1>5 DEF StatusWrite, WorkerMark, WorkerStart, WorkerFail, WorkerScore
  <2> QED BY ZenonT(60), <1>5, <2>1, StatusSet
<1>6. ASSUME NEW result \in Scores \cup {Nil}, WorkerRun(result) PROVE TypeOK' /\ HoldInv'
  BY <1>6 DEF WorkerRun, redis, requestVars
<1>7. CASE WorkerReadBest \/ WorkerRank
  BY <1>7 DEF WorkerReadBest, WorkerRank, redis, requestVars
<1>8. CASE WorkerError \/ Crash
  BY <1>8 DEF WorkerError, Crash, redis, requestVars
<1> QED BY ZenonT(60), <1>1, <1>2, <1>3, <1>4, <1>5, <1>6, <1>7, <1>8, Steps

\* The counter of /api/metrics is the number of jobs in the pipeline, after any number of
\* errors and crashes of the worker.
THEOREM Active == Spec => []ActiveCounted
<1>1. Init => ActiveCounted
  BY DEF Init, ActiveCounted
<1>2. ASSUME ActiveCounted, [Next]_vars PROVE ActiveCounted'
  <2>1. CASE Quiet
    BY <1>2, <2>1, QuietFrame DEF ActiveCounted
  <2>2. CASE StatusWrite
    BY <1>2, <2>2 DEF ActiveCounted, StatusWrite, WorkerMark, WorkerStart, WorkerFail,
       WorkerScore
  <2>3. CASE WorkerPop \/ WorkerReadBest \/ WorkerRank \/ WorkerError \/ Crash
    BY <1>2, <2>3 DEF ActiveCounted, WorkerPop, WorkerReadBest, WorkerRank, WorkerError, Crash
  <2>4. ASSUME NEW r \in Requests,
               \/ SubmitPush(r) \/ SubmitError(r)
               \/ \E t \in Teams, j \in Jobs : SubmitRecord(r, t, j)
        PROVE  ActiveCounted'
    BY <1>2, <2>4 DEF ActiveCounted, SubmitPush, SubmitError, SubmitRecord, workerVars
  <2>5. ASSUME NEW result \in Scores \cup {Nil}, WorkerRun(result) PROVE ActiveCounted'
    BY <1>2, <2>5 DEF ActiveCounted, WorkerRun
  <2> QED BY <1>2, <2>1, <2>2, <2>3, <2>4, <2>5, Steps
<1> QED BY <1>1, <1>2, PTL DEF Spec

-----------------------------------------------------------------------------
(* Every job is in one place.                                               *)

\* At the start no submission is anywhere.
LEMMA PlaceInit == Init => PlaceInv
<1> SUFFICES ASSUME Init PROVE PlaceInv
  OBVIOUS
<1>1. /\ DOMAIN queue = {} /\ ~Working /\ lost = {}
      /\ \A r \in Requests : rjob[r] = NoJob
      /\ \A j \in Jobs : job[j].status = "absent"
  BY AbsentRecord DEF Init, Working
<1> QED BY <1>1, JudgeAssumption DEF PlaceInv, InQueue, Uploaded, AtWorker

\* A step that moves no job; the worker's job may change its status.
LEMMA PlaceFrame ==
    ASSUME PlaceInv,
           UNCHANGED <<queue, rjob, lost>>,
           \A j \in Jobs : AtWorker(j)' <=> AtWorker(j),
           \A j \in Jobs : job'[j].status # job[j].status =>
               AtWorker(j) /\ job'[j].status # "absent"
    PROVE  PlaceInv'
<1>1. \A j : (InQueue(j)' <=> InQueue(j)) /\ (Uploaded(j)' <=> Uploaded(j))
  BY DEF InQueue, Uploaded
<1> QED BY <1>1 DEF PlaceInv

\* The record: the job gets its first place.
LEMMA PlaceRecord ==
    ASSUME TypeOK, HoldInv, PlaceInv,
           NEW r \in Requests, NEW t \in Teams, NEW j \in Jobs, SubmitRecord(r, t, j)
    PROVE  PlaceInv'
<1>1. /\ UNCHANGED <<queue, lost, wpc, wjob>> /\ rjob' = [rjob EXCEPT ![r] = j]
      /\ rjob[r] = NoJob /\ NoJob \notin Jobs
      /\ \A q \in Requests : rjob[q] # j
  BY JudgeAssumption DEF SubmitRecord, workerVars, HoldInv
<1>2. \A k \in Jobs : /\ InQueue(k)' <=> InQueue(k)
                      /\ AtWorker(k)' <=> AtWorker(k)
                      /\ Uploaded(k)' <=> Uploaded(k) \/ k = j
  BY <1>1 DEF InQueue, Uploaded, AtWorker, Working, TypeOK
<1>3. ~InQueue(j) /\ ~AtWorker(j) /\ ~Uploaded(j) /\ j \notin lost
  BY RecordSet, WorkerHas DEF PlaceInv, AtWorker
<1>4. (\A q, u \in Requests : rjob[q] = rjob[u] /\ rjob[q] # NoJob => q = u)'
  BY <1>1 DEF PlaceInv, TypeOK
<1> QED BY <1>1, <1>2, <1>3, <1>4, RecordSet DEF PlaceInv

\* The push: from the upload to the end of the queue, or lost.
LEMMA PlacePush ==
    ASSUME TypeOK, HoldInv, PlaceInv, NEW r \in Requests, SubmitPush(r) \/ SubmitError(r)
    PROVE  PlaceInv'
<1>1. PICK j \in Jobs : j = rjob[r]
  BY DEF SubmitPush, SubmitError, HoldInv, TypeOK
<1>2. /\ UNCHANGED <<job, wpc, wjob>> /\ rjob' = [rjob EXCEPT ![r] = NoJob]
      /\ NoJob \notin Jobs
  BY JudgeAssumption DEF SubmitPush, SubmitError, workerVars, redis
<1>3. Uploaded(j) /\ ~InQueue(j) /\ ~AtWorker(j) /\ j \notin lost /\ job[j].status = "queued"
  BY <1>1 DEF PlaceInv, Uploaded
<1>4. \A k \in Jobs : /\ AtWorker(k)' <=> AtWorker(k)
                      /\ Uploaded(k)' <=> Uploaded(k) /\ k # j
  BY <1>1, <1>2 DEF Uploaded, AtWorker, Working, TypeOK, PlaceInv
<1>5. (\A q, u \in Requests : rjob[q] = rjob[u] /\ rjob[q] # NoJob => q = u)'
  BY <1>2 DEF PlaceInv, TypeOK
<1>6. CASE SubmitPush(r)
  <2>1. /\ UNCHANGED lost /\ DOMAIN queue' = DOMAIN queue \cup {Len(queue) + 1}
        /\ \A i \in DOMAIN queue : queue'[i] = queue[i] /\ i # Len(queue) + 1
        /\ queue'[Len(queue) + 1] = j
    BY <1>1, <1>6 DEF TypeOK, SubmitPush
  <2>2. \A k \in Jobs : InQueue(k)' <=> InQueue(k) \/ k = j
    BY <2>1 DEF InQueue
  <2>3. (\A i, k \in DOMAIN queue : queue[i] = queue[k] => i = k)'
    BY <1>3, <2>1 DEF PlaceInv, InQueue
  <2> QED BY <1>2, <1>3, <1>4, <1>5, <2>1, <2>2, <2>3 DEF PlaceInv
<1>7. CASE SubmitError(r)
  <2>1. UNCHANGED queue /\ lost' = lost \cup {j} /\ \A k \in Jobs : InQueue(k)' <=> InQueue(k)
    BY <1>1, <1>7 DEF SubmitError, InQueue, redis
  <2> QED BY <1>2, <1>3, <1>4, <1>5, <2>1 DEF PlaceInv
<1> QED BY <1>6, <1>7

\* The pop: from the head of the queue to the worker.
LEMMA PlacePop ==
    ASSUME TypeOK, HoldInv, PlaceInv, WorkerPop
    PROVE  PlaceInv'
<1> DEFINE j == queue[1]
<1>1. /\ UNCHANGED <<job, lost, rjob>> /\ queue' = Tail(queue) /\ queue # <<>>
      /\ ~Working /\ Working' /\ wjob' = j /\ j \in Jobs /\ 1 \in DOMAIN queue
  BY DEF WorkerPop, requestVars, TypeOK, Working
<1>2. /\ \A i \in DOMAIN queue' : /\ i + 1 \in DOMAIN queue /\ i + 1 # 1 /\ i \in Nat
                                  /\ queue'[i] = queue[i + 1]
      /\ \A i \in DOMAIN queue : i # 1 => i - 1 \in DOMAIN queue' /\ queue'[i - 1] = queue[i]
  BY <1>1 DEF TypeOK
<1>3. ASSUME NEW k \in Jobs PROVE InQueue(k)' <=> InQueue(k) /\ k # j
  <2>1. ASSUME NEW i \in DOMAIN queue', queue'[i] = k PROVE InQueue(k) /\ k # j
    BY <1>1, <1>2, <2>1 DEF InQueue, PlaceInv
  <2>2. ASSUME NEW i \in DOMAIN queue, queue[i] = k, k # j PROVE InQueue(k)'
    <3>1. i # 1
      BY <2>2
    <3> QED BY <1>2, <2>2, <3>1 DEF InQueue
  <2> QED BY <2>1, <2>2 DEF InQueue
<1>4. \A k \in Jobs : /\ AtWorker(k)' <=> k = j
                      /\ ~AtWorker(k)
                      /\ Uploaded(k)' <=> Uploaded(k)
  BY <1>1 DEF Uploaded, AtWorker
<1>5. InQueue(j) /\ ~Uploaded(j) /\ j \notin lost
  BY <1>1 DEF PlaceInv, InQueue
<1>6. (\A i, k \in DOMAIN queue : queue[i] = queue[k] => i = k)'
  BY <1>2 DEF PlaceInv
<1> QED BY <1>1, <1>3, <1>4, <1>5, <1>6 DEF PlaceInv

\* The worker is done with its job, or an error cuts it off.
LEMMA PlaceDone ==
    ASSUME TypeOK, HoldInv, PlaceInv,
           WorkerFail \/ WorkerRank \/ WorkerError
    PROVE  PlaceInv'
<1>1. /\ AtWorker(wjob) /\ wjob \in Jobs /\ job[wjob].status # "absent" /\ ~Working'
      /\ UNCHANGED <<queue, rjob>>
  BY DEF WorkerFail, WorkerRank, WorkerError, TypeOK, HoldInv, AtWorker, Working, redis,
     requestVars
<1>2. /\ \A j \in Jobs : j # wjob => job'[j].status = job[j].status
      /\ job'[wjob].status # "absent"
      /\ \/ lost' = lost /\ job'[wjob].status \in {"scored", "failed"}
         \/ lost' = lost \cup {wjob}
  <2>1. CASE WorkerFail
    BY <2>1, StatusSet DEF StatusWrite, WorkerFail
  <2>2. CASE WorkerRank \/ WorkerError
    BY <1>1, <2>2 DEF WorkerRank, WorkerError, HoldInv, redis
  <2> QED BY <2>1, <2>2
<1>3. \A j \in Jobs : /\ InQueue(j)' <=> InQueue(j)
                      /\ Uploaded(j)' <=> Uploaded(j)
                      /\ ~AtWorker(j)' /\ (AtWorker(j) <=> j = wjob)
  BY SMTT(60), <1>1 DEF InQueue, Uploaded, AtWorker
<1> QED BY <1>1, <1>2, <1>3 DEF PlaceInv

\* The process dies: what uploads and worker had in hand is lost.
LEMMA PlaceCrash ==
    ASSUME TypeOK, HoldInv, PlaceInv, Crash
    PROVE  PlaceInv'
<1>1. /\ UNCHANGED <<queue, job>> /\ ~Working' /\ NoJob \notin Jobs
      /\ \A r \in Requests : rjob'[r] = NoJob
  BY JudgeAssumption DEF Crash, redis, Working
<1>2. ASSUME NEW j \in Jobs PROVE j \in lost' <=> j \in lost \/ Uploaded(j) \/ AtWorker(j)
  BY JudgeAssumption DEF Crash, HoldInv, TypeOK, Uploaded, AtWorker
<1>3. \A j \in Jobs : (InQueue(j)' <=> InQueue(j)) /\ ~Uploaded(j)' /\ ~AtWorker(j)'
  BY <1>1 DEF InQueue, Uploaded, AtWorker
<1>4. \A j \in Jobs : AtWorker(j) => job[j].status # "absent"
  BY WorkerHas DEF AtWorker
<1> QED BY SMTT(60), <1>1, <1>2, <1>3, <1>4 DEF PlaceInv

\* Every step keeps a submission in one place.
LEMMA PlaceNext == TypeOK /\ HoldInv /\ PlaceInv /\ [Next]_vars => PlaceInv'
<1> SUFFICES ASSUME TypeOK, HoldInv, PlaceInv, [Next]_vars PROVE PlaceInv'
  OBVIOUS
<1>1. CASE StatusWrite /\ ~WorkerFail
  <2>1. Working /\ Working'
    BY <1>1, StatusSet DEF Working, StatusWrite, WorkerMark, WorkerStart, WorkerScore
  <2> QED BY <1>1, <2>1, StatusSet, PlaceFrame DEF AtWorker
<1>2. CASE Quiet
  <2>1. /\ UNCHANGED <<queue, job, rjob, lost>>
        /\ \A j \in Jobs : AtWorker(j)' <=> AtWorker(j)
    BY <1>2, QuietFrame DEF AtWorker, Working
  <2> QED BY <2>1, PlaceFrame
<1>3. CASE WorkerReadBest \/ \E result \in Scores \cup {Nil} : WorkerRun(result)
  BY <1>3, PlaceFrame DEF WorkerReadBest, WorkerRun, redis, requestVars, AtWorker, Working
<1> QED BY <1>1, <1>2, <1>3, Steps, PlaceRecord, PlacePush, PlacePop, PlaceDone, PlaceCrash
        DEF StatusWrite

\* What every argument below starts from.
LEMMA Held == Spec => [](TypeOK /\ HoldInv /\ PlaceInv)
BY HoldInit, HoldNext, PlaceInit, PlaceNext, PTL DEF Spec

-----------------------------------------------------------------------------
(* The depth of the queue.                                                  *)

Uploading == {r \in Requests : rpc[r] # "idle"}
DepthInv == Len(queue) + Cardinality(Uploading) <= MaxQueueDepth + Cardinality(Requests) - 1

\* The uploads in progress are finitely many, at most one for each request.
LEMMA UploadingFinite ==
    \A S : S \subseteq Requests => /\ IsFiniteSet(S) /\ Cardinality(S) \in Nat
                                 /\ Cardinality(S) <= Cardinality(Requests)
BY JudgeAssumption, FS_Subset, FS_CardinalityType

\* An upload that ends leaves one less.
LEMMA UploadingEnds ==
    ASSUME TypeOK, NEW r \in Requests, rpc[r] # "idle", rpc' = [rpc EXCEPT ![r] = "idle"]
    PROVE  Cardinality(Uploading') = Cardinality(Uploading) - 1
<1>1. Uploading' = Uploading \ {r} /\ r \in Uploading
  BY DEF TypeOK, Uploading
<1>2. Uploading \subseteq Requests
  BY DEF Uploading
<1> QED BY <1>1, <1>2, UploadingFinite, FS_RemoveElement

\* Every step keeps the queue within its limit and the uploads that passed the test of it.
LEMMA DepthNext == TypeOK /\ DepthInv /\ [Next]_vars => DepthInv'
<1> SUFFICES ASSUME TypeOK, DepthInv, [Next]_vars PROVE DepthInv'
  OBVIOUS
<1>1. /\ Cardinality(Uploading) \in Nat /\ Cardinality(Uploading') \in Nat
      /\ Cardinality(Uploading') <= Cardinality(Requests)
      /\ Cardinality(Requests) \in Nat /\ Len(queue) \in Nat
      /\ MaxQueueDepth \in Nat \ {0}
  BY UploadingFinite, JudgeAssumption DEF Uploading, TypeOK
<1>2. ASSUME NEW r \in Requests, SubmitDepth(r) PROVE DepthInv'
  BY <1>1, <1>2 DEF SubmitDepth, redis, DepthInv
<1>3. ASSUME NEW r \in Requests, SubmitAborted(r) \/ SubmitError(r) \/ SubmitPush(r)
      PROVE  DepthInv'
  <2>1. Cardinality(Uploading') = Cardinality(Uploading) - 1
    BY ZenonT(60), <1>3, UploadingEnds DEF SubmitAborted, SubmitError, SubmitPush
  <2>2. Len(queue') \in Nat /\ Len(queue') <= Len(queue) + 1
    BY <1>3 DEF SubmitAborted, SubmitError, SubmitPush, TypeOK, redis
  <2> QED BY <1>1, <2>1, <2>2 DEF DepthInv
<1>4. CASE Crash
  <2>1. Uploading' = {} /\ UNCHANGED queue
    BY <1>4 DEF Crash, redis, Uploading
  <2> QED BY <1>1, <2>1, FS_EmptySet DEF DepthInv
<1>5. ASSUME Uploading' = Uploading, Len(queue') \in Nat, Len(queue') <= Len(queue)
      PROVE  DepthInv'
  BY <1>1, <1>5 DEF DepthInv
<1>6. ASSUME NEW r \in Requests, NEW t \in Teams, NEW j \in Jobs, SubmitRecord(r, t, j)
      PROVE  DepthInv'
  BY <1>1, <1>5, <1>6 DEF SubmitRecord, Uploading, TypeOK
<1>7. CASE WorkerPop
  <2>1. Len(queue') \in Nat /\ Len(queue') <= Len(queue)
    BY <1>7 DEF WorkerPop, TypeOK
  <2> QED BY <1>5, <1>7, <2>1 DEF WorkerPop, requestVars, Uploading
<1>8. CASE \/ StatusWrite \/ WorkerReadBest \/ WorkerRank \/ WorkerError
           \/ \E result \in Scores \cup {Nil} : WorkerRun(result)
  BY <1>1, <1>5, <1>8 DEF StatusWrite, WorkerMark, WorkerStart, WorkerRun, WorkerFail,
     WorkerScore, WorkerReadBest, WorkerRank, WorkerError, redis, requestVars, Uploading
<1>9. CASE Quiet
  <2>1. CASE \E r \in Requests : SubmitDepth(r) \/ SubmitAborted(r)
    BY <1>2, <1>3, <2>1
  <2>2. CASE ~\E r \in Requests : SubmitDepth(r) \/ SubmitAborted(r)
    <3>1. UNCHANGED <<rpc, queue>>
      BY <1>9, <2>2 DEF Quiet, SystemTest, SystestCheck, SystestList, SystestState,
         SystestBegin, SystestTeam, SystestDone, SystestError, admin_reset_leaderboard, vars,
         redis, requestVars
    <3>2. Uploading' = Uploading /\ Len(queue') \in Nat /\ Len(queue') <= Len(queue)
      BY <3>1 DEF Uploading, TypeOK
    <3> QED BY Zenon, <1>5, <3>2
  <2> QED BY <2>1, <2>2
<1> QED BY <1>3, <1>4, <1>6, <1>7, <1>8, <1>9, Steps

\* A property that holds of one element at most is counted 0 or 1 times.
LEMMA CountUnique ==
    ASSUME NEW S, \A x, y \in S : x = y
    PROVE  /\ Cardinality(S) = IF S = {} THEN 0 ELSE 1
<1>1. CASE S = {}
  BY <1>1, FS_EmptySet
<1>2. CASE S # {}
  <2>1. PICK x : S = {x}
    BY <1>2
  <2> QED BY <1>2, <2>1, FS_Singleton
<1> QED BY <1>1, <1>2

\* A job that is not finished is in exactly one place unless a crash or a failed await lost
\* it, and uploads that passed the check of the depth together overrun the limit by less
\* than their number.
THEOREM Accounted == Spec => []JobAccounted
<1>1. PlaceInv /\ DepthInv => JobAccounted
  <2> SUFFICES ASSUME PlaceInv, DepthInv, NEW j \in Jobs
               PROVE  /\ Places(j) = 0 \/ Places(j) = 1
                      /\ Places(j) = 1 <=> InQueue(j) \/ Uploaded(j) \/ AtWorker(j)
    <3>1. \A i : i = 0 \/ i = 1 => i <= 1
      OBVIOUS
    <3> QED BY Zenon, <3>1 DEF JobAccounted, DepthInv, Uploading, PlaceInv, InQueue
  <2> DEFINE Q == {i \in DOMAIN queue : queue[i] = j}
             U == {r \in Requests : rjob[r] = j}
  <2>1. Cardinality(Q) = IF InQueue(j) THEN 1 ELSE 0
    <3>1. \A x, y \in Q : x = y
      BY DEF PlaceInv
    <3>2. Q = {} <=> ~InQueue(j)
      BY DEF InQueue
    <3> HIDE DEF Q
    <3> QED BY <3>1, <3>2, CountUnique
  <2>2. Cardinality(U) = IF Uploaded(j) THEN 1 ELSE 0
    <3>1. \A x, y \in U : x = y
      BY JudgeAssumption DEF PlaceInv
    <3>2. U = {} <=> ~Uploaded(j)
      BY DEF Uploaded
    <3> HIDE DEF U
    <3> QED BY <3>1, <3>2, CountUnique
  <2>3. Places(j) = Cardinality(Q) + Cardinality(U) + (IF AtWorker(j) THEN 1 ELSE 0)
    BY DEF Places, AtWorker
  <2>4. ~(InQueue(j) /\ Uploaded(j)) /\ ~(AtWorker(j) /\ (InQueue(j) \/ Uploaded(j)))
    BY DEF PlaceInv
  <2> HIDE DEF Q, U
  <2> QED BY <2>1, <2>2, <2>3, <2>4
<1>2. Init => DepthInv
  <2> SUFFICES ASSUME Init PROVE DepthInv
    OBVIOUS
  <2>1. Uploading = {} /\ Len(queue) = 0
    BY DEF Init, Uploading
  <2> QED BY <2>1, UploadingFinite, FS_EmptySet, JudgeAssumption DEF DepthInv
<1> QED BY <1>1, <1>2, Held, DepthNext, PTL DEF Spec

-----------------------------------------------------------------------------
(* The leaderboard.                                                         *)

\* Scores, and what stands for none, are integers.
LEMMA ScoreRange == Nil = -1 /\ \A x \in Scores \cup {0, Nil} : x \in Int /\ x >= -1
BY JudgeAssumption DEF Nil

\* The board is empty at the start.
LEMMA BoardInit == Init => BoardInv
<1> SUFFICES ASSUME Init PROVE BoardInv
  OBVIOUS
<1>1. /\ wpc = "pop" /\ \A t \in Teams : board[t] = Nil
      /\ \A j \in Jobs : job[j].status = "absent"
  BY AbsentRecord DEF Init
<1> QED BY <1>1 DEF BoardInv, ScoredFor

\* A step that changes no entry but of a touched team and no scored job, and after which no
\* scored job counts that did not count before.
LEMMA BoardFrame ==
    ASSUME BoardInv,
           \A t \in Teams \ touched' : t \notin touched /\ board'[t] = board[t],
           \A j \in Jobs : job[j].status = "scored" \/ job'[j].status = "scored" =>
               /\ job'[j].status = job[j].status
               /\ job'[j].team = job[j].team /\ job'[j].score = job[j].score,
           \A j \in Jobs : job[j].status = "scored" /\ j \notin lost' /\ ~AtWorker(j)' =>
               j \notin lost /\ ~AtWorker(j),
           wpc' \in {"best", "rank"} =>
               /\ wpc' = wpc /\ UNCHANGED <<wjob, wresult, wbest>>
               /\ wjob \in Jobs /\ job[wjob].status = "scored"
    PROVE  BoardInv'
<1>1. (wpc \in {"best", "rank"} => job[wjob].score = wresult)'
  BY ZenonT(60) DEF BoardInv
<1>2. ASSUME NEW t \in Teams \ touched'
      PROVE  (/\ \A j \in Jobs : ScoredFor(j, t) /\ j \notin lost /\ ~AtWorker(j) =>
                                   board[t] >= job[j].score
              /\ board[t] = Nil \/ \E j \in Jobs : ScoredFor(j, t) /\ job[j].score = board[t]
              /\ wpc = "rank" /\ job[wjob].team = t => wbest = board[t])'
  <2>1. t \in Teams \ touched /\ board'[t] = board[t]
    BY ZenonT(60)
  <2>2. (\A j \in Jobs : ScoredFor(j, t) /\ j \notin lost /\ ~AtWorker(j) =>
                                   board[t] >= job[j].score)'
    BY <2>1 DEF BoardInv, ScoredFor
  <2>3. (board[t] = Nil \/ \E j \in Jobs : ScoredFor(j, t) /\ job[j].score = board[t])'
    BY <2>1 DEF BoardInv, ScoredFor
  <2>4. (wpc = "rank" /\ job[wjob].team = t => wbest = board[t])'
    BY ZenonT(60), <2>1 DEF BoardInv
  <2> QED BY ZenonT(60), <2>2, <2>3, <2>4
<1> QED BY ZenonT(60), <1>1, <1>2 DEF BoardInv

\* The worker's own steps on a scored job.
LEMMA BoardScore ==
    ASSUME TypeOK, HoldInv, BoardInv, WorkerScore
    PROVE  BoardInv'
<1>1. /\ wjob \in Jobs /\ job[wjob].status = "running" /\ wpc' = "best"
      /\ UNCHANGED <<board, touched, lost, wjob, wresult>>
      /\ job'[wjob].score = wresult /\ \A j \in Jobs : j # wjob => job'[j] = job[j]
      /\ \A j \in Jobs : (AtWorker(j) <=> j = wjob) /\ (AtWorker(j)' <=> j = wjob)
  BY StatusSet DEF StatusWrite, WorkerScore, HoldInv, AtWorker, Working
<1>2. \A j \in Jobs, t \in Teams : ScoredFor(j, t) <=> ScoredFor(j, t)' /\ j # wjob
  BY SMTT(60), <1>1 DEF ScoredFor
<1>3. ASSUME NEW t \in Teams \ touched
      PROVE  (/\ \A j \in Jobs : ScoredFor(j, t) /\ j \notin lost /\ ~AtWorker(j) =>
                                   board[t] >= job[j].score
              /\ board[t] = Nil \/ \E j \in Jobs : ScoredFor(j, t) /\ job[j].score = board[t])'
  BY SMTT(60), <1>1, <1>2 DEF BoardInv
<1> QED BY ZenonT(60), <1>1, <1>3 DEF BoardInv

\* The worker's read of the team's best score keeps the board.
LEMMA BoardRead ==
    ASSUME TypeOK, HoldInv, BoardInv, WorkerReadBest
    PROVE  BoardInv'
<1>1. /\ wpc = "best" /\ wpc' = "rank" /\ wbest' = board[job[wjob].team]
      /\ UNCHANGED <<board, job, touched, lost, wjob, wresult>>
      /\ \A j \in Jobs : AtWorker(j)' <=> AtWorker(j)
  BY DEF WorkerReadBest, redis, AtWorker, Working
<1> QED BY <1>1 DEF BoardInv, ScoredFor

\* Writing the rank keeps the board.
LEMMA BoardRank ==
    ASSUME TypeOK, HoldInv, BoardInv, WorkerRank
    PROVE  BoardInv'
<1> DEFINE team == job[wjob].team
<1>1. /\ wjob \in Jobs /\ job[wjob].status = "scored" /\ job[wjob].score = wresult
      /\ wpc = "rank" /\ wpc' = "pop" /\ UNCHANGED <<job, touched, lost>>
      /\ \A j \in Jobs : (AtWorker(j) <=> j = wjob) /\ ~AtWorker(j)'
  BY DEF WorkerRank, HoldInv, BoardInv, AtWorker, Working
<1>2. ASSUME NEW t \in Teams \ touched
      PROVE  (/\ \A j \in Jobs : ScoredFor(j, t) /\ j \notin lost /\ ~AtWorker(j) =>
                                   board[t] >= job[j].score
              /\ board[t] = Nil \/ \E j \in Jobs : ScoredFor(j, t) /\ job[j].score = board[t])'
  <2>1. /\ board[t] \in Int /\ wresult \in Int /\ Nil = -1
        /\ \A j \in Jobs : job[j].score \in Int /\ job[j].score >= -1
    BY ZenonT(60), ScoreRange DEF TypeOK, Record
  <2>2. \A j \in Jobs : ScoredFor(j, t)' <=> ScoredFor(j, t)
    BY <1>1 DEF ScoredFor
  <2>3. CASE t # team
    <3>1. board'[t] = board[t] /\ ~ScoredFor(wjob, t)
      BY <2>3 DEF WorkerRank, TypeOK, ScoredFor
    <3> QED BY <1>1, <2>2, <3>1 DEF BoardInv
  <2>4. CASE t = team
    <3>1. wbest = board[t]
      BY <1>1, <2>4 DEF BoardInv
    <3>2. ScoredFor(wjob, t)
      BY <1>1, <2>4 DEF ScoredFor
    <3>3. CASE board[t] = Nil \/ wresult > board[t]
      <4>1. board'[t] = wresult
        BY <2>4, <3>1, <3>3 DEF WorkerRank, TypeOK
      <4>2. \A j \in Jobs : ScoredFor(j, t) /\ j \notin lost /\ j # wjob => wresult >= job[j].score
        <5>1. \A j \in Jobs : ScoredFor(j, t) /\ j \notin lost /\ j # wjob =>
                               board[t] >= job[j].score
          BY <1>1 DEF BoardInv
        <5>2. wresult >= -1
          BY <1>1, <2>1
        <5> QED BY SMTT(60), <2>1, <3>3, <5>1, <5>2
      <4> QED BY <1>1, <2>1, <2>2, <3>2, <4>1, <4>2
    <3>4. CASE ~(board[t] = Nil \/ wresult > board[t])
      <4>1. board'[t] = board[t]
        BY SMTT(60), <3>1, <3>4 DEF WorkerRank
      <4>2. \A j \in Jobs : ScoredFor(j, t) /\ j \notin lost => board[t] >= job[j].score
        BY <1>1, <2>1, <3>4 DEF BoardInv
      <4> QED BY ZenonT(60), <1>1, <2>2, <4>1, <4>2 DEF BoardInv
    <3> QED BY <3>3, <3>4
  <2> QED BY <2>3, <2>4
<1> QED BY ZenonT(60), <1>1, <1>2 DEF BoardInv

\* Every step keeps the board.
LEMMA BoardNext == TypeOK /\ HoldInv /\ BoardInv /\ [Next]_vars => BoardInv'
<1> SUFFICES ASSUME TypeOK, HoldInv, BoardInv, [Next]_vars PROVE BoardInv'
  OBVIOUS
<1>1. wpc \in {"best", "rank"} => wjob \in Jobs /\ job[wjob].status = "scored"
  BY DEF HoldInv, Working
<1>2. CASE Quiet
  <2>1. \A j \in Jobs : AtWorker(j)' <=> AtWorker(j)
    BY SMTT(60), <1>2, QuietFrame DEF AtWorker, Working
  <2> QED BY <1>1, <1>2, <2>1, QuietFrame, QuietBoard, BoardFrame
<1>3. ASSUME NEW r \in Requests, SubmitPush(r) \/ SubmitError(r) PROVE BoardInv'
  BY SMTT(60), <1>1, <1>3, BoardFrame
     DEF SubmitPush, SubmitError, redis, workerVars, AtWorker, Working
<1>4. ASSUME NEW r \in Requests, NEW t \in Teams, NEW j \in Jobs, SubmitRecord(r, t, j)
      PROVE  BoardInv'
  <2>1. \A k \in Jobs : job[k].status = "scored" \/ job'[k].status = "scored" =>
                          job'[k] = job[k]
    BY <1>4, RecordSet
  <2> QED BY <1>1, <1>4, <2>1, BoardFrame DEF SubmitRecord, workerVars, AtWorker, Working
<1>5. CASE StatusWrite /\ ~WorkerScore
  <2>1. /\ UNCHANGED <<board, touched, lost>> /\ wpc' \notin {"best", "rank"}
        /\ \A j \in Jobs : j # wjob => ~AtWorker(j)
        /\ \A j \in Jobs : job[j].status = "scored" \/ job'[j].status = "scored" =>
             job'[j] = job[j] /\ j # wjob
    BY SMTT(60), <1>5, StatusSet DEF StatusWrite, WorkerMark, WorkerStart, WorkerFail, AtWorker
  <2> QED BY SMTT(60), <2>1, BoardFrame
<1>6. CASE \/ WorkerPop \/ WorkerError \/ Crash
           \/ \E result \in Scores \cup {Nil} : WorkerRun(result)
  BY Zenon, <1>6, BoardFrame DEF WorkerPop, WorkerRun, WorkerError, Crash, redis, AtWorker, Working
<1> QED BY <1>2, <1>3, <1>4, <1>5, <1>6, Steps, BoardScore, BoardRead, BoardRank

\* Unless a reset or a system test changed it, a team's entry is the best score of its jobs,
\* but for a job whose ranking is under way or was cut off.
THEOREM BestKept == Spec => []BoardIsBest
<1>1. TypeOK /\ BoardInv => BoardIsBest
  <2> SUFFICES ASSUME TypeOK, BoardInv, NEW t \in Teams \ touched
               PROVE  /\ board[t] \in ScoresOf(t, {})
                      /\ \A x \in ScoresOf(t, lost \cup (IF Working THEN {wjob} ELSE {})) :
                           board[t] >= x
    BY DEF BoardIsBest
  <2>1. board[t] \in Int /\ board[t] >= Nil
    BY ScoreRange DEF TypeOK
  <2>2. ASSUME NEW x \in ScoresOf(t, lost \cup (IF Working THEN {wjob} ELSE {}))
        PROVE  board[t] >= x
    <3>1. CASE x = Nil
      BY <2>1, <3>1
    <3>2. CASE x # Nil
      <4>1. PICK j \in Jobs : /\ job[j].status = "scored" /\ job[j].team = t
                              /\ j \notin lost \cup (IF Working THEN {wjob} ELSE {})
                              /\ x = job[j].score
        BY <3>2 DEF ScoresOf
      <4> QED BY <4>1 DEF BoardInv, ScoredFor, AtWorker
    <3> QED BY <3>1, <3>2
  <2>3. board[t] \in ScoresOf(t, {})
    BY DEF ScoresOf, BoardInv, ScoredFor
  <2> QED BY <2>2, <2>3
<1> QED BY <1>1, Held, BoardInit, BoardNext, PTL DEF Spec
=============================================================================
