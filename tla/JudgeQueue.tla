----------------------------- MODULE JudgeQueue -----------------------------
(***************************************************************************)
(* The judging side of web/backend/main.py: submit_code enqueues jobs in    *)
(* Redis, submission_worker judges one at a time and keeps the leaderboard, *)
(* _run_system_tests blends scores after the contest, the administrator may *)
(* reset the leaderboard, and the process may crash and start again.        *)
(*                                                                          *)
(* A handler runs on the event loop from one await to the next; each step   *)
(* here is one Redis call with the code up to the next await.  Redis        *)
(* survives a crash, the process's memory does not.  The admission checks   *)
(* of submit_code are in Competition.                                       *)
(***************************************************************************)
EXTENDS Integers, Sequences, FiniteSets

CONSTANTS Teams,
          Requests,        \* bound: uploads in progress at once
          Jobs,            \* bound: the job ids
          Scores,          \* possible scores: 0 is one, of a run that only has a throughput
          MaxQueueDepth,   \* MAX_QUEUE_DEPTH
          Testers,         \* bound: system test requests and their tasks at once
          MaxFaults        \* bound: crashes, failed awaits, resets and test requests

NoJob == "none"

ASSUME JudgeAssumption == /\ Scores \subseteq Nat /\ IsFiniteSet(Jobs) /\ NoJob \notin Jobs
                          /\ IsFiniteSet(Requests)
                          /\ MaxQueueDepth \in Nat \ {0} /\ MaxFaults \in Nat

VARIABLES
    queue,                  \* Redis list, oldest first (lpush and brpop)
    job,                    \* Redis hash per job: status, team, score
    board,                  \* Redis sorted set: Nil is no entry
    systest,                \* SYSTEST_KEY_STATE
    active_jobs, systest_running,   \* memory of the process
    rpc, rjob,              \* an upload: place and job
    wpc, wjob, wresult, wbest,      \* the worker: place, job, result, score it read
    spc, steams,            \* a system test: place, teams and scores left
    faults,                 \* bounded steps taken
    lost,                   \* history: jobs whose handling was cut off
    touched                 \* history: teams whose entry a reset or a test changed

redis == <<queue, job, board, systest>>
requestVars == <<rpc, rjob>>
workerVars == <<wpc, wjob, wresult, wbest>>
testVars == <<spc, steams>>
vars == <<redis, active_jobs, systest_running, requestVars, workerVars, testVars,
          faults, lost, touched>>

Nil == -1
Absent == [status |-> "absent", team |-> "", score |-> Nil]

Init ==
    /\ queue = <<>> /\ job = [j \in Jobs |-> Absent]
    /\ board = [t \in Teams |-> Nil] /\ systest = "idle"
    /\ active_jobs = 0 /\ systest_running = FALSE
    /\ rpc = [r \in Requests |-> "idle"] /\ rjob = [r \in Requests |-> NoJob]
    /\ wpc = "pop" /\ wjob = NoJob /\ wresult = Nil /\ wbest = Nil
    /\ spc = [s \in Testers |-> "idle"] /\ steams = [s \in Testers |-> <<>>]
    /\ faults = 0 /\ lost = {} /\ touched = {}

SetStatus(j, s) == job' = [job EXCEPT ![j].status = s]

-----------------------------------------------------------------------------
(* submit_code after its checks.                                            *)

\* llen: a full queue is answered with 503, otherwise the upload begins.
SubmitDepth(r) ==
    /\ rpc[r] = "idle" /\ Len(queue) < MaxQueueDepth
    /\ rpc' = [rpc EXCEPT ![r] = "upload"]
    /\ UNCHANGED <<redis, active_jobs, systest_running, rjob, workerVars, testVars,
                   faults, lost, touched>>

\* The upload failed or was too large: the directory is removed.
SubmitAborted(r) ==
    /\ rpc[r] = "upload"
    /\ rpc' = [rpc EXCEPT ![r] = "idle"]
    /\ UNCHANGED <<redis, active_jobs, systest_running, rjob, workerVars, testVars,
                   faults, lost, touched>>

\* The job record is written.
SubmitRecord(r, t, j) ==
    /\ rpc[r] = "upload" /\ job[j] = Absent /\ \A q \in Requests : rjob[q] # j
    /\ job' = [job EXCEPT ![j] = [status |-> "queued", team |-> t, score |-> Nil]]
    /\ rpc' = [rpc EXCEPT ![r] = "push"] /\ rjob' = [rjob EXCEPT ![r] = j]
    /\ UNCHANGED <<queue, board, systest, active_jobs, systest_running, workerVars,
                   testVars, faults, lost, touched>>

\* lpush; what follows (the team's counter, the broadcast) no longer matters to the job.
SubmitPush(r) ==
    /\ rpc[r] = "push"
    /\ queue' = Append(queue, rjob[r])
    /\ rpc' = [rpc EXCEPT ![r] = "idle"] /\ rjob' = [rjob EXCEPT ![r] = NoJob]
    /\ UNCHANGED <<job, board, systest, active_jobs, systest_running, workerVars,
                   testVars, faults, lost, touched>>

\* The push raises: the request fails and the record stays.
SubmitError(r) ==
    /\ rpc[r] = "push" /\ faults < MaxFaults /\ faults' = faults + 1
    /\ lost' = lost \cup {rjob[r]}
    /\ rpc' = [rpc EXCEPT ![r] = "idle"] /\ rjob' = [rjob EXCEPT ![r] = NoJob]
    /\ UNCHANGED <<redis, active_jobs, systest_running, workerVars, testVars, touched>>

-----------------------------------------------------------------------------
(* submission_worker.                                                       *)

\* Mutant: the job is read but stays in the list.
WorkerPeek ==
    /\ wpc = "pop" /\ queue # <<>>
    /\ wjob' = Head(queue) /\ wpc' = "mark"
    /\ UNCHANGED <<redis, active_jobs, systest_running, requestVars, wresult, wbest,
                   testVars, faults, lost, touched>>

\* brpop.
WorkerPop ==
    /\ wpc = "pop" /\ queue # <<>>
    /\ wjob' = Head(queue) /\ queue' = Tail(queue) /\ wpc' = "mark"
    /\ UNCHANGED <<job, board, systest, active_jobs, systest_running, requestVars,
                   wresult, wbest, testVars, faults, lost, touched>>

\* hgetall finds the record, and the status becomes compiling.
WorkerMark ==
    /\ wpc = "mark"
    /\ IF job[wjob] = Absent THEN wpc' = "pop" /\ UNCHANGED job
                             ELSE wpc' = "start" /\ SetStatus(wjob, "compiling")
    /\ UNCHANGED <<queue, board, systest, active_jobs, systest_running, requestVars,
                   wjob, wresult, wbest, testVars, faults, lost, touched>>

\* After the broadcast: the counter, then the status becomes running.
WorkerStart ==
    /\ wpc = "start"
    /\ active_jobs' = active_jobs + 1
    /\ SetStatus(wjob, "running") /\ wpc' = "run"
    /\ UNCHANGED <<queue, board, systest, systest_running, requestVars, wjob, wresult,
                   wbest, testVars, faults, lost, touched>>

\* run_contest_pipeline returns a score, or Nil for every kind of failure, and the counter
\* goes down before the next await.
WorkerRun(result) ==
    /\ wpc = "run"
    /\ wresult' = result
    /\ active_jobs' = active_jobs - 1
    /\ wpc' = (IF result # Nil THEN "score" ELSE "fail")
    /\ UNCHANGED <<redis, systest_running, requestVars, wjob, wbest, testVars, faults,
                   lost, touched>>

\* Mutant: a failure is tried again, without end.
WorkerRetry ==
    /\ wpc = "fail" /\ wpc' = "start"
    /\ UNCHANGED <<redis, active_jobs, systest_running, requestVars, wjob, wresult, wbest,
                   testVars, faults, lost, touched>>

WorkerFail ==
    /\ wpc = "fail"
    /\ SetStatus(wjob, "failed") /\ wpc' = "pop"
    /\ UNCHANGED <<queue, board, systest, active_jobs, systest_running, requestVars,
                   wjob, wresult, wbest, testVars, faults, lost, touched>>

WorkerScore ==
    /\ wpc = "score"
    /\ job' = [job EXCEPT ![wjob].status = "scored", ![wjob].score = wresult]
    /\ wpc' = "best"
    /\ UNCHANGED <<queue, board, systest, active_jobs, systest_running, requestVars,
                   wjob, wresult, wbest, testVars, faults, lost, touched>>

\* zscore.
WorkerReadBest ==
    /\ wpc = "best"
    /\ wbest' = board[job[wjob].team] /\ wpc' = "rank"
    /\ UNCHANGED <<redis, active_jobs, systest_running, requestVars, wjob, wresult,
                   testVars, faults, lost, touched>>

\* Mutant: the newest score replaces the old one.
WorkerRankLatest ==
    /\ wpc = "rank"
    /\ board' = [board EXCEPT ![job[wjob].team] = wresult]
    /\ wpc' = "pop"
    /\ UNCHANGED <<queue, job, systest, active_jobs, systest_running, requestVars, wjob,
                   wresult, wbest, testVars, faults, lost, touched>>

\* zadd, when the score read before is beaten.
WorkerRank ==
    /\ wpc = "rank"
    /\ board' = IF wbest = Nil \/ wresult > wbest
                  THEN [board EXCEPT ![job[wjob].team] = wresult] ELSE board
    /\ wpc' = "pop"
    /\ UNCHANGED <<queue, job, systest, active_jobs, systest_running, requestVars, wjob,
                   wresult, wbest, testVars, faults, lost, touched>>

\* Places where the worker awaits Redis or a broadcast with a job in hand.
Working == wpc \notin {"pop"}

\* Mutant: the handler does not touch the counter.
WorkerErrorUncounted ==
    /\ Working /\ faults < MaxFaults /\ faults' = faults + 1
    /\ lost' = lost \cup {wjob} /\ wpc' = "pop"
    /\ UNCHANGED <<redis, active_jobs, systest_running, requestVars, wjob, wresult,
                   wbest, testVars, touched>>

\* An await raises (Redis, or broadcast_update when a client is removed twice): the
\* handler lowers the counter, not below 0, and goes on with the next job.
WorkerError ==
    /\ Working /\ faults < MaxFaults /\ faults' = faults + 1
    /\ active_jobs' = IF active_jobs > 0 THEN active_jobs - 1 ELSE 0
    /\ lost' = lost \cup {wjob} /\ wpc' = "pop"
    /\ UNCHANGED <<redis, systest_running, requestVars, wjob, wresult, wbest, testVars,
                   touched>>

-----------------------------------------------------------------------------
(* System tests: the request and the task it creates.                       *)

\* The flag is tested, and later the leaderboard is read.
SystestCheck(s) ==
    /\ spc[s] = "idle" /\ ~systest_running
    /\ faults < MaxFaults /\ faults' = faults + 1
    /\ spc' = [spc EXCEPT ![s] = "list"]
    /\ UNCHANGED <<redis, active_jobs, systest_running, requestVars, workerVars, steams,
                   lost, touched>>

\* The teams that have an entry.
Ranked == {t \in Teams : board[t] # Nil}

\* zrevrange: the teams by score; without any the request is refused.
SystestList(s) ==
    /\ spc[s] = "list"
    /\ \E order \in [1 .. Cardinality(Ranked) -> Ranked] :
         /\ \A i, k \in DOMAIN order : i < k => /\ order[i] # order[k]
                                                /\ board[order[i]] >= board[order[k]]
         /\ steams' = [steams EXCEPT ![s] = [i \in DOMAIN order |->
                                             [team |-> order[i], score |-> board[order[i]]]]]
         /\ spc' = [spc EXCEPT ![s] = IF order = <<>> THEN "idle" ELSE "state"]
    /\ UNCHANGED <<redis, active_jobs, systest_running, requestVars, workerVars, faults,
                   lost, touched>>

\* The state is set and the task created; the flag goes up when the task first runs.
SystestState(s) ==
    /\ spc[s] = "state"
    /\ systest' = "running" /\ spc' = [spc EXCEPT ![s] = "created"]
    /\ UNCHANGED <<queue, job, board, active_jobs, systest_running, requestVars,
                   workerVars, steams, faults, lost, touched>>

SystestBegin(s) ==
    /\ spc[s] = "created"
    /\ systest_running' = TRUE /\ spc' = [spc EXCEPT ![s] = "test"]
    /\ UNCHANGED <<redis, active_jobs, requestVars, workerVars, steams, faults, lost,
                   touched>>

\* One team: without a binary it is skipped, otherwise the blended score (at most the one
\* listed; 0 after a timeout) is written.
SystestTeam(s) ==
    /\ spc[s] = "test" /\ steams[s] # <<>>
    /\ \/ UNCHANGED <<board, touched>>
       \/ /\ \E final \in {x \in Scores \cup {0} : x <= Head(steams[s]).score} :
               board' = [board EXCEPT ![Head(steams[s]).team] = final]
          /\ touched' = touched \cup {Head(steams[s]).team}
    /\ steams' = [steams EXCEPT ![s] = Tail(@)]
    /\ UNCHANGED <<queue, job, systest, active_jobs, systest_running, requestVars,
                   workerVars, spc, faults, lost>>

SystestDone(s) ==
    /\ spc[s] = "test" /\ steams[s] = <<>>
    /\ systest' = "completed"
    /\ systest_running' = FALSE /\ spc' = [spc EXCEPT ![s] = "idle"]
    /\ UNCHANGED <<queue, job, board, active_jobs, requestVars, workerVars, steams,
                   faults, lost, touched>>

\* An await of the task raises.
SystestError(s) ==
    /\ spc[s] = "test" /\ faults < MaxFaults /\ faults' = faults + 1
    /\ systest' = "failed"
    /\ systest_running' = FALSE /\ spc' = [spc EXCEPT ![s] = "idle"]
    /\ steams' = [steams EXCEPT ![s] = <<>>]
    /\ UNCHANGED <<queue, job, board, active_jobs, requestVars, workerVars, lost, touched>>

-----------------------------------------------------------------------------
admin_reset_leaderboard ==
    /\ faults < MaxFaults /\ faults' = faults + 1
    /\ board' = [t \in Teams |-> Nil] /\ touched' = Teams
    /\ UNCHANGED <<queue, job, systest, active_jobs, systest_running, requestVars,
                   workerVars, testVars, lost>>

\* The process dies and is started again: its tasks and its memory are gone.
Crash ==
    /\ faults < MaxFaults /\ faults' = faults + 1
    /\ lost' = lost \cup {rjob[r] : r \in {q \in Requests : rpc[q] = "push"}}
                    \cup (IF Working THEN {wjob} ELSE {})
    /\ active_jobs' = 0 /\ systest_running' = FALSE
    /\ rpc' = [r \in Requests |-> "idle"] /\ rjob' = [r \in Requests |-> NoJob]
    /\ wpc' = "pop" /\ wjob' = NoJob /\ wresult' = Nil /\ wbest' = Nil
    /\ spc' = [s \in Testers |-> "idle"] /\ steams' = [s \in Testers |-> <<>>]
    /\ UNCHANGED <<redis, touched>>

-----------------------------------------------------------------------------
Upload(r) == \/ SubmitDepth(r) \/ SubmitAborted(r) \/ SubmitPush(r) \/ SubmitError(r)
             \/ \E t \in Teams, j \in Jobs : SubmitRecord(r, t, j)

submission_worker ==
    \/ WorkerPop \/ WorkerMark \/ WorkerStart \/ WorkerFail \/ WorkerScore
    \/ WorkerReadBest \/ WorkerRank
    \/ \E result \in Scores \cup {Nil} : WorkerRun(result)

SystemTest(s) == \/ SystestCheck(s) \/ SystestList(s) \/ SystestState(s)
                 \/ SystestBegin(s) \/ SystestTeam(s) \/ SystestDone(s) \/ SystestError(s)

Next == \/ \E r \in Requests : Upload(r)
        \/ submission_worker \/ WorkerError
        \/ \E s \in Testers : SystemTest(s)
        \/ admin_reset_leaderboard \/ Crash

Spec == Init /\ [][Next]_vars

\* The event loop runs the worker; the bounded pipeline always returns.
FairSpec == Spec /\ WF_vars(submission_worker)

-----------------------------------------------------------------------------
(* Properties.                                                              *)

Statuses == {"absent", "queued", "compiling", "running", "scored", "failed"}

Places(j) == Cardinality({i \in DOMAIN queue : queue[i] = j})
             + Cardinality({r \in Requests : rjob[r] = j})
             + (IF Working /\ wjob = j THEN 1 ELSE 0)

\* A job that is not finished is in exactly one place: with its upload, in the queue or
\* with the worker; only a crash or a failed await loses one.  A finished job is never
\* judged again.  The depth is checked long before the push, so uploads in progress can
\* pass the limit together, but queue and uploads are never more than the limit and one
\* upload less than there can be.
JobAccounted ==
    /\ Len(queue) + Cardinality({r \in Requests : rpc[r] # "idle"})
         <= MaxQueueDepth + Cardinality(Requests) - 1
    /\ \A j \in Jobs :
      /\ Places(j) <= 1
      /\ job[j].status \in {"queued", "compiling", "running"} => Places(j) = 1 \/ j \in lost
      /\ j \in lost => Places(j) = 0
      /\ (\E i \in DOMAIN queue : queue[i] = j) => job[j].status = "queued"

\* The counter that /api/metrics shows is the number of jobs in the pipeline, after any
\* number of errors and crashes: it is neither left up nor lowered twice.
ActiveCounted == active_jobs = (IF wpc = "run" THEN 1 ELSE 0)

ScoresOf(t, except) ==
    {job[j].score : j \in {k \in Jobs : job[k].status = "scored" /\ job[k].team = t
                                        /\ k \notin except}} \cup {Nil}

\* "keep best score": as long as no reset and no system test changed a team's entry, it is
\* the best score of its jobs, but for a job whose ranking is under way or was cut off.
BoardIsBest ==
    \A t \in Teams \ touched :
      /\ board[t] \in ScoresOf(t, {})
      /\ \A score \in ScoresOf(t, lost \cup (IF Working THEN {wjob} ELSE {})) :
           board[t] >= score

\* Every job in the queue is scored or failed in the end, unless a crash or an error
\* takes it from the worker.
EveryJobJudged ==
    \A j \in Jobs : (\E i \in DOMAIN queue : queue[i] = j)
                      ~> (job[j].status \in {"scored", "failed"} \/ j \in lost)
=============================================================================
