---------------------------- MODULE ContestRunner ----------------------------
(***************************************************************************)
(* The run_contest program: a live match (contest_runner.hpp) or the system *)
(* test, a sequence of stress scenarios (post_contest_validator.hpp), with  *)
(* the processes, threads and sockets one call creates and must give back.  *)
(*                                                                          *)
(* A call of run_match or run_single_scenario is <<p, i>>: the i-th of      *)
(* process p.  It starts a contestant, directly or in a Firecracker VM, and *)
(* an accept thread on the path of its bridge.  All live matches share one  *)
(* path and all system tests another.  Two processes may overlap: the       *)
(* backend starts the next one when its wait for the first times out.       *)
(*                                                                          *)
(* Sleeps and poll timeouts may end at any moment.  What is sent on the     *)
(* connection is in BridgeSession.                                          *)
(***************************************************************************)
EXTENDS Integers, FiniteSets

CONSTANTS Procs,
          Scenarios     \* bound: scenarios of a system test (build_stress_scenarios: 10);
                        \* one when processes overlap

ASSUME RunnerAssumption == Scenarios \in Nat \ {0}

Calls == Procs \X (1 .. Scenarios)
NoCall == <<"none", 0>>
Kinds == {"match", "systest"}

VARIABLES
    mode,      \* per process: [kind, vm], from the arguments
    overlap,   \* may processes run at the same time
    run,       \* per call, its locals and what it owns: see NewCall
    bound,     \* per path, the call whose listener the name in the file system is
    exit       \* per process: "none", "ok", "fail" (exit status)

vars == <<mode, overlap, run, bound, exit>>

NewCall == [pc |-> "idle",
            child |-> "none",      \* none, up, queued, joined, gone (zombie), reaped
            peer |-> NoCall,       \* the listener the contestant connected to
            pid |-> FALSE,         \* contestant_pid > 0
            acc |-> "none",        \* accept thread: none, born, poll, done
            listen |-> FALSE,      \* listen_fd_ is open
            conn |-> NoCall,       \* client_fd_: whose contestant is at the other end
            rootfs |-> FALSE,      \* the copy of the root file system exists
            vm |-> "none",         \* VMState of fc_mgr
            late |-> FALSE,        \* history: a signal went to a pid already reaped
            ok |-> FALSE]          \* compiled, or the scenario passed

Init ==
    /\ mode \in [Procs -> [kind : Kinds, vm : BOOLEAN]]
    /\ overlap \in BOOLEAN
    /\ overlap => \A p, q \in Procs : mode[p].kind = mode[q].kind   \* else nothing is shared
    /\ run = [s \in Calls |-> NewCall]
    /\ bound = [k \in Kinds |-> NoCall]
    /\ exit = [p \in Procs |-> "none"]

Kind(s) == mode[s[1]].kind
InVM(s) == mode[s[1]].vm
CallsOf(p) == {s \in Calls : /\ s[1] = p
                             /\ overlap \/ mode[p].kind = "match" => s[2] = 1}
Alive(s) == run[s].child \in {"up", "queued", "joined"}
Active(p) == exit[p] = "none" /\ \E s \in CallsOf(p) : run[s].pc # "idle"

-----------------------------------------------------------------------------
(* Helpers: each gives the record of a call, or the paths, after a step.    *)

\* bridge.shutdown, also the bridge's destructor: both sockets are closed ...
Shut(r) == [r EXCEPT !.conn = NoCall, !.listen = FALSE]

\* ... and the path is unlinked, whoever's listener it names by then.
Unlinked(s) == [bound EXCEPT ![Kind(s)] = NoCall]

Return(r) == [Shut(r) EXCEPT !.pc = "done", !.pid = FALSE]

\* kill and waitpid: a child that still has its pid is reaped.
Reap(r) == IF r.child = "none" THEN r
           ELSE [r EXCEPT !.child = "reaped", !.peer = NoCall, !.late = @ \/ r.child = "reaped"]

\* Mutant: a contestant that did not connect is left alone.
NoReap(r) == r

\* if (contestant_pid > 0) kill(SIGKILL), waitpid.
KillContestant(r) == IF r.pid THEN Reap(r) ELSE r

\* FirecrackerManager::destroy, also its destructor: stop, then kill and reap.  (A first
\* waitpid that does not block may reap before the second kill: not told apart here.)
destroy(r) == [Reap(r) EXCEPT !.vm = IF @ = "RUNNING" THEN "STOPPED" ELSE @]

Set(s, r) == run' = [run EXCEPT ![s] = r]
To(s, label) == Set(s, [run[s] EXCEPT !.pc = label])

-----------------------------------------------------------------------------
(* Steps of the main thread, in program order.                              *)

\* CompilerService::compile with the host compiler: it ends within its timeout.
compile == BOOLEAN

\* main and the top of run_match: a call begins when the one before has returned.  A match
\* compiles, unless it is given a binary; without one there is nothing to run.
Begin(s) ==
    /\ s \in CallsOf(s[1]) /\ run[s].pc = "idle"
    /\ \A t \in CallsOf(s[1]) : t[2] < s[2] => run[t].pc = "done"
    /\ overlap \/ \A p \in Procs \ {s[1]} : ~Active(p)
    /\ \E success \in compile :
         /\ Kind(s) = "systest" => success
         /\ Set(s, [run[s] EXCEPT !.ok = success /\ Kind(s) = "match",
                                  !.pc = IF success THEN "init" ELSE "done"])
    /\ UNCHANGED <<mode, overlap, bound, exit>>

\* The arena, the blaster, the shadow book or the bridge cannot be set up: the call
\* returns.  Only a bridge that was given its path unlinks it.
InitFails(s) ==
    /\ run[s].pc = "init"
    /\ Set(s, Return(run[s]))
    /\ bound' \in {bound, Unlinked(s)}
    /\ UNCHANGED <<mode, overlap, exit>>

InitComponents(s) ==
    /\ run[s].pc = "init"
    /\ To(s, IF InVM(s) THEN "copy" ELSE "listen")
    /\ UNCHANGED <<mode, overlap, bound, exit>>

\* Any failure on the way to a running VM: the root file system copy is removed, the
\* manager and the bridge are destroyed.
BootFails(s) ==
    /\ run[s].pc \in {"copy", "create", "configure", "start"}
    /\ \E born \in {"none", "up", "gone"} :
         /\ born # "none" => run[s].pc = "create"
         /\ LET r == IF born = "none" THEN run[s]
                     ELSE [run[s] EXCEPT !.child = born, !.vm = "FAILED"]
            IN Set(s, Return([destroy(r) EXCEPT !.rootfs = FALSE]))
    /\ bound' = Unlinked(s)
    /\ UNCHANGED <<mode, overlap, exit>>

CopyRootfs(s) ==
    /\ run[s].pc = "copy"
    /\ Set(s, [run[s] EXCEPT !.pc = "create", !.rootfs = TRUE])
    /\ UNCHANGED <<mode, overlap, bound, exit>>

\* FirecrackerManager::create: the process is up and its API socket answers.
create(s) ==
    /\ run[s].pc = "create"
    /\ Set(s, [run[s] EXCEPT !.pc = "configure", !.child = "up", !.vm = "CREATED"])
    /\ UNCHANGED <<mode, overlap, bound, exit>>

\* A request to the VM process: it can be refused (BootFails) and is answered only by a
\* process that is there.
api_put(s) == Alive(s)

configure(s) ==
    /\ run[s].pc = "configure" /\ run[s].vm = "CREATED" /\ api_put(s)
    /\ Set(s, [run[s] EXCEPT !.pc = "start", !.vm = "CONFIGURED"])
    /\ UNCHANGED <<mode, overlap, bound, exit>>

start(s) ==
    /\ run[s].pc = "start" /\ run[s].vm = "CONFIGURED" /\ api_put(s)
    /\ Set(s, [run[s] EXCEPT !.pc = "boot", !.vm = "RUNNING"])
    /\ UNCHANGED <<mode, overlap, bound, exit>>

\* The VM runs: the accept thread is started and detached, and the guest gets 3 seconds.
BootVM(s) ==
    /\ run[s].pc = "boot"
    /\ Set(s, [run[s] EXCEPT !.pc = "booting", !.pid = TRUE, !.acc = "born"])
    /\ UNCHANGED <<mode, overlap, bound, exit>>

\* The end of the block in which fc_mgr is a local: its destructor runs.
LeaveBootBlock(s) ==
    /\ run[s].pc = "booting"
    /\ Set(s, [destroy(run[s]) EXCEPT !.pc = "check"])
    /\ UNCHANGED <<mode, overlap, bound, exit>>

\* Direct execution: the accept thread, 100 ms later the contestant, then join.
StartListener(s) ==
    /\ run[s].pc = "listen"
    /\ Set(s, [run[s] EXCEPT !.pc = "fork", !.acc = "born"])
    /\ UNCHANGED <<mode, overlap, bound, exit>>

\* fork may fail, with pid -1.
ForkContestant(s) ==
    /\ run[s].pc = "fork"
    /\ \E forked \in BOOLEAN :
         Set(s, [run[s] EXCEPT !.pc = "join", !.pid = forked,
                               !.child = IF forked THEN "up" ELSE "none"])
    /\ UNCHANGED <<mode, overlap, bound, exit>>

\* Mutant: the thread is detached here too.
SkipJoin(s) ==
    /\ run[s].pc = "join"
    /\ To(s, "check")
    /\ UNCHANGED <<mode, overlap, bound, exit>>

JoinListener(s) ==
    /\ run[s].pc = "join" /\ run[s].acc = "done"
    /\ To(s, "check")
    /\ UNCHANGED <<mode, overlap, bound, exit>>

\* is_connected is false: kill, reap, return.
NotConnected(s) ==
    /\ run[s].pc = "check" /\ run[s].conn = NoCall
    /\ Set(s, Return(KillContestant(run[s])))
    /\ bound' = Unlinked(s)
    /\ UNCHANGED <<mode, overlap, exit>>

\* SessionStart and the timed loop.
BlastOrders(s) ==
    /\ run[s].pc = "check" /\ run[s].conn # NoCall
    /\ To(s, "blast")
    /\ UNCHANGED <<mode, overlap, bound, exit>>

\* SessionEnd, the last drain, bridge.shutdown.
StopSession(s) ==
    /\ run[s].pc = "blast"
    /\ Set(s, [Shut(run[s]) EXCEPT !.pc = "term"])
    /\ bound' = Unlinked(s)
    /\ UNCHANGED <<mode, overlap, exit>>

\* Mutant: SIGTERM only; waitpid waits for the contestant.
TerminateGently(s) ==
    /\ run[s].pc = "term" /\ ~Alive(s)
    /\ Set(s, [Reap(run[s]) EXCEPT !.pc = "score"])
    /\ UNCHANGED <<mode, overlap, bound, exit>>

\* SIGTERM, half a second, SIGKILL, waitpid.
Terminate(s) ==
    /\ run[s].pc = "term"
    /\ Set(s, [KillContestant(run[s]) EXCEPT !.pc = "score"])
    /\ UNCHANGED <<mode, overlap, bound, exit>>

\* finalize and the score; the bridge's destructor unlinks the path once more.
Score(s) ==
    /\ run[s].pc = "score"
    /\ \E passed \in BOOLEAN :
         Set(s, [Return(run[s]) EXCEPT !.ok = IF Kind(s) = "systest" THEN passed ELSE @])
    /\ bound' = Unlinked(s)
    /\ UNCHANGED <<mode, overlap, exit>>

\* main returns; detached threads end with the process.
Exit(p) ==
    /\ exit[p] = "none"
    /\ \A s \in CallsOf(p) : run[s].pc = "done"
    /\ exit' = [exit EXCEPT ![p] = IF \A s \in CallsOf(p) : run[s].ok THEN "ok" ELSE "fail"]
    /\ run' = [s \in Calls |-> IF s[1] = p THEN [run[s] EXCEPT !.acc = "done", !.ok = FALSE]
                               ELSE run[s]]
    /\ UNCHANGED <<mode, overlap, bound>>

-----------------------------------------------------------------------------
(* The accept thread: listen_and_accept.                                    *)

\* The path is unlinked and bound to the new socket.  Unlink and bind are two calls: when
\* another listener takes the name in between, bind fails and the thread ends.
Listen(s) ==
    /\ run[s].acc = "born"
    /\ Set(s, [run[s] EXCEPT !.acc = "poll", !.listen = TRUE])
    /\ bound' = [bound EXCEPT ![Kind(s)] = s]
    /\ UNCHANGED <<mode, overlap, exit>>

ListenFails(s) ==
    /\ run[s].acc = "born"
    /\ \/ bound' = bound                     \* socket fails
       \/ \E t \in Calls \ {s} : /\ Kind(t) = Kind(s) /\ run[t].listen
                                 /\ bound' = [bound EXCEPT ![Kind(s)] = t]
    /\ Set(s, [run[s] EXCEPT !.acc = "done"])
    /\ UNCHANGED <<mode, overlap, exit>>

\* poll finds a connection: it is accepted.
Accept(s) ==
    /\ run[s].acc = "poll" /\ run[s].listen
    /\ \E t \in Calls :
         /\ run[t].child = "queued" /\ run[t].peer = s
         /\ run' = [u \in Calls |->
                LET r == IF u = t THEN [run[u] EXCEPT !.child = "joined"] ELSE run[u]
                IN IF u = s THEN [r EXCEPT !.acc = "done", !.conn = t] ELSE r]
    /\ UNCHANGED <<mode, overlap, bound, exit>>

\* poll times out, or accept fails because the contestant has gone.
AcceptTimeout(s) ==
    /\ run[s].acc = "poll"
    /\ ~\E t \in Calls : run[t].child = "queued" /\ run[t].peer = s /\ run[s].listen
    /\ Set(s, [run[s] EXCEPT !.acc = "done"])
    /\ UNCHANGED <<mode, overlap, bound, exit>>

AcceptThread(s) == Listen(s) \/ ListenFails(s) \/ Accept(s) \/ AcceptTimeout(s)

-----------------------------------------------------------------------------
(* The contestant: strategy_main.cpp, in a process or in a guest.           *)

\* connect: the kernel queues it on the listener the path names, if there is one.
Connect(s) ==
    /\ run[s].child = "up"
    /\ InVM(s) => run[s].vm = "RUNNING"
    /\ LET t == bound[Kind(s)] IN
         /\ t # NoCall /\ run[t].listen
         /\ Set(s, [run[s] EXCEPT !.child = "queued", !.peer = t])
    /\ UNCHANGED <<mode, overlap, bound, exit>>

\* Mutant: children are reaped by the kernel as they exit (SIGCHLD ignored).
ExitsUnwaited(s) ==
    /\ Alive(s)
    /\ Set(s, [run[s] EXCEPT !.child = "reaped", !.peer = NoCall])
    /\ UNCHANGED <<mode, overlap, bound, exit>>

\* It cannot connect, its session ends, or it crashes.
ContestantExits(s) ==
    /\ Alive(s)
    /\ Set(s, [run[s] EXCEPT !.child = "gone", !.peer = NoCall])
    /\ UNCHANGED <<mode, overlap, bound, exit>>

-----------------------------------------------------------------------------
(* The programs.                                                            *)

\* post_contest_validator.hpp makes the same calls in the same order for a scenario.
ScenarioInit(s) == InitFails(s) \/ InitComponents(s)
ScenarioBoot(s) == BootFails(s) \/ CopyRootfs(s) \/ create(s) \/ configure(s) \/ start(s)
ScenarioLaunch(s) == BootVM(s) \/ LeaveBootBlock(s) \/ StartListener(s)
                     \/ ForkContestant(s) \/ JoinListener(s) \/ NotConnected(s)
ScenarioFinish(s) == BlastOrders(s) \/ StopSession(s) \/ Terminate(s) \/ Score(s)

run_single_scenario(s) ==
    /\ Kind(s) = "systest"
    /\ Begin(s) \/ ScenarioInit(s) \/ ScenarioBoot(s) \/ ScenarioLaunch(s) \/ ScenarioFinish(s)

run_match(s) ==
    /\ Kind(s) = "match"
    /\ \/ Begin(s) \/ InitFails(s) \/ InitComponents(s)
       \/ BootFails(s) \/ CopyRootfs(s) \/ create(s) \/ configure(s) \/ start(s)
       \/ BootVM(s) \/ LeaveBootBlock(s)
       \/ StartListener(s) \/ ForkContestant(s) \/ JoinListener(s)
       \/ NotConnected(s) \/ BlastOrders(s) \/ StopSession(s) \/ Terminate(s) \/ Score(s)

Main(s) == run_match(s) \/ run_single_scenario(s)

Next == \/ \E s \in Calls : Main(s) \/ AcceptThread(s) \/ Connect(s) \/ ContestantExits(s)
        \/ \E p \in Procs : Exit(p)

\* A process is scheduled and its sleeps and polls end.  Nothing is assumed of contestants,
\* of Firecracker's answers (api_put waits without a timeout), or of when a run is asked for.
Fairness == \A s \in Calls :
    /\ WF_vars(~InVM(s) /\ run[s].pc # "idle" /\ Main(s))
    /\ WF_vars(AcceptThread(s))

Spec == Init /\ [][Next]_vars /\ Fairness

-----------------------------------------------------------------------------
(* Properties.                                                              *)

\* What a call leaves behind.  On every path out of run_match and run_single_scenario the
\* contestant process, or the VM process, has been killed and reaped, and no client socket
\* is open.  A direct call has joined its accept thread and closed its listener, so nothing
\* uses the bridge that was on its stack.  (With a VM the detached thread may still run.)
NothingLeftBehind ==
    \A s \in Calls : run[s].pc = "done" =>
        /\ run[s].child \in {"none", "reaped"}
        /\ run[s].conn = NoCall \/ InVM(s)
        /\ ~InVM(s) => run[s].acc \in {"none", "done"} /\ ~run[s].listen
        /\ run[s].rootfs => run[s].vm = "STOPPED"

\* The orders of a direct run go to the contestant it started, as long as processes do not
\* overlap: no contestant of an earlier match or scenario is there to take the connection.
OwnContestant ==
    ~overlap => \A s \in Calls : ~InVM(s) => run[s].conn \in {NoCall, s}

\* A direct run sends signals only to a process it has not reaped yet: the pid cannot have
\* been given to another process.
SignalsOwnChild == \A s \in Calls : run[s].late => InVM(s)

\* A direct run that has begun returns, whatever its contestant does and whoever else uses
\* its path: the accept thread ends, SIGKILL ends the contestant.
DirectRunReturns ==
    \A s \in Calls : (~InVM(s) /\ run[s].pc # "idle") ~> run[s].pc = "done"

\* The steps listed at the top of contest_runner.hpp: orders are blasted at a VM that runs,
\* which is stopped afterwards.
BlastsRunningVM == \A s \in Calls : InVM(s) /\ run[s].pc = "blast" => run[s].vm = "RUNNING"
=============================================================================
