------------------------ MODULE ContestRunnerProofs ------------------------
(***************************************************************************)
(* Proofs about ContestRunner, for any number of processes and scenarios.   *)
(*                                                                          *)
(* NothingLeftBehind and SignalsOwnChild speak of the end of a call; what   *)
(* is inductive is Good, which says for every point of the program what the *)
(* call owns there.  It is local to a call: a step of one call changes      *)
(* another only when it accepts that call's contestant.  OwnContestant also *)
(* needs Serial: without overlap one call at a time is running.             *)
(***************************************************************************)
EXTENDS ContestRunner, TLAPS

Records ==
    [pc : {"idle", "init", "copy", "create", "configure", "start", "boot", "booting", "listen",
           "fork", "join", "check", "blast", "term", "score", "done"},
     child : {"none", "up", "queued", "joined", "gone", "reaped"},
     peer : Calls \cup {NoCall}, pid : BOOLEAN,
     acc : {"none", "born", "poll", "done"}, listen : BOOLEAN, conn : Calls \cup {NoCall},
     rootfs : BOOLEAN, vm : {"none", "CREATED", "CONFIGURED", "RUNNING", "STOPPED", "FAILED"},
     late : BOOLEAN, ok : BOOLEAN]

\* Before the contestant, and when it is over.
Childless == {"idle", "init", "copy", "create", "listen", "fork"}
Quiet == {"idle", "init", "copy", "create", "configure", "start", "boot", "listen"}
Booting == {"copy", "create", "configure", "start", "boot", "booting"}
Served == {"check", "blast", "term", "score", "done"}

\* A call in a VM: the manager's block reaps the process, whatever is signalled later.
GoodInVM(r) ==
    /\ r.pc \notin {"listen", "fork", "join"}
    /\ r.pc \in Served => r.child \in {"none", "reaped"}
    /\ r.pc \in {"idle", "init", "copy"} => r.rootfs = FALSE
    /\ r.pc \in {"boot", "booting"} => r.vm = "RUNNING"
    /\ r.pc \in Served => r.rootfs = FALSE \/ r.vm = "STOPPED"

\* A direct call: contestant_pid is positive exactly when there is a child to reap, and the
\* accept thread is joined before the connection is looked at.
GoodDirect(r) ==
    /\ r.pc \notin Booting /\ r.rootfs = FALSE /\ r.late = FALSE
    /\ r.child = "reaped" => r.pc \in {"score", "done"}
    /\ r.pc \in {"join", "check", "blast", "term"} => (r.pid = TRUE <=> r.child # "none")
    /\ r.pc \in Served => r.acc \in {"none", "done"}
    /\ r.pc \in {"term", "score", "done"} => r.listen = FALSE /\ r.conn = NoCall

Good(r, inVM) ==
    /\ r \in Records
    /\ r.pc \in Childless => r.child = "none"
    /\ r.pc \in Quiet => /\ r.acc \in {"none", "done"}
                         /\ r.listen = FALSE /\ r.conn = NoCall
    /\ r.pc \in Quiet \cup {"fork"} => r.pid = FALSE
    /\ r.pc \in {"score", "done"} => r.child \in {"none", "reaped"}
    /\ IF inVM THEN GoodInVM(r) ELSE GoodDirect(r)

\* The record q of a call after a step that does not begin it and accepts nothing.
Moves(r, q, v) == Good(q, v) /\ q.pc # "idle" /\ q.conn \in {r.conn, NoCall}

Inv == /\ mode \in [Procs -> [kind : Kinds, vm : BOOLEAN]]
       /\ run \in [Calls -> Records]
       /\ \A s \in Calls : Good(run[s], InVM(s))

-----------------------------------------------------------------------------
(* What each step makes of the record of its call.                          *)

\* main and the top of run_match.
LEMMA GoodBegin ==
    ASSUME NEW r, NEW v \in BOOLEAN, Good(r, v), r.pc = "idle",
           NEW q \in Records, q.pc \in {"init", "done"}, q.child = r.child, q.pid = r.pid,
           q.acc = r.acc, q.listen = r.listen, q.conn = r.conn, q.rootfs = r.rootfs,
           q.late = r.late
    PROVE  Good(q, v) /\ q.conn = NoCall
<1>1. /\ r.child = "none" /\ r.pid = FALSE /\ r.acc \in {"none", "done"}
      /\ r.listen = FALSE /\ r.conn = NoCall /\ r.rootfs = FALSE
      /\ v = FALSE => r.late = FALSE
    BY DEF Good, GoodInVM, GoodDirect, Childless, Quiet
<1> QED
    BY <1>1 DEF Good, GoodInVM, GoodDirect, Booting

\* A step that only moves on.
LEMMA GoodTo ==
    ASSUME NEW r, NEW v \in BOOLEAN, Good(r, v), NEW l,
           \/ r.pc = "init" /\ l = IF v THEN "copy" ELSE "listen"
           \/ r.pc = "join" /\ r.acc = "done" /\ l = "check"
           \/ r.pc = "check" /\ l = "blast"
    PROVE  Moves(r, [r EXCEPT !.pc = l], v)
BY DEF Moves, Good, GoodInVM, GoodDirect, Records, Childless, Quiet, Booting, Served

\* kill and waitpid: only a child that was reaped before makes the signal a late one.
LEMMA Reaps ==
    ASSUME NEW r \in Records
    PROVE  /\ Reap(r) \in Records
           /\ Reap(r).child = IF r.child = "none" THEN "none" ELSE "reaped"
           /\ r.child # "reaped" => Reap(r).late = r.late
           /\ Reap(r).pc = r.pc /\ Reap(r).pid = r.pid /\ Reap(r).acc = r.acc
           /\ Reap(r).listen = r.listen /\ Reap(r).conn = r.conn
           /\ Reap(r).rootfs = r.rootfs /\ Reap(r).vm = r.vm
<1>1. CASE r.child = "none"
    BY <1>1 DEF Reap
<1>2. CASE r.child # "none"
    BY <1>2, ZenonT(60) DEF Reap, Records
<1> QED
    BY <1>1, <1>2

\* A return from anywhere: the contestant is reaped, a direct call's thread is over.
LEMMA GoodReturn ==
    ASSUME NEW r \in Records, NEW v \in BOOLEAN, r.child \in {"none", "reaped"},
           v => r.rootfs = FALSE \/ r.vm = "STOPPED",
           ~v => r.rootfs = FALSE /\ r.late = FALSE /\ r.acc \in {"none", "done"}
    PROVE  /\ Good(Return(r), v)
           /\ Return(r).pc = "done" /\ Return(r).conn = NoCall
<1>1. /\ Return(r) \in Records /\ Return(r).pc = "done" /\ Return(r).child = r.child
      /\ Return(r).acc = r.acc /\ Return(r).listen = FALSE /\ Return(r).conn = NoCall
      /\ Return(r).rootfs = r.rootfs /\ Return(r).vm = r.vm /\ Return(r).late = r.late
    BY ZenonT(60) DEF Return, Shut, Records
<1> QED
    BY <1>1 DEF Good, GoodInVM, GoodDirect, Childless, Quiet, Booting, Served

\* The steps to a running VM.
LEMMA GoodBoot ==
    ASSUME NEW r, NEW v \in BOOLEAN, Good(r, v)
    PROVE  /\ r.pc = "copy" => Moves(r, [r EXCEPT !.pc = "create", !.rootfs = TRUE], v)
           /\ r.pc = "create" => Moves(r, [r EXCEPT !.pc = "configure", !.child = "up",
                                                    !.vm = "CREATED"], v)
           /\ r.pc = "configure" => Moves(r, [r EXCEPT !.pc = "start", !.vm = "CONFIGURED"], v)
           /\ r.pc = "start" => Moves(r, [r EXCEPT !.pc = "boot", !.vm = "RUNNING"], v)
           /\ r.pc = "boot" => Moves(r, [r EXCEPT !.pc = "booting", !.pid = TRUE,
                                                  !.acc = "born"], v)
<1>1. r.pc \in Booting => v = TRUE /\ GoodInVM(r)
    BY DEF Good, GoodDirect
<1>2. ASSUME r.pc = "copy" PROVE Moves(r, [r EXCEPT !.pc = "create", !.rootfs = TRUE], TRUE)
    <2> DEFINE q == [r EXCEPT !.pc = "create", !.rootfs = TRUE]
    <2>1. /\ q \in Records /\ q.pc = "create" /\ q.child = "none"
          /\ q.pid = FALSE /\ q.acc \in {"none", "done"} /\ q.listen = FALSE /\ q.conn = NoCall
        BY <1>2, <1>1, Zenon DEF Good, Childless, Quiet, Records
    <2> HIDE DEF q
    <2>2. Moves(r, q, TRUE)
        BY <2>1 DEF Moves, Good, GoodInVM, Childless, Quiet, Served
    <2> QED
        BY <2>2, Zenon DEF q
<1>3. ASSUME r.pc = "create"
      PROVE  Moves(r, [r EXCEPT !.pc = "configure", !.child = "up", !.vm = "CREATED"], TRUE)
    <2> DEFINE q == [r EXCEPT !.pc = "configure", !.child = "up", !.vm = "CREATED"]
    <2>1. /\ q \in Records /\ q.pc = "configure"
          /\ q.pid = FALSE /\ q.acc \in {"none", "done"} /\ q.listen = FALSE /\ q.conn = NoCall
        BY <1>3, <1>1, ZenonT(60) DEF Good, Childless, Quiet, Records
    <2> HIDE DEF q
    <2>2. Moves(r, q, TRUE)
        BY <2>1 DEF Moves, Good, GoodInVM, Childless, Quiet, Served
    <2> QED
        BY <2>2, Zenon DEF q
<1>4. ASSUME r.pc = "configure" PROVE Moves(r, [r EXCEPT !.pc = "start", !.vm = "CONFIGURED"], TRUE)
    <2> DEFINE q == [r EXCEPT !.pc = "start", !.vm = "CONFIGURED"]
    <2>1. /\ q \in Records /\ q.pc = "start"
          /\ q.pid = FALSE /\ q.acc \in {"none", "done"} /\ q.listen = FALSE /\ q.conn = NoCall
        BY <1>4, <1>1, ZenonT(60) DEF Good, Childless, Quiet, Records
    <2> HIDE DEF q
    <2>2. Moves(r, q, TRUE)
        BY <2>1 DEF Moves, Good, GoodInVM, Childless, Quiet, Served
    <2> QED
        BY <2>2, Zenon DEF q
<1>5. ASSUME r.pc = "start" PROVE Moves(r, [r EXCEPT !.pc = "boot", !.vm = "RUNNING"], TRUE)
    <2> DEFINE q == [r EXCEPT !.pc = "boot", !.vm = "RUNNING"]
    <2>1. /\ q \in Records /\ q.pc = "boot" /\ q.vm = "RUNNING"
          /\ q.pid = FALSE /\ q.acc \in {"none", "done"} /\ q.listen = FALSE /\ q.conn = NoCall
        BY <1>5, <1>1, ZenonT(60) DEF Good, Childless, Quiet, Records
    <2> HIDE DEF q
    <2>2. Moves(r, q, TRUE)
        BY <2>1 DEF Moves, Good, GoodInVM, Childless, Quiet, Served
    <2> QED
        BY <2>2, Zenon DEF q
<1>6. ASSUME r.pc = "boot"
      PROVE  Moves(r, [r EXCEPT !.pc = "booting", !.pid = TRUE, !.acc = "born"], TRUE)
    <2> DEFINE q == [r EXCEPT !.pc = "booting", !.pid = TRUE, !.acc = "born"]
    <2>1. /\ q \in Records /\ q.pc = "booting" /\ q.vm = "RUNNING"
          /\ q.conn = r.conn
        BY <1>6, <1>1, ZenonT(60) DEF Good, GoodInVM, Booting, Records
    <2> HIDE DEF q
    <2>2. Moves(r, q, TRUE)
        BY <2>1 DEF Moves, Good, GoodInVM, Childless, Quiet, Served
    <2> QED
        BY <2>2, Zenon DEF q
<1> QED
    BY <1>1, <1>2, <1>3, <1>4, <1>5, <1>6, Zenon DEF Booting

\* destroy reaps the VM process and stops a VM that runs.
LEMMA Destroys ==
    ASSUME NEW r \in Records
    PROVE  /\ destroy(r) \in Records /\ destroy(r).child \in {"none", "reaped"}
           /\ destroy(r).vm = IF r.vm = "RUNNING" THEN "STOPPED" ELSE r.vm
           /\ destroy(r).conn = r.conn
<1> DEFINE q == Reap(r)
<1>1. /\ q \in Records /\ q.child \in {"none", "reaped"} /\ q.vm = r.vm
      /\ q.conn = r.conn
    BY Reaps
<1>2. destroy(r) = [q EXCEPT !.vm = IF q.vm = "RUNNING" THEN "STOPPED" ELSE q.vm]
    BY DEF destroy
<1> HIDE DEF q
<1> QED
    BY <1>1, <1>2 DEF Records

\* A boot that fails, and the end of the block around a boot that does not.
LEMMA GoodDestroy ==
    ASSUME NEW r, NEW v \in BOOLEAN, Good(r, v)
    PROVE  /\ r.pc \in {"copy", "create", "configure", "start"} =>
                \A born \in {"none", "up", "gone"} :
                  Moves(r, Return([destroy(IF born = "none" THEN r
                                       ELSE [r EXCEPT !.child = born, !.vm = "FAILED"])
                               EXCEPT !.rootfs = FALSE]), v)
           /\ r.pc = "booting" => Moves(r, [destroy(r) EXCEPT !.pc = "check"], v)
<1>1. r \in Records
    BY DEF Good
<1>2. ASSUME r.pc \in {"copy", "create", "configure", "start"}, NEW born \in {"none", "up", "gone"}
      PROVE  Moves(r, Return([destroy(IF born = "none" THEN r
                                  ELSE [r EXCEPT !.child = born, !.vm = "FAILED"])
                          EXCEPT !.rootfs = FALSE]), v)
    <2> DEFINE q == IF born = "none" THEN r ELSE [r EXCEPT !.child = born, !.vm = "FAILED"]
               d == destroy(q)
               e == [d EXCEPT !.rootfs = FALSE]
    <2>1. v = TRUE
        BY <1>2 DEF Good, GoodDirect, Booting
    <2>2. q \in Records
        <3>1. [r EXCEPT !.child = born, !.vm = "FAILED"] \in Records
            BY <1>1, ZenonT(60) DEF Records
        <3> QED
            BY <1>1, <3>1
    <2>3. d \in Records /\ d.child \in {"none", "reaped"}
        BY <2>2, Destroys
    <2> HIDE DEF q, d
    <2>4. e \in Records /\ e.child \in {"none", "reaped"} /\ e.rootfs = FALSE
        BY <2>3, Zenon DEF Records
    <2> HIDE DEF e
    <2>5. Moves(r, Return(e), v)
        BY <2>1, <2>4, GoodReturn, Zenon DEF Moves
    <2> QED
        BY <2>5 DEF e, d, q
<1>3. ASSUME r.pc = "booting" PROVE Moves(r, [destroy(r) EXCEPT !.pc = "check"], v)
    <2> DEFINE d == destroy(r)
               e == [d EXCEPT !.pc = "check"]
    <2>1. v = TRUE /\ r.vm = "RUNNING"
        BY <1>3 DEF Good, GoodDirect, GoodInVM, Booting
    <2>2. d \in Records /\ d.child \in {"none", "reaped"} /\ d.vm = "STOPPED" /\ d.conn = r.conn
        BY <1>1, <2>1, Destroys
    <2> HIDE DEF d
    <2>3. /\ e \in Records /\ e.pc = "check" /\ e.child \in {"none", "reaped"} /\ e.vm = "STOPPED"
          /\ e.conn = r.conn
        BY <2>2 DEF Records
    <2> HIDE DEF e
    <2>4. Moves(r, e, v)
        BY <2>1, <2>3 DEF Moves, Good, GoodInVM, Childless, Quiet, Served
    <2> QED
        BY <2>4 DEF e, d
<1> QED
    BY <1>2, <1>3

\* Direct execution: the thread, then the contestant, if there is one.
LEMMA GoodLaunch ==
    ASSUME NEW r, NEW v \in BOOLEAN, Good(r, v)
    PROVE  /\ r.pc = "listen" => Moves(r, [r EXCEPT !.pc = "fork", !.acc = "born"], v)
           /\ r.pc = "fork" => Moves(r, [r EXCEPT !.pc = "join", !.pid = TRUE, !.child = "up"], v)
           /\ r.pc = "fork" => Moves(r, [r EXCEPT !.pc = "join", !.pid = FALSE,
                                                  !.child = "none"], v)
<1>1. r.pc \in {"listen", "fork"} =>
        /\ v = FALSE /\ r \in Records /\ r.rootfs = FALSE /\ r.late = FALSE /\ r.child = "none"
        /\ r.pid = FALSE
    BY DEF Good, GoodInVM, GoodDirect, Childless, Quiet
<1>2. ASSUME r.pc = "listen" PROVE Moves(r, [r EXCEPT !.pc = "fork", !.acc = "born"], v)
    <2> DEFINE q == [r EXCEPT !.pc = "fork", !.acc = "born"]
    <2>1. /\ q \in Records /\ q.pc = "fork" /\ q.rootfs = FALSE /\ q.late = FALSE /\ q.conn = r.conn
          /\ q.child = "none" /\ q.pid = FALSE
        BY <1>1, <1>2, ZenonT(60) DEF Records
    <2> HIDE DEF q
    <2>2. Moves(r, q, v)
        BY <1>1, <1>2, <2>1 DEF Moves, Good, GoodDirect, Childless, Quiet, Booting, Served
    <2> QED
        BY <2>2 DEF q
<1>3. ASSUME r.pc = "fork", NEW forked \in BOOLEAN, NEW child \in {"none", "up"},
             forked = TRUE <=> child # "none"
      PROVE  Moves(r, [r EXCEPT !.pc = "join", !.pid = forked, !.child = child], v)
    <2> DEFINE q == [r EXCEPT !.pc = "join", !.pid = forked, !.child = child]
    <2>1. /\ q \in Records /\ q.pc = "join" /\ q.rootfs = FALSE /\ q.late = FALSE /\ q.conn = r.conn
          /\ q.child = child /\ q.pid = forked
        BY <1>1, <1>3, ZenonT(60) DEF Records
    <2> HIDE DEF q
    <2>2. Moves(r, q, v)
        BY <1>1, <1>3, <2>1 DEF Moves, Good, GoodDirect, Childless, Quiet, Booting, Served
    <2> QED
        BY <2>2 DEF q
<1> QED
    BY <1>2, <1>3, Zenon

\* kill and waitpid of a call that has contestant_pid.
LEMMA Kills ==
    ASSUME NEW r, NEW v \in BOOLEAN, Good(r, v), r.pc \in {"check", "term"}
    PROVE  LET k == KillContestant(r) IN
           /\ k \in Records /\ k.child \in {"none", "reaped"}
           /\ k.rootfs = r.rootfs /\ k.vm = r.vm /\ k.acc = r.acc
           /\ k.listen = r.listen /\ k.conn = r.conn
           /\ v = FALSE => k.late = FALSE
<1>1. r \in Records
    BY DEF Good
<1>2. CASE r.pid = TRUE
    <2>1. KillContestant(r) = Reap(r)
        BY <1>2 DEF KillContestant
    <2>2. v = FALSE => r.child # "reaped" /\ r.late = FALSE
        BY DEF Good, GoodDirect
    <2> QED
        BY <1>1, <2>1, <2>2, Reaps
<1>3. CASE r.pid = FALSE
    <2>1. KillContestant(r) = r
        BY <1>3 DEF KillContestant
    <2>2. r.child \in {"none", "reaped"} /\ (v = FALSE => r.late = FALSE)
        BY <1>3 DEF Good, GoodDirect, GoodInVM, Served
    <2> QED
        BY <1>1, <2>1, <2>2
<1> QED
    BY <1>1, <1>2, <1>3, Zenon DEF Records

\* The end of a call: not connected, or session over, terminated and scored.
LEMMA GoodEnd ==
    ASSUME NEW r, NEW v \in BOOLEAN, Good(r, v), NEW ok \in BOOLEAN
    PROVE  /\ r.pc = "init" => Moves(r, Return(r), v)
           /\ r.pc = "check" => Moves(r, Return(KillContestant(r)), v)
           /\ r.pc = "blast" => Moves(r, [Shut(r) EXCEPT !.pc = "term"], v)
           /\ r.pc = "term" => Moves(r, [KillContestant(r) EXCEPT !.pc = "score"], v)
           /\ r.pc = "score" => Moves(r, [Return(r) EXCEPT !.ok = ok], v)
<1>1. /\ r \in Records
      /\ r.pc \in {"init"} \cup Served =>
           /\ v = TRUE => r.rootfs = FALSE \/ r.vm = "STOPPED"
           /\ v = FALSE => r.rootfs = FALSE /\ r.late = FALSE /\ r.acc \in {"none", "done"}
    BY DEF Good, GoodInVM, GoodDirect, Quiet
<1>2. ASSUME r.pc = "init" PROVE Moves(r, Return(r), v)
    <2>1. r.child = "none"
        BY <1>2 DEF Good, Childless
    <2> QED
        BY <1>1, <1>2, <2>1, GoodReturn, Zenon DEF Moves
<1>3. ASSUME r.pc = "check" PROVE Moves(r, Return(KillContestant(r)), v)
    <2> DEFINE k == KillContestant(r)
    <2>1. /\ k \in Records /\ k.child \in {"none", "reaped"} /\ k.rootfs = r.rootfs
          /\ k.vm = r.vm /\ k.acc = r.acc
          /\ v = FALSE => k.late = FALSE
        BY <1>3, Kills, Zenon
    <2> HIDE DEF k
    <2>2. /\ v = TRUE => k.rootfs = FALSE \/ k.vm = "STOPPED"
          /\ v = FALSE => k.rootfs = FALSE /\ k.late = FALSE /\ k.acc \in {"none", "done"}
        BY <1>1, <1>3, <2>1 DEF Served
    <2>3. Moves(r, Return(k), v)
        BY <2>1, <2>2, GoodReturn, Zenon DEF Moves
    <2> QED
        BY <2>3 DEF k
<1>4. ASSUME r.pc = "blast" PROVE Moves(r, [Shut(r) EXCEPT !.pc = "term"], v)
    <2> DEFINE q == [Shut(r) EXCEPT !.pc = "term"]
    <2>1. /\ q \in Records /\ q.pc = "term" /\ q.listen = FALSE /\ q.conn = NoCall
          /\ q.child = r.child /\ q.pid = r.pid /\ q.acc = r.acc
          /\ q.rootfs = r.rootfs /\ q.vm = r.vm /\ q.late = r.late
        BY <1>1, ZenonT(60) DEF Shut, Records
    <2> HIDE DEF q
    <2>2. Moves(r, q, v)
        BY <1>4, <2>1 DEF Moves, Good, GoodInVM, GoodDirect, Childless, Quiet, Booting, Served
    <2> QED
        BY <2>2 DEF q
<1>5. ASSUME r.pc = "term" PROVE Moves(r, [KillContestant(r) EXCEPT !.pc = "score"], v)
    <2> DEFINE k == KillContestant(r)
               q == [k EXCEPT !.pc = "score"]
    <2>1. /\ k \in Records /\ k.child \in {"none", "reaped"} /\ k.rootfs = r.rootfs
          /\ k.vm = r.vm /\ k.acc = r.acc /\ k.listen = r.listen /\ k.conn = r.conn
          /\ v = FALSE => k.late = FALSE
        BY <1>5, Kills, Zenon
    <2> HIDE DEF k
    <2>2. /\ q \in Records /\ q.pc = "score" /\ q.child = k.child /\ q.rootfs = k.rootfs
          /\ q.vm = k.vm /\ q.acc = k.acc /\ q.listen = k.listen /\ q.conn = k.conn
          /\ q.late = k.late
        BY <2>1 DEF Records
    <2> HIDE DEF q
    <2>3. Moves(r, q, v)
        BY <1>5, <2>1, <2>2 DEF Moves, Good, GoodInVM, GoodDirect, Childless, Quiet, Booting, Served
    <2> QED
        BY <2>3 DEF q, k
<1>6. ASSUME r.pc = "score" PROVE Moves(r, [Return(r) EXCEPT !.ok = ok], v)
    <2> DEFINE k == Return(r)
               q == [k EXCEPT !.ok = ok]
    <2>1. r.child \in {"none", "reaped"}
        BY <1>6 DEF Good
    <2>2. Good(k, v) /\ k.pc = "done" /\ k.conn = NoCall
        BY <1>1, <1>6, <2>1, GoodReturn, Zenon DEF Served
    <2> HIDE DEF k
    <2>3. /\ q \in Records /\ q.pc = k.pc /\ q.child = k.child /\ q.rootfs = k.rootfs
          /\ q.vm = k.vm /\ q.acc = k.acc /\ q.listen = k.listen /\ q.conn = k.conn
          /\ q.late = k.late /\ q.pid = k.pid
        BY <2>2 DEF Good, Records
    <2> HIDE DEF q
    <2>4. Moves(r, q, v)
        BY <2>2, <2>3 DEF Moves, Good, GoodInVM, GoodDirect
    <2> QED
        BY <2>4 DEF q, k
<1> QED
    BY <1>2, <1>3, <1>4, <1>5, <1>6

\* The accept thread.  A direct call is between fork and join while its thread runs.
LEMMA GoodThread ==
    ASSUME NEW r, NEW v \in BOOLEAN, Good(r, v), r.acc \in {"born", "poll"}
    PROVE  /\ r.pc # "idle" /\ (v = FALSE => r.pc \in {"fork", "join"})
           /\ Moves(r, [r EXCEPT !.acc = "poll", !.listen = TRUE], v)
           /\ [r EXCEPT !.acc = "poll", !.listen = TRUE].pc = r.pc
           /\ Moves(r, [r EXCEPT !.acc = "done"], v)
           /\ [r EXCEPT !.acc = "done"].pc = r.pc
           /\ \A t \in Calls : /\ Good([r EXCEPT !.acc = "done", !.conn = t], v)
                               /\ [r EXCEPT !.acc = "done", !.conn = t].pc = r.pc
                               /\ [r EXCEPT !.acc = "done", !.conn = t].conn = t
<1>1. r \in Records /\ r.pc \notin Quiet /\ (v = FALSE => r.pc \in {"fork", "join"})
    BY DEF Good, GoodDirect, Records, Quiet, Booting, Served
<1>2. ASSUME NEW q \in Records, q.pc = r.pc, q.child = r.child, q.pid = r.pid,
             q.rootfs = r.rootfs, q.vm = r.vm, q.late = r.late
      PROVE  Good(q, v)
    BY <1>1, <1>2 DEF Good, GoodInVM, GoodDirect, Childless, Quiet, Booting, Served
<1>3. /\ Moves(r, [r EXCEPT !.acc = "poll", !.listen = TRUE], v)
      /\ [r EXCEPT !.acc = "poll", !.listen = TRUE].pc = r.pc
    <2> DEFINE q == [r EXCEPT !.acc = "poll", !.listen = TRUE]
    <2>1. /\ q \in Records /\ q.pc = r.pc /\ q.child = r.child /\ q.pid = r.pid
          /\ q.rootfs = r.rootfs /\ q.vm = r.vm /\ q.late = r.late /\ q.conn = r.conn
        BY <1>1, ZenonT(60) DEF Records
    <2> HIDE DEF q
    <2>2. Moves(r, q, v)
        BY <1>1, <1>2, <2>1 DEF Moves, Quiet
    <2> QED
        BY <2>1, <2>2 DEF q
<1>4. /\ Moves(r, [r EXCEPT !.acc = "done"], v)
      /\ [r EXCEPT !.acc = "done"].pc = r.pc
    <2> DEFINE q == [r EXCEPT !.acc = "done"]
    <2>1. /\ q \in Records /\ q.pc = r.pc /\ q.child = r.child /\ q.pid = r.pid
          /\ q.rootfs = r.rootfs /\ q.vm = r.vm /\ q.late = r.late /\ q.conn = r.conn
        BY <1>1 DEF Records
    <2> HIDE DEF q
    <2>2. Moves(r, q, v)
        BY <1>1, <1>2, <2>1 DEF Moves, Quiet
    <2> QED
        BY <2>1, <2>2 DEF q
<1>5. ASSUME NEW t \in Calls
      PROVE  /\ Good([r EXCEPT !.acc = "done", !.conn = t], v)
             /\ [r EXCEPT !.acc = "done", !.conn = t].pc = r.pc
             /\ [r EXCEPT !.acc = "done", !.conn = t].conn = t
    <2> DEFINE q == [r EXCEPT !.acc = "done", !.conn = t]
    <2>1. /\ q \in Records /\ q.pc = r.pc /\ q.child = r.child /\ q.pid = r.pid
          /\ q.rootfs = r.rootfs /\ q.vm = r.vm /\ q.late = r.late /\ q.conn = t
        BY <1>1, ZenonT(60) DEF Records
    <2> HIDE DEF q
    <2>2. Good(q, v)
        BY <1>2, <2>1
    <2> QED
        BY <2>1, <2>2 DEF q
<1> QED
    BY <1>1, <1>3, <1>4, <1>5, Zenon DEF Quiet

\* The contestant connects, is accepted, exits: it is there, so its call is running.
LEMMA GoodChild ==
    ASSUME NEW r, NEW v \in BOOLEAN, Good(r, v), r.child \in {"up", "queued", "joined"},
           NEW child \in {"queued", "joined", "gone"}, NEW peer \in Calls \cup {NoCall}
    PROVE  /\ r.pc \notin {"idle", "done"}
           /\ Moves(r, [r EXCEPT !.child = child, !.peer = peer], v)
           /\ [r EXCEPT !.child = child, !.peer = peer].pc = r.pc
           /\ [r EXCEPT !.child = child, !.peer = peer].acc = r.acc
<1> DEFINE q == [r EXCEPT !.child = child, !.peer = peer]
<1>1. /\ r \in Records /\ r.pc \notin Childless \cup {"score", "done"}
      /\ v = TRUE => r.pc \notin Served
    BY DEF Good, GoodInVM, Childless
<1>2. /\ q \in Records /\ q.pc = r.pc /\ q.child = child /\ q.pid = r.pid /\ q.acc = r.acc
      /\ q.listen = r.listen /\ q.conn = r.conn
      /\ q.rootfs = r.rootfs /\ q.vm = r.vm /\ q.late = r.late
    BY <1>1, ZenonT(60) DEF Records
<1> HIDE DEF q
<1>3. Moves(r, q, v)
    BY <1>1, <1>2 DEF Moves, Good, GoodInVM, GoodDirect, Childless, Quiet, Booting, Served
<1> QED
    BY <1>1, <1>2, <1>3 DEF q, Childless

\* The process ends, and with it its threads.
LEMMA GoodExit ==
    ASSUME NEW r, NEW v \in BOOLEAN, Good(r, v)
    PROVE  /\ Good([r EXCEPT !.acc = "done", !.ok = FALSE], v)
           /\ [r EXCEPT !.acc = "done", !.ok = FALSE].pc = r.pc
           /\ [r EXCEPT !.acc = "done", !.ok = FALSE].conn = r.conn
<1> DEFINE q == [r EXCEPT !.acc = "done", !.ok = FALSE]
<1>1. /\ q \in Records /\ q.pc = r.pc /\ q.child = r.child /\ q.pid = r.pid /\ q.acc = "done"
      /\ q.listen = r.listen /\ q.conn = r.conn
      /\ q.rootfs = r.rootfs /\ q.vm = r.vm /\ q.late = r.late
    BY ZenonT(60) DEF Good, Records
<1> HIDE DEF q
<1>2. Good(q, v)
    BY <1>1 DEF Good, GoodInVM, GoodDirect
<1> QED
    BY <1>1, <1>2 DEF q

-----------------------------------------------------------------------------
(* One call at a time.                                                      *)

Running(s) == run[s].pc \notin {"idle", "done"}

\* Without overlap at most one call of all processes runs, because the calls of a process
\* run in order and another process starts only when no process is between its first call
\* and its exit.
Serial ==
    /\ overlap \in BOOLEAN /\ exit \in [Procs -> {"none", "ok", "fail"}]
    /\ overlap = FALSE => \A s, t \in Calls : Running(s) /\ Running(t) => s = t
    /\ \A s \in Calls : s \notin CallsOf(s[1]) => run[s].pc = "idle"
    /\ \A p \in Procs : \A s, t \in CallsOf(p) :
         t[2] < s[2] /\ run[s].pc # "idle" => run[t].pc = "done"
    /\ \A p \in Procs : exit[p] # "none" => \A s \in CallsOf(p) : run[s].pc = "done"
    /\ overlap = FALSE =>
         \A s \in Calls : InVM(s) = FALSE => run[s].conn \in {NoCall, s}

\* The two invariants hold when nothing has begun.
LEMMA InitGood == Init => Inv /\ Serial
<1> SUFFICES ASSUME Init PROVE Inv /\ Serial
    OBVIOUS
<1>1. NewCall \in Records
    BY DEF NewCall, Records
<1>2. \A s \in Calls : InVM(s) \in BOOLEAN
    BY DEF Init, InVM, Calls
<1>3. \A v \in BOOLEAN : Good(NewCall, v)
    BY <1>1 DEF NewCall, Good, GoodInVM, GoodDirect, Childless, Quiet, Booting, Served
<1>4. Inv
    BY <1>1, <1>2, <1>3 DEF Init, Inv
<1>5. \A s \in Calls : run[s].pc = "idle" /\ run[s].conn = NoCall
    BY DEF Init, NewCall
<1>6. Serial
    BY <1>5 DEF Serial, Running, Init, CallsOf
<1> QED
    BY <1>4, <1>6

\* What the invariants say of one call.
LEMMA OneCall ==
    ASSUME Inv, NEW s \in Calls
    PROVE  Good(run[s], InVM(s)) /\ InVM(s) \in BOOLEAN /\ run[s] \in Records
<1>1. s[1] \in Procs
    BY DEF Calls
<1> QED
    BY <1>1 DEF Inv, InVM

\* A step of a call that has begun keeps the invariants.
LEMMA MovesStep ==
    ASSUME Inv, Serial, NEW s \in Calls, NEW q, Moves(run[s], q, InVM(s)),
           run[s].pc # "idle", run[s].pc = "done" => q.pc = "done",
           run' = [run EXCEPT ![s] = q], UNCHANGED <<mode, overlap, exit>>
    PROVE  Inv' /\ Serial'
<1>1. /\ run'[s] = q /\ \A t \in Calls \ {s} : run'[t] = run[t]
      /\ \A t \in Calls : InVM(t)' = InVM(t)
      /\ \A p \in Procs : CallsOf(p)' = CallsOf(p) /\ CallsOf(p) \subseteq Calls
      /\ \A t \in Calls : t[1] \in Procs
    BY DEF Inv, InVM, CallsOf, Calls
<1>2. Inv'
    BY <1>1 DEF Inv, Moves, Good
<1>3. /\ \A t \in Calls : run[t].pc = "idle" <=> run'[t].pc = "idle"
      /\ \A t \in Calls : run[t].pc = "done" => run'[t].pc = "done"
      /\ \A t \in Calls : run'[t].conn \in {run[t].conn, NoCall}
    BY <1>1 DEF Moves
<1>4. Serial'
    BY <1>1, <1>3 DEF Serial, Running
<1> QED
    BY <1>2, <1>4

\* The beginning of a call: the calls before it have returned, and without overlap no other
\* process is active.
LEMMA BeginStep ==
    ASSUME Inv, Serial, NEW s \in Calls, Begin(s)
    PROVE  Inv' /\ Serial'
<1>1. PICK q : /\ Good(q, InVM(s)) /\ q.pc # "idle" /\ q.conn = NoCall
               /\ run' = [run EXCEPT ![s] = q]
    <2>1. PICK success \in BOOLEAN :
            Set(s, [run[s] EXCEPT !.ok = success /\ Kind(s) = "match",
                                  !.pc = IF success THEN "init" ELSE "done"])
        BY Zenon DEF Begin, compile
    <2> DEFINE ok == success /\ Kind(s) = "match"
               l == IF success THEN "init" ELSE "done"
    <2>2. ok \in BOOLEAN /\ l \in {"init", "done"}
        OBVIOUS
    <2>3. run' = [run EXCEPT ![s] = [run[s] EXCEPT !.ok = ok, !.pc = l]]
        BY <2>1 DEF Set
    <2> HIDE DEF ok, l
    <2>4. run[s].pc = "idle"
        BY DEF Begin
    <2>5. Good(run[s], InVM(s)) /\ InVM(s) \in BOOLEAN
        BY OneCall
    <2>6. PICK q : q = [run[s] EXCEPT !.ok = ok, !.pc = l]
        OBVIOUS
    <2>7. Good(q, InVM(s)) /\ q.pc = l /\ q.conn = NoCall
        <3>1. run[s] \in Records
            BY OneCall
        <3>2. /\ q \in Records /\ q.pc = l /\ q.child = run[s].child /\ q.pid = run[s].pid
              /\ q.acc = run[s].acc /\ q.listen = run[s].listen /\ q.conn = run[s].conn
              /\ q.rootfs = run[s].rootfs /\ q.late = run[s].late
            BY <2>2, <2>6, <3>1, ZenonT(60) DEF Records
        <3> QED
            BY <2>2, <2>4, <2>5, <3>2, GoodBegin
    <2>8. run' = [run EXCEPT ![s] = q]
        BY <2>3, <2>6
    <2> QED
        BY <2>2, <2>7, <2>8, Zenon
<1>2. /\ UNCHANGED <<mode, overlap, exit>> /\ run[s].pc = "idle" /\ s \in CallsOf(s[1])
      /\ \A t \in CallsOf(s[1]) : t[2] < s[2] => run[t].pc = "done"
      /\ overlap = FALSE => \A p \in Procs \ {s[1]} : ~Active(p)
    BY DEF Begin, Serial
<1>3. /\ run'[s] = q /\ \A t \in Calls \ {s} : run'[t] = run[t]
      /\ \A t \in Calls : InVM(t)' = InVM(t)
      /\ \A p \in Procs : CallsOf(p)' = CallsOf(p) /\ CallsOf(p) \subseteq Calls
      /\ \A t \in Calls : t[1] \in Procs /\ t[2] \in Nat
      /\ \A t \in Calls : t[1] = s[1] /\ t[2] = s[2] => t = s
      /\ \A p \in Procs : \A t \in CallsOf(p) : t[1] = p
    BY <1>1, <1>2 DEF Inv, InVM, CallsOf, Calls
<1>4. Inv'
    BY <1>1, <1>2, <1>3 DEF Inv, Good
<1>5. ASSUME overlap = FALSE, NEW t \in Calls, Running(t) PROVE FALSE
    <2>1. run[t].pc # "idle" /\ run[t].pc # "done" /\ t \in CallsOf(t[1])
        BY <1>5 DEF Running, Serial
    <2>2. CASE t[1] # s[1]
        BY <1>2, <1>3, <1>5, <2>1, <2>2 DEF Serial, Active
    <2>3. CASE t[1] = s[1]
        <3>1. t[2] < s[2] \/ s[2] < t[2]
            BY <1>2, <1>3, <2>1, <2>3
        <3> QED
            BY <1>2, <1>3, <2>1, <2>3, <3>1 DEF Serial
    <2> QED
        BY <2>2, <2>3
<1>6. /\ (overlap = FALSE => \A u, t \in Calls : Running(u) /\ Running(t) => u = t)'
      /\ (overlap = FALSE => \A u \in Calls : InVM(u) = FALSE => run[u].conn \in {NoCall, u})'
    <2>1. \A u \in Calls : Running(u)' => u = s \/ Running(u)
        BY <1>3 DEF Running
    <2>2. \A u \in Calls : run'[u].conn = run[u].conn \/ run'[u].conn = NoCall
        BY <1>1, <1>3
    <2>3. (overlap = FALSE => \A u, t \in Calls : Running(u) /\ Running(t) => u = t)'
        BY <1>2, <1>5, <2>1, ZenonT(60)
    <2>4. (overlap = FALSE => \A u \in Calls : InVM(u) = FALSE => run[u].conn \in {NoCall, u})'
        BY <1>2, <1>3, <2>2 DEF Serial
    <2> QED
        BY <2>3, <2>4
<1>7. (\A u \in Calls : u \notin CallsOf(u[1]) => run[u].pc = "idle")'
    BY <1>2, <1>3 DEF Serial
<1>8. ASSUME NEW p \in Procs, NEW u \in CallsOf(p), NEW t \in CallsOf(p), t[2] < u[2],
             run'[u].pc # "idle"
      PROVE  run'[t].pc = "done"
    <2>1. CASE u = s
        BY <1>2, <1>3, <1>8, <2>1
    <2>2. CASE u # s
        <3>1. run[t].pc = "done"
            BY <1>3, <1>8, <2>2 DEF Serial
        <3> QED
            BY <1>2, <1>3, <3>1
    <2> QED
        BY <2>1, <2>2
<1>9. ASSUME NEW p \in Procs, exit[p] # "none", NEW u \in CallsOf(p) PROVE run'[u].pc = "done"
    BY <1>2, <1>3, <1>9, SMTT(60) DEF Serial
<1>10. Serial'
    BY <1>2, <1>3, <1>6, <1>7, <1>8, <1>9 DEF Serial
<1> QED
    BY <1>4, <1>10

\* A connection is accepted.  Its contestant's call runs, and so does the accepting one if it
\* is direct: without overlap they are the same.
LEMMA AcceptStep ==
    ASSUME Inv, Serial, NEW s \in Calls, Accept(s)
    PROVE  Inv' /\ Serial'
<1>1. PICK t \in Calls :
        /\ run[t].child = "queued" /\ run[t].peer = s
        /\ run' = [u \in Calls |->
               LET r == IF u = t THEN [run[u] EXCEPT !.child = "joined"] ELSE run[u]
               IN IF u = s THEN [r EXCEPT !.acc = "done", !.conn = t] ELSE r]
    BY ZenonT(60) DEF Accept
<1>2. UNCHANGED <<mode, overlap, exit>> /\ run[s].acc = "poll"
    BY Zenon DEF Accept
<1> DEFINE c(u) == IF u = t THEN [run[u] EXCEPT !.child = "joined"] ELSE run[u]
<1>3. ASSUME NEW u \in Calls
      PROVE  /\ Good(c(u), InVM(u)) /\ c(u).pc = run[u].pc /\ c(u).acc = run[u].acc
             /\ c(u).conn \in {run[u].conn, NoCall}
             /\ u = t => Running(u)
    <2>1. CASE u = t
        <3> DEFINE d == [run[t] EXCEPT !.child = "joined", !.peer = s]
        <3>1. d = [run[t] EXCEPT !.child = "joined"]
            BY <1>1, OneCall, ZenonT(60) DEF Records
        <3>2. /\ run[t].pc \notin {"idle", "done"} /\ Moves(run[t], d, InVM(t))
              /\ d.pc = run[t].pc /\ d.acc = run[t].acc
            <4>1. Good(run[t], InVM(t)) /\ InVM(t) \in BOOLEAN
                BY OneCall
            <4>2. s \in Calls \cup {NoCall}
                OBVIOUS
            <4> QED
                BY <1>1, <4>1, <4>2, GoodChild, ZenonT(60)
        <3> QED
            BY <2>1, <3>1, <3>2, SMTT(60) DEF Moves, Running
    <2>2. CASE u # t
        BY <2>2, OneCall
    <2> QED
        BY <2>1, <2>2
<1>4. ASSUME NEW u \in Calls
      PROVE  run'[u] = IF u = s THEN [c(u) EXCEPT !.acc = "done", !.conn = t] ELSE c(u)
    BY <1>1, <1>4, Zenon
<1> HIDE DEF c
<1>5. /\ Good(run'[s], InVM(s)) /\ run'[s].pc = run[s].pc /\ run'[s].conn = t
      /\ run[s].pc # "idle" /\ (InVM(s) = FALSE => run[s].pc \in {"fork", "join"})
    <2>1. Good(c(s), InVM(s)) /\ c(s).pc = run[s].pc /\ c(s).acc = "poll"
        BY <1>2, <1>3, SMTT(60)
    <2> QED
        <3>1. InVM(s) \in BOOLEAN
            BY OneCall
        <3> DEFINE r == c(s)
        <3>2. /\ r.pc # "idle" /\ (InVM(s) = FALSE => r.pc \in {"fork", "join"})
              /\ Good([r EXCEPT !.acc = "done", !.conn = t], InVM(s))
              /\ [r EXCEPT !.acc = "done", !.conn = t].pc = r.pc
              /\ [r EXCEPT !.acc = "done", !.conn = t].conn = t
            <4> HIDE DEF r
            <4>1. Good(r, InVM(s)) /\ r.acc \in {"born", "poll"}
                BY <2>1 DEF r
            <4> QED
                BY <3>1, <4>1, GoodThread, ZenonT(60)
        <3>3. run'[s] = [r EXCEPT !.acc = "done", !.conn = t]
            BY <1>4, Zenon
        <3> QED
            BY <2>1, <3>2, <3>3
<1>6. \A u \in Calls \ {s} : /\ Good(run'[u], InVM(u)) /\ run'[u].pc = run[u].pc
                             /\ run'[u].conn \in {run[u].conn, NoCall}
    BY <1>3, <1>4, Zenon
<1>7. /\ \A u \in Calls : InVM(u)' = InVM(u)
      /\ \A p \in Procs : CallsOf(p)' = CallsOf(p) /\ CallsOf(p) \subseteq Calls
      /\ \A u \in Calls : u[1] \in Procs
      /\ run' = [u \in Calls |-> run'[u]]
    BY <1>1, <1>2, ZenonT(60) DEF InVM, CallsOf, Calls
<1>8. Inv'
    BY <1>2, <1>5, <1>6, <1>7, SMTT(60) DEF Inv, Good
<1>9. overlap = FALSE /\ InVM(s) = FALSE => s = t
    BY <1>3, <1>5 DEF Serial, Running
<1>10. Serial'
    BY <1>2, <1>5, <1>6, <1>7, <1>9, SMTT(60) DEF Serial, Running
<1> QED
    BY <1>8, <1>10, SMTT(60)

\* A process exits after its last call.
LEMMA ExitStep ==
    ASSUME Inv, Serial, NEW p \in Procs, Exit(p)
    PROVE  Inv' /\ Serial'
<1>1. /\ UNCHANGED <<mode, overlap>> /\ \A s \in CallsOf(p) : run[s].pc = "done"
      /\ run' = [s \in Calls |-> IF s[1] = p THEN [run[s] EXCEPT !.acc = "done", !.ok = FALSE]
                                 ELSE run[s]]
    BY ZenonT(60) DEF Exit
<1>2. exit' \in [Procs -> {"none", "ok", "fail"}] /\ \A o \in Procs \ {p} : exit'[o] = exit[o]
    BY ZenonT(60) DEF Exit, Serial
<1>3. ASSUME NEW s \in Calls
      PROVE  /\ Good(run'[s], InVM(s)) /\ run'[s].pc = run[s].pc /\ run'[s].conn = run[s].conn
    BY <1>1, <1>3, OneCall, GoodExit, ZenonT(60)
<1>4. /\ \A u \in Calls : InVM(u)' = InVM(u)
      /\ \A o \in Procs : CallsOf(o)' = CallsOf(o) /\ CallsOf(o) \subseteq Calls
      /\ \A u \in Calls : u[1] \in Procs
      /\ run' = [u \in Calls |-> run'[u]]
    BY <1>1, Zenon DEF InVM, CallsOf, Calls
<1>5. Inv'
    BY <1>1, <1>3, <1>4, ZenonT(60) DEF Inv, Good
<1>6. Serial'
    <2>1. (\A o \in Procs : exit[o] # "none" => \A s \in CallsOf(o) : run[s].pc = "done")'
        <3>1. ASSUME NEW o \in Procs, exit'[o] # "none", NEW s \in CallsOf(o)
              PROVE  run'[s].pc = "done"
            <4>1. run[s].pc = "done"
                BY <1>1, <1>2, <3>1, Zenon DEF Serial
            <4>2. s \in Calls
                BY <1>4, <3>1, SMTT(60)
            <4> QED
                BY <1>3, <4>1, <4>2, SMTT(60)
        <3> QED
            BY <1>4, <3>1, SMTT(60)
    <2>2. (overlap = FALSE => \A s, t \in Calls : Running(s) /\ Running(t) => s = t)'
        BY <1>1, <1>3, ZenonT(60) DEF Serial, Running
    <2>3. (overlap = FALSE => \A s \in Calls : InVM(s) = FALSE => run[s].conn \in {NoCall, s})'
        BY <1>1, <1>3, <1>4, Zenon DEF Serial
    <2>4. (\A s \in Calls : s \notin CallsOf(s[1]) => run[s].pc = "idle")'
        BY <1>3, <1>4 DEF Serial
    <2>5. (\A o \in Procs : \A s, t \in CallsOf(o) :
             t[2] < s[2] /\ run[s].pc # "idle" => run[t].pc = "done")'
        BY <1>3, <1>4, SMTT(60) DEF Serial
    <2>6. overlap' \in BOOLEAN /\ exit' \in [Procs -> {"none", "ok", "fail"}]
        BY <1>1, <1>2, ZenonT(60) DEF Serial
    <2> QED
        BY <2>1, <2>2, <2>3, <2>4, <2>5, <2>6 DEF Serial
<1> QED
    BY <1>5, <1>6

\* The action that main takes, if the call has begun.
MainAction(s) ==
    \/ InitFails(s) \/ InitComponents(s) \/ BootFails(s) \/ CopyRootfs(s) \/ create(s)
    \/ configure(s) \/ start(s) \/ BootVM(s) \/ LeaveBootBlock(s) \/ StartListener(s)
    \/ ForkContestant(s) \/ JoinListener(s) \/ NotConnected(s) \/ BlastOrders(s)
    \/ StopSession(s) \/ Terminate(s) \/ Score(s)

\* Every one of them makes a record that is good at the next point of the program.
LEMMA MainMoves ==
    ASSUME Inv, NEW s \in Calls, MainAction(s)
    PROVE  \E q : /\ Moves(run[s], q, InVM(s)) /\ run[s].pc \notin {"idle", "done"}
                  /\ run' = [run EXCEPT ![s] = q] /\ UNCHANGED <<mode, overlap, exit>>
<1>1. Good(run[s], InVM(s)) /\ InVM(s) \in BOOLEAN
    BY OneCall
<1>2. CASE InitFails(s)
    <2> DEFINE q == Return(run[s])
    <2>1. run' = [run EXCEPT ![s] = q] /\ run[s].pc = "init"
        BY <1>2 DEF InitFails, Set
    <2>2. Moves(run[s], q, InVM(s))
        BY <1>1, <2>1, GoodEnd, Zenon
    <2>3. UNCHANGED <<mode, overlap, exit>>
        BY <1>2 DEF InitFails
    <2> QED
        BY <2>1, <2>2, <2>3, Zenon
<1>3. CASE InitComponents(s)
    <2> DEFINE q == [run[s] EXCEPT !.pc = IF InVM(s) THEN "copy" ELSE "listen"]
    <2>1. run' = [run EXCEPT ![s] = q] /\ run[s].pc = "init"
        BY <1>3 DEF InitComponents, To, Set
    <2>2. Moves(run[s], q, InVM(s))
        BY <1>1, <2>1, GoodTo
    <2>3. UNCHANGED <<mode, overlap, exit>>
        BY <1>3 DEF InitComponents
    <2> QED
        BY <2>1, <2>2, <2>3, Zenon
<1>4. CASE CopyRootfs(s)
    <2> DEFINE q == [run[s] EXCEPT !.pc = "create", !.rootfs = TRUE]
    <2>1. run' = [run EXCEPT ![s] = q] /\ run[s].pc = "copy"
        BY <1>4 DEF CopyRootfs, Set
    <2>2. Moves(run[s], q, InVM(s))
        BY <1>1, <2>1, GoodBoot, Zenon
    <2>3. UNCHANGED <<mode, overlap, exit>>
        BY <1>4 DEF CopyRootfs
    <2> QED
        BY <2>1, <2>2, <2>3, Zenon
<1>5. CASE create(s)
    <2> DEFINE q == [run[s] EXCEPT !.pc = "configure", !.child = "up", !.vm = "CREATED"]
    <2>1. run' = [run EXCEPT ![s] = q] /\ run[s].pc = "create"
        BY <1>5 DEF create, Set
    <2>2. Moves(run[s], q, InVM(s))
        BY <1>1, <2>1, GoodBoot, Zenon
    <2>3. UNCHANGED <<mode, overlap, exit>>
        BY <1>5 DEF create
    <2> QED
        BY <2>1, <2>2, <2>3, Zenon
<1>6. CASE configure(s)
    <2> DEFINE q == [run[s] EXCEPT !.pc = "start", !.vm = "CONFIGURED"]
    <2>1. run' = [run EXCEPT ![s] = q] /\ run[s].pc = "configure"
        BY <1>6 DEF configure, Set
    <2>2. Moves(run[s], q, InVM(s))
        BY <1>1, <2>1, GoodBoot, Zenon
    <2>3. UNCHANGED <<mode, overlap, exit>>
        BY <1>6 DEF configure
    <2> QED
        BY <2>1, <2>2, <2>3, Zenon
<1>7. CASE start(s)
    <2> DEFINE q == [run[s] EXCEPT !.pc = "boot", !.vm = "RUNNING"]
    <2>1. run' = [run EXCEPT ![s] = q] /\ run[s].pc = "start"
        BY <1>7 DEF start, Set
    <2>2. Moves(run[s], q, InVM(s))
        BY <1>1, <2>1, GoodBoot, Zenon
    <2>3. UNCHANGED <<mode, overlap, exit>>
        BY <1>7 DEF start
    <2> QED
        BY <2>1, <2>2, <2>3, Zenon
<1>8. CASE BootVM(s)
    <2> DEFINE q == [run[s] EXCEPT !.pc = "booting", !.pid = TRUE, !.acc = "born"]
    <2>1. run' = [run EXCEPT ![s] = q] /\ run[s].pc = "boot"
        BY <1>8 DEF BootVM, Set
    <2>2. Moves(run[s], q, InVM(s))
        BY <1>1, <2>1, GoodBoot, Zenon
    <2>3. UNCHANGED <<mode, overlap, exit>>
        BY <1>8 DEF BootVM
    <2> QED
        BY <2>1, <2>2, <2>3, Zenon
<1>9. CASE LeaveBootBlock(s)
    <2> DEFINE q == [destroy(run[s]) EXCEPT !.pc = "check"]
    <2>1. run' = [run EXCEPT ![s] = q] /\ run[s].pc = "booting"
        BY <1>9 DEF LeaveBootBlock, Set
    <2>2. Moves(run[s], q, InVM(s))
        BY <1>1, <2>1, GoodDestroy, Zenon
    <2>3. UNCHANGED <<mode, overlap, exit>>
        BY <1>9 DEF LeaveBootBlock
    <2> QED
        BY <2>1, <2>2, <2>3, Zenon
<1>10. CASE StartListener(s)
    <2> DEFINE q == [run[s] EXCEPT !.pc = "fork", !.acc = "born"]
    <2>1. run' = [run EXCEPT ![s] = q] /\ run[s].pc = "listen"
        BY <1>10 DEF StartListener, Set
    <2>2. Moves(run[s], q, InVM(s))
        BY <1>1, <2>1, GoodLaunch, Zenon
    <2>3. UNCHANGED <<mode, overlap, exit>>
        BY <1>10 DEF StartListener
    <2> QED
        BY <2>1, <2>2, <2>3, Zenon
<1>11. CASE JoinListener(s)
    <2> DEFINE q == [run[s] EXCEPT !.pc = "check"]
    <2>1. run' = [run EXCEPT ![s] = q] /\ run[s].pc = "join" /\ run[s].acc = "done"
        BY <1>11 DEF JoinListener, To, Set
    <2>2. Moves(run[s], q, InVM(s))
        BY <1>1, <2>1, GoodTo
    <2>3. UNCHANGED <<mode, overlap, exit>>
        BY <1>11 DEF JoinListener
    <2> QED
        BY <2>1, <2>2, <2>3, Zenon
<1>12. CASE NotConnected(s)
    <2> DEFINE q == Return(KillContestant(run[s]))
    <2>1. run' = [run EXCEPT ![s] = q] /\ run[s].pc = "check"
        BY <1>12 DEF NotConnected, Set
    <2>2. Moves(run[s], q, InVM(s))
        BY <1>1, <2>1, GoodEnd, Zenon
    <2>3. UNCHANGED <<mode, overlap, exit>>
        BY <1>12 DEF NotConnected
    <2> QED
        BY <2>1, <2>2, <2>3, Zenon
<1>13. CASE BlastOrders(s)
    <2> DEFINE q == [run[s] EXCEPT !.pc = "blast"]
    <2>1. run' = [run EXCEPT ![s] = q] /\ run[s].pc = "check"
        BY <1>13 DEF BlastOrders, To, Set
    <2>2. Moves(run[s], q, InVM(s))
        BY <1>1, <2>1, GoodTo
    <2>3. UNCHANGED <<mode, overlap, exit>>
        BY <1>13 DEF BlastOrders
    <2> QED
        BY <2>1, <2>2, <2>3, Zenon
<1>14. CASE StopSession(s)
    <2> DEFINE q == [Shut(run[s]) EXCEPT !.pc = "term"]
    <2>1. run' = [run EXCEPT ![s] = q] /\ run[s].pc = "blast"
        BY <1>14 DEF StopSession, Set
    <2>2. Moves(run[s], q, InVM(s))
        BY <1>1, <2>1, GoodEnd, Zenon
    <2>3. UNCHANGED <<mode, overlap, exit>>
        BY <1>14 DEF StopSession
    <2> QED
        BY <2>1, <2>2, <2>3, Zenon
<1>15. CASE Terminate(s)
    <2> DEFINE q == [KillContestant(run[s]) EXCEPT !.pc = "score"]
    <2>1. run' = [run EXCEPT ![s] = q] /\ run[s].pc = "term"
        BY <1>15 DEF Terminate, Set
    <2>2. Moves(run[s], q, InVM(s))
        BY <1>1, <2>1, GoodEnd, Zenon
    <2>3. UNCHANGED <<mode, overlap, exit>>
        BY <1>15 DEF Terminate
    <2> QED
        BY <2>1, <2>2, <2>3, Zenon
<1>16. CASE BootFails(s)
    <2>1. PICK born \in {"none", "up", "gone"} :
            run' = [run EXCEPT ![s] = Return([destroy(
                        IF born = "none" THEN run[s]
                        ELSE [run[s] EXCEPT !.child = born, !.vm = "FAILED"])
                    EXCEPT !.rootfs = FALSE])]
        BY <1>16, Zenon DEF BootFails, Set
    <2>2. run[s].pc \in {"copy", "create", "configure", "start"}
        BY <1>16 DEF BootFails
    <2>3. Moves(run[s], Return([destroy(
                        IF born = "none" THEN run[s]
                        ELSE [run[s] EXCEPT !.child = born, !.vm = "FAILED"])
                    EXCEPT !.rootfs = FALSE]), InVM(s))
        BY <1>1, <2>2, GoodDestroy, Zenon
    <2>4. UNCHANGED <<mode, overlap, exit>>
        BY <1>16 DEF BootFails
    <2> QED
        BY <2>1, <2>2, <2>3, <2>4, Zenon
<1>17. CASE ForkContestant(s)
    <2>1. run[s].pc = "fork" /\ UNCHANGED <<mode, overlap, exit>>
        BY <1>17 DEF ForkContestant
    <2>2. \/ run' = [run EXCEPT ![s] = [run[s] EXCEPT !.pc = "join", !.pid = TRUE,
                                                      !.child = "up"]]
          \/ run' = [run EXCEPT ![s] = [run[s] EXCEPT !.pc = "join", !.pid = FALSE,
                                                      !.child = "none"]]
        BY <1>17, Zenon DEF ForkContestant, Set
    <2>3. /\ Moves(run[s], [run[s] EXCEPT !.pc = "join", !.pid = TRUE, !.child = "up"], InVM(s))
          /\ Moves(run[s], [run[s] EXCEPT !.pc = "join", !.pid = FALSE, !.child = "none"],
                   InVM(s))
        BY <1>1, <2>1, GoodLaunch, Zenon
    <2> QED
        BY <2>1, <2>2, <2>3
<1>18. CASE Score(s)
    <2>1. run[s].pc = "score" /\ UNCHANGED <<mode, overlap, exit>>
        BY <1>18 DEF Score
    <2>2. PICK ok \in BOOLEAN : run' = [run EXCEPT ![s] = [Return(run[s]) EXCEPT !.ok = ok]]
        <3>1. PICK passed \in BOOLEAN :
                run' = [run EXCEPT ![s] = [Return(run[s]) EXCEPT
                            !.ok = IF Kind(s) = "systest" THEN passed ELSE @]]
            BY <1>18, Zenon DEF Score, Set
        <3>2. Return(run[s]).ok \in BOOLEAN
            BY OneCall DEF Return, Shut, Records
        <3> QED
            BY <3>1, <3>2, Zenon
    <2>3. Moves(run[s], [Return(run[s]) EXCEPT !.ok = ok], InVM(s))
        BY <1>1, <2>1, GoodEnd, Zenon
    <2> QED
        BY <2>1, <2>2, <2>3, Zenon
<1> QED
    BY <1>2, <1>3, <1>4, <1>5, <1>6, <1>7, <1>8, <1>9, <1>10, <1>11,
       <1>12, <1>13, <1>14, <1>15, <1>16, <1>17, <1>18, SMTT(60) DEF MainAction

\* A path names a listener of one of the calls, or nothing.
BoundType == bound \in [Kinds -> Calls \cup {NoCall}]

\* Only unlink and bind change it.
LEMMA BoundStep ==
    ASSUME BoundType, [Next]_vars
    PROVE  BoundType'
<1>1. \A s \in Calls : Unlinked(s) \in [Kinds -> Calls \cup {NoCall}]
    BY ZenonT(60) DEF BoundType, Unlinked
<1>2. ASSUME NEW s \in Calls, MainAction(s) PROVE BoundType'
    <2>1. bound' = bound \/ bound' = Unlinked(s)
        BY <1>2, Zenon DEF MainAction, InitFails, InitComponents, BootFails, CopyRootfs, create,
                    configure, start, BootVM, LeaveBootBlock, StartListener, ForkContestant,
                    JoinListener, NotConnected, BlastOrders, StopSession, Terminate, Score
    <2> QED
        BY <1>1, <2>1 DEF BoundType
<1>3. ASSUME NEW s \in Calls, Begin(s) \/ Connect(s) \/ ContestantExits(s) PROVE BoundType'
    BY <1>3, ZenonT(60) DEF BoundType, Begin, Connect, ContestantExits
<1>4. ASSUME NEW s \in Calls, AcceptThread(s) PROVE BoundType'
    BY <1>4, ZenonT(60) DEF BoundType, AcceptThread, Listen, ListenFails, Accept, AcceptTimeout
<1>5. ASSUME NEW p \in Procs, Exit(p) PROVE BoundType'
    BY <1>5, Zenon DEF BoundType, Exit
<1>6. ASSUME NEW s \in Calls, Main(s) PROVE Begin(s) \/ MainAction(s)
    BY <1>6 DEF Main, run_match, run_single_scenario, MainAction, ScenarioInit, ScenarioBoot,
                ScenarioLaunch, ScenarioFinish
<1>7. CASE UNCHANGED vars
    BY <1>7 DEF BoundType, vars
<1> QED
    BY <1>2, <1>3, <1>4, <1>5, <1>6, <1>7 DEF Next

\* The accept thread, other than for a connection, and the contestant.
LEMMA OtherMoves ==
    ASSUME Inv, BoundType, NEW s \in Calls,
           Listen(s) \/ ListenFails(s) \/ AcceptTimeout(s) \/ Connect(s) \/ ContestantExits(s)
    PROVE  \E q : /\ Moves(run[s], q, InVM(s)) /\ run[s].pc # "idle" /\ q.pc = run[s].pc
                  /\ run' = [run EXCEPT ![s] = q] /\ UNCHANGED <<mode, overlap, exit>>
<1>1. Good(run[s], InVM(s)) /\ InVM(s) \in BOOLEAN
    BY OneCall
<1>2. CASE Listen(s)
    <2> DEFINE q == [run[s] EXCEPT !.acc = "poll", !.listen = TRUE]
    <2>1. run[s].acc = "born" /\ run' = [run EXCEPT ![s] = q] /\ UNCHANGED <<mode, overlap, exit>>
        BY <1>2 DEF Listen, Set
    <2>2. Moves(run[s], q, InVM(s)) /\ q.pc = run[s].pc /\ run[s].pc # "idle"
        BY <1>1, <2>1, GoodThread, ZenonT(60)
    <2> QED
        BY <2>1, <2>2, Zenon
<1>3. CASE ListenFails(s) \/ AcceptTimeout(s)
    <2> DEFINE q == [run[s] EXCEPT !.acc = "done"]
    <2>1. /\ run[s].acc \in {"born", "poll"} /\ run' = [run EXCEPT ![s] = q]
          /\ UNCHANGED <<mode, overlap, exit>>
        BY <1>3, SMTT(60) DEF ListenFails, AcceptTimeout, Set
    <2>2. Moves(run[s], q, InVM(s)) /\ q.pc = run[s].pc /\ run[s].pc # "idle"
        BY <1>1, <2>1, GoodThread, ZenonT(60)
    <2> QED
        BY <2>1, <2>2, Zenon
<1>4. CASE Connect(s)
    <2> DEFINE t == bound[Kind(s)]
               q == [run[s] EXCEPT !.child = "queued", !.peer = t]
    <2>1. /\ run[s].child = "up" /\ run' = [run EXCEPT ![s] = q]
          /\ UNCHANGED <<mode, overlap, exit>>
        BY <1>4 DEF Connect, Set
    <2>2. t \in Calls \cup {NoCall}
        BY DEF Inv, BoundType, Kind, Calls
    <2> HIDE DEF t
    <2>3. Moves(run[s], q, InVM(s)) /\ q.pc = run[s].pc /\ run[s].pc # "idle"
        BY <1>1, <2>1, <2>2, GoodChild, ZenonT(60)
    <2> QED
        BY <2>1, <2>3, ZenonT(60)
<1>5. CASE ContestantExits(s)
    <2> DEFINE q == [run[s] EXCEPT !.child = "gone", !.peer = NoCall]
    <2>1. /\ run[s].child \in {"up", "queued", "joined"} /\ run' = [run EXCEPT ![s] = q]
          /\ UNCHANGED <<mode, overlap, exit>>
        BY <1>5 DEF ContestantExits, Alive, Set
    <2>2. Moves(run[s], q, InVM(s)) /\ q.pc = run[s].pc /\ run[s].pc # "idle"
        BY <1>1, <2>1, GoodChild, ZenonT(60)
    <2> QED
        BY <2>1, <2>2, Zenon
<1> QED
    BY <1>2, <1>3, <1>4, <1>5

-----------------------------------------------------------------------------
(* The theorems.                                                            *)

\* Every step of the program keeps the invariants.
LEMMA GoodStep ==
    ASSUME Inv, Serial, BoundType, [Next]_vars
    PROVE  Inv' /\ Serial'
<1>1. ASSUME NEW s \in Calls, MainAction(s) PROVE Inv' /\ Serial'
    <2>1. PICK q : /\ Moves(run[s], q, InVM(s)) /\ run[s].pc \notin {"idle", "done"}
                   /\ run' = [run EXCEPT ![s] = q] /\ UNCHANGED <<mode, overlap, exit>>
        BY <1>1, MainMoves
    <2> QED
        BY <2>1, MovesStep, Zenon
<1>2. ASSUME NEW s \in Calls,
             Listen(s) \/ ListenFails(s) \/ AcceptTimeout(s) \/ Connect(s) \/ ContestantExits(s)
      PROVE  Inv' /\ Serial'
    <2>1. PICK q : /\ Moves(run[s], q, InVM(s)) /\ run[s].pc # "idle" /\ q.pc = run[s].pc
                   /\ run' = [run EXCEPT ![s] = q] /\ UNCHANGED <<mode, overlap, exit>>
        BY <1>2, OtherMoves
    <2> QED
        BY <2>1, MovesStep, ZenonT(60)
<1>3. ASSUME NEW s \in Calls, Main(s) PROVE Begin(s) \/ MainAction(s)
    BY <1>3, SMTT(60) DEF Main, run_match, run_single_scenario, MainAction, ScenarioInit,
                ScenarioBoot, ScenarioLaunch, ScenarioFinish
<1>4. CASE UNCHANGED vars
    BY <1>4 DEF vars, Inv, Serial, Running, InVM, CallsOf
<1> QED
    BY <1>1, <1>2, <1>3, <1>4, BeginStep, AcceptStep, ExitStep DEF Next, AcceptThread

\* The invariants hold in every behaviour of the runner.
LEMMA AlwaysGood == Spec => [](Inv /\ Serial /\ BoundType)
<1>1. Init => Inv /\ Serial /\ BoundType
    <2>1. Init => BoundType
        BY DEF Init, BoundType
    <2> QED
        BY <2>1, InitGood
<1>2. (Inv /\ Serial /\ BoundType) /\ [Next]_vars => (Inv /\ Serial /\ BoundType)'
    BY GoodStep, BoundStep
<1> QED
    BY <1>1, <1>2, PTL DEF Spec

\* run_match and run_single_scenario leave no process, thread, socket or mounted copy behind,
\* on any path out, however many processes share the socket paths.
THEOREM LeavesNothing == Spec => []NothingLeftBehind
<1>1. Inv => NothingLeftBehind
    <2> SUFFICES ASSUME Inv, NEW s \in Calls, run[s].pc = "done"
                 PROVE  /\ run[s].child \in {"none", "reaped"}
                        /\ run[s].conn = NoCall \/ InVM(s)
                        /\ ~InVM(s) => run[s].acc \in {"none", "done"} /\ ~run[s].listen
                        /\ run[s].rootfs => run[s].vm = "STOPPED"
        BY DEF NothingLeftBehind
    <2>1. Good(run[s], InVM(s)) /\ InVM(s) \in BOOLEAN /\ run[s] \in Records
        BY OneCall, SMTT(60)
    <2> QED
        BY <2>1 DEF Good, GoodInVM, GoodDirect, Served
<1> QED
    BY <1>1, AlwaysGood, PTL

\* run_match without a VM signals contestant_pid only before waitpid has given the pid back.
THEOREM SignalsOwn == Spec => []SignalsOwnChild
<1>1. Inv => SignalsOwnChild
    <2> SUFFICES ASSUME Inv, NEW s \in Calls, ~InVM(s) PROVE ~run[s].late
        BY DEF SignalsOwnChild
    <2>1. Good(run[s], InVM(s)) /\ InVM(s) \in BOOLEAN
        BY OneCall
    <2> QED
        BY <2>1 DEF Good, GoodDirect
<1> QED
    BY <1>1, AlwaysGood, PTL

\* A direct run accepts its own contestant when processes run one after the other, for any
\* number of processes and of scenarios of a system test.
THEOREM AcceptsOwn == Spec => []OwnContestant
<1>1. Inv /\ Serial => OwnContestant
    <2> SUFFICES ASSUME Inv, Serial, overlap = FALSE, NEW s \in Calls, ~InVM(s)
                 PROVE  run[s].conn \in {NoCall, s}
        BY DEF OwnContestant, Serial
    <2>1. InVM(s) = FALSE
        BY OneCall
    <2> QED
        BY <2>1 DEF Serial
<1> QED
    BY <1>1, AlwaysGood, PTL
=============================================================================
