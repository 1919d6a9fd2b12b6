----------------------------- MODULE Competition -----------------------------
(***************************************************************************)
(* The schedule of web/backend/main.py: the administrator starts, stops and *)
(* extends the competition, every status request and every submission may   *)
(* close it, and submissions are admitted by state, end time and cooldown.  *)
(*                                                                          *)
(* State and end time are separate Redis keys; each step is one Redis call  *)
(* with the code up to the next await.  Queue and upload are in JudgeQueue. *)
(***************************************************************************)
EXTENDS Integers, FiniteSets

CONSTANTS Teams, Requests, Viewers,
          Second,        \* ticks of the clock in a second
          Cooldown,      \* SUBMISSION_COOLDOWN_SECS, in ticks
          Durations, Extensions,   \* minutes the administrator uses, in ticks
          MaxTime,       \* bound: the clock stops here
          MaxEnd,        \* bound: latest end time
          MaxCommands,   \* bound: commands of the administrator
          MaxRestarts    \* bound: crashes of the process

ASSUME CompetitionAssumption ==
    /\ Second \in Nat \ {0} /\ Cooldown \in Nat /\ Durations \cup Extensions \subseteq Nat \ {0}
    /\ MaxTime \in Nat /\ MaxEnd \in Nat /\ MaxEnd < MaxTime

VARIABLES
    state, end,             \* COMP_KEY_STATE and COMP_KEY_END_TIME
    now,                    \* the clock
    last,                   \* _last_submission, in memory
    rpc, rteam, rnow,       \* a submission: place, team, now_ts
    vpc, vstate, vend,      \* a status request: place, state and end it read
    apc, aend,              \* the administrator's command: place, end it computed
    commands, restarts,     \* bounded steps taken
    until,                  \* history: the end promised by the last completed command
    first,                  \* history: the earliest end time ever set
    cut,                    \* history: a command was cut off by a crash
    latest, raced           \* history: newest now_ts recorded; teams with two at once

keys == <<state, end>>
submitVars == <<last, rpc, rteam, rnow, latest, raced>>
statusVars == <<vpc, vstate, vend>>
adminVars == <<apc, aend, commands, until, first>>
vars == <<keys, now, submitVars, statusVars, adminVars, restarts, cut>>

Nil == -1
Never == 0 - Cooldown       \* 0 in the code: the epoch is more than a cooldown ago
Earlier(a, b) == IF a < b THEN a ELSE b
Later(a, b) == IF a < b THEN b ELSE a

Init ==
    /\ state = "none" /\ end = Nil /\ now = 0
    /\ last = [t \in Teams |-> Never] /\ latest = last /\ raced = {}
    /\ rpc = [r \in Requests |-> "idle"] /\ rnow = [r \in Requests |-> 0]
    /\ rteam \in [Requests -> Teams]
    /\ vpc = [v \in Viewers |-> "idle"] /\ vstate = [v \in Viewers |-> "none"]
    /\ vend = [v \in Viewers |-> Nil]
    /\ apc = "idle" /\ aend = Nil /\ commands = 0 /\ restarts = 0
    /\ until = Nil /\ first = MaxTime + Second /\ cut = FALSE

Tick ==
    /\ now < MaxTime /\ now' = now + 1
    /\ UNCHANGED <<keys, submitVars, statusVars, adminVars, restarts, cut>>

-----------------------------------------------------------------------------
(* submit_code: the competition guard and the cooldown.                     *)

\* The state is read: only running, or none at all, is let through.
SubmitState(r, t) ==
    /\ rpc[r] = "idle" /\ state \in {"none", "running"}
    /\ rpc' = [rpc EXCEPT ![r] = "end"] /\ rteam' = [rteam EXCEPT ![r] = t]
    /\ UNCHANGED <<keys, now, last, rnow, latest, raced, statusVars, adminVars,
                   restarts, cut>>

\* The end is read.  Past it the state is to be closed; within the cooldown the request is
\* refused; otherwise the upload begins, and now_ts is kept until it has ended.
SubmitEnd(r) ==
    /\ rpc[r] = "end"
    /\ LET late == end # Nil /\ now > end
           soon == now - last[rteam[r]] < Cooldown
       IN /\ rpc' = [rpc EXCEPT ![r] = IF late THEN "close" ELSE IF soon THEN "idle"
                                       ELSE "upload"]
          /\ rnow' = IF late \/ soon THEN rnow ELSE [rnow EXCEPT ![r] = now]
          /\ raced' = IF ~late /\ ~soon /\ \E q \in Requests :
                             rpc[q] = "upload" /\ rteam[q] = rteam[r]
                        THEN raced \cup {rteam[r]} ELSE raced
    /\ UNCHANGED <<keys, now, last, rteam, latest, statusVars, adminVars, restarts, cut>>

SubmitClose(r) ==
    /\ rpc[r] = "close"
    /\ state' = "finished" /\ rpc' = [rpc EXCEPT ![r] = "idle"]
    /\ UNCHANGED <<end, now, last, rteam, rnow, latest, raced, statusVars, adminVars,
                   restarts, cut>>

\* The queue was full, the name was refused or the upload failed.
SubmitAborted(r) ==
    /\ rpc[r] = "upload" /\ rpc' = [rpc EXCEPT ![r] = "idle"]
    /\ rnow' = [rnow EXCEPT ![r] = 0]
    /\ UNCHANGED <<keys, now, last, rteam, latest, raced, statusVars, adminVars,
                   restarts, cut>>

\* Mutant: an accepted submission is not noted.
SubmitUnnoted(r) ==
    /\ rpc[r] = "upload" /\ rpc' = [rpc EXCEPT ![r] = "idle"]
    /\ rnow' = [rnow EXCEPT ![r] = 0]
    /\ latest' = [latest EXCEPT ![rteam[r]] = Later(@, rnow[r])]
    /\ UNCHANGED <<keys, now, last, rteam, raced, statusVars, adminVars, restarts,
                   cut>>

\* The upload is complete: the time of its check is noted, and the job is accepted.
SubmitAccept(r) ==
    /\ rpc[r] = "upload" /\ rpc' = [rpc EXCEPT ![r] = "idle"]
    /\ rnow' = [rnow EXCEPT ![r] = 0]
    /\ last' = [last EXCEPT ![rteam[r]] = rnow[r]]
    /\ latest' = [latest EXCEPT ![rteam[r]] = Later(@, rnow[r])]
    /\ UNCHANGED <<keys, now, rteam, raced, statusVars, adminVars, restarts, cut>>

-----------------------------------------------------------------------------
(* competition_status.                                                      *)

StatusState(v) ==
    /\ vpc[v] = "idle"
    /\ vpc' = [vpc EXCEPT ![v] = "end"] /\ vstate' = [vstate EXCEPT ![v] = state]
    /\ UNCHANGED <<keys, now, submitVars, vend, adminVars, restarts, cut>>

StatusEnd(v) ==
    /\ vpc[v] = "end"
    /\ vpc' = [vpc EXCEPT ![v] = "decide"] /\ vend' = [vend EXCEPT ![v] = end]
    /\ UNCHANGED <<keys, now, submitVars, vstate, adminVars, restarts, cut>>

\* Mutant: the remaining time is not looked at.
StatusDecideAlways(v) ==
    /\ vpc[v] = "decide"
    /\ vpc' = [vpc EXCEPT ![v] = IF vend[v] # Nil /\ vstate[v] = "running" THEN "close"
                                 ELSE "idle"]
    /\ vstate' = [vstate EXCEPT ![v] = "none"] /\ vend' = [vend EXCEPT ![v] = Nil]
    /\ UNCHANGED <<keys, now, submitVars, adminVars, restarts, cut>>

\* Mutant: waits for remaining seconds below zero, which there never are.
StatusDecideNegative(v) ==
    /\ vpc[v] = "decide"
    /\ LET remaining == IF vend[v] > now THEN (vend[v] - now) \div Second ELSE 0
       IN vpc' = [vpc EXCEPT ![v] = IF vend[v] # Nil /\ remaining < 0 /\ vstate[v] = "running"
                                      THEN "close" ELSE "idle"]
    /\ vstate' = [vstate EXCEPT ![v] = "none"] /\ vend' = [vend EXCEPT ![v] = Nil]
    /\ UNCHANGED <<keys, now, submitVars, adminVars, restarts, cut>>

\* After two more reads the remaining whole seconds decide, with the state read first.
StatusDecide(v) ==
    /\ vpc[v] = "decide"
    /\ LET remaining == IF vend[v] > now THEN (vend[v] - now) \div Second ELSE 0
       IN vpc' = [vpc EXCEPT ![v] = IF vend[v] # Nil /\ remaining = 0 /\ vstate[v] = "running"
                                      THEN "close" ELSE "idle"]
    /\ vstate' = [vstate EXCEPT ![v] = "none"] /\ vend' = [vend EXCEPT ![v] = Nil]
    /\ UNCHANGED <<keys, now, submitVars, adminVars, restarts, cut>>

StatusClose(v) ==
    /\ vpc[v] = "close"
    /\ state' = "finished" /\ vpc' = [vpc EXCEPT ![v] = "idle"]
    /\ UNCHANGED <<end, now, submitVars, vstate, vend, adminVars, restarts, cut>>

-----------------------------------------------------------------------------
(* The administrator's commands, one at a time.                             *)

Command == apc = "idle" /\ commands < MaxCommands /\ commands' = commands + 1

\* admin_start_competition: the end is computed, then the state and the end are set.
AdminStart(d) ==
    /\ Command /\ now + d <= MaxEnd
    /\ apc' = "start_state" /\ aend' = now + d /\ until' = Nil
    /\ UNCHANGED <<keys, now, submitVars, statusVars, first, restarts, cut>>

StartState ==
    /\ apc = "start_state"
    /\ state' = "running" /\ apc' = "start_end"
    /\ UNCHANGED <<end, now, submitVars, statusVars, aend, commands, until, first,
                   restarts, cut>>

StartEnd ==
    /\ apc = "start_end"
    /\ end' = aend /\ first' = Earlier(first, aend) /\ until' = aend /\ apc' = "idle"
    /\ aend' = Nil
    /\ UNCHANGED <<state, now, submitVars, statusVars, commands, restarts, cut>>

admin_stop_competition ==
    /\ Command /\ state' = "stopped" /\ until' = Nil
    /\ UNCHANGED <<end, now, submitVars, statusVars, apc, aend, first, restarts, cut>>

\* admin_extend_competition: the end is read (without one the command is refused), moved,
\* set, and the state is set to running whatever it was.
AdminExtend(d) ==
    /\ Command /\ end # Nil /\ end + d <= MaxEnd
    /\ apc' = "extend_end" /\ aend' = end + d /\ until' = Nil
    /\ UNCHANGED <<keys, now, submitVars, statusVars, first, restarts, cut>>

ExtendEnd ==
    /\ apc = "extend_end"
    /\ end' = aend /\ first' = Earlier(first, aend) /\ apc' = "extend_state"
    /\ UNCHANGED <<state, now, submitVars, statusVars, aend, commands, until, restarts, cut>>

ExtendState ==
    /\ apc = "extend_state"
    /\ state' = "running" /\ until' = aend /\ apc' = "idle" /\ aend' = Nil
    /\ UNCHANGED <<end, now, submitVars, statusVars, commands, first, restarts, cut>>

-----------------------------------------------------------------------------
\* The process dies and is started again: Redis keeps the keys, the requests and
\* _last_submission are gone, and so is a command in progress.
Restart ==
    /\ restarts < MaxRestarts /\ restarts' = restarts + 1
    /\ last' = [t \in Teams |-> Never] /\ latest' = last' /\ raced' = {}
    /\ rpc' = [r \in Requests |-> "idle"] /\ vpc' = [v \in Viewers |-> "idle"]
    /\ rnow' = [r \in Requests |-> 0] /\ vstate' = [v \in Viewers |-> "none"]
    /\ vend' = [v \in Viewers |-> Nil]
    /\ apc' = "idle" /\ aend' = Nil /\ cut' = (cut \/ apc # "idle")
    /\ UNCHANGED <<keys, now, rteam, commands, until, first>>

-----------------------------------------------------------------------------
submit_code(r) == \/ \E t \in Teams : SubmitState(r, t)
                  \/ SubmitEnd(r) \/ SubmitClose(r) \/ SubmitAborted(r) \/ SubmitAccept(r)

competition_status(v) == StatusState(v) \/ StatusEnd(v) \/ StatusDecide(v) \/ StatusClose(v)

Commanding == StartState \/ StartEnd \/ ExtendEnd \/ ExtendState

Next == \/ Tick \/ Restart \/ Commanding \/ admin_stop_competition
        \/ \E d \in Durations : AdminStart(d)
        \/ \E d \in Extensions : AdminExtend(d)
        \/ \E r \in Requests : submit_code(r)
        \/ \E v \in Viewers : competition_status(v)

Spec == Init /\ [][Next]_vars

\* Time passes, a command that began goes on, and every open dashboard asks for the status
\* every 5 seconds (web/frontend dashboard/+layout.svelte).
FairSpec == /\ Spec /\ WF_vars(Tick) /\ WF_vars(Commanding)
            /\ \A v \in Viewers : WF_vars(competition_status(v))

-----------------------------------------------------------------------------
(* Properties.                                                              *)

Times == Never .. MaxTime

\* The cooldown of submit_code: an upload in progress was admitted a full cooldown after
\* every submission of its team that this process accepted, unless two uploads of the team
\* were under way at once, since the time is noted only after the upload.
CooldownUnlessRaced ==
    \A r \in Requests :
      rpc[r] = "upload" /\ rteam[r] \notin raced => rnow[r] - latest[rteam[r]] >= Cooldown

\* Nobody closes the competition before the first end the administrator set, up to the
\* part of a second that int(remaining) cuts off: neither reader of the two keys, however
\* late it writes.
NotClosedEarly == [][state' = "finished" /\ state # "finished"
                       => now > first - Second]_vars

\* A competition that runs is closed by somebody, unless a crash of the process between
\* the two writes of admin_start_competition left it without an end.
EventuallyCloses == state = "running" ~> (state # "running" \/ (cut /\ end = Nil))

\* "Start competition with a duration in minutes." and "Extend competition end time by N
\* minutes.": after the command and until a second before its end the competition runs,
\* when the administrator does nothing else.  A reader that took the old end for the new
\* state writes "finished" over it.
ScheduleHonoured == until # Nil /\ now <= until - Second => state = "running"
=============================================================================
