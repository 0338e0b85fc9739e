---------------------------- MODULE ShellLaunch ----------------------------
(* Launching applications (aes_shel.c, appl_init() in aes.c): shel_write()    *)
(* reserves an application id and a launch record, spawns the process with    *)
(* that id in its environment, appl_init() gives the id to whoever claims it, *)
(* shel_read() returns the command of the record it finds, and the record     *)
(* lives until the child is reaped.  The command is in the child's            *)
(* environment too, and a child of the child inherits both.                   *)
(*                                                                            *)
(* A process has one connection, and its pid is not used again before its     *)
(* socket has been closed and, if it was launched, its record reaped.         *)
EXTENDS Naturals, FiniteSets, FiniteSetsExt

CONSTANTS Processes,      \* process ids
          Commands,       \* command lines, with their tails
          LastId,         \* the largest application id (32767)
          NumLaunches,    \* launch records (AES_SHEL_LAUNCH_MAX)
          MaxApps,        \* application slots (AES_MAX_APPS), fewer than ids
          Overtaking,     \* TRUE if an application started elsewhere may call
                          \* appl_init() before one that was launched has
          Nothing         \* no process, no command

VARIABLES launches,       \* shell_state.launches
          nextId,         \* aes_state.next_app_id
          appId,          \* the application id of each process, or 0
          process         \* what the platform knows of each process

launchVars == <<launches, nextId, appId, process>>

ASSUME LaunchAssumption ==
    /\ LastId \in Nat \ {0} /\ NumLaunches \in Nat
    /\ Nothing \notin Processes /\ Nothing \notin Commands

Ids     == 1..LastId
Records == 1..NumLaunches
NoLaunch == [id |-> 0, pid |-> Nothing, cmd |-> Nothing]

\* env and told: GEM_APP_ID and GEM_SHEL_CMD (with its tail) in the environment
\* of a process, 0 and Nothing when they are not there. cmd: its command line.
ProcessInfo == [state : {"unused", "running", "exited"}, env : 0..LastId,
                told : Commands \union {Nothing}, cmd : Commands \union {Nothing}]
Unused == [state |-> "unused", env |-> 0, told |-> Nothing, cmd |-> Nothing]

LaunchTypeOK ==
    /\ launches \in [Records -> [id  : 0..LastId,
                                 pid : Processes \union {Nothing},
                                 cmd : Commands \union {Nothing}]]
    /\ nextId \in Ids
    /\ appId \in [Processes -> 0..LastId]
    /\ process \in [Processes -> ProcessInfo]

LaunchInit ==
    /\ launches = [r \in Records |-> NoLaunch]
    /\ nextId = 1
    /\ appId = [p \in Processes |-> 0]
    /\ process = [p \in Processes |-> Unused]

Live        == {p \in Processes : appId[p] # 0}
LiveIds     == {appId[p] : p \in Live}
Running(p)  == process[p].state = "running"
Launched(p) == \E r \in Records : launches[r].pid = p

-----------------------------------------------------------------------------
(* Ids                                                                        *)

Next1(id) == IF id = LastId THEN 1 ELSE id + 1

\* The ids are tried in a circle: the one that is `steps` after `start`.
Tried(start, steps) == ((start - 1 + steps) % LastId) + 1

\* The first id from `start` on that is not taken; 0 when all are.
FirstOutside(start, taken) ==
    LET fits == {n \in 0..(LastId - 1) : Tried(start, n) \notin taken}
    IN  IF fits = {} THEN 0 ELSE Tried(start, Min(fits))

Reserved(table) == {table[r].id : r \in Records} \ {0}

ReserveUnclaimed(table)  == FirstOutside(nextId, LiveIds)            \* mutant
ReserveId(table)         == FirstOutside(nextId, LiveIds \union Reserved(table))

\* aes_shel_claim_app_id(): the record of the id in the caller's environment,
\* unless it is another process's; without one, the record of its pid.
Claimable(p) ==
    {r \in Records :
        IF process[p].env # 0
        THEN launches[r].id = process[p].env /\ launches[r].pid \in {Nothing, p}
        ELSE launches[r].pid = p}

-----------------------------------------------------------------------------
(* Requests                                                                   *)

\* aes_shel_reap_children(): the records of children that have exited.
Reaped ==
    [r \in Records |->
        IF launches[r].pid # Nothing /\ process[launches[r].pid].state = "exited"
        THEN NoLaunch ELSE launches[r]]

Buried == [p \in Processes |->
              IF process[p].state = "exited" /\ Launched(p)
              THEN Unused ELSE process[p]]

\* shel_write() refused for want of a record or an id: the id that was found
\* is spent all the same.
LaunchRefused ==
    LET id == ReserveId(Reaped)
    IN  /\ id = 0 \/ \A r \in Records : Reaped[r].id # 0
        /\ nextId' = IF id = 0 THEN nextId ELSE Next1(id)
        /\ launches' = Reaped
        /\ process' = Buried
        /\ UNCHANGED appId

\* shel_write(): reap, reserve, record, spawn. The spawn returns when the child
\* has executed the command or has failed to (`spawned`), and then the record
\* is cleared. Nobody is served in between.
ShelWrite(p, cmd, spawned) ==
    LET id  == ReserveId(Reaped)
        own == Min({r \in Records : Reaped[r].id = 0})
    IN  /\ id # 0
        /\ \E r \in Records : Reaped[r].id = 0
        /\ Buried[p].state = "unused" /\ appId[p] = 0
        /\ nextId' = Next1(id)
        /\ launches' = [Reaped EXCEPT ![own] =
                IF spawned THEN [id |-> id, pid |-> p, cmd |-> cmd] ELSE NoLaunch]
        /\ process' = [Buried EXCEPT ![p] =
                IF spawned
                THEN [state |-> "running", env |-> id, told |-> cmd, cmd |-> cmd]
                ELSE Unused]
        /\ UNCHANGED appId

\* appl_init(): the claimed id or the next one, or the first after it that is
\* not in use.
ApplInit(p) ==
    /\ Running(p) /\ appId[p] = 0
    /\ Cardinality(Live) < MaxApps
    /\ Overtaking \/ Launched(p) \/ \A q \in Processes : Launched(q) => appId[q] # 0
    /\ LET wanted == IF Claimable(p) = {} THEN nextId
                     ELSE launches[Min(Claimable(p))].id
           id     == FirstOutside(wanted, LiveIds)
       IN  /\ appId' = [appId EXCEPT ![p] = id]
           /\ nextId' = Next1(id)
    /\ launches' = [r \in Records |->
                       IF r \in Claimable(p) /\ r = Min(Claimable(p))
                       THEN [launches[r] EXCEPT !.pid = p] ELSE launches[r]]
    /\ UNCHANGED process

\* What gem_os_process_launch() finds: the command in the environment of p, or
\* else its own command line.
ProcessLaunch(p) ==
    IF process[p].told # Nothing THEN process[p].told ELSE process[p].cmd

\* What shel_read() tells p, which changes nothing: the command of the first
\* record with its application id or its pid; without one, what the platform
\* finds.
ShelRead(p) ==
    LET found == {r \in Records :
                    \/ appId[p] # 0 /\ launches[r].id = appId[p]
                    \/ launches[r].pid = p}
    IN  IF found = {} THEN ProcessLaunch(p) ELSE launches[Min(found)].cmd

\* appl_exit(), or the clean-up of a closed connection.
ApplExit(p) ==
    /\ appId[p] # 0
    /\ appId' = [appId EXCEPT ![p] = 0]
    /\ UNCHANGED <<launches, nextId, process>>

\* main() reaps between two rounds.
ReapChildren ==
    /\ Reaped # launches
    /\ launches' = Reaped
    /\ process' = Buried
    /\ UNCHANGED <<nextId, appId>>

-----------------------------------------------------------------------------
(* The processes                                                              *)

\* Somebody else starts an application: from a shell, or as a child of one
\* that was launched, whose environment it inherits.
StartElsewhere(p, cmd) ==
    /\ process[p].state = "unused" /\ appId[p] = 0 /\ ~Launched(p)
    /\ \E heir \in {Unused} \union {process[q] : q \in {q \in Processes : Running(q)}} :
          process' = [process EXCEPT ![p] =
             [state |-> "running", env |-> heir.env, told |-> heir.told, cmd |-> cmd]]
    /\ UNCHANGED <<launches, nextId, appId>>

\* A process ends; gemd's own children wait to be reaped.
ProcessExits(p) ==
    /\ Running(p)
    /\ process' = [process EXCEPT
                     ![p] = IF Launched(p) THEN [Unused EXCEPT !.state = "exited"]
                            ELSE Unused]
    /\ UNCHANGED <<launches, nextId, appId>>

LaunchNext ==
    \/ LaunchRefused
    \/ ReapChildren
    \/ \E p \in Processes :
          \/ \E cmd \in Commands, spawned \in BOOLEAN : ShelWrite(p, cmd, spawned)
          \/ ApplInit(p)
          \/ ApplExit(p)
          \/ \E cmd \in Commands : StartElsewhere(p, cmd)
          \/ ProcessExits(p)

LaunchSpec == LaunchInit /\ [][LaunchNext]_launchVars

-----------------------------------------------------------------------------
(* Properties                                                                 *)

\* Several applications launched at once each read their own command and tail
\* from shel_read() and run under the id that was reserved for them, in
\* whatever order they connect, leave and are reaped; and one that nobody
\* launched is told no record's command, but what is in its environment, that
\* of the launched application it descends from, or its own command line. (It
\* fails with Overtaking: appl_init() of an application that was not launched
\* may take an id that is reserved for one still starting.)
OwnCommand ==
    \A p \in {q \in Processes : Running(q)} :
       IF Launched(p)
       THEN ShelRead(p) = process[p].cmd /\ appId[p] \in {0, process[p].env}
       ELSE ShelRead(p) = ProcessLaunch(p)
=============================================================================
