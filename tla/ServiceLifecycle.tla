-------------------------- MODULE ServiceLifecycle --------------------------
(***************************************************************************)
(* The processes of the daemon (Manager.Run) and what others see of them:  *)
(* the runtime state file, the control socket and the installed service    *)
(* definition, as Manager.Status reads them.                               *)
(*                                                                         *)
(* A daemon is the managed one, which systemd or launchd starts from the   *)
(* installed definition, or a foreground one.  Nothing in the code keeps   *)
(* the two from running together; MayOverlap says whether a run lets them. *)
(* A socket is known by the pid that created its inode.                    *)
(***************************************************************************)
EXTENDS Naturals

CONSTANTS MaxBoots,     \* bound: daemon processes started
          DaemonsOverlap, \* may both daemons run at once?
          NoState

ASSUME BootAssumption == MaxBoots \in Nat /\ DaemonsOverlap \in BOOLEAN

VARIABLES unit,         \* the binary of the installed definition, or "none"
          daemon,       \* the two daemon processes
          stateFile,    \* state.json: pid and schema range of the last daemon
          socket,       \* creator of the control socket's inode, 0 when absent
          boots

serviceVars == <<unit, daemon, stateFile, socket, boots>>

Kinds == {"managed", "foreground"}
Binaries == {"old", "new"}

PidAlive(pid) == \E k \in Kinds : daemon[k].pid = pid /\ daemon[k].at # "off"
StatePidAlive == stateFile # NoState /\ PidAlive(stateFile.pid)
SocketPresent == socket # 0
Running == StatePidAlive /\ SocketPresent
Installed == unit # "none"
ServiceStatus == [installed |-> Installed, running |-> Running, pid |-> StatePidAlive]

-----------------------------------------------------------------------------
ServiceInit ==
    /\ unit \in {"none", "old"}
    /\ daemon = [k \in Kinds |-> [at |-> "off", bin |-> "old", pid |-> 0]]
    /\ stateFile = NoState
    /\ socket = 0
    /\ boots = 0

SocketKept == socket
\* Run removes the socket of an earlier process before it publishes its pid.
SocketAtBoot == 0
Boot(k, b) ==
    /\ daemon[k].at = "off" /\ boots < MaxBoots
    /\ k = "managed" => Installed /\ b = unit
    /\ DaemonsOverlap \/ \A j \in Kinds : daemon[j].at = "off"
    /\ boots' = boots + 1
    /\ daemon' = [daemon EXCEPT ![k] = [at |-> "cleared", bin |-> b, pid |-> boots + 1]]
    /\ socket' = SocketAtBoot
    /\ UNCHANGED <<unit, stateFile>>
PublishState(k) ==
    /\ daemon[k].at = "cleared"
    /\ stateFile' = [pid |-> daemon[k].pid, bin |-> daemon[k].bin]
    /\ daemon' = [daemon EXCEPT ![k].at = "loading"]
    /\ UNCHANGED <<unit, socket, boots>>

\* After the registries are loaded: remove, listen, serve.
Listen(k) ==
    /\ daemon[k].at = "loading"
    /\ socket' = daemon[k].pid
    /\ daemon' = [daemon EXCEPT ![k].at = "serving"]
    /\ UNCHANGED <<unit, stateFile, boots>>

\* Run returns: the deferred removals take whatever socket there is, then the
\* process lives on until its workers have had their time.
Unserve(k) ==
    /\ daemon[k].at = "serving"
    /\ daemon' = [daemon EXCEPT ![k].at = "closing"]
    /\ socket' = 0
Close(k) ==
    /\ Unserve(k)
    /\ UNCHANGED <<unit, stateFile, boots>>

\* A registry that cannot be loaded, or a socket that cannot be opened.
BootFails(k) ==
    /\ daemon[k].at \in {"cleared", "loading"}
    /\ daemon' = [daemon EXCEPT ![k].at = "off"]
    /\ UNCHANGED <<unit, stateFile, socket, boots>>

Exit(k) ==
    /\ daemon[k].at = "closing"
    /\ daemon' = [daemon EXCEPT ![k].at = "off"]
    /\ UNCHANGED <<unit, stateFile, socket, boots>>

DaemonCrash(k) ==
    /\ daemon[k].at # "off"
    /\ daemon' = [daemon EXCEPT ![k].at = "off"]
    /\ UNCHANGED <<unit, stateFile, socket, boots>>

\* systemctl stop, launchctl bootout
Unload ==
    IF daemon["managed"].at = "serving" THEN Unserve("managed")
    ELSE /\ daemon' = [daemon EXCEPT !["managed"].at = IF @ = "closing" THEN @ ELSE "off"]
         /\ UNCHANGED socket
Stop == /\ Installed /\ daemon["managed"].at # "closing"
        /\ Unload
        /\ UNCHANGED <<unit, stateFile, boots>>

Install(b) == unit' = b /\ UNCHANGED <<daemon, stateFile, socket, boots>>
Uninstall == unit' = "none" /\ UNCHANGED <<daemon, stateFile, socket, boots>>

ServiceNext ==
    \/ Uninstall \/ Stop
    \/ \E b \in Binaries : Install(b)
    \/ \E k \in Kinds :
         \/ \E b \in Binaries : Boot(k, b)
         \/ PublishState(k) \/ Listen(k) \/ BootFails(k)
         \/ Close(k) \/ Exit(k) \/ DaemonCrash(k)

-----------------------------------------------------------------------------
\* Types of the definition, the processes, the state file and the socket.
ServiceTypeOK ==
    /\ unit \in Binaries \union {"none"}
    /\ daemon \in [Kinds -> [at: {"off", "cleared", "loading", "serving", "closing"},
                             bin: Binaries, pid: 0..MaxBoots]]
    /\ stateFile \in [pid: 1..MaxBoots, bin: Binaries] \union {NoState}
    /\ socket \in 0..MaxBoots
    /\ boots \in 0..MaxBoots

\* "A new live PID plus an old socket inode must never look ready": when Status
\* says running, the daemon of the state file is listening on the socket.
ReadyIsListening ==
    Running => \E k \in Kinds : /\ daemon[k].at = "serving"
                                /\ daemon[k].pid = stateFile.pid /\ socket = daemon[k].pid
=============================================================================
