---------------------------- MODULE PortForwarding ----------------------------
(* The Auto Port Forwarding service: one supervisor thread per server, each  *)
(* keeping one ssh -R process alive, over one in-memory record of the        *)
(* accepted ports and one state file, both guarded by one lock.  The ssh     *)
(* processes and the servers are the environment.                            *)
(*                                                                           *)
(* The candidate chain is the same fixed order in every walk, so a candidate *)
(* is its place in the chain: 1 .. Ports.                                    *)
EXTENDS Naturals, FiniteSets

CONSTANTS
    Servers,     \* the servers of the vault group, this machine's own excluded
    Ports,       \* how many ports the range offers
    PipeRoom,    \* what the pipe of ssh's -v output holds
    MaxChatter,  \* bound: how much one connection writes after its walk
    MaxFails,    \* the failures after which the pause is at its ceiling
    FaultKinds,  \* the faults a behaviour may contain
    MaxFaults    \* bound: how many faults one behaviour contains

ASSUME PortsAssumption == Ports \in Nat \ {0}
ASSUME PipeAssumption == PipeRoom \in Nat /\ MaxChatter \in Nat
ASSUME FailsAssumption == MaxFails \in Nat \ {0}
ASSUME FaultsAssumption == MaxFaults \in Nat

VARIABLES
    thr,      \* the supervisor thread of each server
    ssh,      \* the ssh process of each thread
    taken,    \* ports of each server that other machines hold
    dead,     \* ports of each server that a dead session of this machine holds
    state,    \* the dict in memory: the recorded port of each server, 0 for none
    lock,     \* the thread that holds the lock
    temp,     \* the temporary file beside the state file
    file,     \* the state file
    missed,   \* history: the last save failed
    granted,  \* history: the ports each server ever granted to this machine
    faults    \* how many faults have happened

envVars == <<taken, dead, granted>>
pfVars  == <<thr, ssh, state, lock, temp, file, missed, faults, envVars>>

Port   == 1 .. Ports
Record == [Servers -> 0 .. Ports]
Empty  == [s \in Servers |-> 0]

ThreadState == [pc    : {"walk", "asking", "got", "dump", "replace", "clean",
                         "up", "pause"},
                cand  : 1 .. Ports + 1,
                fails : 0 .. MaxFails]

\* conn is what the process does, line what it has printed about the forward.
SshState == [conn : {"none", "asking", "open", "lost", "exited"},
             line : {"none", "success", "refused"},
             chat : 0 .. MaxChatter]

NoSsh  == [conn |-> "none", line |-> "none", chat |-> 0]
NewSsh == [conn |-> "asking", line |-> "none", chat |-> 0]

\* Type invariant of the service.
TypeOK ==
    /\ thr \in [Servers -> ThreadState]
    /\ ssh \in [Servers -> SshState]
    /\ taken \in [Servers -> SUBSET Port]
    /\ dead \in [Servers -> SUBSET Port]
    /\ state \in Record
    /\ lock \in SUBSET Servers
    /\ temp \in SUBSET Record
    /\ file \in Record
    /\ missed \in BOOLEAN
    /\ granted \in [Servers -> SUBSET Port]
    /\ faults \in 0 .. MaxFaults

Walking == [pc |-> "walk", cand |-> 1, fails |-> 0]

Init ==
    /\ thr = [s \in Servers |-> Walking]
    /\ ssh = [s \in Servers |-> NoSsh]
    /\ taken = [s \in Servers |-> {}]
    /\ dead = [s \in Servers |-> {}]
    /\ state = Empty /\ file = Empty
    /\ lock = {} /\ temp = {}
    /\ missed = FALSE
    /\ granted = [s \in Servers |-> {}]
    /\ faults = 0

Fault(kind) ==
    /\ kind \in FaultKinds
    /\ faults < MaxFaults
    /\ faults' = faults + 1

\* What every step of a thread that is not about the record leaves alone.
recordVars == <<state, lock, temp, file, missed>>

-----------------------------------------------------------------------------
(* The thread: run_forward_loop, _open_tunnel and start_forward.             *)

At(s, pc) == thr[s].pc = pc

Goto(s, pc) == thr' = [thr EXCEPT ![s].pc = pc]

\* backoff_delay: the pause grows with each failed cycle up to its ceiling.
Longer(fails) == IF fails < MaxFails THEN fails + 1 ELSE fails

Pause(s, fails) == thr' = [thr EXCEPT ![s].pc = "pause", ![s].fails = Longer(fails)]

\* The next candidate is asked for by a new ssh process.
Ask(s) ==
    /\ At(s, "walk") /\ thr[s].cand \in Port
    /\ ssh' = [ssh EXCEPT ![s] = NewSsh]
    /\ Goto(s, "asking")
    /\ UNCHANGED <<recordVars, envVars, faults>>

\* The ssh process cannot be started: the exception ends the walk.
SpawnFails(s) ==
    /\ Fault("spawn")
    /\ At(s, "walk") /\ thr[s].cand \in Port
    /\ Pause(s, thr[s].fails)
    /\ UNCHANGED <<ssh, recordVars, envVars>>

\* Every port of the range is taken: no tunnel for this attempt.
WalkEnds(s) ==
    /\ At(s, "walk") /\ thr[s].cand \notin Port
    /\ Pause(s, thr[s].fails)
    /\ UNCHANGED <<ssh, recordVars, envVars, faults>>

\* The success line is read, whatever has become of the process since.
AskGranted(s) ==
    /\ At(s, "asking") /\ ssh[s].line = "success"
    /\ Goto(s, "got")
    /\ UNCHANGED <<ssh, recordVars, envVars, faults>>

\* The refusal is read: the base pause, then the next candidate.
AskRefused(s) ==
    /\ At(s, "asking") /\ ssh[s].line = "refused"
    /\ thr' = [thr EXCEPT ![s].pc = "walk", ![s].cand = @ + 1]
    /\ UNCHANGED <<ssh, recordVars, envVars, faults>>

\* The process ended without either line, or with one that came at the
\* deadline, after the last read: no candidate can be reached.
AskFails(s) ==
    /\ At(s, "asking") /\ ssh[s].conn = "exited"
    /\ \/ ssh[s].line = "none" /\ UNCHANGED faults
       \/ ssh[s].line # "none" /\ Fault("slow")
    /\ Pause(s, thr[s].fails)
    /\ UNCHANGED <<ssh, recordVars, envVars>>

\* The deadline passes with the process alive and neither line printed:
\* start_forward returns it with no error.
AskTimesOut(s) ==
    /\ Fault("slow")
    /\ At(s, "asking") /\ ssh[s].line = "none" /\ ssh[s].conn # "exited"
    /\ Goto(s, "got")
    /\ UNCHANGED <<ssh, recordVars, envVars>>

-----------------------------------------------------------------------------
(* The record: the lock section of run_forward_loop and save_state.          *)

\* Mutant: the dict and its save are not under the lock.
RecordPortUnlocked(s) ==
    /\ At(s, "got")
    /\ IF state[s] = thr[s].cand
       THEN Goto(s, "up") /\ UNCHANGED <<state, lock>>
       ELSE /\ state' = [state EXCEPT ![s] = thr[s].cand]
            /\ lock' = lock \cup {s}
            /\ Goto(s, "dump")
    /\ UNCHANGED <<ssh, temp, file, missed, envVars, faults>>

\* The accepted port is compared with the dict and written into it.
RecordPort(s) ==
    /\ At(s, "got") /\ lock = {}
    /\ IF state[s] = thr[s].cand
       THEN Goto(s, "up") /\ UNCHANGED <<state, lock>>
       ELSE /\ state' = [state EXCEPT ![s] = thr[s].cand]
            /\ lock' = {s}
            /\ Goto(s, "dump")
    /\ UNCHANGED <<ssh, temp, file, missed, envVars, faults>>

\* The whole dict goes into the temporary file.
DumpState(s) ==
    /\ At(s, "dump")
    /\ temp' = {state}
    /\ Goto(s, "replace")
    /\ UNCHANGED <<ssh, state, lock, file, missed, envVars, faults>>

\* The temporary file takes the name of the state file; a temporary file that
\* is not there any more raises, and the state file stays.
ReplaceFile(s) ==
    /\ At(s, "replace")
    /\ IF temp = {} THEN UNCHANGED <<temp, file, missed>>
       ELSE /\ \E content \in temp : file' = content
            /\ temp' = {} /\ missed' = FALSE
    /\ Goto(s, "clean")
    /\ UNCHANGED <<ssh, state, lock, envVars, faults>>

\* An OSError of the save is logged and the thread goes on.
SaveFails(s) ==
    /\ Fault("save")
    /\ At(s, "dump") \/ At(s, "replace")
    /\ missed' = TRUE
    /\ Goto(s, "clean")
    /\ UNCHANGED <<ssh, state, lock, temp, file, envVars>>

\* The finally clause removes what is left of the temporary file; the lock is
\* left, a collection is asked for, and the thread waits for its process.
RemoveTemp(s) ==
    /\ At(s, "clean")
    /\ temp' = {}
    /\ lock' = lock \ {s}
    /\ Goto(s, "up")
    /\ UNCHANGED <<ssh, state, file, missed, envVars, faults>>

-----------------------------------------------------------------------------
(* The wait for the process, the backoff and the service as a whole.         *)

\* proc.wait returns; a connection that stayed up long starts the escalation
\* anew.
Dropped(s) ==
    /\ At(s, "up") /\ ssh[s].conn = "exited"
    /\ \E stayedLong \in BOOLEAN : Pause(s, IF stayedLong THEN 0 ELSE thr[s].fails)
    /\ UNCHANGED <<ssh, recordVars, envVars, faults>>

\* Mutant: the next walk goes on where the last one ended.
WakeOn(s) ==
    /\ At(s, "pause")
    /\ Goto(s, "walk")
    /\ UNCHANGED <<ssh, recordVars, envVars, faults>>

\* Every attempt starts at the first candidate.
Wake(s) ==
    /\ At(s, "pause")
    /\ thr' = [thr EXCEPT ![s].pc = "walk", ![s].cand = 1]
    /\ UNCHANGED <<ssh, recordVars, envVars, faults>>

\* The service is killed in any step and started again: systemd kills its
\* processes, the servers may keep their sessions for a while, and main reads
\* the state file, or starts empty when it cannot.
Restart ==
    /\ Fault("restart")
    /\ thr' = [s \in Servers |-> Walking]
    /\ ssh' = [s \in Servers |-> NoSsh]
    /\ dead' = [s \in Servers |->
                  IF ssh[s].conn \in {"open", "lost"}
                  THEN dead[s] \cup {thr[s].cand} ELSE dead[s]]
    /\ state' \in {file, Empty}
    /\ lock' = {}
    /\ missed' = FALSE
    /\ UNCHANGED <<temp, file, taken, granted>>

-----------------------------------------------------------------------------
(* The environment: ssh and the servers.                                     *)

\* The remote forward: success when the port is free, and otherwise the
\* refusal line and the exit of ExitOnForwardFailure.
ServerAnswers(s) ==
    /\ ssh[s].conn = "asking"
    /\ IF thr[s].cand \in taken[s] \cup dead[s]
       THEN /\ ssh' = [ssh EXCEPT ![s].conn = "exited", ![s].line = "refused"]
            /\ UNCHANGED granted
       ELSE /\ ssh' = [ssh EXCEPT ![s].conn = "open", ![s].line = "success"]
            /\ granted' = [granted EXCEPT ![s] = @ \cup {thr[s].cand}]
    /\ UNCHANGED <<thr, recordVars, taken, dead, faults>>

\* ssh gives up before the forward: an unreachable host, a denied key.
Unreachable(s) ==
    /\ Fault("unreachable")
    /\ ssh[s].conn = "asking"
    /\ ssh' = [ssh EXCEPT ![s].conn = "exited"]
    /\ UNCHANGED <<thr, recordVars, envVars>>

\* The connection breaks; the server may hold its session a while longer.
Breaks(s) ==
    /\ Fault("drop")
    /\ ssh[s].conn = "open"
    /\ ssh' = [ssh EXCEPT ![s].conn = "lost"]
    /\ \/ dead' = [dead EXCEPT ![s] = @ \cup {thr[s].cand}]
       \/ UNCHANGED dead
    /\ UNCHANGED <<thr, recordVars, taken, granted>>

\* A connection that nobody reads writes its -v lines into the pipe.
Chatters(s) ==
    /\ ssh[s].conn = "open" /\ ~At(s, "asking")
    /\ ssh[s].chat < MaxChatter /\ ssh[s].chat < PipeRoom
    /\ ssh' = [ssh EXCEPT ![s].chat = @ + 1]
    /\ UNCHANGED <<thr, recordVars, envVars, faults>>

\* The keepalive finds the broken connection, unless ssh is blocked in a
\* write to the full pipe.
KeepaliveEnds(s) ==
    /\ ssh[s].conn = "lost" /\ ssh[s].chat < PipeRoom
    /\ ssh' = [ssh EXCEPT ![s].conn = "exited"]
    /\ UNCHANGED <<thr, recordVars, envVars, faults>>

\* The server notices a dead session and frees its port.
Releases(s) ==
    /\ dead[s] # {}
    /\ \E p \in dead[s] : dead' = [dead EXCEPT ![s] = @ \ {p}]
    /\ UNCHANGED <<thr, ssh, recordVars, taken, granted, faults>>

\* Another machine takes a free port and keeps it; one stays for this machine.
OtherTakes(s, p) ==
    /\ Fault("taken")
    /\ p \notin dead[s] \cup taken[s]
    /\ ssh[s].conn \in {"open", "lost"} => p # thr[s].cand
    /\ Cardinality(taken[s]) + 1 < Ports
    /\ taken' = [taken EXCEPT ![s] = @ \cup {p}]
    /\ UNCHANGED <<thr, ssh, recordVars, dead, granted>>

-----------------------------------------------------------------------------
WalkStep(s) == \/ Ask(s) \/ WalkEnds(s)
               \/ AskGranted(s) \/ AskRefused(s) \/ AskFails(s)

SaveStep(s) == DumpState(s) \/ ReplaceFile(s) \/ RemoveTemp(s)

WaitStep(s) == Dropped(s) \/ Wake(s)

FaultStep(s) == \/ SpawnFails(s) \/ AskTimesOut(s) \/ SaveFails(s)
                \/ Unreachable(s) \/ Breaks(s)
                \/ \E p \in Port : OtherTakes(s, p)

EnvStep(s) == ServerAnswers(s) \/ KeepaliveEnds(s) \/ Releases(s) \/ Chatters(s)

Next ==
    \/ \E s \in Servers : \/ WalkStep(s) \/ RecordPort(s)
                          \/ SaveStep(s) \/ WaitStep(s)
                          \/ FaultStep(s) \/ EnvStep(s)
    \/ Restart

Spec == Init /\ [][Next]_pfVars

\* A thread runs its next step, and a lock released again and again is had at
\* last; ssh answers or gives up within its own timeouts, its keepalive ends
\* a lost connection, and a server frees the ports of a dead session.
Fairness ==
    \A s \in Servers :
        /\ WF_pfVars(WalkStep(s)) /\ SF_pfVars(RecordPort(s))
        /\ WF_pfVars(SaveStep(s)) /\ WF_pfVars(WaitStep(s))
        /\ WF_pfVars(ServerAnswers(s)) /\ WF_pfVars(KeepaliveEnds(s))
        /\ WF_pfVars(Releases(s))

FairSpec == Spec /\ Fairness

-----------------------------------------------------------------------------
\* What the telemetry reads is what the thread waits on: whatever threads and
\* saves interleave and whenever the service is killed, the state file names
\* the candidate of every thread that is waiting for its process, as long as
\* the last save worked.
TelemetryNamesTheTunnel ==
    \A s \in Servers : At(s, "up") /\ ~missed => file[s] = thr[s].cand

\* A dropped, refused or unreachable connection is re-established: once the
\* faults are over every thread has an open tunnel and the dict names its port.
TunnelComesBack ==
    \A s \in Servers :
        <>[](At(s, "up") /\ ssh[s].conn = "open" /\ state[s] = thr[s].cand)

\* port-forwarding-setup.md: the connection is confirmed by its own success
\* line, so every port in the state file is one the server has granted.
RecordedWasGranted ==
    \A s \in Servers : file[s] # 0 => file[s] \in granted[s]

-----------------------------------------------------------------------------
\* What makes the record's agreement inductive: the candidate a process asks
\* for is in the range, the lock is held by the one thread that is saving, and
\* the dict is ahead of the file only for that thread.
CandInv ==
    \A s \in Servers :
        /\ thr[s].pc \in {"asking", "got", "dump", "replace", "clean", "up"} =>
              thr[s].cand \in Port
        /\ ssh[s].conn \in {"asking", "open", "lost"} => thr[s].cand \in Port
        /\ ssh[s].line = "refused" => ssh[s].conn = "exited"

LockInv ==
    /\ \A s \in Servers : s \in lock <=> thr[s].pc \in {"dump", "replace", "clean"}
    /\ \A s, t \in lock : s = t

DictInv ==
    /\ \A s \in Servers :
          thr[s].pc \in {"dump", "replace", "clean", "up"} => state[s] = thr[s].cand
    /\ \A s \in Servers : thr[s].pc = "replace" => temp = {state}
    /\ \A s \in Servers : thr[s].pc = "clean" /\ ~missed => file = state
    /\ ~missed => \A s \in Servers \ lock : state[s] \in {0, file[s]}

RecordInv == CandInv /\ LockInv /\ DictInv

=============================================================================
