------------------------- MODULE PortForwardingProofs -------------------------
(* Proofs about PortForwarding, for any servers, any range of ports and any  *)
(* number of faults.                                                         *)
EXTENDS PortForwarding, TLAPS

-----------------------------------------------------------------------------
\* The steps of a thread keep the types and the candidate in the range.
LEMMA WalkKeepsTypes ==
    ASSUME TypeOK, CandInv, NEW s \in Servers,
           WalkStep(s) \/ WaitStep(s) \/ SpawnFails(s) \/ AskTimesOut(s)
    PROVE  TypeOK' /\ CandInv'
<1> USE PortsAssumption, PipeAssumption, FailsAssumption, FaultsAssumption
<1>1. /\ UNCHANGED <<recordVars, envVars>>
      /\ faults' \in 0 .. MaxFaults
  BY DEF WalkStep, WaitStep, Ask, WalkEnds, AskGranted, AskRefused, AskFails,
         Dropped, Wake, SpawnFails, AskTimesOut, Fault, TypeOK
<1>2. ASSUME NEW after \in 0 .. MaxFails, Pause(s, after), UNCHANGED ssh
      PROVE  /\ thr' \in [Servers -> ThreadState]
             /\ ssh' \in [Servers -> SshState]
             /\ CandInv'
  <2>1. Longer(after) \in 0 .. MaxFails
    BY <1>2 DEF Longer
  <2>2. thr' \in [Servers -> ThreadState]
    BY <1>2, <2>1 DEF Pause, TypeOK, ThreadState
  <2> QED
    BY <1>2, <2>2 DEF Pause, TypeOK, ThreadState, CandInv
<1>3. ASSUME NEW pc \in {"got", "walk"}, UNCHANGED ssh,
             \/ Goto(s, pc) /\ thr[s].cand \in Port
             \/ thr' = [thr EXCEPT ![s].pc = "walk", ![s].cand = 1]
      PROVE  /\ thr' \in [Servers -> ThreadState]
             /\ ssh' \in [Servers -> SshState]
             /\ CandInv'
  <2>1. CASE Goto(s, pc) /\ thr[s].cand \in Port
    BY <1>3, <2>1 DEF Goto, TypeOK, ThreadState, CandInv
  <2>2. CASE thr' = [thr EXCEPT ![s].pc = "walk", ![s].cand = 1]
    <3>1. 1 \in Port /\ 1 \in 1 .. Ports + 1
      BY DEF Port
    <3>2. thr' \in [Servers -> ThreadState]
      BY <2>2, <3>1 DEF TypeOK, ThreadState
    <3>3. thr'[s].cand = 1 /\ \A t \in Servers \ {s} : thr'[t] = thr[t]
      BY <2>2 DEF TypeOK, ThreadState
    <3> QED
      BY <1>3, <3>1, <3>2, <3>3 DEF TypeOK, CandInv
  <2> QED
    BY <1>3, <2>1, <2>2
<1>4. thr[s].fails \in 0 .. MaxFails /\ 0 \in 0 .. MaxFails
  BY DEF TypeOK, ThreadState
<1>5. CASE Ask(s)
  <2>1. /\ thr' = [thr EXCEPT ![s].pc = "asking"] /\ thr[s].cand \in Port
        /\ ssh' = [ssh EXCEPT ![s] = [conn |-> "asking", line |-> "none", chat |-> 0]]
    BY <1>5 DEF Ask, Goto, NewSsh
  <2>2. thr' \in [Servers -> ThreadState]
    BY <2>1 DEF TypeOK, ThreadState
  <2>3. ssh' \in [Servers -> SshState]
    BY <2>1 DEF TypeOK, SshState
  <2>4. CandInv'
    BY <2>1 DEF TypeOK, ThreadState, SshState, CandInv
  <2> QED
    BY <1>1, <2>2, <2>3, <2>4 DEF TypeOK, recordVars, envVars
<1>6. CASE AskRefused(s)
  BY <1>1, <1>6 DEF AskRefused, At, TypeOK, ThreadState, CandInv, Port, recordVars, envVars
<1>7. CASE WalkEnds(s) \/ AskFails(s) \/ SpawnFails(s) \/ Dropped(s)
  <2>1. \E after \in 0 .. MaxFails : Pause(s, after) /\ UNCHANGED ssh
    BY <1>4, <1>7 DEF WalkEnds, AskFails, SpawnFails, Dropped
  <2> QED
    BY <1>1, <1>2, <2>1 DEF TypeOK, recordVars, envVars
<1>8. CASE AskGranted(s) \/ AskTimesOut(s) \/ Wake(s)
  <2>1. \E pc \in {"got", "walk"} : /\ UNCHANGED ssh
          /\ \/ Goto(s, pc) /\ thr[s].cand \in Port
             \/ thr' = [thr EXCEPT ![s].pc = "walk", ![s].cand = 1]
    BY <1>8 DEF AskGranted, AskTimesOut, Wake, At, CandInv
  <2> QED
    BY <1>1, <1>3, <2>1 DEF TypeOK, recordVars, envVars
<1> QED
  BY <1>5, <1>6, <1>7, <1>8 DEF WalkStep, WaitStep

\* The steps of the record keep them.
LEMMA RecordKeepsTypes ==
    ASSUME TypeOK, CandInv, NEW s \in Servers,
           RecordPort(s) \/ SaveStep(s) \/ SaveFails(s)
    PROVE  TypeOK' /\ CandInv'
<1> USE PortsAssumption, PipeAssumption, FailsAssumption, FaultsAssumption
<1>1. /\ UNCHANGED <<ssh, envVars>>
      /\ faults' \in 0 .. MaxFaults
  BY DEF SaveStep, RecordPort, DumpState, ReplaceFile, RemoveTemp, SaveFails, Fault, TypeOK
<1>2. /\ thr[s].cand \in Port
      /\ \E pc \in {"dump", "replace", "clean", "up"} : Goto(s, pc)
  BY DEF SaveStep, RecordPort, DumpState, ReplaceFile, RemoveTemp, SaveFails, At, CandInv
<1>3. thr' \in [Servers -> ThreadState] /\ CandInv'
  BY <1>1, <1>2 DEF Goto, TypeOK, ThreadState, CandInv
<1>4. /\ state' \in Record /\ file' \in Record /\ temp' \in SUBSET Record
      /\ lock' \in SUBSET Servers /\ missed' \in BOOLEAN
  <2>1. thr[s].cand \in 0 .. Ports
    BY <1>2 DEF Port
  <2>2. CASE RecordPort(s)
    <3>1. state' \in Record
      BY <2>1, <2>2 DEF RecordPort, TypeOK, Record
    <3> QED
      BY <2>2, <3>1 DEF RecordPort, TypeOK
  <2>3. CASE SaveStep(s) \/ SaveFails(s)
    BY <2>3 DEF SaveStep, DumpState, ReplaceFile, RemoveTemp, SaveFails, TypeOK
  <2> QED
    BY <2>2, <2>3
<1> QED
  BY <1>1, <1>3, <1>4 DEF TypeOK, envVars

\* The steps of ssh and of the servers keep them.
LEMMA EnvKeepsTypes ==
    ASSUME TypeOK, CandInv, NEW s \in Servers,
           \/ EnvStep(s) \/ Unreachable(s) \/ Breaks(s)
           \/ \E p \in Port : OtherTakes(s, p)
    PROVE  TypeOK' /\ CandInv'
<1> USE PortsAssumption, PipeAssumption, FailsAssumption, FaultsAssumption
<1>1. /\ UNCHANGED <<thr, recordVars>>
      /\ faults' \in 0 .. MaxFaults
  BY DEF EnvStep, ServerAnswers, Unreachable, Breaks, Chatters, KeepaliveEnds,
         Releases, OtherTakes, Fault, TypeOK
<1>2. ssh' \in [Servers -> SshState] /\ CandInv'
  <2>1. CASE ServerAnswers(s)
    <3>1. PICK c \in {"exited", "open"}, l \in {"refused", "success"} :
            /\ ssh' = [ssh EXCEPT ![s].conn = c, ![s].line = l]
            /\ ssh[s].conn = "asking"
            /\ l = "refused" => c = "exited"
      BY <2>1 DEF ServerAnswers
    <3>2. ssh' \in [Servers -> SshState]
      BY <3>1 DEF TypeOK, SshState
    <3> QED
      BY <1>1, <3>1, <3>2 DEF TypeOK, SshState, CandInv
  <2>2. CASE Unreachable(s) \/ KeepaliveEnds(s) \/ Breaks(s)
    <3>1. PICK c \in {"lost", "exited"} :
            /\ ssh' = [ssh EXCEPT ![s].conn = c]
            /\ ssh[s].conn \in {"asking", "open", "lost"}
            /\ c = "exited" \/ ssh[s].conn = "open"
      BY <2>2 DEF Unreachable, KeepaliveEnds, Breaks
    <3>2. ssh' \in [Servers -> SshState]
      BY <3>1 DEF TypeOK, SshState
    <3> QED
      BY <1>1, <3>1, <3>2 DEF TypeOK, SshState, CandInv
  <2>3. CASE Chatters(s)
    BY <1>1, <2>3 DEF Chatters, TypeOK, SshState, CandInv
  <2>4. CASE Releases(s) \/ \E p \in Port : OtherTakes(s, p)
    BY <1>1, <2>4 DEF Releases, OtherTakes, TypeOK, CandInv
  <2> QED
    BY <2>1, <2>2, <2>3, <2>4 DEF EnvStep
<1>3. /\ taken' \in [Servers -> SUBSET Port] /\ dead' \in [Servers -> SUBSET Port]
      /\ granted' \in [Servers -> SUBSET Port]
  BY DEF EnvStep, ServerAnswers, Unreachable, Breaks, Chatters, KeepaliveEnds,
         Releases, OtherTakes, envVars, TypeOK, CandInv
<1> QED
  BY <1>1, <1>2, <1>3 DEF TypeOK, recordVars

LEMMA RestartKeepsTypes ==
    ASSUME TypeOK, CandInv, Restart
    PROVE  TypeOK' /\ CandInv'
<1> USE PortsAssumption, PipeAssumption, FailsAssumption, FaultsAssumption
<1>1. thr' \in [Servers -> ThreadState] /\ ssh' \in [Servers -> SshState]
  BY DEF Restart, Walking, NoSsh, ThreadState, SshState
<1>2. dead' \in [Servers -> SUBSET Port]
  BY DEF Restart, TypeOK, CandInv
<1>3. state' \in Record
  BY DEF Restart, Empty, Record, TypeOK
<1>4. CandInv'
  BY DEF Restart, Walking, NoSsh, CandInv
<1>5. faults' \in 0 .. MaxFaults
  BY DEF Restart, Fault, TypeOK
<1> QED
  BY <1>1, <1>2, <1>3, <1>4, <1>5 DEF Restart, TypeOK

\* Every state of the service has its type, and no thread asks for, records
\* or holds a port outside the range.
THEOREM ServiceTypes == Spec => [](TypeOK /\ CandInv)
<1>1. Init => TypeOK /\ CandInv
  <2> USE PortsAssumption, FailsAssumption, FaultsAssumption, PipeAssumption
  <2> SUFFICES ASSUME Init PROVE TypeOK /\ CandInv
    OBVIOUS
  <2>1. thr \in [Servers -> ThreadState] /\ ssh \in [Servers -> SshState]
    BY DEF Init, Walking, NoSsh, ThreadState, SshState
  <2>2. state \in Record /\ file \in Record
    BY DEF Init, Empty, Record
  <2>3. CandInv
    BY DEF Init, Walking, NoSsh, CandInv
  <2>4. faults \in 0 .. MaxFaults
    BY DEF Init
  <2> QED
    BY <2>1, <2>2, <2>3, <2>4 DEF Init, TypeOK
<1>2. TypeOK /\ CandInv /\ [Next]_pfVars => (TypeOK /\ CandInv)'
  <2> SUFFICES ASSUME TypeOK, CandInv, [Next]_pfVars PROVE TypeOK' /\ CandInv'
    OBVIOUS
  <2>1. CASE UNCHANGED pfVars
    BY <2>1 DEF TypeOK, CandInv, pfVars, envVars
  <2>2. CASE Next
    BY <2>2, WalkKeepsTypes, RecordKeepsTypes, EnvKeepsTypes, RestartKeepsTypes
       DEF Next, FaultStep
  <2> QED
    BY <2>1, <2>2
<1> QED
  BY <1>1, <1>2, PTL DEF Spec

-----------------------------------------------------------------------------
\* Only the thread that holds the lock changes the dict, the temporary file
\* and the state file.
LEMMA RecordKeepsInv ==
    ASSUME TypeOK, CandInv, LockInv, DictInv, NEW s \in Servers,
           RecordPort(s) \/ SaveStep(s) \/ SaveFails(s)
    PROVE  LockInv' /\ DictInv'
<1>1. CASE RecordPort(s) /\ state[s] = thr[s].cand
  <2>1. /\ lock = {} /\ lock' = {} /\ thr' = [thr EXCEPT ![s].pc = "up"]
        /\ UNCHANGED <<state, temp, file, missed>>
    BY <1>1 DEF RecordPort, Goto
  <2> QED
    BY <1>1, <2>1 DEF LockInv, DictInv, TypeOK, ThreadState
<1>2. CASE RecordPort(s) /\ state[s] # thr[s].cand
  <2>1. /\ lock = {} /\ lock' = {s} /\ thr' = [thr EXCEPT ![s].pc = "dump"]
        /\ state' = [state EXCEPT ![s] = thr[s].cand]
        /\ UNCHANGED <<temp, file, missed>>
    BY <1>2 DEF RecordPort, Goto
  <2>2. LockInv'
    BY <2>1 DEF LockInv, TypeOK, ThreadState
  <2>3. \A t \in Servers \ {s} : thr'[t] = thr[t] /\ state'[t] = state[t]
    BY <2>1 DEF TypeOK, Record
  <2>4. thr'[s].pc = "dump" /\ thr'[s].cand = thr[s].cand /\ state'[s] = thr[s].cand
    BY <2>1 DEF TypeOK, ThreadState, Record
  <2>5. \A t \in Servers : thr[t].pc \notin {"dump", "replace", "clean"}
    BY <2>1 DEF LockInv
  <2> QED
    BY <2>1, <2>2, <2>3, <2>4, <2>5 DEF DictInv
<1>3. CASE DumpState(s)
  <2>1. /\ thr[s].pc = "dump" /\ thr' = [thr EXCEPT ![s].pc = "replace"]
        /\ temp' = {state} /\ UNCHANGED <<state, lock, file, missed>>
    BY <1>3 DEF DumpState, Goto, At
  <2> QED
    BY <2>1 DEF LockInv, DictInv, TypeOK, ThreadState
<1>4. CASE ReplaceFile(s) \/ SaveFails(s)
  <2>1. /\ thr[s].pc \in {"dump", "replace"} /\ thr' = [thr EXCEPT ![s].pc = "clean"]
        /\ lock' = lock /\ UNCHANGED state
        /\ missed' \/ file' = state
    BY <1>4 DEF ReplaceFile, SaveFails, Goto, At, DictInv
  <2>2. lock = {s}
    BY <2>1 DEF LockInv, TypeOK
  <2>3. \A t \in Servers \ {s} :
          thr'[t] = thr[t] /\ thr[t].pc \notin {"dump", "replace", "clean"}
    BY <2>1, <2>2 DEF LockInv, TypeOK
  <2>4. thr'[s].pc = "clean" /\ thr'[s].cand = thr[s].cand
    BY <2>1 DEF TypeOK, ThreadState
  <2>5. LockInv'
    BY <2>1, <2>2, <2>3, <2>4 DEF LockInv
  <2>6. \A t \in Servers :
          thr'[t].pc \in {"dump", "replace", "clean", "up"} => state'[t] = thr'[t].cand
    BY <2>1, <2>3, <2>4 DEF DictInv
  <2> QED
    BY <2>1, <2>3, <2>4, <2>5, <2>6 DEF DictInv
<1>5. CASE RemoveTemp(s)
  <2>1. /\ thr[s].pc = "clean" /\ thr' = [thr EXCEPT ![s].pc = "up"]
        /\ lock' = lock \ {s} /\ UNCHANGED <<state, file, missed>>
    BY <1>5 DEF RemoveTemp, Goto, At
  <2>2. lock = {s}
    BY <2>1 DEF LockInv, TypeOK
  <2>3. \A t \in Servers \ {s} :
          thr'[t] = thr[t] /\ thr[t].pc \notin {"dump", "replace", "clean"}
    BY <2>1, <2>2 DEF LockInv, TypeOK
  <2>4. thr'[s].pc = "up" /\ thr'[s].cand = thr[s].cand
    BY <2>1 DEF TypeOK, ThreadState
  <2>5. LockInv'
    BY <2>1, <2>2, <2>3, <2>4 DEF LockInv
  <2> QED
    BY <2>1, <2>3, <2>4, <2>5 DEF DictInv
<1> QED
  BY <1>1, <1>2, <1>3, <1>4, <1>5 DEF SaveStep

\* No other step of a thread touches the record, and none of them begins or
\* ends a wait or a save except by leaving it.
LEMMA OthersKeepInv ==
    ASSUME TypeOK, LockInv, DictInv, NEW s \in Servers,
           \/ WalkStep(s) \/ WaitStep(s) \/ SpawnFails(s) \/ AskTimesOut(s)
           \/ EnvStep(s) \/ Unreachable(s) \/ Breaks(s)
           \/ \E p \in Port : OtherTakes(s, p)
    PROVE  LockInv' /\ DictInv'
<1>1. UNCHANGED <<state, lock, temp, file, missed>>
  BY DEF WalkStep, WaitStep, EnvStep, Ask, WalkEnds, AskGranted, AskRefused, AskFails,
         Dropped, Wake, SpawnFails, AskTimesOut, ServerAnswers, Unreachable, Breaks,
         Chatters, KeepaliveEnds, Releases, OtherTakes, recordVars
<1>2. \/ UNCHANGED thr
      \/ /\ thr[s].pc \notin {"dump", "replace", "clean"}
         /\ thr'[s].pc \notin {"dump", "replace", "clean", "up"}
         /\ \A t \in Servers \ {s} : thr'[t] = thr[t]
  BY DEF WalkStep, WaitStep, EnvStep, Ask, WalkEnds, AskGranted, AskRefused, AskFails,
         Dropped, Wake, SpawnFails, AskTimesOut, ServerAnswers, Unreachable, Breaks,
         Chatters, KeepaliveEnds, Releases, OtherTakes, Goto, Pause, At, TypeOK, ThreadState
<1> QED
  BY <1>1, <1>2 DEF LockInv, DictInv

\* The record's agreement holds in every state: one thread saves at a time,
\* and only its server may differ between the dict and the file.
THEOREM RecordInvariant == Spec => []RecordInv
<1>1. Init => LockInv /\ DictInv
  BY DEF Init, Walking, Empty, LockInv, DictInv
<1>2. TypeOK /\ CandInv /\ LockInv /\ DictInv /\ [Next]_pfVars => (LockInv /\ DictInv)'
  <2> SUFFICES ASSUME TypeOK, CandInv, LockInv, DictInv, [Next]_pfVars
               PROVE  LockInv' /\ DictInv'
    OBVIOUS
  <2>1. CASE UNCHANGED pfVars
    BY <2>1 DEF LockInv, DictInv, pfVars
  <2>2. CASE Restart
    BY <2>2 DEF Restart, Walking, Empty, LockInv, DictInv
  <2>3. CASE \E s \in Servers : \/ WalkStep(s) \/ RecordPort(s) \/ SaveStep(s)
                                \/ WaitStep(s) \/ FaultStep(s) \/ EnvStep(s)
    BY <2>3, RecordKeepsInv, OthersKeepInv DEF FaultStep
  <2> QED
    BY <2>1, <2>2, <2>3 DEF Next
<1> QED
  BY <1>1, <1>2, ServiceTypes, PTL DEF Spec, RecordInv

\* The telemetry reads the port of every waiting thread: TelemetryNamesTheTunnel
\* for any number of threads and any interleaving of their saves.
THEOREM TelemetryIsRight == Spec => []TelemetryNamesTheTunnel
<1>1. TypeOK /\ RecordInv => TelemetryNamesTheTunnel
  <2> SUFFICES ASSUME TypeOK, RecordInv, NEW s \in Servers, At(s, "up"), ~missed
               PROVE  file[s] = thr[s].cand
    BY DEF TelemetryNamesTheTunnel
  <2>1. s \notin lock /\ state[s] = thr[s].cand
    BY DEF RecordInv, LockInv, DictInv, At
  <2>2. thr[s].cand # 0
    BY PortsAssumption DEF RecordInv, CandInv, Port, At
  <2> QED
    BY <2>1, <2>2 DEF RecordInv, DictInv
<1> QED
  BY <1>1, ServiceTypes, RecordInvariant, PTL

=============================================================================
