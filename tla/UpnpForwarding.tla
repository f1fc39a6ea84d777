---------------------------- MODULE UpnpForwarding ----------------------------
(* The router port forwarding service: every machine of the project on one   *)
(* network runs it every few minutes, and keeps a rule of its own in the one *)
(* rule table of the router, which other programs and the router itself      *)
(* change as well.  The router replaces the rule of a port silently.         *)
(*                                                                           *)
(* A target is the address of a host together with its port; the SSH port of *)
(* a machine does not change, so its address stands for the target.          *)
EXTENDS Naturals, Sequences, FiniteSets

CONSTANTS
    Machines,    \* the machines of the project behind the router
    Ports,       \* the external ports of the router
    Chain,       \* candidate_ports: the ports each machine tries, in order
    Addresses,   \* the addresses of the network
    Foreign,     \* the mark of a rule of any other program
    FaultKinds,  \* what may happen to the network and to a run
    MaxFaults    \* bound: how often it happens in one behaviour

ASSUME MachinesAssumption == Foreign \notin Machines
ASSUME ChainAssumption == Chain \in [Machines -> Seq(Ports)]
ASSUME FaultsAssumption == MaxFaults \in Nat

VARIABLES
    address,   \* the address of each machine
    table,     \* the rule table of the router
    run,       \* the run of each machine
    unsaid,    \* history: own rules written and not announced to the collector
    lossy,     \* history: a call lost its answer, or a run was killed
    faults     \* how much has happened

vars == <<address, table, run, unsaid, lossy, faults>>

Marks == Machines \cup {Foreign}

Rule == [port : Ports, mark : Marks, to : Addresses]

\* listing and second are what the run has read: the list the walk goes by and
\* the one that decides about the candidate.
RunState == [pc      : {"off", "start", "list", "walk", "look", "add", "check", "tell"},
             target  : Addresses,
             listing : SUBSET Rule,
             second  : SUBSET Rule,
             next    : Nat]

\* Type invariant of the network.
TypeOK ==
    /\ address \in [Machines -> Addresses]
    /\ table \in SUBSET Rule
    /\ run \in [Machines -> RunState]
    /\ \A m \in Machines : run[m].next \in 1 .. Len(Chain[m]) + 1
    /\ unsaid \in SUBSET Rule
    /\ lossy \in BOOLEAN
    /\ faults \in Nat

NoRun(m) == [pc |-> "off", target |-> address[m], listing |-> {}, second |-> {},
             next |-> 1]

Init ==
    /\ address \in [Machines -> Addresses]
    /\ \A m, n \in Machines : address[m] = address[n] => m = n
    /\ table = {}
    /\ run = [m \in Machines |-> NoRun(m)]
    /\ unsaid = {} /\ lossy = FALSE /\ faults = 0

Fault(kind) ==
    /\ kind \in FaultKinds
    /\ faults < MaxFaults
    /\ faults' = faults + 1

At(m, pc) == run[m].pc = pc

Goto(m, pc) == run' = [run EXCEPT ![m].pc = pc]

EndRun(m) == run' = [run EXCEPT ![m] = NoRun(m)]

\* The router has at most one rule for a port, so mapping_for finds the rule.
OnPort(rules, p) == {r \in rules : r.port = p}

-----------------------------------------------------------------------------
(* The network.                                                              *)

\* A machine gets another address, which no other machine has.
MoveAddress(m, a) ==
    /\ Fault("move")
    /\ a \notin {address[n] : n \in Machines}
    /\ address' = [address EXCEPT ![m] = a]
    /\ UNCHANGED <<table, run, unsaid, lossy>>

SetTable(rules) == table' = rules /\ unsaid' = unsaid \cap rules

\* The router restarts and has forgotten its rules.
RouterRestarts ==
    /\ Fault("restart")
    /\ SetTable({})
    /\ UNCHANGED <<address, run, lossy>>

\* Another program, or another purpose of this project, takes a port.
ForeignTakes(p, a) ==
    /\ Fault("foreign")
    /\ SetTable((table \ OnPort(table, p)) \cup {[port |-> p, mark |-> Foreign, to |-> a]})
    /\ UNCHANGED <<address, run, lossy>>

\* A rule disappears: its program closes the port or a person deletes it.
RuleGoes(r) ==
    /\ Fault("gone")
    /\ r \in table
    /\ SetTable(table \ {r})
    /\ UNCHANGED <<address, run, lossy>>

-----------------------------------------------------------------------------
(* The run: main and ensure_forwarding.                                      *)

\* The timer, or the setup task, starts the oneshot unit.
StartRun(m) ==
    /\ At(m, "off")
    /\ run' = [run EXCEPT ![m] = [NoRun(m) EXCEPT !.pc = "start"]]
    /\ UNCHANGED <<address, table, unsaid, lossy, faults>>

\* No client package, no router that answers, or no address: exit code 0.
GivesUp(m) ==
    /\ Fault("offline")
    /\ At(m, "start")
    /\ EndRun(m)
    /\ UNCHANGED <<address, table, unsaid, lossy>>

\* default_route_address: the target of this run.
ReadAddress(m) ==
    /\ At(m, "start")
    /\ run' = [run EXCEPT ![m].pc = "list", ![m].target = address[m]]
    /\ UNCHANGED <<address, table, unsaid, lossy, faults>>

\* What list_mappings returns: the rules, or nothing when the router is silent.
Listed(rules, silent) ==
    /\ rules \in {table, {}}
    /\ IF rules = table THEN UNCHANGED faults ELSE Fault(silent)

\* The list the whole walk goes by.
ReadListing(m) ==
    /\ At(m, "list")
    /\ \E rules \in {table, {}} :
          /\ Listed(rules, "silent")
          /\ run' = [run EXCEPT ![m].pc = "walk", ![m].listing = rules]
    /\ UNCHANGED <<address, table, unsaid, lossy>>

Candidate(m) == Chain[m][run[m].next]

HasCandidate(m) == run[m].next \in DOMAIN Chain[m]

\* The rule delivers to this machine.
Reaches(r, m) == r.to = run[m].target

\* Mutant: the mark alone says that the rule is right.
OursByMark(r, m) == r.mark = m

\* The rule of this machine, as it should be.
Ours(r, m) == r.mark = m /\ Reaches(r, m)

\* The rule of another, which is never touched.
Theirs(r, m) == r.mark # m /\ ~Reaches(r, m)

\* The walk at its candidate: the rule is right, and the run ends.
FindRight(m) ==
    /\ At(m, "walk") /\ HasCandidate(m)
    /\ \E r \in OnPort(run[m].listing, Candidate(m)) : Ours(r, m)
    /\ EndRun(m)
    /\ UNCHANGED <<address, table, unsaid, lossy, faults>>

NextCandidate(m) ==
    run' = [run EXCEPT ![m].pc = "walk", ![m].next = @ + 1, ![m].second = {}]

\* Another machine has the port.
PassOver(m) ==
    /\ At(m, "walk") /\ HasCandidate(m)
    /\ \E r \in OnPort(run[m].listing, Candidate(m)) : Theirs(r, m)
    /\ NextCandidate(m)
    /\ UNCHANGED <<address, table, unsaid, lossy, faults>>

\* The port looks free, or its rule is to be written again.
TryPort(m) ==
    /\ At(m, "walk") /\ HasCandidate(m)
    /\ \A r \in OnPort(run[m].listing, Candidate(m)) : ~Ours(r, m) /\ ~Theirs(r, m)
    /\ Goto(m, "look")
    /\ UNCHANGED <<address, table, unsaid, lossy, faults>>

\* Every candidate is taken or was refused.
WalkEnds(m) ==
    /\ At(m, "walk") /\ ~HasCandidate(m)
    /\ EndRun(m)
    /\ UNCHANGED <<address, table, unsaid, lossy, faults>>

-----------------------------------------------------------------------------
(* One candidate: ensure_port_forwarding.                                    *)

\* Mutant: the list of the walk is trusted, the own one only ends the search.
LookTrusts(m) ==
    /\ At(m, "look")
    /\ run' = [run EXCEPT ![m].second = table,
          ![m].pc = IF \E r \in OnPort(table, Candidate(m)) : Ours(r, m)
                    THEN "tell" ELSE "add"]
    /\ UNCHANGED <<address, table, unsaid, lossy, faults>>

\* The decision by a list of its own.
Look(m) ==
    /\ At(m, "look")
    /\ \E rules \in {table, {}} :
          /\ Listed(rules, "silent")
          /\ LET found == OnPort(rules, Candidate(m)) IN
             \/ /\ \E r \in found : Ours(r, m)
                /\ Goto(m, "tell")
             \/ /\ \E r \in found : Theirs(r, m)
                /\ NextCandidate(m)
             \/ /\ \A r \in found : ~Ours(r, m) /\ ~Theirs(r, m)
                /\ run' = [run EXCEPT ![m].pc = "add", ![m].second = rules]
    /\ UNCHANGED <<address, table, unsaid, lossy>>

\* The router takes the rule over whatever the port carries.
Write(m) ==
    LET r == [port |-> Candidate(m), mark |-> m, to |-> run[m].target] IN
    /\ table' = (table \ OnPort(table, Candidate(m))) \cup {r}
    /\ unsaid' = (unsaid \cap table') \cup ({r} \ table)

AddRule(m) ==
    /\ At(m, "add")
    /\ Write(m)
    /\ Goto(m, "check")
    /\ UNCHANGED <<address, lossy, faults>>

\* The router refuses, which only the list shows.
AddRefused(m) ==
    /\ Fault("refuse")
    /\ At(m, "add")
    /\ Goto(m, "check")
    /\ UNCHANGED <<address, table, unsaid, lossy>>

\* The client times out, before or after the router wrote the rule.
AddTimesOut(m) ==
    /\ Fault("timeout")
    /\ At(m, "add")
    /\ Write(m) \/ UNCHANGED <<table, unsaid>>
    /\ lossy' = TRUE
    /\ NextCandidate(m)
    /\ UNCHANGED address

\* Mutant: a rule that was only written again is not a change.
CheckNewOnly(m) ==
    /\ At(m, "check")
    /\ IF \E r \in OnPort(table, Candidate(m)) : Reaches(r, m)
       THEN IF OnPort(run[m].second, Candidate(m)) = {} THEN Goto(m, "tell") ELSE EndRun(m)
       ELSE NextCandidate(m)
    /\ UNCHANGED <<address, table, unsaid, lossy, faults>>

\* The list is read back; a rule that delivers to this machine is in place.
Check(m) ==
    /\ At(m, "check")
    /\ IF \E r \in OnPort(table, Candidate(m)) : Reaches(r, m)
       THEN Goto(m, "tell") ELSE NextCandidate(m)
    /\ UNCHANGED <<address, table, unsaid, lossy, faults>>

\* The router is silent when the list is read back.
CheckSilent(m) ==
    /\ Fault("silent")
    /\ At(m, "check")
    /\ lossy' = TRUE
    /\ NextCandidate(m)
    /\ UNCHANGED <<address, table, unsaid>>

\* trigger_collection: the report that follows reads the rules of the machine
\* from the router.
Tell(m) ==
    /\ At(m, "tell")
    /\ unsaid' = {r \in unsaid : r.mark # m}
    /\ EndRun(m)
    /\ UNCHANGED <<address, table, lossy, faults>>

\* The trigger fails, which is journaled and not repeated.
TellFails(m) ==
    /\ Fault("trigger")
    /\ At(m, "tell")
    /\ lossy' = TRUE
    /\ EndRun(m)
    /\ UNCHANGED <<address, table, unsaid>>

\* The run is killed, or raises what nothing catches.
KillRun(m) ==
    /\ Fault("kill")
    /\ ~At(m, "off")
    /\ lossy' = TRUE
    /\ EndRun(m)
    /\ UNCHANGED <<address, table, unsaid>>

-----------------------------------------------------------------------------
WalkStep(m) ==
    \/ ReadAddress(m) \/ ReadListing(m)
    \/ FindRight(m) \/ PassOver(m) \/ TryPort(m) \/ WalkEnds(m)

PortStep(m) == Look(m) \/ AddRule(m) \/ Check(m) \/ Tell(m)

FaultStep(m) ==
    \/ GivesUp(m) \/ AddRefused(m) \/ AddTimesOut(m) \/ CheckSilent(m)
    \/ TellFails(m) \/ KillRun(m)
    \/ \E a \in Addresses : MoveAddress(m, a)

NetworkStep ==
    \/ RouterRestarts
    \/ \E p \in Ports, a \in Addresses : ForeignTakes(p, a)
    \/ \E r \in table : RuleGoes(r)

Next ==
    \/ \E m \in Machines : StartRun(m) \/ WalkStep(m) \/ PortStep(m) \/ FaultStep(m)
    \/ NetworkStep

Spec == Init /\ [][Next]_vars

\* The timer starts run after run, and a run goes on, since every call of it
\* has a timeout.
Fairness ==
    \A m \in Machines :
        WF_vars(StartRun(m)) /\ WF_vars(WalkStep(m)) /\ WF_vars(PortStep(m))

FairSpec == Spec /\ Fairness

-----------------------------------------------------------------------------
\* A rule a machine writes over is its own, one that already delivered to it,
\* or one that neither of its two lists showed: a rule of another that the run
\* has seen is never taken, however old the list of the walk is by then.
SeenRulesAreKept ==
    [][\A m \in Machines, r \in table :
          /\ run[m].pc = "add" /\ run'[m].pc # "add"
          /\ r \notin table'
          /\ r.port = Candidate(m)
          /\ Theirs(r, m)
          => r \notin run[m].listing \cup run[m].second]_vars

\* A rule the service has written is announced to the collector by the end of
\* its run, unless a call lost its answer or a run was killed.
ChangesAreAnnounced ==
    ~lossy => \A r \in unsaid : ~(\E m \in Machines : r.mark = m /\ At(m, "off"))

\* The rule of the machine survives a change of its address and a restart of
\* the router: once the network is at rest every machine has a rule that
\* reaches it, or others hold every candidate of its.
Served(m) == \E r \in table : r.mark = m /\ r.to = address[m]

Crowded(m) ==
    \A i \in DOMAIN Chain[m] :
        \E r \in OnPort(table, Chain[m][i]) : r.mark # m

RuleComesBack == <>[](\A m \in Machines : Served(m) \/ Crowded(m))

\* upnp-forwarding-setup.md: the machine carries one number per network, not two.
OneRulePerMachine ==
    \A r, q \in table : r.mark = q.mark /\ r.mark \in Machines => r = q

-----------------------------------------------------------------------------
\* What makes these inductive: a run that is about to write has seen no rule
\* of another on its port, and what is not announced is what it has in hand.
NothingTaken(m, rules) == \A r \in OnPort(rules, Candidate(m)) : ~Theirs(r, m)

SeenInv ==
    \A m \in Machines :
        /\ At(m, "look") \/ At(m, "add") => NothingTaken(m, run[m].listing)
        /\ At(m, "add") => NothingTaken(m, run[m].second)

InHand(r, m) ==
    \/ At(m, "tell")
    \/ At(m, "check") /\ r.port = Candidate(m) /\ Reaches(r, m)

AnnounceInv ==
    /\ unsaid \subseteq table
    /\ ~lossy => \A r \in unsaid, m \in Machines : r.mark = m => InHand(r, m)

=============================================================================
