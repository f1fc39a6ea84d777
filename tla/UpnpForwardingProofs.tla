------------------------- MODULE UpnpForwardingProofs -------------------------
(* Proofs about UpnpForwarding, for any number of machines, ports and faults *)
(* and any chains of candidates.                                             *)
EXTENDS UpnpForwarding, TLAPS

\* What a step of the run of m may change.
RunStep(m) == StartRun(m) \/ WalkStep(m) \/ PortStep(m) \/ FaultStep(m)

-----------------------------------------------------------------------------
\* Types.

LEMMA FaultTypes ==
    ASSUME faults \in Nat, NEW kind, Fault(kind)
    PROVE  faults' \in Nat
  BY DEF Fault

LEMMA CandidateType ==
    ASSUME TypeOK, NEW m \in Machines, HasCandidate(m)
    PROVE  Candidate(m) \in Ports
<1>1. Chain[m] \in Seq(Ports)
  BY ChainAssumption
<1> QED
  BY <1>1 DEF HasCandidate, Candidate

\* A run that has a candidate in hand keeps it until it goes on.
CandInv ==
    \A m \in Machines : run[m].pc \in {"look", "add", "check"} => HasCandidate(m)

RunTypes(m, r) == r \in RunState /\ r.next \in 1 .. Len(Chain[m]) + 1

LEMMA NoRunTypes ==
    ASSUME TypeOK, NEW m \in Machines
    PROVE  RunTypes(m, NoRun(m)) /\ RunTypes(m, [NoRun(m) EXCEPT !.pc = "start"])
<1>1. Len(Chain[m]) \in Nat
  BY ChainAssumption
<1>2. [NoRun(m) EXCEPT !.pc = "start"] =
        [pc |-> "start", target |-> address[m], listing |-> {}, second |-> {}, next |-> 1]
  BY DEF NoRun
<1> QED
  BY <1>1, <1>2 DEF NoRun, RunState, RunTypes, TypeOK

LEMMA RunTypesKept ==
    ASSUME TypeOK, NEW m \in Machines, NEW r, RunTypes(m, r),
           run' = [run EXCEPT ![m] = r]
    PROVE  /\ run' \in [Machines -> RunState]
           /\ \A n \in Machines : run'[n].next \in 1 .. Len(Chain[n]) + 1
  BY DEF TypeOK, RunTypes

LEMMA NextTypes ==
    ASSUME TypeOK, NEW m \in Machines, HasCandidate(m), NextCandidate(m)
    PROVE  /\ run' \in [Machines -> RunState]
           /\ \A n \in Machines : run'[n].next \in 1 .. Len(Chain[n]) + 1
<1>1. Len(Chain[m]) \in Nat /\ DOMAIN Chain[m] = 1 .. Len(Chain[m])
  BY ChainAssumption
<1>2. run[m].next \in 1 .. Len(Chain[m])
  BY <1>1 DEF HasCandidate
<1>3. run[m].next + 1 \in 1 .. Len(Chain[m]) + 1 /\ run[m].next + 1 \in Nat
  BY <1>1, <1>2
<1> QED
  BY <1>3 DEF TypeOK, NextCandidate, RunState

LEMMA GotoTypes ==
    ASSUME TypeOK, NEW m \in Machines,
           NEW pc \in {"off", "start", "list", "walk", "look", "add", "check", "tell"},
           Goto(m, pc)
    PROVE  /\ run' \in [Machines -> RunState]
           /\ \A n \in Machines : run'[n].next \in 1 .. Len(Chain[n]) + 1
  BY DEF TypeOK, Goto, RunState

LEMMA EndTypes ==
    ASSUME TypeOK, NEW m \in Machines, EndRun(m)
    PROVE  /\ run' \in [Machines -> RunState]
           /\ \A n \in Machines : run'[n].next \in 1 .. Len(Chain[n]) + 1
  BY NoRunTypes, RunTypesKept DEF EndRun

LEMMA WriteTypes ==
    ASSUME TypeOK, NEW m \in Machines, HasCandidate(m), Write(m)
    PROVE  table' \in SUBSET Rule /\ unsaid' \in SUBSET Rule
<1>1. [port |-> Candidate(m), mark |-> m, to |-> run[m].target] \in Rule
  BY CandidateType DEF Rule, Marks, TypeOK, RunState
<1> QED
  BY <1>1 DEF Write, TypeOK, OnPort

\* Types and the candidate hold together.
TypeInv == TypeOK /\ CandInv

LEMMA NetworkTypes ==
    ASSUME TypeInv, NetworkStep
    PROVE  TypeInv'
<1>1. TypeOK /\ UNCHANGED <<address, run, lossy>>
  BY DEF TypeInv, NetworkStep, RouterRestarts, ForeignTakes, RuleGoes
<1>2. faults' \in Nat
  BY <1>1, FaultTypes DEF NetworkStep, RouterRestarts, ForeignTakes, RuleGoes, TypeOK
<1>3. ASSUME NEW p \in Ports, NEW a \in Addresses
      PROVE  [port |-> p, mark |-> Foreign, to |-> a] \in Rule
  BY DEF Rule, Marks
<1>4. table' \in SUBSET Rule /\ unsaid' \in SUBSET Rule
  BY <1>1, <1>3 DEF NetworkStep, RouterRestarts, ForeignTakes, RuleGoes, SetTable,
                    TypeOK, OnPort
<1> QED
  BY <1>1, <1>2, <1>4 DEF TypeInv, TypeOK, CandInv, HasCandidate

LEMMA CandKept ==
    ASSUME TypeInv, NEW m \in Machines,
           \A n \in Machines : n # m => run'[n] = run[n],
           run'[m].pc \in {"look", "add", "check"} =>
              run'[m].next \in DOMAIN Chain[m]
    PROVE  CandInv'
  BY DEF TypeInv, CandInv, HasCandidate

LEMMA WalkTypes ==
    ASSUME TypeInv, NEW m \in Machines, StartRun(m) \/ WalkStep(m)
    PROVE  TypeInv'
<1>1. TypeOK /\ CandInv
  BY DEF TypeInv
<1>2. CASE StartRun(m)
  <2>1. /\ run' \in [Machines -> RunState]
        /\ \A n \in Machines : run'[n].next \in 1 .. Len(Chain[n]) + 1
    BY <1>1, <1>2, NoRunTypes, RunTypesKept DEF StartRun
  <2>2. CandInv'
    <3>1. [NoRun(m) EXCEPT !.pc = "start"].pc = "start"
      BY DEF NoRun
    <3>2. run' = [run EXCEPT ![m] = [NoRun(m) EXCEPT !.pc = "start"]]
      BY <1>2 DEF StartRun
    <3>3. run'[m].pc = "start" /\ \A n \in Machines : n # m => run'[n] = run[n]
      BY <1>1, <3>1, <3>2, Zenon DEF TypeOK
    <3> QED
      BY <3>3, CandKept
  <2> QED
    BY <1>1, <1>2, <2>1, <2>2 DEF StartRun, TypeInv, TypeOK
<1>3. CASE ReadAddress(m)
  BY <1>1, <1>3, ZenonT(60) DEF ReadAddress, TypeInv, TypeOK, RunState, CandInv, HasCandidate
<1>4. CASE ReadListing(m)
  <2>1. faults' \in Nat
    BY <1>1, <1>4, FaultTypes DEF ReadListing, Listed, TypeOK
  <2> QED
    <3>1. PICK rules \in SUBSET Rule :
             run' = [run EXCEPT ![m].pc = "walk", ![m].listing = rules]
      BY <1>1, <1>4 DEF ReadListing, TypeOK
    <3>2. CandInv'
      BY <1>1, <3>1, CandKept DEF TypeOK
    <3>3. TypeOK'
      <4>1. run' \in [Machines -> RunState]
        BY <1>1, <3>1 DEF TypeOK, RunState
      <4>2. \A n \in Machines : run'[n].next = run[n].next
        BY <1>1, <3>1 DEF TypeOK, RunState
      <4> QED
        BY <1>1, <1>4, <2>1, <4>1, <4>2 DEF ReadListing, TypeOK
    <3> QED
      BY <3>2, <3>3 DEF TypeInv
<1>5. CASE FindRight(m) \/ WalkEnds(m)
  <2>1. EndRun(m) /\ UNCHANGED <<address, table, unsaid, lossy, faults>>
    BY <1>5 DEF FindRight, WalkEnds
  <2>2. CandInv'
    BY <1>1, <2>1, CandKept DEF EndRun, NoRun, TypeOK
  <2> QED
    BY <1>1, <2>1, <2>2, EndTypes DEF TypeInv, TypeOK
<1>6. CASE PassOver(m)
  <2>1. CandInv'
    BY <1>1, <1>6, CandKept DEF PassOver, NextCandidate, TypeOK
  <2> QED
    BY <1>1, <1>6, <2>1, NextTypes DEF PassOver, TypeInv, TypeOK
<1>7. CASE TryPort(m)
  <2>1. CandInv'
    BY <1>1, <1>7, CandKept DEF TryPort, Goto, TypeOK, HasCandidate
  <2> QED
    BY <1>1, <1>7, <2>1, GotoTypes DEF TryPort, TypeInv, TypeOK
<1> QED
  BY <1>2, <1>3, <1>4, <1>5, <1>6, <1>7 DEF WalkStep

LEMMA PortTypes ==
    ASSUME TypeInv, NEW m \in Machines, PortStep(m)
    PROVE  TypeInv'
<1>1. TypeOK /\ CandInv
  BY DEF TypeInv
<1>2. CASE Look(m)
  <2>1. faults' \in Nat /\ UNCHANGED <<address, table, unsaid, lossy>> /\ HasCandidate(m)
    BY <1>1, <1>2, FaultTypes DEF Look, Listed, TypeOK, CandInv, At
  <2>2. CASE Goto(m, "tell")
    <3>1. CandInv'
      BY <1>1, <2>2, CandKept DEF Goto, TypeOK
    <3> QED
      BY <1>1, <2>1, <2>2, <3>1, GotoTypes DEF TypeInv, TypeOK
  <2>3. CASE NextCandidate(m)
    <3>1. CandInv'
      BY <1>1, <2>3, CandKept DEF NextCandidate, TypeOK
    <3> QED
      BY <1>1, <2>1, <2>3, <3>1, NextTypes DEF TypeInv, TypeOK
  <2>4. ASSUME NEW rules \in {table, {}},
               run' = [run EXCEPT ![m].pc = "add", ![m].second = rules]
        PROVE  TypeInv'
    <3>1. CandInv'
      BY <1>1, <2>1, <2>4, CandKept DEF TypeOK, HasCandidate
    <3> QED
      BY <1>1, <2>1, <2>4, <3>1 DEF TypeInv, TypeOK, RunState
  <2>5. \/ Goto(m, "tell") \/ NextCandidate(m)
        \/ \E rules \in {table, {}} :
              run' = [run EXCEPT ![m].pc = "add", ![m].second = rules]
    BY <1>2, Zenon DEF Look
  <2> QED
    BY <2>2, <2>3, <2>4, <2>5
<1>3. CASE AddRule(m)
  <2>1. HasCandidate(m)
    BY <1>1, <1>3 DEF AddRule, At, CandInv
  <2>2. CandInv'
    BY <1>1, <1>3, <2>1, CandKept DEF AddRule, Goto, TypeOK, HasCandidate
  <2> QED
    BY <1>1, <1>3, <2>1, <2>2, WriteTypes, GotoTypes DEF AddRule, TypeInv, TypeOK
<1>4. CASE Check(m)
  <2>1. HasCandidate(m)
    BY <1>1, <1>4 DEF Check, At, CandInv
  <2>2. CandInv'
    <3>1. Goto(m, "tell") \/ NextCandidate(m)
      BY <1>4 DEF Check
    <3>2. run'[m].pc \in {"tell", "walk"} /\ \A n \in Machines : n # m => run'[n] = run[n]
      BY <1>1, <3>1 DEF Goto, NextCandidate, TypeOK, RunState
    <3> QED
      BY <3>2, CandKept
  <2> QED
    BY <1>1, <1>4, <2>1, <2>2, NextTypes, GotoTypes DEF Check, TypeInv, TypeOK
<1>5. CASE Tell(m)
  <2>1. CandInv'
    BY <1>1, <1>5, CandKept DEF Tell, EndRun, NoRun, TypeOK
  <2> QED
    BY <1>1, <1>5, <2>1, EndTypes DEF Tell, TypeInv, TypeOK
<1> QED
  BY <1>2, <1>3, <1>4, <1>5 DEF PortStep

LEMMA FaultStepTypes ==
    ASSUME TypeInv, NEW m \in Machines, FaultStep(m)
    PROVE  TypeInv'
<1>1. TypeOK /\ CandInv
  BY DEF TypeInv
<1>2. faults' \in Nat
  BY <1>1, FaultTypes DEF FaultStep, GivesUp, AddRefused, AddTimesOut, CheckSilent,
                          TellFails, KillRun, MoveAddress, TypeOK
<1>3. CASE GivesUp(m) \/ TellFails(m) \/ KillRun(m)
  <2>1. EndRun(m) /\ lossy' \in BOOLEAN /\ UNCHANGED <<address, table, unsaid>>
    BY <1>1, <1>3 DEF GivesUp, TellFails, KillRun, TypeOK
  <2>2. CandInv'
    BY <1>1, <2>1, CandKept DEF EndRun, NoRun, TypeOK
  <2> QED
    BY <1>1, <1>2, <2>1, <2>2, EndTypes DEF TypeInv, TypeOK
<1>4. CASE AddRefused(m)
  <2>1. CandInv'
    BY <1>1, <1>4, CandKept DEF AddRefused, At, Goto, TypeOK, CandInv, HasCandidate
  <2> QED
    BY <1>1, <1>2, <1>4, <2>1, GotoTypes DEF AddRefused, TypeInv, TypeOK
<1>5. CASE AddTimesOut(m) \/ CheckSilent(m)
  <2>1. HasCandidate(m) /\ NextCandidate(m) /\ lossy' \in BOOLEAN /\ UNCHANGED address
    BY <1>1, <1>5 DEF AddTimesOut, CheckSilent, At, CandInv
  <2>2. table' \in SUBSET Rule /\ unsaid' \in SUBSET Rule
    BY <1>1, <1>5, <2>1, WriteTypes DEF AddTimesOut, CheckSilent, TypeOK
  <2>3. CandInv'
    BY <1>1, <2>1, CandKept DEF NextCandidate, TypeOK
  <2> QED
    BY <1>1, <1>2, <2>1, <2>2, <2>3, NextTypes DEF TypeInv, TypeOK
<1>6. ASSUME NEW a \in Addresses, MoveAddress(m, a) PROVE TypeInv'
  BY <1>1, <1>2, <1>6 DEF MoveAddress, TypeInv, TypeOK, CandInv, HasCandidate
<1> QED
  BY <1>3, <1>4, <1>5, <1>6 DEF FaultStep

\* The service keeps the types of its state; a walk never leaves its chain.
THEOREM TypeCorrect == Spec => [](TypeOK /\ CandInv)
<1>1. Init => TypeInv
  <2> SUFFICES ASSUME Init PROVE TypeInv
    OBVIOUS
  <2>1. \A m \in Machines : Len(Chain[m]) \in Nat
    BY ChainAssumption
  <2>2. ASSUME NEW m \in Machines PROVE RunTypes(m, NoRun(m)) /\ NoRun(m).pc = "off"
    BY <2>1, <2>2 DEF Init, RunTypes, NoRun, RunState
  <2>3. run \in [Machines -> RunState] /\ \A m \in Machines : run[m] = NoRun(m)
    BY <2>2 DEF Init, RunTypes
  <2>4. TypeOK
    BY <2>2, <2>3, FaultsAssumption DEF Init, RunTypes, TypeOK
  <2>5. CandInv
    BY <2>2, <2>3 DEF CandInv
  <2> QED
    BY <2>4, <2>5 DEF TypeInv
<1>2. TypeInv /\ [Next]_vars => TypeInv'
  <2> SUFFICES ASSUME TypeInv, [Next]_vars PROVE TypeInv'
    OBVIOUS
  <2>1. CASE UNCHANGED vars
    BY <2>1 DEF vars, TypeInv, TypeOK, CandInv, HasCandidate
  <2> QED
    BY <2>1, NetworkTypes, WalkTypes, PortTypes, FaultStepTypes DEF Next
<1> QED
  BY <1>1, <1>2, PTL DEF Spec, TypeInv

-----------------------------------------------------------------------------
\* What a run has seen.

\* A run that is not about to write has nothing to show.
LEMMA SeenElsewhere ==
    ASSUME SeenInv, NEW m \in Machines,
           \A n \in Machines : n # m => run'[n] = run[n],
           ~(At(m, "look") \/ At(m, "add"))'
    PROVE  SeenInv'
  BY DEF SeenInv, NothingTaken, Theirs, Reaches, Candidate, At

\* The runs stay as they are, whatever happens to the router.
LEMMA SeenUnchanged ==
    ASSUME SeenInv, UNCHANGED run
    PROVE  SeenInv'
  BY DEF SeenInv, NothingTaken, Theirs, Reaches, Candidate, At

\* A step that leaves its run at neither place.
LEMMA LeavesPort ==
    ASSUME TypeOK, NEW m \in Machines,
           \/ StartRun(m) \/ ReadAddress(m) \/ ReadListing(m) \/ FindRight(m)
           \/ PassOver(m) \/ WalkEnds(m) \/ AddRule(m) \/ Check(m) \/ Tell(m)
           \/ GivesUp(m) \/ AddRefused(m) \/ AddTimesOut(m) \/ CheckSilent(m)
           \/ TellFails(m) \/ KillRun(m)
    PROVE  /\ \A n \in Machines : n # m => run'[n] = run[n]
           /\ ~(At(m, "look") \/ At(m, "add"))'
<1>1. [NoRun(m) EXCEPT !.pc = "start"].pc = "start" /\ NoRun(m).pc = "off"
  BY DEF NoRun
<1>2. CASE StartRun(m)
  <2>1. run' = [run EXCEPT ![m] = [NoRun(m) EXCEPT !.pc = "start"]]
    BY <1>2 DEF StartRun
  <2>2. run'[m].pc = "start" /\ \A n \in Machines : n # m => run'[n] = run[n]
    BY <1>1, <2>1, Zenon DEF TypeOK
  <2> QED
    BY <2>2 DEF At
<1>3. CASE ReadAddress(m)
  BY <1>3 DEF ReadAddress, At, TypeOK, RunState
<1>4. CASE ReadListing(m)
  BY <1>4 DEF ReadListing, At, TypeOK, RunState
<1>5. CASE EndRun(m)
  BY <1>1, <1>5 DEF EndRun, At, TypeOK
<1>6. CASE NextCandidate(m) \/ Goto(m, "check") \/ Goto(m, "tell")
  BY <1>6 DEF NextCandidate, Goto, At, TypeOK, RunState
<1> QED
  BY <1>2, <1>3, <1>4, <1>5, <1>6 DEF FindRight, PassOver, WalkEnds, AddRule, Check, Tell,
     GivesUp, AddRefused, AddTimesOut, CheckSilent, TellFails, KillRun

LEMMA SeenRun ==
    ASSUME TypeOK, SeenInv, NEW m \in Machines, RunStep(m)
    PROVE  SeenInv'
<1>1. CASE TryPort(m)
  <2>1. NothingTaken(m, run[m].listing)
    BY <1>1 DEF TryPort, NothingTaken
  <2>2. run' = [run EXCEPT ![m].pc = "look"]
    BY <1>1 DEF TryPort, Goto
  <2>3. /\ run'[m].pc = "look" /\ run'[m].listing = run[m].listing
        /\ run'[m].next = run[m].next /\ run'[m].target = run[m].target
        /\ \A n \in Machines : n # m => run'[n] = run[n]
    BY <2>2 DEF TypeOK, RunState
  <2> QED
    BY <2>1, <2>3 DEF SeenInv, NothingTaken, Theirs, Reaches, Candidate, At
<1>2. CASE Look(m)
  <2>1. CASE Goto(m, "tell") \/ NextCandidate(m)
    <3>1. /\ \A n \in Machines : n # m => run'[n] = run[n]
          /\ ~(At(m, "look") \/ At(m, "add"))'
      BY <2>1 DEF Goto, NextCandidate, At, TypeOK, RunState
    <3> QED
      BY <3>1, SeenElsewhere
  <2>2. ASSUME NEW rules \in {table, {}},
               NothingTaken(m, rules),
               run' = [run EXCEPT ![m].pc = "add", ![m].second = rules]
        PROVE  SeenInv'
    <3>1. /\ run'[m].pc = "add" /\ run'[m].listing = run[m].listing
          /\ run'[m].next = run[m].next /\ run'[m].target = run[m].target
          /\ run'[m].second = rules
          /\ \A n \in Machines : n # m => run'[n] = run[n]
      BY <2>2 DEF TypeOK, RunState
    <3>2. NothingTaken(m, run[m].listing)
      BY <1>2 DEF Look, SeenInv
    <3>3. /\ NothingTaken(m, rules)' <=> NothingTaken(m, rules)
          /\ NothingTaken(m, run[m].listing)' <=> NothingTaken(m, run[m].listing)
      BY <3>1 DEF NothingTaken, Theirs, Reaches, Candidate
    <3>4. NothingTaken(m, run[m].second)'
      BY <2>2, <3>1, <3>3 DEF NothingTaken
    <3>5. ASSUME NEW n \in Machines, n # m
          PROVE  /\ (At(n, "look") \/ At(n, "add"))' => NothingTaken(n, run[n].listing)'
                 /\ At(n, "add")' => NothingTaken(n, run[n].second)'
      BY <3>1, <3>5 DEF SeenInv, NothingTaken, Theirs, Reaches, Candidate, At
    <3> QED
      BY <3>2, <3>3, <3>4, <3>5 DEF SeenInv
  <2>3. \/ Goto(m, "tell") \/ NextCandidate(m)
        \/ \E rules \in {table, {}} :
              /\ NothingTaken(m, rules)
              /\ run' = [run EXCEPT ![m].pc = "add", ![m].second = rules]
    BY <1>2 DEF Look, NothingTaken
  <2> QED
    BY <2>1, <2>2, <2>3
<1>3. CASE \E a \in Addresses : MoveAddress(m, a)
  BY <1>3, SeenUnchanged DEF MoveAddress
<1> QED
  BY <1>1, <1>2, <1>3, LeavesPort, SeenElsewhere
     DEF RunStep, WalkStep, PortStep, FaultStep

\* A run that is about to write has seen no rule of another on its port.
THEOREM SeenInvariant == Spec => []SeenInv
<1>1. Init => SeenInv
  BY DEF Init, SeenInv, At, NoRun
<1>2. TypeOK /\ SeenInv /\ [Next]_vars => SeenInv'
  <2> SUFFICES ASSUME TypeOK, SeenInv, [Next]_vars PROVE SeenInv'
    OBVIOUS
  <2>1. CASE NetworkStep
    BY <2>1, SeenUnchanged DEF NetworkStep, RouterRestarts, ForeignTakes, RuleGoes
  <2>2. CASE UNCHANGED vars
    BY <2>2, SeenUnchanged DEF vars
  <2> QED
    BY <2>1, <2>2, SeenRun DEF Next, RunStep
<1> QED
  BY <1>1, <1>2, TypeCorrect, PTL DEF Spec

\* A machine never writes over a rule of another that one of its lists showed.
THEOREM SeenRulesKept == Spec => SeenRulesAreKept
<1>1. SeenInv => \A m \in Machines, r \in table :
         /\ run[m].pc = "add" /\ run'[m].pc # "add"
         /\ r \notin table'
         /\ r.port = Candidate(m)
         /\ Theirs(r, m)
         => r \notin run[m].listing \cup run[m].second
  BY DEF SeenInv, NothingTaken, OnPort, At
<1> QED
  BY <1>1, SeenInvariant, PTL DEF Spec, SeenRulesAreKept

-----------------------------------------------------------------------------
\* What a run has written.

\* Nothing is written and no answer is lost; the run of m at most moves on.
LEMMA AnnounceElsewhere ==
    ASSUME AnnounceInv, NEW m \in Machines, UNCHANGED <<table, unsaid, lossy>>,
           \A n \in Machines : n # m => run'[n] = run[n],
           \A r \in unsaid : InHand(r, m) => InHand(r, m)'
    PROVE  AnnounceInv'
<1>1. \A r \in unsaid, n \in Machines : n # m => (InHand(r, n)' <=> InHand(r, n))
  BY DEF InHand, At, Candidate, Reaches
<1> QED
  BY <1>1 DEF AnnounceInv

\* The same of a run that has nothing in hand.
LEMMA AnnounceIdle ==
    ASSUME AnnounceInv, NEW m \in Machines, UNCHANGED <<table, unsaid, lossy>>,
           \A n \in Machines : n # m => run'[n] = run[n],
           ~At(m, "tell"), ~At(m, "check")
    PROVE  AnnounceInv'
<1>1. \A r \in unsaid : ~InHand(r, m)
  BY DEF InHand
<1> QED
  BY <1>1, AnnounceElsewhere

\* Once an answer is lost only the router counts.
LEMMA AnnounceLossy ==
    ASSUME unsaid' \subseteq table', lossy'
    PROVE  AnnounceInv'
  BY DEF AnnounceInv

LEMMA AnnounceNetwork ==
    ASSUME AnnounceInv, NetworkStep
    PROVE  AnnounceInv'
<1>1. UNCHANGED <<run, lossy>> /\ unsaid' = unsaid \cap table'
  BY DEF NetworkStep, RouterRestarts, ForeignTakes, RuleGoes, SetTable
<1>2. \A r, m : InHand(r, m)' <=> InHand(r, m)
  BY <1>1 DEF InHand, At, Candidate, Reaches
<1> QED
  BY <1>1, <1>2 DEF AnnounceInv

\* Writing puts one rule in the hand of the run that writes it.
LEMMA AnnounceWrite ==
    ASSUME TypeOK, AnnounceInv, NEW m \in Machines, AddRule(m)
    PROVE  AnnounceInv'
<1> DEFINE new == [port |-> Candidate(m), mark |-> m, to |-> run[m].target]
<1>1. /\ table' = (table \ OnPort(table, Candidate(m))) \cup {new}
      /\ unsaid' = (unsaid \cap table') \cup ({new} \ table)
      /\ UNCHANGED lossy
  BY DEF AddRule, Write
<1>2. unsaid' \subseteq table'
  BY <1>1
<1>3. /\ run'[m].pc = "check" /\ run'[m].next = run[m].next
      /\ run'[m].target = run[m].target
      /\ \A n \in Machines : n # m => run'[n] = run[n]
  BY DEF AddRule, Goto, TypeOK, RunState
<1>4. ASSUME ~lossy, NEW r \in unsaid', NEW n \in Machines, r.mark = n
      PROVE  InHand(r, n)'
  <2>1. CASE r = new
    <3>1. n = m
      <4>1. new.mark = m
        OBVIOUS
      <4> QED
        BY <1>4, <2>1, <4>1, Zenon
    <3> QED
      BY <1>3, <2>1, <3>1 DEF InHand, At, Candidate, Reaches
  <2>2. CASE r # new
    <3>1. r \in unsaid /\ InHand(r, n)
      BY <1>1, <1>4, <2>2 DEF AnnounceInv
    <3>2. n # m
      BY <3>1 DEF AddRule, InHand, At
    <3> QED
      BY <1>3, <3>1, <3>2 DEF InHand, At, Candidate, Reaches
  <2> QED
    BY <2>1, <2>2
<1> QED
  BY <1>1, <1>2, <1>4 DEF AnnounceInv

\* The list read back shows a rule in hand, and the run goes on to announce.
LEMMA AnnounceCheck ==
    ASSUME TypeOK, AnnounceInv, NEW m \in Machines, Check(m)
    PROVE  AnnounceInv'
<1>1. UNCHANGED <<table, unsaid, lossy>>
  BY DEF Check
<1>2. /\ \A n \in Machines : n # m => run'[n] = run[n]
      /\ Goto(m, "tell") => run'[m].pc = "tell"
  <2>1. Goto(m, "tell") \/ NextCandidate(m)
    BY DEF Check
  <2> QED
    BY <2>1 DEF Goto, NextCandidate, TypeOK, RunState
<1>3. ASSUME NEW r \in unsaid, InHand(r, m) PROVE InHand(r, m)'
  <2>1. r \in OnPort(table, Candidate(m)) /\ Reaches(r, m)
    BY <1>3 DEF InHand, Check, At, OnPort, AnnounceInv
  <2>2. Goto(m, "tell")
    BY <2>1 DEF Check
  <2> QED
    BY <1>2, <2>2 DEF InHand, At
<1> QED
  BY <1>1, <1>2, <1>3, AnnounceElsewhere

LEMMA AnnounceTell ==
    ASSUME TypeOK, AnnounceInv, NEW m \in Machines, Tell(m)
    PROVE  AnnounceInv'
<1>1. /\ unsaid' = {r \in unsaid : r.mark # m}
      /\ UNCHANGED <<table, lossy>>
      /\ \A n \in Machines : n # m => run'[n] = run[n]
  BY DEF Tell, EndRun, TypeOK
<1>2. ASSUME ~lossy, NEW r \in unsaid', NEW n \in Machines, r.mark = n
      PROVE  InHand(r, n)'
  <2>1. n # m /\ InHand(r, n)
    BY <1>1, <1>2 DEF AnnounceInv
  <2> QED
    BY <1>1, <2>1 DEF InHand, At, Candidate, Reaches
<1> QED
  BY <1>1, <1>2 DEF AnnounceInv

LEMMA AnnounceRun ==
    ASSUME TypeOK, AnnounceInv, NEW m \in Machines, RunStep(m)
    PROVE  AnnounceInv'
<1>1. unsaid \subseteq table
  BY DEF AnnounceInv
<1>2. CASE StartRun(m) \/ WalkStep(m) \/ Look(m) \/ GivesUp(m)
  <2>1. UNCHANGED <<table, unsaid, lossy>> /\ ~At(m, "tell") /\ ~At(m, "check")
    BY <1>2 DEF StartRun, WalkStep, Look, GivesUp, ReadAddress, ReadListing, FindRight,
                PassOver, TryPort, WalkEnds, At
  <2>2. \A n \in Machines : n # m => run'[n] = run[n]
    BY <1>2 DEF StartRun, WalkStep, Look, GivesUp, ReadAddress, ReadListing, FindRight,
                PassOver, TryPort, WalkEnds, EndRun, Goto, NextCandidate, TypeOK
  <2> QED
    BY <2>1, <2>2, AnnounceIdle
<1>3. CASE AddRefused(m)
  <2>1. UNCHANGED <<table, unsaid, lossy>> /\ ~At(m, "tell") /\ ~At(m, "check")
    BY <1>3 DEF AddRefused, At
  <2>2. \A n \in Machines : n # m => run'[n] = run[n]
    BY <1>3 DEF AddRefused, Goto, TypeOK
  <2> QED
    BY <2>1, <2>2, AnnounceIdle
<1>4. CASE AddTimesOut(m)
  <2>1. unsaid' \subseteq table' /\ lossy'
    BY <1>1, <1>4 DEF AddTimesOut, Write
  <2> QED
    BY <2>1, AnnounceLossy
<1>5. CASE CheckSilent(m) \/ TellFails(m) \/ KillRun(m)
  <2>1. unsaid' \subseteq table' /\ lossy'
    BY <1>1, <1>5 DEF CheckSilent, TellFails, KillRun
  <2> QED
    BY <2>1, AnnounceLossy
<1>6. CASE \E a \in Addresses : MoveAddress(m, a)
  <2>1. UNCHANGED <<table, unsaid, lossy, run>>
    BY <1>6 DEF MoveAddress
  <2> QED
    BY <2>1 DEF AnnounceInv, InHand, At, Candidate, Reaches
<1> QED
  BY <1>2, <1>3, <1>4, <1>5, <1>6, AnnounceWrite, AnnounceCheck, AnnounceTell
     DEF RunStep, PortStep, FaultStep

\* A rule that is not announced is in the hand of a run that will announce it.
THEOREM AnnounceInvariant == Spec => []AnnounceInv
<1>1. Init => AnnounceInv
  BY DEF Init, AnnounceInv
<1>2. TypeOK /\ AnnounceInv /\ [Next]_vars => AnnounceInv'
  <2> SUFFICES ASSUME TypeOK, AnnounceInv, [Next]_vars PROVE AnnounceInv'
    OBVIOUS
  <2>1. CASE UNCHANGED vars
    BY <2>1 DEF vars, AnnounceInv, InHand, At, Candidate, Reaches
  <2> QED
    BY <2>1, AnnounceNetwork, AnnounceRun DEF Next, RunStep
<1> QED
  BY <1>1, <1>2, TypeCorrect, PTL DEF Spec

\* Without lost answers and kills every rule the service has written is
\* announced to the collector by the end of the run.
THEOREM ChangesReachTheCollector == Spec => []ChangesAreAnnounced
<1>1. AnnounceInv => ChangesAreAnnounced
  BY DEF AnnounceInv, ChangesAreAnnounced, InHand, At
<1> QED
  BY <1>1, AnnounceInvariant, PTL


=============================================================================
