---------------------------- MODULE RoutingPolicy ----------------------------
(***************************************************************************)
(* The routing document of the proxy core and the policy the section       *)
(* writes into it: its outbounds, the rules in their fixed order, the pool *)
(* of remote exits.  The user of the panel edits the same document between *)
(* two runs, and the machine moves between countries and gains or loses    *)
(* its remote server.                                                      *)
(***************************************************************************)
EXTENDS Naturals, Sequences, SequencesExt, FiniteSets

CONSTANTS
  UserRules,      \* rules somebody adds in the panel
  MaxEdits        \* bound: how many of them

VARIABLES
  template,       \* the stored document
  policy,         \* what the last run wanted, or none yet
  edited          \* whether the panel was used since

vars == <<template, policy, edited>>

\* what a destination may belong to
Domains == {"ad", "onion", "i2p", "direct", "ru_direct", "geo", "ru_blocked"}
Addresses == {"own", "ru_direct_ip", "ru_blocked_ip"}

(* A policy: whether the machine is in the country, whether it has a       *)
(* remote outbound of its own, which lists are not empty.                  *)
Policies == [russia : BOOLEAN, remote : BOOLEAN, pool : BOOLEAN,
             lists : {Domains \cup Addresses, {"onion", "i2p", "direct"}}]

\* a rule: the inbound it is for, what it matches, where it leads
Rule(inbound, match, to) == [inbound |-> inbound, match |-> match, to |-> to]
Ours(match, to) == Rule("local", match, to)

ApiRule      == Rule("api", "any", "api")
Restrictions == {Rule("any", "private", "blocked"), Rule("any", "bittorrent", "blocked")}

\* the remote classes lead to the pool of exits, which the task always names
Pool == "pool"

PanelDefault ==
  [outbounds |-> <<"direct", "blocked">>, final |-> TRUE, balancers |-> <<>>,
   observed |-> FALSE, strategy |-> "panel", fallback |-> "none", selector |-> {},
   rules |-> <<ApiRule>> \o SetToSeq(Restrictions)]
-----------------------------------------------------------------------------
(* The rules of the policy, first match wins: advertising, the two hidden  *)
(* networks, what must be direct, then what the country decides.           *)
Listed(wanted, match, to) == IF match \in wanted.lists THEN <<Ours(match, to)>> ELSE <<>>

HiddenRules == <<Ours("onion", "tor"), Ours("i2p", "i2p")>>

CountryDomainRules(wanted) ==
  IF ~wanted.russia THEN <<>>
  ELSE Listed(wanted, "ru_direct", "direct") \o Listed(wanted, "geo", Pool)
         \o Listed(wanted, "ru_blocked", Pool)

CountryAddressRules(wanted) ==
  IF wanted.russia
  THEN Listed(wanted, "ru_direct_ip", "direct") \o Listed(wanted, "ru_blocked_ip", Pool)
         \o <<Ours("any", "direct")>>
  ELSE <<Ours("any", Pool)>>

\* a mutant for RoutingIsMeant: what must be direct comes before the hidden
\* networks
RulesDirectFirst(wanted) ==
  Listed(wanted, "ad", "blocked") \o Listed(wanted, "direct", "direct") \o HiddenRules
    \o CountryDomainRules(wanted) \o Listed(wanted, "own", "direct")
    \o CountryAddressRules(wanted)

RoutingRules(wanted) ==
  Listed(wanted, "ad", "blocked") \o HiddenRules \o Listed(wanted, "direct", "direct")
    \o CountryDomainRules(wanted) \o Listed(wanted, "own", "direct")
    \o CountryAddressRules(wanted)

IsOwnRule(rule) == rule.inbound = "local"
IsPanelRestriction(rule) == rule \in Restrictions
OwnOutbounds == {"remote", "tor", "i2p"}

\* the rule of the panel's own interface stays the first of all
ApiRules(rules) == SelectSeq(rules, LAMBDA rule : rule = ApiRule)
Merged(rules, ours) ==
  LET kept == SelectSeq(rules, LAMBDA r : ~IsOwnRule(r) /\ ~IsPanelRestriction(r))
      api  == IF ApiRules(kept) = <<>> THEN <<>> ELSE <<ApiRule>>
      rest == IF ApiRules(kept) = <<>> THEN kept ELSE RemoveFirst(kept, ApiRule)
  IN api \o ours \o rest

OutboundsWith(outbounds, wanted) ==
  SelectSeq(outbounds, LAMBDA tag : tag \notin OwnOutbounds)
    \o (IF wanted.remote THEN <<"remote">> ELSE <<>>) \o <<"tor", "i2p">>

ApplyRoutingPolicy(document, wanted) ==
  [document EXCEPT !.outbounds = OutboundsWith(@, wanted),
                   !.final = FALSE,
                   !.rules = Merged(@, RoutingRules(wanted)),
                   !.strategy = IF wanted.russia THEN "inside" ELSE "outside"]

\* the balancer picks among the members its selector names, else the fallback
ApplyFastestPool(document, wanted) ==
  [document EXCEPT
     !.observed = TRUE,
     !.selector = {"member"} \cup (IF wanted.remote THEN {"remote"} ELSE {}),
     !.fallback = IF wanted.remote THEN "remote" ELSE "direct",
     !.balancers = Append(SelectSeq(@, LAMBDA tag : tag # Pool), Pool)]

Wanted(document, wanted) ==
  ApplyFastestPool(ApplyRoutingPolicy(document, wanted), wanted)

Differs(document, wanted) == Wanted(document, wanted) # document
-----------------------------------------------------------------------------
(* What the core does with a request that came by the local proxy: a       *)
(* destination is the set of classes it belongs to.                        *)
Matches(rule, destination) ==
  rule.inbound \in {"local", "any"} /\ (rule.match = "any" \/ rule.match \in destination)

Takes(document, destination) ==
  LET hits == {i \in DOMAIN document.rules : Matches(document.rules[i], destination)}
  IN IF hits = {} THEN document.outbounds[1]
     ELSE document.rules[CHOOSE i \in hits : \A j \in hits : i <= j].to

\* a decision for the pool is one of its members, or the fallback
Decided(document, wanted, destination) ==
  LET to == Takes(document, destination)
      members == (document.selector \ {"member"}) \cup (IF wanted.pool THEN {"member"} ELSE {})
  IN IF to # Pool THEN {to} ELSE IF members # {} THEN members ELSE {document.fallback}

(* What the section asks the core afterwards (_route_expectations).        *)
Expectations(wanted) ==
  {<<{"onion"}, "tor">>, <<{"i2p"}, "i2p">>, <<{"ad"}, "blocked">>, <<{"direct"}, "direct">>}
    \cup (IF "own" \in wanted.lists THEN {<<{"own"}, "direct">>} ELSE {})
    \cup (IF wanted.russia THEN {<<{}, "direct">>, <<{"ru_blocked"}, Pool>>}
                           ELSE {<<{}, Pool>>})

AnswerMatches(document, expected, answer) ==
  answer = expected \/ (expected = Pool /\ answer \in document.selector \cup {document.fallback})
-----------------------------------------------------------------------------
Init ==
  /\ template \in {PanelDefault, [PanelDefault EXCEPT !.rules = Tail(@)]}
  /\ policy = <<>>
  /\ edited = 0

\* the document is written when it differs; without a remote server the
\* remote classes wait for a member of the pool
ApplyPolicy == \E wanted \in Policies :
  /\ template' = Wanted(template, wanted)
  /\ policy' = <<wanted>>
  /\ UNCHANGED edited

AddRule == \E rule \in UserRules, first \in BOOLEAN :
  /\ edited < MaxEdits
  /\ edited' = edited + 1
  /\ template' = [template EXCEPT !.rules = IF first THEN <<rule>> \o @ ELSE Append(@, rule)]
  /\ policy' = <<>>

\* the panel restores its own restrictions, or adds an exit to the pool
RestorePanel ==
  /\ edited < MaxEdits
  /\ edited' = edited + 1
  /\ template' = [template EXCEPT !.rules = @ \o SetToSeq(Restrictions), !.final = TRUE,
                                  !.balancers = Append(@, "user")]
  /\ policy' = <<>>

Next == ApplyPolicy \/ AddRule \/ RestorePanel

Spec == Init /\ [][Next]_vars
-----------------------------------------------------------------------------
Applied == policy # <<>>
Destinations == {{}} \cup {{class} : class \in Domains \cup Addresses}
                  \cup {{"onion", class} : class \in Domains}
                  \cup {{"own", "ru_blocked_ip"}, {"direct", "ru_blocked"}, {"private"}}

(* The values of the variables (routing_policy.py).                        *)
RoutingType ==
  /\ template.outbounds \in Seq({"direct", "blocked", "remote", "tor", "i2p"})
  /\ \A i \in DOMAIN template.rules :
       template.rules[i].to \in {"direct", "blocked", "tor", "i2p", "api", Pool}
  /\ policy \in {<<>>} \cup {<<wanted>> : wanted \in Policies}
  /\ edited \in 0..MaxEdits

(* Every question the section asks the core afterwards is answered the way *)
(* the policy means it, whatever rules the user of the panel had written   *)
(* before: the order of the rules and the order of the questions agree.    *)
(* A list whose categories the panel all refused has no rule to answer by; *)
(* the section asks about it all the same.                                 *)
ExpectationsHold ==
  Applied => \A pair \in Expectations(policy[1]) : pair[1] \subseteq policy[1].lists =>
    \A answer \in Decided(template, policy[1], pair[1]) :
      AnswerMatches(template, pair[2], answer)

(* A name of a hidden network never leaves by the remote server or         *)
(* directly, also when it stands in another list as well.                  *)
HiddenStaysHidden ==
  Applied => \A destination \in Destinations :
    destination \cap {"onion", "i2p"} # {} =>
      Takes(template, destination) \in {"tor", "i2p", "blocked"}

(* An address of the machine's own networks is reached directly, in a      *)
(* blocked range of the country too.                                       *)
OwnNetworkIsDirect ==
  Applied /\ "own" \in policy[1].lists =>
    \A destination \in Destinations :
      "own" \in destination => Takes(template, destination) = "direct"

(* Every decision leads to an outbound the document really has.            *)
DecisionsExist ==
  Applied => \A destination \in Destinations :
    Decided(template, policy[1], destination) \subseteq
      ToSet(template.outbounds) \cup {"member"}

(* The policy written once is not written again: nothing of it piles up.   *)
PolicySettles == Applied => ~Differs(template, policy[1])

(* What the user of the panel wrote for other inbounds stays, in its       *)
(* order, and the panel keeps its own interface.                           *)
Foreign(rules) == SelectSeq(rules, LAMBDA r : ~IsOwnRule(r) /\ ~IsPanelRestriction(r) /\ r # ApiRule)
ForeignRulesStay ==
  /\ Foreign(template.rules) = Foreign(template'.rules) \/ edited' # edited
  /\ ApiRule \in ToSet(template.rules) => ApiRule \in ToSet(template'.rules)
ForeignRulesKept == [][ForeignRulesStay]_vars
=============================================================================
