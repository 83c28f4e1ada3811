------------------------------ MODULE Firewall ------------------------------
(***************************************************************************)
(* The IP firewall of kite-x402-axum/src/firewall.rs: rules are added at   *)
(* run time, under a lock, and never removed.  Rules are made by the       *)
(* constructors, so that no prefix exceeds the width.                      *)
(***************************************************************************)
EXTENDS Bits, FiniteSets

CONSTANTS IpWidth,   \* bits of an address, 32 in the code
          MaxRules   \* bound: rules added

ASSUME FirewallAssumption == IpWidth \in Nat \ {0} /\ MaxRules \in Nat

VARIABLES default_action, allow_rules, deny_rules,
          shut,    \* history: addresses of the blocks denied so far
          let_in   \* history: addresses of the blocks allowed so far

wall == <<default_action, allow_rules, deny_rules, shut, let_in>>

IPs == [v4 : BOOLEAN, bits : 0..(Pow2[IpWidth] - 1)]

(* An exact rule is for either family, a subnet for IPv4.                  *)
Rules == [exact : {TRUE}, ip : IPs, prefix : {IpWidth}] \cup
         [exact : {FALSE}, ip : {ip \in IPs : ip.v4}, prefix : 0..IpWidth]

(* FirewallRule::subnet_v4                                                 *)
subnet_v4(ip, prefix) ==
    [exact |-> FALSE, ip |-> ip, prefix |-> IF prefix < IpWidth THEN prefix ELSE IpWidth]

Masked(bits, prefix) == bits - (bits % Pow2[IpWidth - prefix])

matches(rule, ip) ==
    IF rule.exact THEN rule.ip = ip
    ELSE /\ ip.v4
         /\ \/ rule.prefix = 0
            \/ Masked(rule.ip.bits, rule.prefix) = Masked(ip.bits, rule.prefix)

(* Faulty: asks the allow list first, as its comment announces.            *)
evaluateAllowFirst(ip) ==
    CASE \E r \in allow_rules : matches(r, ip) -> "allow"
      [] ~(\E r \in allow_rules : matches(r, ip)) /\ allow_rules # {} -> "deny"
      [] allow_rules = {} /\ (\E r \in deny_rules : matches(r, ip)) -> "deny"
      [] OTHER -> default_action

evaluate(ip) ==
    CASE \E r \in deny_rules : matches(r, ip) -> "deny"
      [] ~(\E r \in deny_rules : matches(r, ip)) /\ allow_rules # {} ->
            IF \E r \in allow_rules : matches(r, ip) THEN "allow" ELSE "deny"
      [] OTHER -> default_action

FirewallInit ==
    /\ default_action \in {"allow", "deny"}
    /\ allow_rules = {} /\ deny_rules = {}
    /\ shut = {} /\ let_in = {}

(* The addresses of a rule's block: those that begin with the same bits.   *)
Block(rule) ==
    {ip \in IPs : IF rule.exact THEN ip = rule.ip
                  ELSE /\ ip.v4
                       /\ \A i \in 1..rule.prefix :
                             Bit(ip.bits, IpWidth, i) = Bit(rule.ip.bits, IpWidth, i)}

More == Cardinality(allow_rules) + Cardinality(deny_rules) < MaxRules

deny(rule) ==
    /\ More
    /\ deny_rules' = deny_rules \cup {rule}
    /\ shut' = shut \cup Block(rule)
    /\ UNCHANGED <<default_action, allow_rules, let_in>>

allow(rule) ==
    /\ More
    /\ allow_rules' = allow_rules \cup {rule}
    /\ let_in' = let_in \cup Block(rule)
    /\ UNCHANGED <<default_action, deny_rules, shut>>

FirewallNext ==
    \/ \E rule \in {r \in Rules : r.exact} : deny(rule) \/ allow(rule)
    \/ \E ip \in {ip \in IPs : ip.v4}, p \in 0..(IpWidth + 1) :
          deny(subnet_v4(ip, p)) \/ allow(subnet_v4(ip, p))
    \/ ~More /\ UNCHANGED wall

FirewallSpec == FirewallInit /\ [][FirewallNext]_wall

---------------------------------------------------------------------------
(* An address of a denied block stays out whatever is allowed before or    *)
(* after; once anything is allowed everything else is out, whatever the    *)
(* default; and nobody is out otherwise, unless by default.                *)
DenialsHold ==
    \A ip \in IPs :
        /\ ip \in shut => evaluate(ip) = "deny"
        /\ allow_rules # {} /\ ip \notin let_in => evaluate(ip) = "deny"
        /\ ip \in let_in \ shut => evaluate(ip) = "allow"
        /\ allow_rules = {} /\ ip \notin shut => evaluate(ip) = default_action
=============================================================================
