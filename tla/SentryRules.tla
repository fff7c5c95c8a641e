----------------------------- MODULE SentryRules -----------------------------
(***************************************************************************)
(* SentryRules (sentry_engine_simple): what the command line blocks.       *)
(***************************************************************************)
EXTENDS FlowClassifier

CONSTANTS
    AppNames,        \* what may follow --block-app
    NameToAppType,   \* nameToAppType on AppNames
    Domains,         \* what may follow --block-domain
    Contains         \* the pairs <<name, domain>> where name.find(domain) succeeds

ASSUME RuleTextsAssumption == /\ NameToAppType \in [AppNames -> AppTypes]
                              /\ Contains \subseteq Names \X Domains

Rules == [blocked_ips : SUBSET Word, blocked_apps : SUBSET AppTypes,
          blocked_domains : Seq(Domains)]
NoRules == [blocked_ips |-> {}, blocked_apps |-> {}, blocked_domains |-> <<>>]

blockIP(rules, ip) == [rules EXCEPT !.blocked_ips = @ \cup {parseIP(ip)}]

\* A name that nameToAppType does not know is reported and changes nothing.
blockApp(rules, app) ==
    IF NameToAppType[app] # "UNKNOWN"
    THEN [rules EXCEPT !.blocked_apps = @ \cup {NameToAppType[app]}]
    ELSE rules

blockDomain(rules, domain) == [rules EXCEPT !.blocked_domains = Append(@, domain)]

isBlocked(rules, src_ip, app, sni) ==
    \/ src_ip \in rules.blocked_ips
    \/ app \in rules.blocked_apps
    \/ \E i \in 1 .. Len(rules.blocked_domains) : <<sni, rules.blocked_domains[i]>> \in Contains
=============================================================================
