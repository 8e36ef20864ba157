------------------------------ MODULE Matching ------------------------------
(***************************************************************************)
(* How a route recognises a request and rewrites its path (vojo/matcher.rs *)
(* and RouteConfig::match_and_rewrite of vojo/app_config.rs).              *)
(*                                                                         *)
(* A path is a sequence of pieces. A regular expression is what the regex  *)
(* crate makes of it: whether it compiles, and a partial function from the *)
(* texts it matches to the first span, from..to, that it matches in each.  *)
(***************************************************************************)
EXTENDS Integers, Sequences, SequencesExt

IsMatch(regex, text) == regex.compiles /\ text \in DOMAIN regex.spans

\* A path rule has its value as written (text) and compiled (regex).
PathRule(match_type, text, regex) ==
  [kind |-> "path", match_type |-> match_type, text |-> text, regex |-> regex]
MethodRule(values) == [kind |-> "method", values |-> values]
HostRule(regex) == [kind |-> "host", regex |-> regex]
HeaderRule(name, regex) == [kind |-> "header", name |-> name, regex |-> regex]

PathMatches(rule, path) ==
  \/ rule.match_type = "prefix" /\ IsPrefix(rule.text, path)
  \/ rule.match_type = "exact" /\ rule.text = path
  \/ rule.match_type = "regex" /\ IsMatch(rule.regex, path)

FieldMatches(rule, name, head) ==
  /\ name \in DOMAIN head.fields \ head.garbled
  /\ IsMatch(rule.regex, head.fields[name])

RuleMatches(rule, head) ==
  \/ rule.kind = "path" /\ PathMatches(rule, head.path)
  \/ rule.kind = "method" /\ head.method \in rule.values
  \/ rule.kind = "host" /\ FieldMatches(rule, "Host", head)
  \/ rule.kind = "header" /\ FieldMatches(rule, rule.name, head)

\* Every rule of a route has to hold; a route without rules takes anything.
AllMatch(rules, head) == \A i \in DOMAIN rules : RuleMatches(rules[i], head)

\* Only the written text of a path rule counts, whatever its type: a regular
\* expression that is not a prefix of the path counts for nothing.
MatchLength(rules, path) ==
  LET prefixes == {i \in DOMAIN rules :
                     rules[i].kind = "path" /\ IsPrefix(rules[i].text, path)}
  IN Max({0} \cup {Len(rules[i].text) : i \in prefixes})

NoTemplate == <<"no template">>

\* The template replaces the first span that the first path rule matches, its
\* text read as a regular expression whatever the rule's type; a text that is
\* none is stripped as a prefix.
Rewrite(rules, template, path) ==
  LET k == SelectInSeq(rules, LAMBDA rule : rule.kind = "path")
  IN IF template = NoTemplate \/ k = 0 THEN path
     ELSE IF ~rules[k].regex.compiles
     THEN IF IsPrefix(rules[k].text, path)
          THEN template \o SubSeq(path, Len(rules[k].text) + 1, Len(path))
          ELSE path
     ELSE IF IsMatch(rules[k].regex, path)
     THEN LET span == rules[k].regex.spans[path]
          IN SubSeq(path, 1, span.from - 1) \o template
               \o SubSeq(path, span.to + 1, Len(path))
     ELSE path
=============================================================================
