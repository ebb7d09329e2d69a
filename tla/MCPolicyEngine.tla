---------------------------- MODULE MCPolicyEngine ----------------------------
(***************************************************************************)
(* Addresses of three bits; three resources, each of any of the shapes in  *)
(* Shape; three policies of which the last shares a resource or has its own.*)
(***************************************************************************)
EXTENDS PolicyEngine

MCMe == "me"
MCMyGroups == {"g"}
MCNoId == "null"
MCVpnIp == <<1, 1, 1>>

Row(kind, form, addr, len, active) ==
  [kind |-> kind, form |-> form, addr |-> addr, len |-> len, active |-> active]

\* Networks that hold one another, meet at an edge or are equal, a text with
\* host bits set, a resource switched off, and texts only the simulation reads.
Shape ==
  {Row("cidr", "masked", <<0, 0, 0>>, 0, TRUE),
   Row("cidr", "masked", <<0, 1, 1>>, 1, TRUE),
   Row("cidr", "masked", <<0, 1, 0>>, 2, TRUE),
   Row("cidr", "masked", <<1, 1, 0>>, 2, TRUE),
   Row("cidr", "masked", <<1, 0, 0>>, 1, FALSE),
   Row("host", "bare", <<0, 1, 1>>, 0, TRUE),
   Row("host", "masked", <<0, 1, 1>>, 3, TRUE),
   Row("service", "port", <<1, 1, 1>>, 0, TRUE)}

MCResourceTables == [{"r1", "r2", "r3"} -> Shape]

Policy(subject, resource, effect, active) ==
  [user |-> IF subject = MCMe THEN subject ELSE MCNoId,
   group |-> IF subject = MCMe THEN MCNoId ELSE subject,
   resource |-> resource, effect |-> effect, active |-> active]

\* Granted to me, to a group of mine or to a group I am not in; MCNoId stands
\* for the policy a deleted group leaves without a subject.
Subject == {MCMe, "g", MCNoId}

MCPolicyTables ==
  {<<Policy(MCMe, "r1", "allow", TRUE),
     Policy(s2, "r2", e2, TRUE),
     Policy(s3, r3, e3, s3 # "h")>> :
       s2 \in Subject, e2 \in {"allow", "deny"},
       s3 \in Subject \cup {"h"}, r3 \in {"r1", "r3"}, e3 \in {"allow", "deny"}}
  \cup
  {<<Policy("g", "r2", "deny", active), Policy(MCMe, "r1", e, TRUE),
     Policy("g", "r3", "allow", TRUE)>> : active \in BOOLEAN, e \in {"allow", "deny"}}

=============================================================================
