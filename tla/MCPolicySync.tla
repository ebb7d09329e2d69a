----------------------------- MODULE MCPolicySync -----------------------------
(***************************************************************************)
(* Two users, a group, two policies and two resources.                     *)
(***************************************************************************)
EXTENDS PolicySync

MCUsers == {1, 2}
MCPool == {1, 2}
MCNets == {{"a"}, {"a", "b"}}

PolicyOf(state, user, grp, res, effect) ==
  [state |-> state, user |-> user, group |-> grp, res |-> res, effect |-> effect]

MCPolicyPayloads ==
  {PolicyOf("on", 1, NoId, "r", "allow"), PolicyOf("on", NoId, 7, "r", "allow"),
   PolicyOf("on", NoId, 7, "s", "deny")}

Database(accounts, grp, members, first, s, peers_, addresses) ==
  [account |-> accounts,
   group |-> [g \in Groups |-> grp],
   member |-> members,
   policy |-> [p \in Policies |->
                 PolicyOf(IF p = "p" THEN first ELSE "none", NoId, 7, "r", "allow")],
   resource |-> [r \in Resources |->
                   [state |-> IF r = "r" THEN "on" ELSE s,
                    net |-> CASE r = "r" -> {"a", "b"}
                              [] r = "s" /\ s # "none" -> {"b"}
                              [] OTHER -> {}]],
   live |-> peers_,
   holder |-> addresses]

\* Nothing there yet; the group has a member, with a policy or without, with a
\* peer or without; removed rows hold the whole pool.
MCDatabases ==
  {Database(<<"on", "none">>, "none", {}, "none", "none", {}, <<0, 0>>),
   Database(<<"on", "none">>, "none", {}, "none", "none", {1}, <<1, 0>>),
   Database(<<"on", "on">>, "on", {<<2, 7>>}, "on", "off", {2}, <<2, 0>>),
   Database(<<"on", "on">>, "on", {<<1, 7>>, <<2, 7>>}, "off", "on", {1}, <<2, 1>>),
   Database(<<"on", "on">>, "on", {<<1, 7>>, <<2, 7>>}, "on", "on", {}, <<2, 0>>)}

AllHandlers ==
  {"create_policy", "update_policy", "disable_policy", "enable_policy", "delete_policy",
   "create_resource", "update_resource", "delete_resource", "enable_resource",
   "permanently_delete_resource", "create_group", "edit_group", "toggle_group",
   "add_member", "remove_member", "delete_group", "create_user", "edit_user",
   "delete_user", "drop_peer", "enroll"}

=============================================================================
