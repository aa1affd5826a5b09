-------------------------- MODULE MCPluginRegistry --------------------------
(***************************************************************************)
(* A small instance of PluginRegistry: two goroutines, two plugins, four   *)
(* requests that share a name in different spellings and views.            *)
(***************************************************************************)
EXTENDS PluginRegistry, TLC

CONSTANTS w1, w2, hns, ens

MCWorkers == {w1, w2}
MCPlugins == {hns, ens}
MCOnePlugin == {hns}
MCSymmetry == Permutations(MCWorkers)

\* "a.HNS." and "a.hns" are one name, "" is the default view and tenant.
MCCanonName ==
  [n \in {<<"HNS", "a">>, <<"hns", "a">>, <<"old", "a">>} |->
     IF n = <<"HNS", "a">> THEN <<"hns", "a">> ELSE n]

MCCanon ==
  [v \in {"", "default", "AdGuard", "adguard", "a", "trusted"} |->
     IF v = "AdGuard" THEN "adguard" ELSE v]

Route(suffixes, views, tags, plugin, priority) ==
  [domains |-> {}, suffixes |-> suffixes, views |-> views, tenants |-> {"default"},
   tags |-> tags, plugin |-> plugin, priority |-> priority]

\* The tagged route outranks the general one although it comes later; "old"
\* is routed to a plugin the binary does not have.  The second configuration
\* moves the name to the other plugin.
MCRoutes ==
  << <<Route({<<"hns">>}, {"default", "adguard"}, {}, hns, 90),
       Route({<<"hns">>}, {}, {"trusted"}, ens, 100),
       Route({<<"old">>}, {}, {}, "ghost", 90)>>,
     <<Route({<<"hns">>}, {}, {}, ens, 90)>> >>

Request(qname, view, tags) ==
  [qname |-> qname, qtype |-> "a", tenant |-> "", view |-> view, tags |-> tags]

\* Two views of one name, in two spellings.
MCViews ==
  {Request(<<"hns", "a">>, "", <<>>), Request(<<"HNS", "a">>, "AdGuard", <<>>)}

\* One name for either plugin, and a name whose plugin is missing.
MCRequests ==
  {Request(<<"hns", "a">>, "", <<>>),
   Request(<<"hns", "a">>, "", <<"trusted">>),
   Request(<<"old", "a">>, "", <<>>)}

\* The first configuration only, for the run that lets the clock go further.
MCOneConfig == <<MCRoutes[1]>>

=============================================================================
