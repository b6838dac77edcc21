---------------------------- MODULE MCProxyHooks ----------------------------
(* Instances of ProxyHooks small enough for TLC.                           *)
EXTENDS ProxyHooks, TLC

CONSTANTS f1, f2, api, ads, list, item, icon, a

TwoFlows == {f1, f2}
TwoHosts == {api, ads}
Api == {api}
Ads == {ads}
ThreeEndpoints == {list, item, icon}
Icons == {icon}
OnePayload == {a}
Symmetric == Permutations(TwoFlows) \cup Permutations({list, item})
=============================================================================
