---------------------------- MODULE MCGenerator ----------------------------
(* sentinel-generator with no scenario, one, and both in either order.       *)
EXTENDS Generator

SomeInjections ==
    {<<>>, <<"port_scan">>, <<"brute_force_ssh", "port_scan">>, <<"port_scan", "brute_force_ssh">>}
============================================================================
