---------------------------- MODULE MCDDNSService ----------------------------
(* One host that is looked up, and a second spelling of it that the API lists *)
(* but no lookup uses; two addresses.                                         *)
EXTENDS DDNSService
CONSTANTS lower, upper, addr1, addr2
MCNames == {lower, upper}
MCQueried == {lower}
MCAddrs == {addr1, addr2}
=============================================================================
