---------------------------- MODULE MCCsvSource -----------------------------
(* Two IPv4 addresses, and an IPv6 space with the mapped block between two *)
(* blocks that are left out, addresses before and after it; two keys with  *)
(* data, one that cannot be decoded.                                       *)
EXTENDS CsvSource

AliasBlocks ==
  << [first |-> 0, last |-> 0, v4 |-> FALSE],   \* ::/96
     [first |-> 2, last |-> 3, v4 |-> TRUE],    \* ::ffff:0:0/96
     [first |-> 4, last |-> 4, v4 |-> FALSE] >> \* 2002::/16
=============================================================================
