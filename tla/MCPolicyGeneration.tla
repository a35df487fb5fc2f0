------------------------- MODULE MCPolicyGeneration -------------------------
(* PolicyGeneration for TLC: one destination for each way through the      *)
(* code's conditions.                                                      *)
EXTENDS PolicyGeneration

Key(f, i, p) == [fqdn |-> f, ip |-> i, port |-> p, proto |-> "TCP"]

\* A plain name with two addresses on an unusual port, every class of wildcard
\* (the generator excludes "broadTLD" and "largeCloud" alike), and every class of
\* bare address.
AllKeys ==
  {Key("a.example", i, 9999) : i \in {"public", "private"}}
  \cup {Key(f, "public", 443) : f \in Wildcards \ {"broadTLD"}}
  \cup {Key("", i, 443) : i \in Addresses \ {""}}
=============================================================================
