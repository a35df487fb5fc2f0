------------------------------ MODULE RiskScore ------------------------------
(***************************************************************************)
(* internal/baseline/scorer.go and internal/cilium/wildcard.go: how safe a *)
(* destination is to allow.  Names and addresses are represented by the    *)
(* classes the code's comparisons tell apart.                              *)
(***************************************************************************)
EXTENDS Naturals

(* Names.                                                                  *)
\* Those with prefix "*.".  "broadTLD": *.com, *.net, *.org, *.io; "otherTLD":
\* *.co, *.de, *.fr, *.uk, *.ru, *.cn; "largeCloud": *.amazonaws.com,
\* *.cloudfront.net; "wildcard": every other one.
Wildcards == {"broadTLD", "otherTLD", "largeCloud", "wildcard"}
\* Those with a star elsewhere, and those without.
Starred == {"star"}
PlainNames == {"a.example"}
Names == {""} \cup PlainNames \cup Wildcards \cup Starred

(* Addresses.                                                              *)
\* "private": 10/8, 172.16/12, 192.168/16 and loopback; "172.public": the rest
\* of 172/8; "local": link-local and IPv6 unique-local; "public": others.
Addresses == {"", "private", "172.public", "local", "public"}

\* A destination of a snapshot: what DestEntry keeps of it.
DestEntry == [fqdn : Names, ip : Addresses, port : Nat, proto : {"TCP", "UDP"},
              flows : Nat, snaps : Nat]

-----------------------------------------------------------------------------
isStandardPort(port) == port \in {443, 80, 8080, 8443, 5432, 3306, 6379, 27017}

\* scorer.go: parsed, and neither loopback, private nor link-local.
isPublicIP(ip) == ip \in {"172.public", "public"}

isWildcardLarge(fqdn) == fqdn \in {"broadTLD", "largeCloud"}

WildcardRisk(fqdn) ==
  CASE fqdn \notin Wildcards -> "Safe"
    [] fqdn \in {"broadTLD", "otherTLD"} -> "High"
    [] OTHER -> "Medium"

\* Mutated form: link-local and unique-local addresses pass for private.
LocalIsPrivate(fqdn, ip) == fqdn = "" /\ ip \in {"172.public", "public"}

\* wildcard.go: everything but the prefixes of RFC 1918 and loopback.
IsDirectPublicIP(fqdn, ip) ==
  fqdn = "" /\ ip \in {"172.public", "public", "local"}

\* egressprofile_controller.go: all of 172/8 counts as private.
isPublicIPSimple(ip) == ip \in {"local", "public"}

-----------------------------------------------------------------------------
Points(condition, points) == IF condition THEN points ELSE 0

\* Mutated form: the test is the wrong way round.
SeenMore(e) == Points(~(e.snaps = 1 /\ e.flows = 1), 15)

\* Seen only once.
SeenOnce(e) == Points(e.snaps = 1 /\ e.flows = 1, 15)

Credit(e) ==
  50 + Points(e.snaps >= 3, 25)
     + Points(e.flows >= 10, 15)
     + Points(isStandardPort(e.port), 10)
     + Points(e.fqdn # "" /\ e.fqdn \notin Wildcards \cup Starred, 10)

Penalty(e) ==
  SeenOnce(e) + Points(e.fqdn = "" /\ isPublicIP(e.ip), 30)
              + Points(isWildcardLarge(e.fqdn), 30)

\* The score, clamped to 0..100.
Score(e) ==
  LET raw == IF Credit(e) > Penalty(e) THEN Credit(e) - Penalty(e) ELSE 0
  IN  IF raw > 100 THEN 100 ELSE raw

RiskLevel(e, score) ==
  IF (e.fqdn = "" /\ isPublicIP(e.ip)) \/ isWildcardLarge(e.fqdn) THEN "High"
  ELSE IF score >= 80 THEN "Low"
  ELSE IF score >= 50 THEN "Medium"
  ELSE "High"

Risk(e) == RiskLevel(e, Score(e))

RiskOrder(risk) == CASE risk = "Low" -> 0 [] risk = "Medium" -> 1 [] OTHER -> 2
=============================================================================
