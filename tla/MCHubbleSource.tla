--------------------------- MODULE MCHubbleSource ---------------------------
(* HubbleSource for TLC: one plain response, that response with one thing  *)
(* different, and that response with a field the operator does not know.   *)
EXTENDS HubbleSource

Shop == <<115>>
Cart == <<99>>

\* What a response says, how its messages are laid out, and in which of them
\* and where there is a field the operator does not know: the response, the
\* flow or the flow's source.
Plain == [place |-> "none", at |-> 0, extra |-> <<>>, reversed |-> FALSE,
          ns |-> Shop, pod |-> <<97>>, ip |-> <<49>>, name |-> <<>>,
          query |-> <<>>, proto |-> "TCP", port |-> 443, verdict |-> 3,
          direction |-> Egress]

Variants ==
  {[Plain EXCEPT !.ns = b] : b \in {<<>>, Cart}}
    \cup {[Plain EXCEPT !.pod = <<>>], [Plain EXCEPT !.ip = <<>>],
          [Plain EXCEPT !.reversed = TRUE], [Plain EXCEPT !.direction = 1],
          [Plain EXCEPT !.place = "status"]}
    \cup {[Plain EXCEPT !.name = b, !.query = c] :
            b \in {<<>>, <<110>>}, c \in {<<>>, <<113>>}}
    \cup {[Plain EXCEPT !.proto = p, !.port = n] :
            p \in {"TCP", "UDP", ""}, n \in {0, 53, 65535}}
    \cup {[Plain EXCEPT !.verdict = v] : v \in {0, 2, 4, 5}}

\* A varint that takes two bytes; bytes that look like a source endpoint; a
\* field that is longer than 127 bytes; an empty field.
Unknown == {<<Num(7, 300)>>, <<Sub(7, <<Sub(3, <<Bytes(1, Cart)>>)>>)>>,
            <<Bytes(15, [i \in 1..130 |-> 26])>>, <<Bytes(2, <<>>)>>}

Extended ==
  {[Plain EXCEPT !.extra = x, !.place = "flow", !.at = i, !.reversed = rev,
                 !.query = <<113>>] :
     x \in Unknown, i \in {1, 2, 4, 6}, rev \in BOOLEAN}
    \cup {[Plain EXCEPT !.extra = x, !.place = "source", !.at = i] :
            x \in Unknown, i \in 1..2}
    \cup {[Plain EXCEPT !.extra = <<Num(7, 300)>>, !.place = "response"]}

\* Fields that have the default value are not sent.
Opt(f) == IF f.arg = 0 THEN <<>> ELSE <<f>>

\* Fields in one order or the other, with the unknown one in front of number at.
Fields(groups, extra, at, reversed) ==
  LET all == [i \in DOMAIN groups |->
                IF i = at THEN extra \o groups[i] ELSE groups[i]]
  IN FlattenSeq(IF reversed THEN Reverse(all) ELSE all)

\* The response with that layout.
LaidOut(p) ==
  LET ports == <<Num(1, 40000)>> \o Opt(Num(2, p.port))
      l4 == CASE p.proto = "TCP" -> <<Sub(1, ports)>>
              [] p.proto = "UDP" -> <<Sub(2, ports)>>
              [] OTHER -> <<>>
      source == Fields(<<Opt(Bytes(1, p.ns)), Opt(Bytes(3, p.pod))>>,
                       p.extra, IF p.place = "source" THEN p.at ELSE 0, FALSE)
      dest == Opt(Bytes(1, p.ip)) \o Opt(Bytes(6, p.name))
      dns == Opt(Bytes(3, p.query))
      flow_ == Fields(<<<<Sub(3, source)>>, <<Sub(4, dest)>>, Opt(Sub(5, l4)),
                        Opt(Num(9, p.verdict)), Opt(Sub(12, dns)),
                        <<Num(26, p.direction)>>>>,
                      p.extra, IF p.place = "flow" THEN p.at ELSE 0, p.reversed)
  IN [kind |-> IF p.place = "status" THEN "status" ELSE "flow",
      ns |-> p.ns, pod |-> p.pod, ip |-> p.ip, name |-> p.name,
      query |-> p.query, proto |-> p.proto, port |-> p.port,
      verdict |-> p.verdict, direction |-> p.direction,
      response |-> (IF p.place = "response" THEN p.extra ELSE <<>>)
                     \o <<Sub(IF p.place = "status" THEN 2 ELSE 1, flow_)>>,
      flow |-> flow_, source |-> source, dest |-> dest, l4 |-> l4,
      ports |-> ports, dns |-> dns]

\* Each of them between two others.
MCScripts ==
  {<<LaidOut([Plain EXCEPT !.pod = <<98>>]), LaidOut(p), LaidOut(Plain)>> :
     p \in Variants \cup Extended}
MCNamespaces == {<<>>, Shop}
=============================================================================
