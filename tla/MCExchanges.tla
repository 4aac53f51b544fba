----------------------------- MODULE MCExchanges -----------------------------
(* Values for Exchanges.                                                   *)
EXTENDS Exchanges

Records1 == [conn |-> {"c1"}, cred |-> {"x1"}, pres |-> {"p1"}, oob |-> {"p1"}, length |-> {8}, requests |-> 1, faults |-> 0]
Issuers1 == [issuer |-> {"i1", "i2"}, template |-> {"t1", "t2"}, name |-> {"n1", "n2"}, requests |-> 3, faults |-> 1]
Lists1 == [offer |-> {"o1", "o2"}, listSize |-> 2, lists |-> 2, credentials |-> 2]
Verifiers1 == [org |-> {"o1", "o2"}, public |-> {"v1"}, shared |-> {"o1"}, requests |-> 4, faults |-> 0]
Names == {<<"a">>, <<"A">>, <<"blank", "a">>}
Schemas1 == [org |-> {"o1", "o2"}, did |-> {"d1", "d2", "d3"}, name |-> Names, tag |-> Names, requests |-> 2, faults |-> 1,
             home |-> [d \in {"d1", "d2", "d3"} |-> IF d = "d3" THEN "o2" ELSE "o1"]]

SettingOf ==
  [records |-> Records1,
   recordsInTurn |-> [Records1 EXCEPT !.oob = {}, !.requests = 3, !.faults = 1],
   recordsOrdered |-> [Records1 EXCEPT !.cred = {"x1", "x2"}, !.oob = {"x2"}, !.requests = 3],
   redirects |-> [origin |-> {"o1", "o2"}, plain |-> {"o2"}, letter |-> {"a"}, pathLength |-> 3, http |-> FALSE,
                  email |-> {"e1"}, requests |-> 2, faults |-> 1],
   emails |-> [origin |-> {"o1"}, plain |-> {}, letter |-> {"a"}, pathLength |-> 1, http |-> FALSE,
               email |-> {"e1", "e2"}, requests |-> 3, faults |-> 1],
   cloud |-> [user |-> {"u1", "u2"}, endpoint |-> {"e1"}, cap |-> {1}, requests |-> 4, faults |-> 1],
   cloudManaged |-> [user |-> {"u1"}, endpoint |-> {"e1", "e2"}, cap |-> {1, 2}, requests |-> 3, faults |-> 0],
   issuers |-> Issuers1,
   issuersInTurn |-> [Issuers1 EXCEPT !.requests = 5, !.faults = 2],
   lists |-> Lists1,
   listsInTurn |-> Lists1,
   certs |-> [key |-> {"p256", "ed25519"}, time |-> 1, requests |-> 3, faults |-> 1],
   certsInTurn |-> [key |-> {"p256"}, time |-> 2, requests |-> 4, faults |-> 0],
   verifiers |-> Verifiers1,
   verifiersInTurn |-> [Verifiers1 EXCEPT !.public = {"v1", "v2"}, !.faults = 1],
   schemas |-> Schemas1,
   schemasInTurn |-> [Schemas1 EXCEPT !.requests = 3]]

(* The parts of OpenID4VC and those of the other exchanges, run apart; a   *)
(* part is chosen at the start and stays.                                  *)
Oid4vcPart == {"issuers", "issuersInTurn", "lists", "listsInTurn", "certs", "certsInTurn", "verifiers", "verifiersInTurn"}
Oid4vcInit == Init /\ part \in Oid4vcPart
RecordsInit == Init /\ part \notin Oid4vcPart
Oid4vcSpec == Oid4vcInit /\ [][Next]_vars
RecordsSpec == RecordsInit /\ [][Next]_vars
=============================================================================
