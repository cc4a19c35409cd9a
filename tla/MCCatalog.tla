------------------------------ MODULE MCCatalog ------------------------------
EXTENDS Catalog

E(i, refs, dev, mark) == [id |-> i, refs |-> refs, dev |-> dev, mark |-> mark]
MCTypes == <<"endpoints", "groups", "schedules">>
MCIds == {"e1", "e2", "g1", "s0", "s1"}
MCTypeOf == [i \in MCIds |->
  CASE i \in {"e1", "e2"} -> "endpoints" [] i = "g1" -> "groups" [] OTHER -> "schedules"]
MCBodies == [i \in MCIds |->
  CASE i \in {"e1", "e2"} -> {E(i, {}, "d1", "on")}
    [] i = "g1" -> {E(i, {"e1"}, None, "on")}
    [] i = "s1" -> {E(i, {"g1"}, None, "on")}
    [] OTHER -> {}]
(* A city, an elevation, and a city beside coordinates of its own. *)
MCRequests ==
  {[city |-> "tlv", coordinates |-> FALSE, elevation |-> FALSE],
   [city |-> None, coordinates |-> FALSE, elevation |-> TRUE],
   [city |-> "jlm", coordinates |-> TRUE, elevation |-> FALSE]}
(* A new device, and one whose files an older release wrote. *)
MCShipped ==
  {[c \in Cells |-> Absent],
   [c \in Cells |->
     CASE c = "endpoints" -> Whole({E("e1", {}, "d1", "on")})
       [] c = "groups" -> Whole({})
       [] c = "schedules" -> Whole({E("s0", {"e1"}, None, "retired"), E("s1", {"e1"}, None, "on")})
       [] OTHER -> Whole([place |-> "tlv", elev |-> Unset])]}
=============================================================================
