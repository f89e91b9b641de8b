--------------------------- MODULE MCConfigParser ---------------------------
EXTENDS ConfigParser

CONSTANT A

(* "[s]", "[/s]", an address, an unknown status word, "standby = true",  *)
(* "clone = false", "clone = true", a negative maxc and default_maxc = 3. *)
MCLines ==
  {[d |-> "open"], [d |-> "close"], [d |-> "ip", v |-> A],
   [d |-> "status", v |-> "bogus"], [d |-> "standby", v |-> "true"],
   [d |-> "clone", v |-> "false"], [d |-> "clone", v |-> "true"],
   [d |-> "maxc", v |-> -1], [d |-> "default_maxc", v |-> 3]}
=============================================================================
