------------------------------ MODULE MCScreens ------------------------------
(* Three columns, two worlds, two packs; any key, and some pairs of keys.     *)
EXTENDS Screens

TheKeySets == {{}, {"menu", "shift"}, {"menu", "exe"}, {"vars", "left"},
               {"menu", "9"}, {"up", "exe"}, {"menu", "down"}} \cup {{k} : k \in Keys}
=============================================================================
