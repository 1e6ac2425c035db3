---------------------------- MODULE MCDashboard ----------------------------
(* Instances of Dashboard for TLC. *)
EXTENDS Dashboard, TLC

CONSTANTS i1, i2, i3, i4, i5

Shows(category, seasons, color) ==
    [category |-> category, seasons |-> seasons, color |-> color, ready |-> TRUE]

(* The five can cover the core, or be two tops and two bottoms that compete;
   one may be analysed again, become unknown or change its category.        *)
MCGarment ==
    (i1 :> {Shows("top", {}, "red"), Shows("top", {"summer"}, "red")}) @@
    (i2 :> {Shows("top", {"winter"}, "blue"), Shows("accessory", {}, "gold"),
            Shows("unknown", {}, None),
            [Shows("top", {"winter"}, "blue") EXCEPT !.ready = FALSE]}) @@
    (i3 :> {Shows("bottom", {"winter"}, "blue")}) @@
    (i4 :> {Shows("bottom", {"summer"}, None), Shows("outer", {"spring", "fall"}, "red")}) @@
    (i5 :> {Shows("shoes", {"winter"}, None), Shows("accessory", {"summer", "fall"}, "gold")})

(* Every band, and both sides of two of its bounds. *)
MCTemperature == {99, 100, 279, 280}
=============================================================================
