---------------------------- MODULE MCWeatherCache ----------------------------
(* A small instance of WeatherCache: interchangeable workers. *)
EXTENDS WeatherCache, TLC

MCSymmetry == Permutations(Worker)
=============================================================================
