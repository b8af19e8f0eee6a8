----------------------------- MODULE RadarTable ------------------------------
(* What the builder of the Change Radar and the dispatcher share: the table *)
(* change_events and the clock (backend/app/models/derived.py).             *)

CONSTANT None       \* an empty column

VARIABLES
    events,         \* the rows of change_events
    day             \* the clock
=============================================================================
