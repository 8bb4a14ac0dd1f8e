--------------------------- MODULE MCPresentation ---------------------------
EXTENDS Presentation
CONSTANTS own, leaver, comer

\* Own lives to tick 4; one entity leaves at tick 3, another comes at 5.
MCEntities == {own, leaver, comer}
MCLives == own :> 1..4 @@ leaver :> 1..2 @@ comer :> 5..LastTick

\* Offsets of four units decay in two steps of the clock.
MCCorrections == {4, -4}
MCStarts == {0}

MCAlphas == {0, 1}
MCModes == {"interpolated", "extrapolated"}

\* A frame of one step, and one that loses time and steps to both limits.
MCFrameTimes == {20, 70}
=============================================================================
