------------------------------- MODULE MCWorld -------------------------------
EXTENDS World

\* Half the square root of the mass, in the model's units.
MCRadius(mass) == IF mass < 32 THEN 1 ELSE IF mass < 72 THEN 2 ELSE 3

MCMinCell == -1
MCSpawns == {<<1, 0>>, <<1, 5>>, <<2, 10>>}
MCMechanics == {{"absorption", "food", "split_merge"}}
MCForms ==
  {[type |-> "ApplyInput", new |-> TRUE, move |-> -1, split |-> TRUE],
   [type |-> "ApplyInput", new |-> FALSE, move |-> 1, split |-> FALSE],
   [type |-> "StopMovement", new |-> FALSE, move |-> 0, split |-> FALSE]}
=============================================================================
