-------------------------- MODULE MCPredictionScope --------------------------
EXTENDS PredictionScope

\* The square root, rounded down.
MCRadius(mass) == CHOOSE r \in 0 .. 100 : r * r <= mass /\ (r + 1) * (r + 1) > mass

\* A checkpoint with pieces <<owner, position, mass, move>> and food.
Layout(pieces, food) ==
  LET of(o) == SelectSeq([i \in DOMAIN pieces |-> <<i, pieces[i]>>], LAMBDA x : x[2][1] = o)
      owners == SetToSortSeq({pieces[i][1] : i \in DOMAIN pieces}, LAMBDA a, b : a < b)
  IN  [tick |-> 0, next |-> Len(pieces) + Len(food) + 1,
       owners |-> [k \in DOMAIN owners |->
         [NewOwner(owners[k]) EXCEPT !.pieces = [n \in DOMAIN of(owners[k]) |-> of(owners[k])[n][1]],
            !.move = of(owners[k])[1][2][4], !.lastMove = of(owners[k])[1][2][4]]],
       players |-> [i \in DOMAIN pieces |->
         [id |-> i, owner |-> pieces[i][1], pos |-> pieces[i][2], mass |-> pieces[i][3],
          launch |-> 0, eligible |-> 0, key |-> NoKey]],
       food |-> [n \in DOMAIN food |-> [id |-> Len(pieces) + n, pos |-> food[n]]]]

MCLayouts ==
  { \* a chain: 3 absorbs 2 just before 2 absorbs the client
    Layout(<<<<1, 0, 4, 0>>, <<2, 8, 16, -1>>, <<3, 18, 36, -1>>>>, <<>>),
    \* somebody at the edge of the closure of one tick, food on both sides
    Layout(<<<<1, 0, 16, 0>>, <<2, 17, 16, -1>>>>, <<7, -20>>),
    \* two pieces of one's own and prey
    Layout(<<<<1, 0, 16, 0>>, <<1, 4, 16, 0>>, <<2, 11, 4, 1>>, <<3, 40, 4, 0>>>>, <<>>),
    \* a heavy pair about to merge outside the closure
    Layout(<<<<1, 0, 4, 0>>, <<3, 80, 3600, 0>>, <<3, 80, 3600, 0>>>>, <<>>) }

MCMinCell == -6
All == [domains |-> {"rules", "tick", "allocator", "commands", "topology", "kinematics", "mass",
                     "food", "identity"},
        entities |-> TRUE, neighbourhood |-> TRUE, channels |-> {"remote_movement"}]
Request(profile, coverage) ==
  [profile |-> profile, mechanics |-> KnownMechanics \ {"movement"}, coverage |-> coverage]
MCRequests ==
  {Request("InteractionClosure", All), Request("FullReplicated", All),
   Request("OwnedGameplay", All),
   Request("InteractionClosure", [All EXCEPT !.neighbourhood = FALSE]),
   Request("InteractionClosure", [All EXCEPT !.channels = {}])}
MCOwnForms == {[move |-> 1, split |-> FALSE], [move |-> 1, split |-> TRUE]}
MCRemoteForms == {[move |-> -1, split |-> TRUE]}
=============================================================================
