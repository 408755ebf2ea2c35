---- MODULE MCCabinet ----
(* Instance of Cabinet: a first power-up without a file, with a file the   *)
(* operator edited to two slots, price 3 and two plays a game, with free   *)
(* play, and with a unit of zero and the second chute on the first switch. *)
EXTENDS Cabinet

Edited(o, plays) ==
    [n |-> Full, opt |-> o, word |-> 36,
     image |-> [i \in Cells |-> IF i = Mask(0) THEN 1
                                ELSE IF i = Mask(1) THEN 2
                                ELSE IF i = Plays(0) THEN plays
                                ELSE IF i = Credits(1) THEN 3 ELSE 0]]

NoFile == [Edited(Settings(NoOptions), 0) EXCEPT !.n = -1]

MCFreshFiles == {NoFile}

MCInitFiles ==
    {NoFile,
     Edited([free |-> FALSE, dual |-> TRUE, unit |-> 2, price |-> 3,
             bonus |-> 0], 3),
     Edited([free |-> TRUE, dual |-> FALSE, unit |-> 1, price |-> 2,
             bonus |-> 1], 1),
     [Edited([free |-> FALSE, dual |-> TRUE, unit |-> 0, price |-> 1,
              bonus |-> 0], 1) EXCEPT !.image[Mask(1)] = 1]}
====
