------------------------------- MODULE MCDot -------------------------------
(* Two owners, the three recovery handlers in the order the ROM lists them, *)
(* and firmware images with every DOT command.                              *)
EXTENDS Dot

MCRequests == {[cak |-> "cak1", lak |-> "lak1"], [cak |-> "cak2", lak |-> "lak2"]}

MCHandlers ==
    <<[kind |-> "backup", tries |-> 1], [kind |-> "override", tries |-> 2],
      [kind |-> "i3c", tries |-> 1]>>

Section(cs, m) == [commands |-> cs, cak |-> "cak1", lak |-> "lak1", min |-> m]
MCManifests ==
    {Section(<<>>, 0), Section(<<"LOCK">>, 0), Section(<<"DISABLE">>, 0),
     Section(<<"UNLOCK">>, 0), Section(<<"LOCK", "ROTATE">>, 3),
     Section(<<"ROTATE", "LOCK">>, 9), Section(<<"LOCK", "UNLOCK">>, 0)}
=============================================================================
