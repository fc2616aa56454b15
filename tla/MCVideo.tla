-------------------------------- MODULE MCVideo --------------------------------
(* Instance of VideoEncoder for TLC. *)
EXTENDS VideoEncoder

CONSTANTS p1, p2, p3
MCProps == {p1, p2, p3}

Opt(k, d, c, a) == [kind |-> k, downsize |-> d, constraints |-> c, accepts |-> a]
MCOptions ==
  {Opt("screen", FALSE, TRUE, TRUE), Opt("camera", TRUE, TRUE, TRUE),
   Opt("camera", TRUE, FALSE, TRUE), Opt("camera", TRUE, TRUE, FALSE)}
===============================================================================
