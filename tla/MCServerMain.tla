---------------------------- MODULE MCServerMain ----------------------------
(***************************************************************************)
(* Small sessions: the cleanup with the requests about the power; each     *)
(* audio thread with and without the other processors; everything at once. *)
(***************************************************************************)
EXTENDS ServerMain

MCSession(ps, a, supported, ss, n, off) ==
  [processors |-> ps, audio |-> a, supported |-> supported,
   cleanup |-> ss # {} \/ n > 0, settings |-> ss, requests |-> n,
   powerOffOnClose |-> off]

MCConfigs ==
  {MCSession({"control"}, "raw", TRUE, Settings, 2, FALSE),
   MCSession({"control"}, "raw", TRUE, {}, 4, FALSE),
   MCSession({"control"}, "raw", TRUE, {"touches"}, 2, TRUE),
   MCSession({"control", "audio", "video"}, "encoder", TRUE, {"touches"}, 1,
             FALSE),
   MCSession({"control", "audio", "video"}, "encoder", TRUE, {}, 0, FALSE),
   MCSession({"control", "audio"}, "raw", TRUE, {"touches"}, 0, FALSE),
   MCSession({"audio"}, "encoder", TRUE, {}, 0, FALSE),
   MCSession({"audio", "video"}, "raw", FALSE, {}, 0, FALSE),
   MCSession({"audio"}, "encoder", FALSE, {}, 0, FALSE)}

=============================================================================
