------------------------------- MODULE MCPipeline -------------------------------
(* Instance of VideoPipeline for TLC. *)
EXTENDS VideoPipeline

MCOptions ==
  {{"playback"}, {"playback", "video_buffer", "v4l2"}, {"v4l2", "v4l2_buffer"}}
===============================================================================
