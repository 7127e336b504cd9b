--------------------------- MODULE MCParseVideo ---------------------------
(* TLC instances of ParseVideo: which videos a run starts from.            *)
EXTENDS ParseVideo

AllVideos == Video

\* A sound video of exactly max_ frames.
ShortVideos ==
  {v \in Video : v.routine = "FromStream" /\ v.opens /\ ~v.breaks
                 /\ v.decodable = Max /\ v.reported = Max}
===========================================================================
