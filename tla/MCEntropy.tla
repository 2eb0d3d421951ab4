----------------------------- MODULE MCEntropy ------------------------------
(***************************************************************************)
(* Values of Entropy's constants for TLC.                                  *)
(***************************************************************************)
EXTENDS Entropy

MCStations == <<"KDEN", "KJFK">>

\* Feeds of up to two events.  Bytes of ids, lengths and magnitudes overlap.
MCIds == {<<1>>, <<1, 2>>, <<2>>}
MCEvents == [id : MCIds, mag : {1, 4}]
MCFeeds ==
  {feed \in BoundedSeq(MCEvents, 2) :
     \A i, j \in DOMAIN feed : i # j => feed[i].id # feed[j].id}

\* Halves of a unit: between two integers, at both ends, and beyond them.
MCReports ==
  [temperature : {Null, -20, -16, -15, -14, -13, -1, 0, 1, 13, 14, 20},
   humidity : {0}]
    \cup [temperature : {0}, humidity : {Null, -9, -7, -6, 5, 7}]

MCData ==
  [e \in {"btc", "drand", "usgs", "KDEN", "KJFK"} |->
     CASE e = "btc" -> {"tip"}
       [] e = "drand" -> [round : {1}, randomness : {7},
                           signature : {<<1>>, <<1, 1>>}]
       [] e = "usgs" -> MCFeeds
       [] e = "KDEN" -> MCReports
       [] e = "KJFK" -> {[temperature |-> 1, humidity |-> Null]}]

=============================================================================
