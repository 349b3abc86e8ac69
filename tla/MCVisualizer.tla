---------------------------- MODULE MCVisualizer ----------------------------
(***************************************************************************)
(* Instances of Visualizer: files without gaps, and one whose data set 1   *)
(* was lost in a failed write.                                             *)
(***************************************************************************)
EXTENDS Visualizer

Sound == {0 .. d - 1 : d \in 0 .. 5}

Damaged == {{0, 2, 3}}

SomeFiles == Sound \cup Damaged

AllJobs ==
  [stats : BOOLEAN, type : {"video", "image"},
   graph : {"bar_chart", "heatmap"}, combine : 1 .. 3]

(* More data sets than workers, and the default options of --stats.        *)
FourDataSets == {0 .. 3}

PlainStats ==
  {[stats |-> TRUE, type |-> "video", graph |-> "bar_chart", combine |-> 1]}
=============================================================================
