----------------------------- MODULE MCMonitor -----------------------------
(* Two commands, one posted while the loop has the other; two frames of the  *)
(* device, of either kind in either order: anchors known before or after a   *)
(* signal lists them, one of which moves; signals that replace each other;   *)
(* locations first, last and between.                                        *)
EXTENDS Monitor

MCReports ==
  { <<LocationResult, AnchorSignal({"a"}), AnchorPos("a", 1), LocationResult>>,
    <<AnchorPos("a", 2), AnchorPos("b", 1), AnchorSignal({"b"}), LocationResult,
      AnchorSignal({})>> }
==============================================================================
