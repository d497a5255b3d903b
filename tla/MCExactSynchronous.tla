------------------------ MODULE MCExactSynchronous ------------------------
(* The synchronous exploration over all aspect ratios of up to seven       *)
(* tiles, with those of eight behind them.  The iterator may be            *)
(* constructed with 0 or with 1.                                           *)
EXTENDS SynchronousSearch

MCStartNums == 0..1
MCMaxNum == 10

MCRatios == <<<<0,0>>, <<0,1>>, <<1,0>>, <<0,2>>, <<2,0>>, <<0,3>>, <<3,0>>,
              <<1,1>>, <<0,4>>, <<4,0>>, <<0,5>>, <<5,0>>, <<1,2>>, <<2,1>>,
              <<0,6>>, <<6,0>>, <<0,7>>, <<7,0>>, <<1,3>>, <<3,1>>>>

(* Nothing is missing in the list. *)
ASSUME AllRatios == Range(MCRatios) = UNION {RatiosOf(n) : n \in 1..8}
=============================================================================
